\* Two robots, two concurrent requests, no edits of the tables.
CONSTANTS
  NULL = NULL
  WaypointIDs = {1, 2}
  QRs = {"seen"}
  Robots = {r1, r2}
  Requests = {q1, q2}
  InitWaypoints <- TwoWaypoints
  WaypointBodies <- NoEdits
  TaskBodies <- NoEdits
  StatusRobots = {}
  MaxRoutes = 2
  MaxReported = 1
  Journeys <- Across
SYMMETRY SymmetricRobotsRequests
SPECIFICATION Spec
INVARIANTS
  TypeOK
  RoutesWhole
PROPERTIES
  OldTasksDeleted
