\* A second route is planned for a robot.
CONSTANTS
  NULL = NULL
  WaypointIDs = {1, 2}
  QRs = {"seen"}
  Robots = {r1}
  Requests = {q1, q2}
  InitWaypoints <- TwoWaypoints
  WaypointBodies <- NoEdits
  TaskBodies <- NoEdits
  StatusRobots = {}
  MaxRoutes = 2
  MaxReported = 1
  Journeys <- Across
SPECIFICATION Spec
INVARIANT
  NextTaskUnambiguous
