\* One request at a time, while all three tables are edited.
CONSTANTS
  NULL = NULL
  WaypointIDs = {1, 2, 3}
  QRs = {"seen"}
  Robots = {r1, r2}
  Requests = {q1}
  InitWaypoints <- ThreeWaypoints
  WaypointBodies <- Edits
  TaskBodies <- TaskEdits
  StatusRobots = {r1, r2}
  MaxRoutes = 1
  MaxReported = 1
  Journeys <- FromOneToThree
SYMMETRY SymmetricRobotsRequests
SPECIFICATION Spec
INVARIANTS
  RoutesWhole
  HopsNotNull
PROPERTIES
  CleanUpHitsOwnTasks
