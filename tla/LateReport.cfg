\* A route is planned while a report is being served.
CONSTANTS
  NULL = NULL
  WaypointIDs = {1, 2}
  QRs = {"seen"}
  Robots = {r1}
  Requests = {q1, q2}
  InitWaypoints <- TwoWaypoints
  WaypointBodies <- NoEdits
  TaskBodies <- NoEdits
  StatusRobots = {}
  MaxRoutes = 2
  MaxReported = 1
  Journeys <- Across
SPECIFICATION Spec
PROPERTY
  OnlyOldTasksDeleted
