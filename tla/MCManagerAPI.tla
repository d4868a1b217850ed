---------------------------- MODULE MCManagerAPI ----------------------------
(***************************************************************************)
(* Instances of ManagerAPI for TLC: two waypoints side by side for the     *)
(* runs in which requests interleave, and three in a row whose middle one  *)
(* is edited, lost and put back for the run in which all three tables are  *)
(* edited.                                                                 *)
(***************************************************************************)
EXTENDS ManagerAPI, TLC

(* A waypoint with neighbours to its left and right, at distance 1, and    *)
(* with the QR code of its own number in front of it on every side.        *)
Row(id, left, right) ==
  [WaypointId |-> id,
   Waypoint_ID |-> [s \in Sides |-> CASE s = "Left" -> left
                                     [] s = "Right" -> right
                                     [] OTHER -> NULL],
   Waypoint_Distance |-> [s \in Sides |-> IF s \in {"Left", "Right"} THEN 1
                                          ELSE NULL],
   QR |-> [s \in Sides |-> IF s = "Left" THEN "seen" ELSE NULL]]

TwoWaypoints == {Row(1, NULL, 2), Row(2, 1, NULL)}

ThreeWaypoints == {Row(1, NULL, 2), Row(2, 1, 3), Row(3, 2, NULL)}

(* Edits: 1 loses its way to 2 and leads to 3 instead; 2 is posted again;  *)
(* 3 gets a connection whose distance is missing.                          *)
Detour == Row(1, NULL, 3)

Broken == [Row(3, 2, 1) EXCEPT !.Waypoint_Distance["Right"] = NULL]

Edits == {Detour, Row(1, NULL, 2), Row(2, 1, 3), Broken}

NoEdits == {}

(* The second task of the first route, or another with its id, is put and  *)
(* posted with any robot.                                                  *)
TaskEdits ==
  [TaskID : {2}, RobotID : Robots, OrderNumber : {0},
   Command : {Goto(2, NULL, NULL)}]

Across == {<<1, 2>>}

FromOneToThree == {<<1, 3>>, <<2, 3>>}

SymmetricRobotsRequests == Permutations(Requests) \cup Permutations(Robots)
=============================================================================
