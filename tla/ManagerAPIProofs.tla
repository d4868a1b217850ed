-------------------------- MODULE ManagerAPIProofs --------------------------
(***************************************************************************)
(* Proofs about ManagerAPI for any robots, any number of requests in       *)
(* flight, any map and any edits of it.                                    *)
(***************************************************************************)
EXTENDS ManagerAPI, TLAPS

-----------------------------------------------------------------------------
(* The map *)

(* A path Pathfinder finds has a first waypoint and follows connections.   *)
LEMMA PathFollowsMap ==
  ASSUME NEW rows \in SUBSET WaypointModel, NEW s, NEW e,
         NEW p \in GetPath(rows, s, e)
  PROVE  /\ p \in Seq(WaypointIDs)
         /\ Len(p) >= 1
         /\ \A i \in 1..(Len(p) - 1) : Connected(rows, p[i], p[i + 1])
<1>1. p \in Ways(rows, s, e)
  BY DEF GetPath
<1>2. PICK n \in 1..Cardinality(IdsOf(rows)) : p \in [1..n -> IdsOf(rows)]
  BY <1>1 DEF Ways
<1>3. IdsOf(rows) \subseteq WaypointIDs
  BY DEF IdsOf, WaypointModel
<1>4. n \in Nat /\ n >= 1
  BY <1>2
<1>5. p \in Seq(WaypointIDs) /\ Len(p) = n
  BY <1>2, <1>3, <1>4
<1>6. \A i \in 1..(Len(p) - 1) : Connected(rows, p[i], p[i + 1])
  BY <1>1 DEF Ways
<1>7. QED
  BY <1>4, <1>5, <1>6

(* Of two connected waypoints, TaskCommand makes a command that names the  *)
(* first, and never "null".                                                *)
LEMMA TaskCommandOfNeighbours ==
  ASSUME NEW rows \in SUBSET WaypointModel, NEW a, NEW b,
         \A v, w \in rows : v.WaypointId = w.WaypointId => v = w,
         Connected(rows, a, b)
  PROVE  LET c == TaskCommand(RowOf(rows, a), RowOf(rows, b))
         IN  c \in Command /\ c # NullCommand
<1>1. PICK v \in rows, w \in rows :
        /\ v.WaypointId = a
        /\ w.WaypointId = b
        /\ \E side \in Sides : Leads(v, side, w)
  BY DEF Connected
<1>2. RowOf(rows, a) = v /\ RowOf(rows, b) = w
  BY <1>1 DEF RowOf
<1>3. SideTo(v, w) \in Sides
  BY DEF SideTo, Sides
<1>4. v.WaypointId \in WaypointIDs /\ w.QR[SideTo(v, w)] \in Nullable(QRs)
  BY <1>3 DEF WaypointModel
<1>5. TaskCommand(v, w)
        = Goto(v.WaypointId, w.QR[SideTo(v, w)], SideTo(v, w))
  BY <1>1 DEF TaskCommand
<1>6. TaskCommand(v, w) \in Command
  BY <1>3, <1>4, <1>5 DEF Goto, Command, Nullable
<1>7. TaskCommand(v, w).waypointId # NULL
  BY <1>4, <1>5, NullAssumption DEF Goto
<1>8. QED
  BY <1>2, <1>6, <1>7 DEF NullCommand

(* What NavigationTasks saves: rows of one robot with fresh and distinct   *)
(* ids, none of them the command "null".                                   *)
LEMMA NewTasksAreFresh ==
  ASSUME TypeOK, NEW h \in Handler, Planning(h), PlanInv(h)
  PROVE  /\ NewTasks(h) \subseteq TaskModel
         /\ \A t \in NewTasks(h) : /\ t.TaskID >= nextTaskID
                                   /\ t.TaskID < nextTaskID + Len(h.path) + 1
                                   /\ t.RobotID = h.robotId
                                   /\ t.Command # NullCommand
         /\ \A t, u \in NewTasks(h) : t.TaskID = u.TaskID => t = u
<1>1. /\ h.robotId \in Robots
      /\ h.tracked \in SUBSET WaypointModel
      /\ h.path \in Seq(WaypointIDs)
  BY DEF Handler, Planning
<1>2. Len(h.path) \in Nat /\ Len(h.path) >= 1
  BY <1>1 DEF PlanInv
<1>3. nextTaskID \in Nat
  BY DEF TypeOK
<1>4. ASSUME NEW i \in 0..Len(h.path)
      PROVE  CommandAt(h, i) \in Command /\ CommandAt(h, i) # NullCommand
  <2>1. CASE i = 0 \/ i = Len(h.path)
    <3>1. PICK id \in WaypointIDs : CommandAt(h, i) = Goto(id, NULL, NULL)
      BY <1>1, <1>2, <2>1 DEF CommandAt
    <3>2. QED
      BY <3>1, NullAssumption DEF Goto, NullCommand, Command, Nullable
  <2>2. CASE i # 0 /\ i # Len(h.path)
    <3>1. i \in 1..(Len(h.path) - 1)
      BY <1>2, <2>2
    <3>2. Connected(h.tracked, h.path[i], h.path[i + 1])
      BY <3>1 DEF PlanInv
    <3>3. CommandAt(h, i) = TaskCommand(RowOf(h.tracked, h.path[i]),
                                        RowOf(h.tracked, h.path[i + 1]))
      BY <2>2 DEF CommandAt, PathWaypoint
    <3>4. \A v, w \in h.tracked : v.WaypointId = w.WaypointId => v = w
      BY DEF PlanInv
    <3>5. QED
      BY <1>1, <3>2, <3>3, <3>4, TaskCommandOfNeighbours
  <2>3. QED
    BY <2>1, <2>2
<1>5. ASSUME NEW t \in NewTasks(h)
      PROVE  \E i \in 0..Len(h.path) :
               t = [TaskID |-> nextTaskID + i, RobotID |-> h.robotId,
                    OrderNumber |-> i, Command |-> CommandAt(h, i)]
  BY DEF NewTasks
<1>6. ASSUME NEW t \in NewTasks(h)
      PROVE  /\ t \in TaskModel
             /\ t.TaskID >= nextTaskID
             /\ t.TaskID < nextTaskID + Len(h.path) + 1
             /\ t.RobotID = h.robotId
             /\ t.Command # NullCommand
  <2>1. PICK i \in 0..Len(h.path) :
          t = [TaskID |-> nextTaskID + i, RobotID |-> h.robotId,
               OrderNumber |-> i, Command |-> CommandAt(h, i)]
    BY <1>5
  <2>2. QED
    BY <1>1, <1>2, <1>3, <1>4, <2>1 DEF TaskModel, Nullable
<1>7. ASSUME NEW t \in NewTasks(h), NEW u \in NewTasks(h),
             t.TaskID = u.TaskID
      PROVE  t = u
  <2>1. PICK i \in 0..Len(h.path) :
          t = [TaskID |-> nextTaskID + i, RobotID |-> h.robotId,
               OrderNumber |-> i, Command |-> CommandAt(h, i)]
    BY <1>5
  <2>2. PICK j \in 0..Len(h.path) :
          u = [TaskID |-> nextTaskID + j, RobotID |-> h.robotId,
               OrderNumber |-> j, Command |-> CommandAt(h, j)]
    BY <1>5
  <2>3. i = j
    BY <1>3, <1>7, <2>1, <2>2
  <2>4. QED
    BY <2>1, <2>2, <2>3
<1>8. QED
  BY <1>6, <1>7

-----------------------------------------------------------------------------
(* Steps that move one request *)

(* A request that has been answered remembers nothing.                     *)
LEMMA IdleInv ==
  ASSUME NEW result \in Results
  PROVE  Idle(result) \in Handler /\ HandlerInv(Idle(result))
BY DEF Idle, Handler, HandlerInv, Reporting, Planning

(* A step that leaves the tasks and the routes alone and moves one request *)
(* keeps what the requests know.                                           *)
LEMMA RequestFrame ==
  ASSUME IInv, NEW r \in Requests, NEW h \in Handler, HandlerInv(h),
         req' = [req EXCEPT ![r] = h], UNCHANGED <<tasks, routes, edited>>
  PROVE  /\ req' \in [Requests -> Handler]
         /\ \A q \in Requests : HandlerInv(req[q])'
<1>1. req \in [Requests -> Handler]
  BY DEF IInv, TypeOK
<1>2. req' \in [Requests -> Handler]
  BY <1>1
<1>3. ASSUME NEW q \in Requests
      PROVE  HandlerInv(req[q])'
  <2>1. HandlerInv(req'[q])
    BY <1>1 DEF IInv
  <2>2. QED
    BY <2>1 DEF HandlerInv, ReportInv, PlanInv, HoldsWholeRoutes, RouteRows, Unedited
<1>4. QED
  BY <1>2, <1>3

(* When no table changes either, such a step keeps the invariant.          *)
LEMMA TablesFrame ==
  ASSUME IInv, NEW r \in Requests, NEW h \in Handler, HandlerInv(h),
         Continue(r, h), UNCHANGED Tables
  PROVE  IInv'
<1>1. /\ req' \in [Requests -> Handler]
      /\ \A q \in Requests : HandlerInv(req[q])'
  BY RequestFrame DEF Tables, Continue
<1>2. QED
  BY <1>1 DEF IInv, Tables, TypeOK, TablesInv, RoutesWhole, HopsNotNull,
              HoldsWholeRoutes, RouteRows, Unedited

(* So does an answer that changes no table.                                *)
LEMMA AnswerFrame ==
  ASSUME IInv, NEW r \in Requests, NEW result \in Results,
         Answer(r, result), UNCHANGED Tables
  PROVE  IInv'
BY IdleInv, TablesFrame DEF Answer, Continue

(* A robot's tasks hold routes whole, if the table does.                   *)
LEMMA TasksOfWhole ==
  ASSUME IInv, NEW robotId
  PROVE  HoldsWholeRoutes(TasksOf(robotId))
BY DEF IInv, RoutesWhole, HoldsWholeRoutes, TasksOf, TablesInv, Unedited

-----------------------------------------------------------------------------
(* Arrivals *)

LEMMA AdmitKeepsIInv ==
  ASSUME IInv, NEW r \in Requests, NEW handlers \in SUBSET Handler,
         \A h \in handlers : HandlerInv(h), Admit(r, handlers)
  PROVE  IInv'
<1>1. CASE \E h \in handlers : Continue(r, h)
  BY <1>1, TablesFrame DEF Admit
<1>2. CASE Answer(r, "Exception")
  BY <1>2, AnswerFrame DEF Admit, Results
<1>3. QED
  BY <1>1, <1>2 DEF Admit

LEMMA ArriveKeepsIInv ==
  ASSUME IInv, NEW r \in Requests, Arrive(r)
  PROVE  IInv'
<1>1. PICK robotId \in Robots :
        \/ \E j \in Journeys : NavigationTasks(r, robotId, j[1], j[2])
        \/ NextTask(r, robotId)
        \/ \E b \in StatusBodies : UpdateCurrentStatus(r, robotId, b)
  BY DEF Arrive
<1>2. ASSUME NEW s, NEW e, NavigationTasks(r, robotId, s, e)
      PROVE  IInv'
  <2> DEFINE start == {Nav("navRead", robotId, waypoints, p, 0) :
                         p \in GetPath(waypoints, s, e)}
  <2>1. ASSUME NEW p \in GetPath(waypoints, s, e)
        PROVE  LET h == Nav("navRead", robotId, waypoints, p, 0)
               IN  h \in Handler /\ HandlerInv(h)
    <3>1. waypoints \in SUBSET WaypointModel
      BY DEF IInv, TypeOK
    <3>2. /\ p \in Seq(WaypointIDs)
          /\ Len(p) >= 1
          /\ \A i \in 1..(Len(p) - 1) : Connected(waypoints, p[i], p[i + 1])
      BY <3>1, PathFollowsMap
    <3>3. \A v, w \in waypoints : v.WaypointId = w.WaypointId => v = w
      BY DEF IInv, TablesInv
    <3>4. Nav("navRead", robotId, waypoints, p, 0) \in Handler
      BY <3>1, <3>2 DEF Nav, Handler
    <3>5. QED
      BY <3>2, <3>3, <3>4 DEF Nav, HandlerInv, Reporting, Planning, PlanInv
  <2>2. start \in SUBSET Handler /\ \A h \in start : HandlerInv(h)
    BY <2>1
  <2>3. Admit(r, start)
    BY <1>2 DEF NavigationTasks
  <2> HIDE DEF start
  <2>4. QED
    BY <2>2, <2>3, AdmitKeepsIInv
<1>3. CASE NextTask(r, robotId)
  <2>1. LET h == Nxt("nextStatus", robotId, NULL)
        IN  h \in Handler /\ HandlerInv(h)
    BY DEF Nxt, Handler, Nullable, HandlerInv, Reporting, Planning
  <2>2. Admit(r, {Nxt("nextStatus", robotId, NULL)})
    BY <1>3 DEF NextTask
  <2>3. QED
    BY <2>1, <2>2, AdmitKeepsIInv
<1>4. ASSUME NEW b \in StatusBodies, UpdateCurrentStatus(r, robotId, b)
      PROVE  IInv'
  <2> DEFINE h == Upd("updAny", robotId, b, {}, TasksOf(robotId))
  <2>1. b \in CurrentStatusModel
    BY DEF StatusBodies, CurrentStatusModel, Nullable
  <2>2. TasksOf(robotId) \subseteq TaskModel
    BY DEF IInv, TypeOK, TasksOf
  <2>3. h \in Handler
    BY <2>1, <2>2 DEF Upd, Handler
  <2>4. Unedited(TasksOf(robotId)) \subseteq RouteRows
    BY DEF IInv, TablesInv, TasksOf, Unedited
  <2>5. HandlerInv(h)
    BY <2>4 DEF Upd, HandlerInv, Reporting, Planning, ReportInv,
                HoldsWholeRoutes, TasksOf, Unedited
  <2>6. Admit(r, {h})
    BY <1>4 DEF UpdateCurrentStatus
  <2> HIDE DEF h
  <2>7. QED
    BY <2>3, <2>5, <2>6, AdmitKeepsIInv
<1>5. QED
  BY <1>1, <1>2, <1>3, <1>4

-----------------------------------------------------------------------------
(* NavigationTasks and NextTask *)

LEMMA NavReadKeepsIInv ==
  ASSUME IInv, NEW r \in Requests, NavReadWaypoint(r)
  PROVE  IInv'
<1> DEFINE h == req[r]
           pc == IF h.read + 1 = Len(h.path) THEN "navSave" ELSE "navRead"
           g == Nav(pc, h.robotId, h.tracked, h.path, h.read + 1)
<1>1. h \in Handler /\ HandlerInv(h) /\ h.pc = "navRead"
  BY DEF IInv, TypeOK, NavReadWaypoint
<1>2. /\ h.robotId \in Robots
      /\ h.tracked \in SUBSET WaypointModel
      /\ h.path \in Seq(WaypointIDs)
      /\ h.read \in Nat
  BY <1>1 DEF Handler
<1>3. pc \in {"navRead", "navSave"}
  OBVIOUS
<1>4. PlanInv(h)
  BY <1>1 DEF HandlerInv, Planning
<1>5. Continue(r, g) \/ Answer(r, "Exception")
  BY DEF NavReadWaypoint
<1>6. UNCHANGED Tables
  BY DEF NavReadWaypoint
<1> HIDE DEF pc, h
<1>7. g \in Handler
  BY <1>2, <1>3 DEF Nav, Handler
<1>8. HandlerInv(g)
  BY <1>3, <1>4 DEF Nav, HandlerInv, Reporting, Planning, PlanInv
<1> HIDE DEF g
<1>9. QED
  BY <1>5, <1>6, <1>7, <1>8, TablesFrame, AnswerFrame DEF Results

LEMMA NavSaveKeepsIInv ==
  ASSUME IInv, NEW r \in Requests, NavSave(r)
  PROVE  IInv'
<1> DEFINE new == NewTasks(req[r])
<1>1. req \in [Requests -> Handler] /\ nextTaskID \in Nat
  BY DEF IInv, TypeOK
<1>2. Planning(req[r]) /\ PlanInv(req[r])
  BY DEF IInv, NavSave, Planning, HandlerInv
<1>3. Len(req[r].path) \in Nat
  BY <1>1, <1>2 DEF Handler, Planning
<1>4. /\ new \subseteq TaskModel
      /\ \A t \in new : /\ t.TaskID >= nextTaskID
                        /\ t.TaskID < nextTaskID'
                        /\ t.RobotID = req[r].robotId
                        /\ t.Command # NullCommand
      /\ \A t, u \in new : t.TaskID = u.TaskID => t = u
  BY <1>1, <1>2, NewTasksAreFresh DEF IInv, NavSave
<1>5. /\ tasks' = tasks \cup new
      /\ routes' = routes \cup {new}
      /\ nextTaskID' = nextTaskID + Len(req[r].path) + 1
      /\ req' = [req EXCEPT ![r] = Idle("NoContent")]
      /\ UNCHANGED <<waypoints, statuses, edited>>
  BY DEF NavSave, Answer
<1> HIDE DEF new
<1>6. RouteRows' = RouteRows \cup new
  BY <1>5 DEF RouteRows
<1>7. routes \subseteq SUBSET TaskModel /\ tasks \subseteq TaskModel
  BY DEF IInv, TypeOK
<1>8. /\ \A t \in RouteRows : t.TaskID \in Nat /\ t.TaskID < nextTaskID
      /\ \A id \in edited : id \in Nat /\ id < nextTaskID
  <2>1. \A id \in TaskIDsOf(RouteRows) \cup edited : id < nextTaskID
    BY DEF IInv, TablesInv
  <2>2. edited \subseteq Nat
    BY DEF IInv, TypeOK
  <2>3. \A t \in RouteRows : t \in TaskModel /\ t.TaskID \in TaskIDsOf(RouteRows)
    BY <1>7 DEF RouteRows, TaskIDsOf
  <2>4. QED
    BY <2>1, <2>2, <2>3 DEF TaskModel
<1>9. \A t \in new : t.TaskID \in Nat
  BY <1>4 DEF TaskModel
<1>10. new \cap RouteRows = {} /\ Unedited(new) = new
  BY <1>1, <1>4, <1>8, <1>9 DEF Unedited
<1>11. Idle("NoContent") \in Handler /\ HandlerInv(Idle("NoContent"))
  BY IdleInv DEF Results
<1>12. TypeOK'
  <2>1. req' \in [Requests -> Handler]
    BY <1>1, <1>5, <1>11
  <2>2. nextTaskID' \in Nat
    BY <1>1, <1>3, <1>5
  <2>3. QED
    BY <2>1, <2>2, <1>4, <1>5, <1>7 DEF IInv, TypeOK
<1>13. TablesInv'
  <2>1. (Unedited(tasks) \subseteq RouteRows)'
    BY <1>5, <1>6 DEF IInv, TablesInv, Unedited
  <2>2. \A id \in TaskIDsOf(RouteRows') \cup edited' : id < nextTaskID'
    BY <1>1, <1>3, <1>4, <1>5, <1>6, <1>8 DEF TaskIDsOf
  <2>3. \A t, u \in RouteRows' : t.TaskID = u.TaskID => t = u
    <3>1. \A t \in RouteRows, u \in new : t.TaskID # u.TaskID
      BY <1>1, <1>4, <1>8, <1>9
    <3>2. \A t, u \in RouteRows : t.TaskID = u.TaskID => t = u
      BY DEF IInv, TablesInv
    <3>3. QED
      BY <3>1, <3>2, <1>4, <1>6
  <2>4. \A R \in routes' : \A t, u \in R : t.RobotID = u.RobotID
    BY <1>4, <1>5 DEF IInv, TablesInv
  <2>5. QED
    BY <2>1, <2>2, <2>3, <2>4, <1>5 DEF IInv, TablesInv, TaskIDsOf
<1>14. RoutesWhole'
  <2>1. \A R \in routes : R \cap new = {}
    BY <1>10 DEF RouteRows
  <2>2. \A R \in routes : \/ Unedited(R) \subseteq tasks
                         \/ Unedited(R) \cap tasks = {}
    BY DEF IInv, RoutesWhole, HoldsWholeRoutes
  <2>3. \A R \in routes' : \/ Unedited(R) \subseteq tasks'
                          \/ Unedited(R) \cap tasks' = {}
    BY <2>1, <2>2, <1>5 DEF Unedited
  <2>4. QED
    BY <2>3, <1>5 DEF RoutesWhole, HoldsWholeRoutes, Unedited
<1>15. HopsNotNull'
  BY <1>4, <1>5 DEF IInv, HopsNotNull
<1>16. ASSUME NEW g, HandlerInv(g)
       PROVE  HandlerInv(g)'
  <2>1. ASSUME Reporting(g)
        PROVE  ReportInv(g)'
    <3>1. ReportInv(g)
      BY <1>16, <2>1 DEF HandlerInv
    <3>2. Unedited(g.seen \cup g.oldTasks) \subseteq RouteRows
      BY <3>1 DEF ReportInv
    <3>3. Unedited(g.seen) \cap tasks' = Unedited(g.seen) \cap tasks
      BY <3>2, <1>5, <1>10 DEF Unedited
    <3>4. \A R \in routes' : \/ Unedited(R) \subseteq g.oldTasks
                            \/ Unedited(R) \cap g.oldTasks = {}
      <4>1. Unedited(new) \cap g.oldTasks = {}
        BY <3>2, <1>10 DEF Unedited
      <4>2. QED
        BY <4>1, <3>1, <1>5 DEF ReportInv, HoldsWholeRoutes
    <3>5. QED
      BY <3>1, <3>2, <3>3, <3>4, <1>5, <1>6
      DEF ReportInv, HoldsWholeRoutes, Unedited
  <2>2. QED
    BY <1>16, <2>1 DEF HandlerInv, Reporting, Planning, PlanInv
<1>17. ASSUME NEW q \in Requests
       PROVE  HandlerInv(req[q])'
  <2>1. HandlerInv(req'[q])
    BY <1>1, <1>5, <1>11 DEF IInv
  <2>2. QED
    BY <2>1, <1>16 DEF HandlerInv, Reporting, Planning
<1>18. QED
  BY <1>12, <1>13, <1>14, <1>15, <1>17 DEF IInv

LEMMA NextKeepsIInv ==
  ASSUME IInv, NEW r \in Requests,
         NextReadStatus(r) \/ NextReadCurrent(r) \/ NextReadNext(r)
  PROVE  IInv'
<1>1. /\ req[r] \in Handler
      /\ req[r].pc \in {"nextStatus", "nextCurrent", "nextNext"}
  BY DEF IInv, TypeOK, NextReadStatus, NextReadCurrent, NextReadNext
<1>2. req[r].robotId \in Robots
  BY <1>1 DEF Handler
<1>3. ASSUME NEW pc \in {"nextCurrent", "nextNext"},
             NEW n \in Nullable(Nat)
      PROVE  LET h == Nxt(pc, req[r].robotId, n)
             IN  h \in Handler /\ HandlerInv(h)
  BY <1>2 DEF Nxt, Handler, Nullable, HandlerInv, Reporting, Planning
<1>4. \A s \in StatusesOf(req[r].robotId) : s.TaskID \in Nullable(Nat)
  BY DEF IInv, TypeOK, StatusesOf, CurrentStatusModel, Nullable
<1>5. \A t \in TasksOf(req[r].robotId) : t.OrderNumber \in Nullable(Nat)
  BY DEF IInv, TypeOK, TasksOf, TaskModel
<1>6. CASE NextReadStatus(r)
  BY <1>3, <1>4, <1>6, TablesFrame, AnswerFrame DEF NextReadStatus, Results
<1>7. CASE NextReadCurrent(r)
  BY <1>3, <1>5, <1>7, TablesFrame, AnswerFrame DEF NextReadCurrent, Results
<1>8. CASE NextReadNext(r)
  <2>1. PICK result \in Results : Answer(r, result)
    BY <1>8 DEF NextReadNext, Results
  <2>2. QED
    BY <1>8, <2>1, AnswerFrame DEF NextReadNext
<1>9. QED
  BY <1>6, <1>7, <1>8

-----------------------------------------------------------------------------
(* UpdateCurrentStatus *)

(* A report's handler goes on with what it knew, and with a list of its    *)
(* robot's tasks once it has made one.                                     *)
LEMMA UpdGoesInv ==
  ASSUME IInv, NEW r \in Requests, Reporting(req[r]),
         NEW pc \in {"updAdd", "updModify", "updList", "updDelete"},
         NEW old, old = {} \/ old = TasksOf(req[r].robotId),
         pc = "updDelete" => old = TasksOf(req[r].robotId),
         pc \in {"updList", "updDelete"} => req[r].newStatus.TaskID = NULL
  PROVE  LET h == Upd(pc, req[r].robotId, req[r].newStatus, old, req[r].seen)
         IN  h \in Handler /\ HandlerInv(h)
<1> DEFINE h == Upd(pc, req[r].robotId, req[r].newStatus, old, req[r].seen)
<1>1. req[r] \in Handler /\ ReportInv(req[r])
  BY DEF IInv, TypeOK, HandlerInv
<1>2. /\ req[r].robotId \in Robots
      /\ req[r].newStatus \in CurrentStatusModel
      /\ req[r].seen \in SUBSET TaskModel
  BY <1>1 DEF Handler, Reporting
<1>3. old \subseteq TaskModel /\ Unedited(old) \subseteq RouteRows
  BY DEF IInv, TypeOK, TablesInv, TasksOf, Unedited
<1>4. HoldsWholeRoutes(old)
  BY TasksOfWhole DEF HoldsWholeRoutes
<1>5. /\ Unedited(req[r].seen) \subseteq RouteRows
      /\ \A t \in req[r].seen : t.RobotID = req[r].robotId
  BY <1>1 DEF ReportInv, Unedited
<1>6. pc = "updDelete" => Unedited(req[r].seen) \cap tasks \subseteq old
  BY <1>5 DEF TasksOf, Unedited
<1>7. \A t \in old : t.RobotID = req[r].robotId
  BY DEF TasksOf
<1>8. h \in Handler
  BY <1>2, <1>3 DEF Upd, Handler
<1>9. /\ h.pc = pc
      /\ h.robotId = req[r].robotId
      /\ h.newStatus = req[r].newStatus
      /\ h.oldTasks = old
      /\ h.seen = req[r].seen
  BY DEF Upd
<1> HIDE DEF h
<1>10. ReportInv(h)
  BY <1>3, <1>4, <1>5, <1>6, <1>7, <1>9 DEF ReportInv, Unedited
<1>11. ~Planning(h)
  BY <1>9 DEF Planning
<1>12. QED
  BY <1>8, <1>10, <1>11 DEF HandlerInv, h

LEMMA UpdReadKeepsIInv ==
  ASSUME IInv, NEW r \in Requests, UpdAny(r) \/ UpdList(r)
  PROVE  IInv'
<1>1. Reporting(req[r])
  BY DEF UpdAny, UpdList, Reporting
<1>2. UNCHANGED Tables
  BY DEF UpdAny, UpdList
<1>3. CASE UpdAny(r)
  <2>1. PICK pc \in {"updAdd", "updModify"} : UpdGoes(r, pc, {})
    BY <1>3 DEF UpdAny
  <2>2. QED
    BY <1>1, <1>2, <2>1, UpdGoesInv, TablesFrame DEF UpdGoes
<1>4. CASE UpdList(r)
  <2>1. req[r].newStatus.TaskID = NULL
    BY <1>1, <1>4 DEF IInv, HandlerInv, ReportInv, UpdList
  <2>2. UpdGoes(r, "updDelete", TasksOf(req[r].robotId))
    BY <1>4 DEF UpdList
  <2>3. QED
    BY <1>1, <1>2, <2>1, <2>2, UpdGoesInv, TablesFrame DEF UpdGoes
<1>5. QED
  BY <1>3, <1>4

(* A status row is written: only the status table and the request change.  *)
LEMMA UpdSaveKeepsIInv ==
  ASSUME IInv, NEW r \in Requests, UpdAdd(r) \/ UpdModify(r)
  PROVE  IInv'
<1>1. Reporting(req[r])
  BY DEF UpdAdd, UpdModify, Reporting
<1>2. req[r].newStatus \in CurrentStatusModel
  BY <1>1 DEF IInv, TypeOK, Handler, Reporting
<1>3. UNCHANGED <<waypoints, tasks, nextTaskID, routes, edited>>
  BY DEF UpdAdd, UpdModify
<1>4. \E h \in Handler : HandlerInv(h) /\ req' = [req EXCEPT ![r] = h]
  <2>1. CASE UpdSaved(r)
    <3>1. CASE req[r].newStatus.TaskID = NULL
      BY <1>1, <2>1, <3>1, UpdGoesInv DEF UpdSaved, UpdGoes, Continue
    <3>2. CASE req[r].newStatus.TaskID # NULL
      BY <2>1, <3>2, IdleInv DEF UpdSaved, Answer, Results
    <3>3. QED
      BY <3>1, <3>2
  <2>2. CASE Answer(r, "Exception")
    BY <2>2, IdleInv DEF Answer, Results
  <2>3. QED
    BY <2>1, <2>2 DEF UpdAdd, UpdModify
<1>5. /\ req' \in [Requests -> Handler]
      /\ \A q \in Requests : HandlerInv(req[q])'
  BY <1>3, <1>4, RequestFrame
<1>6. statuses' \subseteq CurrentStatusModel
  BY <1>2 DEF UpdAdd, UpdModify, IInv, TypeOK
<1>7. QED
  BY <1>3, <1>5, <1>6 DEF IInv, TypeOK, TablesInv, RoutesWhole, HopsNotNull,
                          HoldsWholeRoutes, RouteRows, Unedited

(* What a deletion by key leaves: of the rows nobody edited, exactly those *)
(* that were not listed.                                                   *)
LEMMA DeleteByKey ==
  ASSUME IInv, NEW r \in Requests, Reporting(req[r]),
         NEW left, left = {t \in tasks :
                             t.TaskID \notin TaskIDsOf(req[r].oldTasks)}
  PROVE  Unedited(left) = Unedited(tasks) \ req[r].oldTasks
<1>1. /\ Unedited(tasks) \subseteq RouteRows
      /\ Unedited(req[r].oldTasks) \subseteq RouteRows
  BY DEF IInv, TablesInv, HandlerInv, ReportInv, Unedited
<1>2. \A t, u \in RouteRows : t.TaskID = u.TaskID => t = u
  BY DEF IInv, TablesInv
<1>3. QED
  BY <1>1, <1>2 DEF TaskIDsOf, Unedited

LEMMA UpdDeleteKeepsIInv ==
  ASSUME IInv, NEW r \in Requests, UpdDelete(r)
  PROVE  IInv'
<1>1. Reporting(req[r])
  BY DEF UpdDelete, Reporting
<1>2. CASE Answer(r, "Exception") /\ UNCHANGED tasks
  BY <1>2, AnswerFrame DEF UpdDelete, Tables, Results
<1>3. CASE /\ Answer(r, "Created")
           /\ tasks' = {t \in tasks :
                          t.TaskID \notin TaskIDsOf(req[r].oldTasks)}
  <2>0. Unedited(tasks') = Unedited(tasks) \ req[r].oldTasks
    BY <1>1, <1>3, DeleteByKey
  <2>1. UNCHANGED <<waypoints, statuses, nextTaskID, routes, edited>>
    BY DEF UpdDelete
  <2>2. HoldsWholeRoutes(req[r].oldTasks)
    BY <1>1 DEF IInv, HandlerInv, ReportInv
  <2>3. RoutesWhole'
    <3>1. ASSUME NEW R \in routes
          PROVE  Unedited(R) \subseteq tasks' \/ Unedited(R) \cap tasks' = {}
      <4>1. Unedited(R) \subseteq tasks \/ Unedited(R) \cap tasks = {}
        BY DEF IInv, RoutesWhole, HoldsWholeRoutes
      <4>2. \/ Unedited(R) \subseteq req[r].oldTasks
            \/ Unedited(R) \cap req[r].oldTasks = {}
        BY <2>2 DEF HoldsWholeRoutes
      <4>3. QED
        BY <4>1, <4>2, <2>0 DEF Unedited
    <3>2. QED
      BY <3>1, <2>1 DEF RoutesWhole, HoldsWholeRoutes, Unedited
  <2>4. Idle("Created") \in Handler /\ HandlerInv(Idle("Created"))
    BY IdleInv DEF Results
  <2>5. req' \in [Requests -> Handler]
    BY <1>3, <2>4 DEF Answer, IInv, TypeOK
  <2>6. ASSUME NEW q \in Requests
        PROVE  HandlerInv(req[q])'
    <3>1. HandlerInv(req'[q])
      BY <1>3, <2>4 DEF Answer, IInv, TypeOK
    <3>2. tasks' \subseteq tasks
      BY <1>3
    <3>3. QED
      BY <2>1, <3>1, <3>2 DEF HandlerInv, ReportInv, Reporting, Planning,
                         PlanInv, HoldsWholeRoutes, RouteRows, Unedited
  <2>7. tasks' \subseteq tasks
    BY <1>3
  <2>8. QED
    BY <2>1, <2>3, <2>5, <2>6, <2>7 DEF IInv, TypeOK, TablesInv,
                               HopsNotNull, RouteRows, Unedited
<1>4. QED
  BY <1>2, <1>3 DEF UpdDelete

-----------------------------------------------------------------------------
(* Writes through the APIs of the tables *)

LEMMA EditWaypointsKeepsIInv ==
  ASSUME IInv, EditWaypoints
  PROVE  IInv'
<1>1. UNCHANGED <<statuses, tasks, nextTaskID, req, routes, edited>>
  BY DEF EditWaypoints, PutWaypoint, PostWaypoint, DeleteWaypoint
<1>2. /\ waypoints' \subseteq WaypointModel
      /\ \A v, w \in waypoints' : v.WaypointId = w.WaypointId => v = w
  <2>1. /\ waypoints \subseteq WaypointModel
        /\ \A v, w \in waypoints : v.WaypointId = w.WaypointId => v = w
    BY DEF IInv, TypeOK, TablesInv
  <2>2. WaypointBodies \subseteq WaypointModel
    BY ManagerAssumption
  <2>3. QED
    BY <2>1, <2>2 DEF EditWaypoints, PutWaypoint, PostWaypoint,
                      DeleteWaypoint, IdsOf
<1>3. ASSUME NEW q \in Requests
      PROVE  HandlerInv(req[q])'
  BY <1>1 DEF IInv, HandlerInv, ReportInv, PlanInv, Reporting, Planning,
              HoldsWholeRoutes, RouteRows, Unedited
<1>4. QED
  BY <1>1, <1>2, <1>3 DEF IInv, TypeOK, TablesInv, RoutesWhole, HopsNotNull,
                          HoldsWholeRoutes, RouteRows, Unedited

(* The tasks API writes one row, and its id counts as edited from then on. *)
LEMMA EditTasksWrites ==
  ASSUME IInv, EditTasks
  PROVE  /\ UNCHANGED <<waypoints, statuses, req, routes>>
         /\ tasks' \subseteq TaskModel
         /\ nextTaskID' \in Nat /\ nextTaskID' >= nextTaskID
         /\ \E id \in Nat :
              /\ edited' = edited \cup {id}
              /\ id < nextTaskID'
              /\ \A t \in (tasks \ tasks') \cup (tasks' \ tasks) : t.TaskID = id
<1>1. /\ TaskBodies \subseteq TaskModel
      /\ \A t \in TaskBodies : t.TaskID \in Nat
  BY ManagerAssumption DEF TaskModel
<1>2. tasks \subseteq TaskModel /\ nextTaskID \in Nat
  BY DEF IInv, TypeOK
<1>3. \A t \in tasks : t.TaskID \in edited \/ t \in RouteRows
  BY DEF IInv, TablesInv, Unedited
<1>4. \A t \in tasks : t.TaskID < nextTaskID
  BY <1>3 DEF IInv, TablesInv, TaskIDsOf
<1>5. ASSUME NEW t \in TaskBodies, PutTask(t)
      PROVE  /\ UNCHANGED <<waypoints, statuses, nextTaskID, req, routes>>
             /\ tasks' \subseteq TaskModel
             /\ edited' = edited \cup {t.TaskID}
             /\ t.TaskID < nextTaskID
             /\ \A u \in (tasks \ tasks') \cup (tasks' \ tasks) :
                   u.TaskID = t.TaskID
  BY <1>1, <1>2, <1>4, <1>5 DEF PutTask, TaskIDsOf
<1>6. ASSUME NEW t \in TaskBodies, PostTask(t)
      PROVE  /\ UNCHANGED <<waypoints, statuses, req, routes>>
             /\ tasks' \subseteq TaskModel
             /\ nextTaskID' \in Nat /\ nextTaskID' >= nextTaskID
             /\ edited' = edited \cup {t.TaskID}
             /\ t.TaskID < nextTaskID'
             /\ \A u \in (tasks \ tasks') \cup (tasks' \ tasks) :
                   u.TaskID = t.TaskID
  BY <1>1, <1>2, <1>6 DEF PostTask
<1>7. ASSUME NEW id \in TaskIDsOf(TaskBodies), DeleteTask(id)
      PROVE  /\ UNCHANGED <<waypoints, statuses, nextTaskID, req, routes>>
             /\ tasks' \subseteq TaskModel
             /\ edited' = edited \cup {id}
             /\ id < nextTaskID
             /\ \A u \in (tasks \ tasks') \cup (tasks' \ tasks) :
                   u.TaskID = id
  BY <1>2, <1>4, <1>7 DEF DeleteTask, TaskIDsOf
<1>8. \A id \in TaskIDsOf(TaskBodies) : id \in Nat
  BY <1>1 DEF TaskIDsOf
<1>9. CASE \E t \in TaskBodies : PutTask(t)
  BY <1>1, <1>2, <1>5, <1>9
<1>10. CASE \E t \in TaskBodies : PostTask(t)
  BY <1>1, <1>6, <1>10
<1>11. CASE \E id \in TaskIDsOf(TaskBodies) : DeleteTask(id)
  BY <1>2, <1>7, <1>8, <1>11
<1>12. QED
  BY <1>9, <1>10, <1>11 DEF EditTasks

LEMMA EditTasksKeepsIInv ==
  ASSUME IInv, EditTasks
  PROVE  IInv'
<1>1. /\ UNCHANGED <<waypoints, statuses, req, routes>>
      /\ tasks' \subseteq TaskModel
      /\ nextTaskID' \in Nat /\ nextTaskID' >= nextTaskID
  BY EditTasksWrites
<1>2. PICK id \in Nat : /\ edited' = edited \cup {id}
                        /\ id < nextTaskID'
                        /\ \A t \in (tasks \ tasks') \cup (tasks' \ tasks) :
                              t.TaskID = id
  BY EditTasksWrites
<1>4. Unedited(tasks)' \subseteq Unedited(tasks)
  BY <1>2 DEF Unedited
<1>5. TypeOK'
  BY <1>1, <1>2 DEF IInv, TypeOK
<1>6. TablesInv'
  <2>1. nextTaskID \in Nat /\ edited \subseteq Nat
        /\ \A t \in RouteRows : t.TaskID \in Nat
    BY DEF IInv, TypeOK, RouteRows, TaskModel
  <2>2. \A k \in TaskIDsOf(RouteRows) \cup edited' : k < nextTaskID'
    <3>1. \A k \in TaskIDsOf(RouteRows) \cup edited : k < nextTaskID
      BY DEF IInv, TablesInv
    <3>2. \A k \in TaskIDsOf(RouteRows) \cup edited : k \in Nat
      BY <2>1 DEF TaskIDsOf
    <3>3. \A k \in TaskIDsOf(RouteRows) \cup edited : k < nextTaskID'
      BY <1>1, <2>1, <3>1, <3>2
    <3>4. QED
      BY <1>2, <3>3
  <2>3. QED
    BY <1>1, <1>4, <2>2 DEF IInv, TablesInv, RouteRows, TaskIDsOf
<1>7. RoutesWhole'
  <2>1. ASSUME NEW R \in routes
        PROVE  LET S == {t \in R : t.TaskID \notin edited'}
               IN  S \subseteq tasks' \/ S \cap tasks' = {}
    <3>1. Unedited(R) \subseteq tasks \/ Unedited(R) \cap tasks = {}
      BY DEF IInv, RoutesWhole, HoldsWholeRoutes
    <3>2. QED
      BY <1>2, <3>1 DEF Unedited
  <2>2. QED
    BY <1>1, <2>1 DEF RoutesWhole, HoldsWholeRoutes, Unedited
<1>8. ASSUME NEW q \in Requests
      PROVE  HandlerInv(req[q])'
  <2>1. HandlerInv(req[q]) /\ req'[q] = req[q]
    BY <1>1 DEF IInv
  <2>2. ASSUME Reporting(req[q]) PROVE ReportInv(req[q])'
    <3>1. ReportInv(req[q])
      BY <2>1, <2>2 DEF HandlerInv
    <3>2. ASSUME NEW R \in routes
          PROVE  LET S == {t \in R : t.TaskID \notin edited'}
                 IN  S \subseteq req[q].oldTasks \/ S \cap req[q].oldTasks = {}
      BY <1>2, <3>1 DEF ReportInv, HoldsWholeRoutes, Unedited
    <3>3. HoldsWholeRoutes(req[q].oldTasks)'
      BY <1>1, <2>1, <3>2 DEF HoldsWholeRoutes, Unedited
    <3>4. QED
      BY <1>1, <1>2, <2>1, <3>1, <3>3 DEF ReportInv, Unedited, RouteRows
  <2>3. QED
    BY <1>1, <2>1, <2>2 DEF HandlerInv, Reporting, Planning, PlanInv
<1>9. QED
  BY <1>1, <1>5, <1>6, <1>7, <1>8 DEF IInv, HopsNotNull

LEMMA EditStatusesKeepsIInv ==
  ASSUME IInv, EditStatuses
  PROVE  IInv'
<1>1. UNCHANGED <<waypoints, tasks, nextTaskID, req, routes, edited>>
  BY DEF EditStatuses, WriteStatus, DeleteCurrentStatus
<1>2. StatusBodies \subseteq CurrentStatusModel
  BY DEF StatusBodies, CurrentStatusModel, Nullable
<1>3. statuses' \subseteq CurrentStatusModel
  BY <1>2 DEF EditStatuses, WriteStatus, DeleteCurrentStatus, IInv, TypeOK
<1>4. ASSUME NEW q \in Requests
      PROVE  HandlerInv(req[q])'
  BY <1>1 DEF IInv, HandlerInv, ReportInv, PlanInv, Reporting, Planning,
              HoldsWholeRoutes, RouteRows, Unedited
<1>5. QED
  BY <1>1, <1>3, <1>4 DEF IInv, TypeOK, TablesInv, RoutesWhole, HopsNotNull,
                          HoldsWholeRoutes, RouteRows, Unedited

-----------------------------------------------------------------------------
(* The theorems *)

LEMMA InitIInv == Init => IInv
<1> SUFFICES ASSUME Init PROVE IInv
  OBVIOUS
<1>1. \A r \in Requests : req[r] = Idle("None")
  BY DEF Init
<1>2. Idle("None") \in Handler /\ HandlerInv(Idle("None"))
  BY IdleInv DEF Results
<1>3. RouteRows = {}
  BY DEF Init, RouteRows
<1>4. TypeOK
  BY <1>2, ManagerAssumption DEF Init, TypeOK
<1>5. TablesInv
  BY <1>3, ManagerAssumption DEF Init, TablesInv, Unedited, TaskIDsOf
<1>6. QED
  BY <1>1, <1>2, <1>4, <1>5 DEF IInv, Init, RoutesWhole, HopsNotNull,
                                HoldsWholeRoutes

LEMMA StepKeepsIInv == IInv /\ [Next]_vars => IInv'
<1> SUFFICES ASSUME IInv, [Next]_vars PROVE IInv'
  OBVIOUS
<1>1. ASSUME NEW r \in Requests, Arrive(r) PROVE IInv'
  BY <1>1, ArriveKeepsIInv
<1>2. ASSUME NEW r \in Requests, Step(r) PROVE IInv'
  BY <1>2, NavReadKeepsIInv, NavSaveKeepsIInv, NextKeepsIInv,
     UpdReadKeepsIInv, UpdSaveKeepsIInv, UpdDeleteKeepsIInv DEF Step
<1>3. CASE EditWaypoints \/ EditTasks \/ EditStatuses
  BY <1>3, EditWaypointsKeepsIInv, EditTasksKeepsIInv, EditStatusesKeepsIInv
<1>4. CASE UNCHANGED vars
  BY <1>4 DEF vars, IInv, TypeOK, TablesInv, RoutesWhole, HopsNotNull,
              HandlerInv, ReportInv, PlanInv, Reporting, Planning,
              HoldsWholeRoutes, RouteRows, Unedited
<1>5. QED
  BY <1>1, <1>2, <1>3, <1>4 DEF Next

(* The inductive invariant holds in every reachable state.                 *)
THEOREM Invariance == Spec => []IInv
BY InitIInv, StepKeepsIInv, PTL DEF Spec

(* The tables and the local variables of the handlers keep their types.    *)
THEOREM TypeCorrect == Spec => []TypeOK
<1>1. IInv => TypeOK
  BY DEF IInv
<1>2. QED
  BY <1>1, Invariance, PTL

(* Planning in one SaveChanges and deleting in one SaveChanges what one    *)
(* query listed keeps every route whole, for any number of concurrent      *)
(* requests.                                                               *)
THEOREM RoutesStayWhole == Spec => []RoutesWhole
<1>1. IInv => RoutesWhole
  BY DEF IInv
<1>2. QED
  BY <1>1, Invariance, PTL

(* No hop is ever planned as the command "null", whatever the map and      *)
(* however it is edited while a route is planned.                          *)
THEOREM HopsNeverNull == Spec => []HopsNotNull
<1>1. IInv => HopsNotNull
  BY DEF IInv
<1>2. QED
  BY <1>1, Invariance, PTL

(* A step that takes an unedited row from the tasks table is an edit of    *)
(* this row or deletes what one report listed.                             *)
LEMMA TasksChange ==
  ASSUME IInv, [Next]_vars, NEW t \in Unedited(tasks), t \notin tasks'
  PROVE  \/ t.TaskID \in edited'
         \/ \E r \in Requests : /\ req[r].pc = "updDelete"
                                /\ t \in req[r].oldTasks
<1>0. t \in tasks
  BY DEF Unedited
<1>1. CASE \E r \in Requests : UpdDelete(r)
  <2>1. PICK r \in Requests : UpdDelete(r)
    BY <1>1
  <2>2. req[r].pc = "updDelete" /\ Reporting(req[r])
    BY <2>1 DEF UpdDelete, Reporting
  <2>3. tasks' = {u \in tasks : u.TaskID \notin TaskIDsOf(req[r].oldTasks)}
    BY <1>0, <2>1 DEF UpdDelete
  <2>4. Unedited(tasks') = Unedited(tasks) \ req[r].oldTasks
    BY <2>2, <2>3, DeleteByKey
  <2>5. QED
    BY <2>2, <2>4 DEF Unedited
<1>2. CASE UNCHANGED tasks \/ \E r \in Requests : NavSave(r)
  BY <1>0, <1>2 DEF NavSave
<1>3. CASE UNCHANGED vars
  BY <1>2, <1>3 DEF vars
<1>4. CASE EditWaypoints \/ EditStatuses
  BY <1>2, <1>4 DEF EditWaypoints, PutWaypoint, PostWaypoint, DeleteWaypoint,
                    EditStatuses, WriteStatus, DeleteCurrentStatus
<1>5. CASE EditTasks
  BY <1>0, <1>5, EditTasksWrites
<1>6. ASSUME NEW r \in Requests, Arrive(r) PROVE UNCHANGED tasks
  BY <1>6 DEF Arrive, NavigationTasks, NextTask, UpdateCurrentStatus, Admit,
              Tables
<1>7. ASSUME NEW r \in Requests, Step(r)
      PROVE  UNCHANGED tasks \/ NavSave(r) \/ UpdDelete(r)
  BY <1>7 DEF Step, NavReadWaypoint, NextReadStatus, NextReadCurrent,
              NextReadNext, UpdAny, UpdAdd, UpdModify, UpdList, Tables
<1>8. QED
  BY <1>1, <1>2, <1>3, <1>4, <1>5, <1>6, <1>7 DEF Next

(* The clean-up of a report deletes by key rows it listed earlier, while   *)
(* the tasks API moves, deletes and inserts rows, and never hits another   *)
(* robot's task that nobody edited.                                        *)
THEOREM CleanUpIsOwn == Spec => CleanUpHitsOwnTasks
<1>1. ASSUME IInv, [Next]_vars, NEW t \in Unedited(tasks) \ tasks'
      PROVE  \/ t.TaskID \in edited'
             \/ \E r \in Requests : /\ req[r].pc = "updDelete"
                                    /\ req[r].robotId = t.RobotID
                                    /\ req[r].newStatus.TaskID = NULL
  <2>1. CASE t.TaskID \in edited'
    BY <2>1
  <2>2. CASE \E r \in Requests : /\ req[r].pc = "updDelete"
                                /\ t \in req[r].oldTasks
    <3>1. PICK r \in Requests : /\ req[r].pc = "updDelete"
                               /\ t \in req[r].oldTasks
      BY <2>2
    <3>2. ReportInv(req[r])
      BY <1>1, <3>1 DEF IInv, HandlerInv, Reporting
    <3>3. QED
      BY <3>1, <3>2 DEF ReportInv
  <2>3. QED
    BY <1>1, <2>1, <2>2, TasksChange
<1>2. IInv /\ [Next]_vars
        => [\A t \in Unedited(tasks) \ tasks' :
              \/ t.TaskID \in edited'
              \/ \E r \in Requests : /\ req[r].pc = "updDelete"
                                     /\ req[r].robotId = t.RobotID
                                     /\ req[r].newStatus.TaskID = NULL]_vars
  BY <1>1
<1>3. QED
  BY <1>2, Invariance, PTL DEF Spec, CleanUpHitsOwnTasks

(* When a report without a task is answered, nothing the robot had to do   *)
(* when the report arrived is left, whatever was planned or deleted        *)
(* meanwhile.                                                              *)
THEOREM OldTasksAreDeleted == Spec => OldTasksDeleted
<1>1. ASSUME IInv, [Next]_vars, NEW r \in Requests,
             req[r].pc = "updDelete", req'[r] = Idle("Created")
      PROVE  Unedited(req[r].seen) \cap tasks' = {}
  <2>1. req'[r] # req[r]
    BY <1>1 DEF Idle
  <2>2. req \in [Requests -> Handler]
    BY <1>1 DEF IInv, TypeOK
  <2>3. UpdDelete(r)
    <3>1. ~UNCHANGED vars /\ ~EditWaypoints /\ ~EditTasks /\ ~EditStatuses
      BY <2>1 DEF vars, EditWaypoints, PutWaypoint, PostWaypoint,
                  DeleteWaypoint, EditTasks, PutTask, PostTask, DeleteTask,
                  EditStatuses, WriteStatus, DeleteCurrentStatus
    <3>2. PICK q \in Requests : Arrive(q) \/ Step(q)
      BY <1>1, <3>1 DEF Next
    <3>3. \E h : req' = [req EXCEPT ![q] = h]
      BY <3>2 DEF Arrive, NavigationTasks, NextTask, UpdateCurrentStatus,
           Admit, Continue, Answer, Step, NavReadWaypoint, NavSave,
           NextReadStatus, NextReadCurrent, NextReadNext, UpdAny, UpdAdd,
           UpdModify, UpdSaved, UpdGoes, UpdList, UpdDelete
    <3>4. q = r
      BY <2>1, <2>2, <3>3
    <3>5. QED
      BY <1>1, <3>2, <3>4 DEF Arrive, NavigationTasks, NextTask,
           UpdateCurrentStatus, Admit, Step, NavReadWaypoint, NavSave,
           NextReadStatus, NextReadCurrent, NextReadNext, UpdAny, UpdAdd,
           UpdModify, UpdList
  <2>4. Reporting(req[r])
    BY <1>1 DEF Reporting
  <2>5. ~Answer(r, "Exception")
    BY <1>1, <2>2 DEF Answer, Idle
  <2>6. tasks' = {t \in tasks : t.TaskID \notin TaskIDsOf(req[r].oldTasks)}
    BY <2>3, <2>5 DEF UpdDelete
  <2>7. Unedited(tasks') = Unedited(tasks) \ req[r].oldTasks
    BY <1>1, <2>4, <2>6, DeleteByKey
  <2>8. Unedited(req[r].seen) \cap tasks \subseteq req[r].oldTasks
    BY <1>1, <2>4 DEF IInv, HandlerInv, ReportInv
  <2>9. QED
    BY <2>6, <2>7, <2>8 DEF Unedited
<1>2. IInv /\ [Next]_vars
        => [\A r \in Requests :
              /\ req[r].pc = "updDelete"
              /\ req'[r] = Idle("Created")
              => Unedited(req[r].seen) \cap tasks' = {}]_vars
  BY <1>1
<1>3. QED
  BY <1>2, Invariance, PTL DEF Spec, OldTasksDeleted
=============================================================================
