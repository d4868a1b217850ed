----------------------------- MODULE ManagerAPI -----------------------------
(***************************************************************************)
(* The server's manager API (Controllers/MainManagerAPIController.cs) over *)
(* its three tables.  Robots report their status and ask for the next      *)
(* task; an operator plans a route for a robot; meanwhile rows of all      *)
(* three tables are written through the table APIs.                        *)
(*                                                                         *)
(* Every HTTP request runs in a scope of its own with its own DbContext    *)
(* and requests are served concurrently, so a handler is cut wherever it   *)
(* goes to the database: each query and each SaveChanges is one step, and  *)
(* between two steps anything may happen to the tables.  A SaveChanges is  *)
(* one transaction: all of its rows or none.                               *)
(***************************************************************************)
EXTENDS Navigation

CONSTANTS Robots,          \* robot ids
          Requests,        \* slots for the requests in flight at a time
          InitWaypoints,   \* the map to start from
          WaypointBodies,  \* the rows the waypoints API may put or post
          TaskBodies,      \* the rows the tasks API may put or post
          StatusRobots,    \* the robots whose rows the status API writes
          Journeys,        \* the <<start, end>> an operator asks routes for
          MaxRoutes,       \* bound: routes planned in one behaviour
          MaxReported      \* bound: the highest task id a robot reports

(* OrderNumber may be missing in a row the tasks API wrote.                *)
TaskModel == [TaskID : Nat, RobotID : Robots, OrderNumber : Nullable(Nat),
              Command : Command]

CurrentStatusModel == [RobotID : Robots, TaskID : Nullable(Nat)]

ASSUME ManagerAssumption ==
  /\ NULL \notin Robots
  /\ InitWaypoints \subseteq WaypointModel
  /\ \A v, w \in InitWaypoints : v.WaypointId = w.WaypointId => v = w
  /\ WaypointBodies \subseteq WaypointModel
  /\ TaskBodies \subseteq TaskModel
  /\ StatusRobots \subseteq Robots
  /\ Journeys \subseteq WaypointIDs \X WaypointIDs
  /\ MaxRoutes \in Nat
  /\ MaxReported \in Nat

VARIABLES waypoints,   \* table waypoints, a set of rows
          statuses,    \* table current_status
          tasks,       \* table tasks
          nextTaskID,  \* AUTO_INCREMENT counter of tasks
          req,         \* the requests in flight and their local variables
          routes,      \* history: the rows each route was saved as
          edited       \* history: the ids of tasks the tasks API wrote

vars == <<waypoints, statuses, tasks, nextTaskID, req, routes, edited>>

Results == {"None", "Ok", "Created", "NoContent", "NotFound", "Exception"}

(* A request is idle with the result of the last call, or it is in one of  *)
(* the three handlers, with the handler's local variables; pc is what the  *)
(* handler does next.                                                      *)
Idle(result) == [pc |-> "idle", result |-> result]

(* NavigationTasks: the rows its DbContext tracks, the path and how much   *)
(* of it WaypointsFromListAsync has read.                                  *)
Nav(pc, robotId, tracked, path, read) ==
  [pc |-> pc, robotId |-> robotId, tracked |-> tracked, path |-> path,
   read |-> read]

(* NextTask: currentTaskId, then currentTask.OrderNumber.                  *)
Nxt(pc, robotId, current) ==
  [pc |-> pc, robotId |-> robotId, current |-> current]

(* UpdateCurrentStatus: newStatus and oldTasks; seen, for the properties,  *)
(* is what the robot had to do when the request arrived.                   *)
Upd(pc, robotId, newStatus, oldTasks, seen) ==
  [pc |-> pc, robotId |-> robotId, newStatus |-> newStatus,
   oldTasks |-> oldTasks, seen |-> seen]

Planning(h)  == h.pc \in {"navRead", "navSave"}

Reporting(h) == h.pc \in {"updAny", "updAdd", "updModify", "updList",
                          "updDelete"}

Handler ==
  [pc : {"idle"}, result : Results]
    \cup
  [pc : {"navRead", "navSave"}, robotId : Robots,
   tracked : SUBSET WaypointModel, path : Seq(WaypointIDs), read : Nat]
    \cup
  [pc : {"nextStatus", "nextCurrent", "nextNext"}, robotId : Robots,
   current : Nullable(Nat)]
    \cup
  [pc : {"updAny", "updAdd", "updModify", "updList", "updDelete"},
   robotId : Robots, newStatus : CurrentStatusModel,
   oldTasks : SUBSET TaskModel, seen : SUBSET TaskModel]

TasksOf(robotId) == {t \in tasks : t.RobotID = robotId}

StatusesOf(robotId) == {s \in statuses : s.RobotID = robotId}

(* The tables hold rows of their models, and every request in flight has   *)
(* the local variables of the handler it is in.                            *)
TypeOK ==
  /\ waypoints \subseteq WaypointModel
  /\ statuses \subseteq CurrentStatusModel
  /\ tasks \subseteq TaskModel
  /\ nextTaskID \in Nat
  /\ req \in [Requests -> Handler]
  /\ routes \subseteq SUBSET TaskModel
  /\ edited \subseteq Nat

Init ==
  /\ waypoints = InitWaypoints
  /\ statuses = {}
  /\ tasks = {}
  /\ nextTaskID = 1
  /\ req = [r \in Requests |-> Idle("None")]
  /\ routes = {}
  /\ edited = {}

-----------------------------------------------------------------------------
Tables == <<waypoints, statuses, tasks, nextTaskID, routes, edited>>

(* The handler returns, or an exception ends it: the request's scope, and  *)
(* all it tracked, is gone.                                                *)
Answer(r, result) == req' = [req EXCEPT ![r] = Idle(result)]

(* The handler goes on with these local variables.                         *)
Continue(r, handler) == req' = [req EXCEPT ![r] = handler]

(* A manager request arrives.  Building its controller builds a            *)
(* NavigationAPIController, which reads the whole map and parses it; if    *)
(* that throws the handler is never called, whichever it is.  handlers are *)
(* the states it may then be in at its first query; none if it throws.     *)
Admit(r, handlers) ==
  /\ req[r].pc = "idle"
  /\ IF ConversionThrows(waypoints)
     THEN Answer(r, "Exception")
     ELSE \/ \E h \in handlers : Continue(r, h)
          \/ /\ ParserMayThrow(waypoints) \/ handlers = {}
             /\ Answer(r, "Exception")
  /\ UNCHANGED Tables

-----------------------------------------------------------------------------
(* NavigationTasks(robotId, startWaypointId, endWaypointId)                *)

RoomForRoute ==
  Cardinality(routes) + Cardinality({r \in Requests : Planning(req[r])})
    < MaxRoutes

(* The path comes from the map read on arrival, without another query.     *)
NavigationTasks(r, robotId, startWaypointId, endWaypointId) ==
  /\ RoomForRoute
  /\ Admit(r, {Nav("navRead", robotId, waypoints, p, 0) :
                 p \in GetPath(waypoints, startWaypointId, endWaypointId)})

(* WaypointsFromListAsync: one query per waypoint of the path.  The query  *)
(* must find a row, but the values are those the context already tracks.   *)
NavReadWaypoint(r) ==
  LET h == req[r]
  IN  /\ h.pc = "navRead"
      /\ IF h.path[h.read + 1] \in IdsOf(waypoints)
         THEN Continue(r, Nav(IF h.read + 1 = Len(h.path) THEN "navSave"
                                                         ELSE "navRead",
                              h.robotId, h.tracked, h.path, h.read + 1))
         ELSE Answer(r, "Exception")
      /\ UNCHANGED Tables

(* Faults: definitions named ...Fault change the definition they precede   *)
(* the way a slip in the code would; the properties are known to catch     *)
(* them.  Here AsNoTracking, so that the loop sees the rows as they are.   *)
PathWaypointFault(h, i) ==
  RowOf(IF h.path[i] \in IdsOf(waypoints) THEN waypoints ELSE h.tracked,
        h.path[i])

(* The waypoint rows the handler works with.                               *)
PathWaypoint(h, i) == RowOf(h.tracked, h.path[i])

(* Reach the first waypoint, one task per hop, then the last waypoint.     *)
CommandAt(h, i) ==
  IF i = 0 THEN Goto(h.path[1], NULL, NULL)
  ELSE IF i = Len(h.path) THEN Goto(h.path[i], NULL, NULL)
  ELSE TaskCommand(PathWaypoint(h, i), PathWaypoint(h, i + 1))

(* Fault: the order number is decremented before its first use.            *)
NewTasksFault(h) ==
  {[TaskID |-> nextTaskID + i, RobotID |-> h.robotId, OrderNumber |-> i - 1,
    Command |-> CommandAt(h, i)] : i \in 0..Len(h.path)}

NewTasks(h) ==
  {[TaskID |-> nextTaskID + i, RobotID |-> h.robotId, OrderNumber |-> i,
    Command |-> CommandAt(h, i)] : i \in 0..Len(h.path)}

NavSave(r) ==
  /\ req[r].pc = "navSave"
  /\ tasks' = tasks \cup NewTasks(req[r])
  /\ nextTaskID' = nextTaskID + Len(req[r].path) + 1
  /\ routes' = routes \cup {NewTasks(req[r])}
  /\ Answer(r, "NoContent")
  /\ UNCHANGED <<waypoints, statuses, edited>>

-----------------------------------------------------------------------------
(* NextTask(robotId)                                                       *)

NextTask(r, robotId) ==
  Admit(r, {Nxt("nextStatus", robotId, NULL)})

(* .TaskID of SingleOrDefault: no row is a null dereference.               *)
NextReadStatus(r) ==
  /\ req[r].pc = "nextStatus"
  /\ \/ /\ StatusesOf(req[r].robotId) = {}
        /\ Answer(r, "Exception")
     \/ \E s \in StatusesOf(req[r].robotId) :
          IF s.TaskID = NULL
          THEN Answer(r, "NotFound")
          ELSE Continue(r, Nxt("nextCurrent", req[r].robotId, s.TaskID))
  /\ UNCHANGED Tables

(* SingleAsync throws unless exactly one row fits.                         *)
NextReadCurrent(r) ==
  LET current == {t \in TasksOf(req[r].robotId) : t.TaskID = req[r].current}
  IN  /\ req[r].pc = "nextCurrent"
      /\ \/ /\ Cardinality(current) # 1
            /\ Answer(r, "Exception")
         \/ /\ Cardinality(current) = 1
            /\ \E t \in current :
                 Continue(r, Nxt("nextNext", req[r].robotId, t.OrderNumber))
      /\ UNCHANGED Tables

NextTasks(h) ==
  {t \in TasksOf(h.robotId) :
     t.OrderNumber = IF h.current = NULL THEN NULL ELSE h.current + 1}

(* SingleOrDefaultAsync throws if several rows fit.  The discarded         *)
(* NoContent() changes nothing: a null result is sent as 204 as well.      *)
NextReadNext(r) ==
  /\ req[r].pc = "nextNext"
  /\ Answer(r, CASE Cardinality(NextTasks(req[r])) = 0 -> "NoContent"
                 [] Cardinality(NextTasks(req[r])) = 1 -> "Ok"
                 [] OTHER -> "Exception")
  /\ UNCHANGED Tables

-----------------------------------------------------------------------------
(* UpdateCurrentStatus(robotId, newStatus).  The robot id of the body need *)
(* not be that of the URL.                                                 *)

UpdateCurrentStatus(r, robotId, newStatus) ==
  Admit(r, {Upd("updAny", robotId, newStatus, {}, TasksOf(robotId))})

UpdGoes(r, pc, oldTasks) ==
  Continue(r, Upd(pc, req[r].robotId, req[r].newStatus, oldTasks, req[r].seen))

UpdAny(r) ==
  /\ req[r].pc = "updAny"
  /\ UpdGoes(r, IF StatusesOf(req[r].robotId) = {} THEN "updAdd"
                                                   ELSE "updModify", {})
  /\ UNCHANGED Tables

(* After SaveChanges: only a report without a task goes on.                *)
UpdSaved(r) ==
  IF req[r].newStatus.TaskID = NULL THEN UpdGoes(r, "updList", {})
                                    ELSE Answer(r, "Created")

(* INSERT: a row with this key since UpdAny is a DbUpdateException.        *)
UpdAdd(r) ==
  /\ req[r].pc = "updAdd"
  /\ IF StatusesOf(req[r].newStatus.RobotID) = {}
     THEN /\ statuses' = statuses \cup {req[r].newStatus}
          /\ UpdSaved(r)
     ELSE /\ Answer(r, "Exception")
          /\ UNCHANGED statuses
  /\ UNCHANGED <<waypoints, tasks, nextTaskID, routes, edited>>

(* UPDATE: no row with this key is a DbUpdateConcurrencyException.         *)
UpdModify(r) ==
  LET key == req[r].newStatus.RobotID
  IN  /\ req[r].pc = "updModify"
      /\ IF StatusesOf(key) # {}
         THEN /\ statuses' = (statuses \ StatusesOf(key))
                               \cup {req[r].newStatus}
              /\ UpdSaved(r)
         ELSE /\ Answer(r, "Exception")
              /\ UNCHANGED statuses
      /\ UNCHANGED <<waypoints, tasks, nextTaskID, routes, edited>>

(* Fault: the first task of a route is not listed.                         *)
UpdListFault(r) ==
  /\ req[r].pc = "updList"
  /\ UpdGoes(r, "updDelete",
             {t \in TasksOf(req[r].robotId) : t.OrderNumber # 0})
  /\ UNCHANGED Tables

(* Fault: the tasks of the body's robot are listed.                        *)
UpdListForeign(r) ==
  /\ req[r].pc = "updList"
  /\ UpdGoes(r, "updDelete", TasksOf(req[r].newStatus.RobotID))
  /\ UNCHANGED Tables

UpdList(r) ==
  /\ req[r].pc = "updList"
  /\ UpdGoes(r, "updDelete", TasksOf(req[r].robotId))
  /\ UNCHANGED Tables

TaskIDsOf(rows) == {t.TaskID : t \in rows}

(* Fault: DbUpdateConcurrencyException is swallowed.                       *)
UpdDeleteFault(r) ==
  /\ req[r].pc = "updDelete"
  /\ tasks' = IF TaskIDsOf(req[r].oldTasks) \subseteq TaskIDsOf(tasks)
              THEN {t \in tasks : t.TaskID \notin TaskIDsOf(req[r].oldTasks)}
              ELSE tasks
  /\ Answer(r, "Created")
  /\ UNCHANGED <<waypoints, statuses, nextTaskID, routes, edited>>

(* RemoveRange and SaveChanges: DELETE by key, row by row; a row that is   *)
(* gone rolls the transaction back with DbUpdateConcurrencyException.      *)
UpdDelete(r) ==
  /\ req[r].pc = "updDelete"
  /\ IF TaskIDsOf(req[r].oldTasks) \subseteq TaskIDsOf(tasks)
     THEN /\ tasks' = {t \in tasks :
                         t.TaskID \notin TaskIDsOf(req[r].oldTasks)}
          /\ Answer(r, "Created")
     ELSE /\ Answer(r, "Exception")
          /\ UNCHANGED tasks
  /\ UNCHANGED <<waypoints, statuses, nextTaskID, routes, edited>>

-----------------------------------------------------------------------------
(* The APIs of the three tables write while manager requests are in        *)
(* flight.  Each of their handlers writes in a single SaveChanges, shown   *)
(* here; the calls that change no row are left out (CrudAPI has them).     *)

PutWaypoint(w) ==
  /\ w.WaypointId \in IdsOf(waypoints)
  /\ waypoints' = {v \in waypoints : v.WaypointId # w.WaypointId} \cup {w}
  /\ UNCHANGED <<statuses, tasks, nextTaskID, req, routes, edited>>

PostWaypoint(w) ==
  /\ w.WaypointId \notin IdsOf(waypoints)
  /\ waypoints' = waypoints \cup {w}
  /\ UNCHANGED <<statuses, tasks, nextTaskID, req, routes, edited>>

DeleteWaypoint(id) ==
  /\ id \in IdsOf(waypoints)
  /\ waypoints' = {v \in waypoints : v.WaypointId # id}
  /\ UNCHANGED <<statuses, tasks, nextTaskID, req, routes, edited>>

EditWaypoints ==
  \/ \E w \in WaypointBodies : PutWaypoint(w) \/ PostWaypoint(w)
  \/ \E id \in IdsOf(WaypointBodies) : DeleteWaypoint(id)

(* The body's id is the URL's; any other column may change with it.        *)
PutTask(t) ==
  /\ t.TaskID \in TaskIDsOf(tasks)
  /\ tasks' = {u \in tasks : u.TaskID # t.TaskID} \cup {t}
  /\ edited' = edited \cup {t.TaskID}
  /\ UNCHANGED <<waypoints, statuses, nextTaskID, req, routes>>

(* A body without an id gets the counter's value, as if it had given it;   *)
(* the counter moves past an id that is given.                             *)
PostTask(t) ==
  /\ t.TaskID \notin TaskIDsOf(tasks)
  /\ tasks' = tasks \cup {t}
  /\ nextTaskID' = IF t.TaskID < nextTaskID THEN nextTaskID ELSE t.TaskID + 1
  /\ edited' = edited \cup {t.TaskID}
  /\ UNCHANGED <<waypoints, statuses, req, routes>>

DeleteTask(id) ==
  /\ id \in TaskIDsOf(tasks)
  /\ tasks' = {u \in tasks : u.TaskID # id}
  /\ edited' = edited \cup {id}
  /\ UNCHANGED <<waypoints, statuses, nextTaskID, req, routes>>

EditTasks ==
  \/ \E t \in TaskBodies : PutTask(t) \/ PostTask(t)
  \/ \E id \in TaskIDsOf(TaskBodies) : DeleteTask(id)

(* PutCurrentStatus or PostCurrentStatus: the row is there or is not.      *)
WriteStatus(s) ==
  /\ statuses' = (statuses \ StatusesOf(s.RobotID)) \cup {s}
  /\ UNCHANGED <<waypoints, tasks, nextTaskID, req, routes, edited>>

DeleteCurrentStatus(robotId) ==
  /\ StatusesOf(robotId) # {}
  /\ statuses' = statuses \ StatusesOf(robotId)
  /\ UNCHANGED <<waypoints, tasks, nextTaskID, req, routes, edited>>

-----------------------------------------------------------------------------
(* A robot may report any task id the server has handed out so far.        *)
StatusBodies ==
  [RobotID : Robots,
   TaskID : Nullable({id \in 1..MaxReported : id < nextTaskID})]

Arrive(r) ==
  \E robotId \in Robots :
     \/ \E j \in Journeys : NavigationTasks(r, robotId, j[1], j[2])
     \/ NextTask(r, robotId)
     \/ \E b \in StatusBodies : UpdateCurrentStatus(r, robotId, b)

Step(r) ==
  \/ NavReadWaypoint(r) \/ NavSave(r)
  \/ NextReadStatus(r) \/ NextReadCurrent(r) \/ NextReadNext(r)
  \/ UpdAny(r) \/ UpdAdd(r) \/ UpdModify(r) \/ UpdList(r) \/ UpdDelete(r)

EditStatuses ==
  \/ \E s \in StatusBodies : s.RobotID \in StatusRobots /\ WriteStatus(s)
  \/ \E robotId \in StatusRobots : DeleteCurrentStatus(robotId)

Next ==
  \/ \E r \in Requests : Arrive(r) \/ Step(r)
  \/ EditWaypoints \/ EditTasks \/ EditStatuses

Spec == Init /\ [][Next]_vars

-----------------------------------------------------------------------------
(* Properties *)

(* The rows the tasks API has not written.                                 *)
Unedited(rows) == {t \in rows : t.TaskID \notin edited}

(* A set of task rows holds each planned route whole or not at all, as far *)
(* as the tasks API has left it alone.                                     *)
HoldsWholeRoutes(rows) ==
  \A R \in routes : Unedited(R) \subseteq rows \/ Unedited(R) \cap rows = {}

(* However planning, the clean-up of awaiting robots and edits of single   *)
(* tasks interleave, what the edits left of a route is in the tasks table  *)
(* whole or not at all: NavigationTasks saves it in one SaveChanges, and   *)
(* UpdateCurrentStatus deletes what it listed in one go or fails as a      *)
(* whole, for instance when a task it listed was deleted meanwhile.        *)
RoutesWhole == HoldsWholeRoutes(tasks)

(* "Delete all the old tasks if the current task is null": when            *)
(* UpdateCurrentStatus answers a report without a task, none of the tasks  *)
(* the robot had when the report arrived is left, whatever other requests  *)
(* did meanwhile, unless the tasks API wrote it.                           *)
OldTasksDeleted ==
  [][\A r \in Requests :
       /\ req[r].pc = "updDelete"
       /\ req'[r] = Idle("Created")
       => Unedited(req[r].seen) \cap tasks' = {}]_vars

(* A planned task that the tasks API has left alone leaves the table only  *)
(* in the clean-up of a report without a task, sent to the URL of the      *)
(* task's robot: the deletion is by key, of rows listed earlier, and still *)
(* never hits the untouched task of another robot, although keys may be    *)
(* taken again and rows be moved from robot to robot meanwhile.            *)
CleanUpHitsOwnTasks ==
  [][\A t \in Unedited(tasks) \ tasks' :
       \/ t.TaskID \in edited'
       \/ \E r \in Requests : /\ req[r].pc = "updDelete"
                              /\ req[r].robotId = t.RobotID
                              /\ req[r].newStatus.TaskID = NULL]_vars

(* No planned hop is the command "null": the path and the commands come    *)
(* from one reading of the map, even when waypoints are edited between the *)
(* two, because the request's DbContext keeps the rows it read first.      *)
HopsNotNull ==
  \A R \in routes : \A t \in R : t.Command # NullCommand

-----------------------------------------------------------------------------
(* The inductive invariant behind the properties above *)

RouteRows == UNION routes

(* The tables: every task row the tasks API did not write was once saved   *)
(* as part of a route, no two rows of routes share a task id, the counter  *)
(* is ahead of all ids used, and a route is planned for one robot.         *)
TablesInv ==
  /\ \A v, w \in waypoints : v.WaypointId = w.WaypointId => v = w
  /\ Unedited(tasks) \subseteq RouteRows
  /\ \A id \in TaskIDsOf(RouteRows) \cup edited : id < nextTaskID
  /\ \A t, u \in RouteRows : t.TaskID = u.TaskID => t = u
  /\ \A R \in routes : \A t, u \in R : t.RobotID = u.RobotID

(* What a handler that serves a report knows at each of its steps: the     *)
(* rows it remembers are its robot's and, if not edited since, were once   *)
(* saved and hold routes whole; those it listed include all it saw on      *)
(* arrival that are left.                                                  *)
ReportInv(h) ==
  /\ h.pc \in {"updList", "updDelete"} => h.newStatus.TaskID = NULL
  /\ Unedited(h.seen \cup h.oldTasks) \subseteq RouteRows
  /\ \A t \in h.seen \cup h.oldTasks : t.RobotID = h.robotId
  /\ h.pc = "updDelete" => Unedited(h.seen) \cap tasks \subseteq h.oldTasks
  /\ HoldsWholeRoutes(h.oldTasks)

(* A handler that plans has a path along the connections of the rows it    *)
(* tracks, and those have distinct keys.                                   *)
PlanInv(h) ==
  /\ \A v, w \in h.tracked : v.WaypointId = w.WaypointId => v = w
  /\ Len(h.path) >= 1
  /\ \A i \in 1..(Len(h.path) - 1) :
        Connected(h.tracked, h.path[i], h.path[i + 1])

HandlerInv(h) ==
  /\ Reporting(h) => ReportInv(h)
  /\ Planning(h) => PlanInv(h)

IInv ==
  /\ TypeOK
  /\ TablesInv
  /\ RoutesWhole
  /\ HopsNotNull
  /\ \A r \in Requests : HandlerInv(req[r])

-----------------------------------------------------------------------------
(* What comments of the code say of it and it does not do *)

(* "Obtains a task for the current robot with order number larger by 1":   *)
(* NextTask never meets two candidates, on which SingleOrDefaultAsync      *)
(* throws.                                                                 *)
NextTaskUnambiguous ==
  \A r \in Requests :
     req[r].pc = "nextNext" => Cardinality(NextTasks(req[r])) <= 1

(* "Delete all the old tasks": UpdateCurrentStatus deletes no task planned *)
(* after the robot's report arrived.                                       *)
OnlyOldTasksDeleted ==
  [][\A t \in tasks \ tasks' :
       \E r \in Requests : req[r].pc = "updDelete" /\ t \in req[r].seen]_vars
=============================================================================
