----------------------------- MODULE Navigation -----------------------------
(***************************************************************************)
(* The map of waypoints and what the server computes from it:              *)
(* Utilities/Pathfinder.cs, Utilities/CommandConstructor.cs and            *)
(* MainManagerAPIController.TaskCommand.  There is no state here; every    *)
(* operator takes the rows of the waypoints table it works on.             *)
(*                                                                         *)
(* A row of the table keeps, for each of the four sides of a waypoint, the *)
(* neighbour on that side, the distance to it and the QR code seen there.  *)
(* A QR code's number and its distance always travel together, so they are *)
(* one value here.                                                         *)
(***************************************************************************)
EXTENDS Integers, Sequences, FiniteSets, FiniteSetsExt

CONSTANTS WaypointIDs,  \* the values a waypoint id takes
          QRs,          \* QR code number and distance, as one value
          NULL          \* a nullable column without a value

ASSUME NullAssumption == NULL \notin WaypointIDs /\ NULL \notin Int

Sides == {"Top", "Bottom", "Left", "Right"}

Nullable(S) == S \cup {NULL}

WaypointModel ==
  [WaypointId        : WaypointIDs,
   Waypoint_ID       : [Sides -> Nullable(WaypointIDs)],
   Waypoint_Distance : [Sides -> Nullable(Nat)],
   QR                : [Sides -> Nullable(QRs)]]

IdsOf(rows) == {w.WaypointId : w \in rows}

RowOf(rows, id) == CHOOSE w \in rows : w.WaypointId = id

-----------------------------------------------------------------------------
(* CommandConstructor.Goto.  "null", the text TaskCommand answers when the *)
(* two waypoints are not neighbours, is the command that goes nowhere.     *)

Command == [waypointId  : Nullable(WaypointIDs),
            QR_InFront  : Nullable(QRs),
            QR_Orient   : Nullable(Sides)]

Goto(waypointId, qr, orient) ==
  [waypointId |-> waypointId, QR_InFront |-> qr, QR_Orient |-> orient]

NullCommand == [waypointId |-> NULL, QR_InFront |-> NULL, QR_Orient |-> NULL]

(* The side of root on which dest lies; TaskCommand asks top, bottom, left *)
(* and right in this order, and the first that fits wins.                  *)
Leads(root, side, dest) == root.Waypoint_ID[side] = dest.WaypointId

SideTo(root, dest) ==
  IF Leads(root, "Top", dest) THEN "Top"
  ELSE IF Leads(root, "Bottom", dest) THEN "Bottom"
  ELSE IF Leads(root, "Left", dest) THEN "Left"
  ELSE "Right"

TaskCommand(root, dest) ==
  IF \E side \in Sides : Leads(root, side, dest)
  THEN LET side == SideTo(root, dest)
       IN  Goto(root.WaypointId, dest.QR[side], side)
  ELSE NullCommand

-----------------------------------------------------------------------------
(* Pathfinder.WaypointsListToStrings: every connection of a waypoint needs *)
(* a distance, or the conversion throws NullReferenceException.            *)
LacksDistance(w) ==
  \E side \in Sides : /\ w.Waypoint_ID[side] # NULL
                      /\ w.Waypoint_Distance[side] = NULL

ConversionThrows(rows) == \E w \in rows : LacksDistance(w)

(* What WaypointMapParser makes of a row without any connection (whose     *)
(* bracketed lists lose their opening bracket) or of a connection to an id *)
(* that has no row is the library's business: it may throw or it may not.  *)
ParserMayThrow(rows) ==
  \E w \in rows :
     \/ \A side \in Sides : w.Waypoint_ID[side] = NULL
     \/ \E side \in Sides : w.Waypoint_ID[side] \notin Nullable(IdsOf(rows))

(* The parsed WaypointMap: the connections that lead from row to row.      *)
Connected(rows, a, b) ==
  \E v \in rows, w \in rows : /\ v.WaypointId = a
                              /\ w.WaypointId = b
                              /\ \E side \in Sides : Leads(v, side, w)

Distance(rows, a, b) ==
  LET v == RowOf(rows, a)
  IN  Min({v.Waypoint_Distance[side] :
             side \in {s \in Sides : v.Waypoint_ID[s] = b}})

(* Every way from idStart to idEnd that visits no waypoint twice.          *)
Ways(rows, idStart, idEnd) ==
  {p \in UNION {[1..n -> IdsOf(rows)] : n \in 1..Cardinality(IdsOf(rows))} :
     /\ p[1] = idStart
     /\ p[Len(p)] = idEnd
     /\ \A i, j \in 1..Len(p) : p[i] = p[j] => i = j
     /\ \A i \in 1..(Len(p) - 1) : Connected(rows, p[i], p[i + 1])}

WayLength(rows, p) ==
  MapThenSumSet(LAMBDA i : Distance(rows, p[i], p[i + 1]), 1..(Len(p) - 1))

(* Pathfinder.GetPath: a shortest way, as DijkstraPathfinder finds one.    *)
(* The set is empty when an end is not on the map (the code throws) and    *)
(* when no way exists (whatever the library answers then, the callers find *)
(* no first waypoint and throw).                                           *)
GetPath(rows, idStart, idEnd) ==
  {p \in Ways(rows, idStart, idEnd) :
     \A q \in Ways(rows, idStart, idEnd) :
        WayLength(rows, p) <= WayLength(rows, q)}
=============================================================================
