------------------------------ MODULE CrudAPI -------------------------------
(***************************************************************************)
(* The controllers of the tables: WaypointsAPIController,                  *)
(* TasksAPIController and CurrentStatusAPIController, which are the same   *)
(* but for the table and the name of its key.  Every request has a         *)
(* DbContext of its own and no transaction spans two statements, so other  *)
(* requests run between the two statements of an edit or a deletion.  Keys *)
(* are given by the client.                                                *)
(***************************************************************************)
EXTENDS Table, Naturals, FiniteSets

ASSUME CrudAssumption == IsFiniteSet(Requests)

VARIABLE pc   \* the statement each request runs next

crud == <<table, pc>>

Pcs == {"arrive", "first", "exists", "remove", "answered"}

(* Answers come with what was asked for, and the table holds whole rows.   *)
TypeOK ==
  /\ rows \in [Keys -> Row]
  /\ call \in [Requests -> Calls \cup {NULL}]
  /\ reply \in [Requests -> Answers \cup {NULL}]
  /\ disturbed \subseteq Requests
  /\ pc \in [Requests -> Pcs]

CrudInit == Init /\ pc = [r \in Requests |-> "arrive"]

Goes(r, p) == pc' = [pc EXCEPT ![r] = p]

(* A request that asks for op and is at its first statement.               *)
First(r, op) == pc[r] = "first" /\ call[r].op = op

Replies(r, code, body) ==
  /\ Answer(r, code, body)
  /\ Goes(r, "answered")
  /\ UNCHANGED call

Arrive(r) ==
  /\ pc[r] = "arrive"
  /\ \E c \in Calls : Invoke(r, c)
  /\ Goes(r, "first")

-----------------------------------------------------------------------------
(* ToListAsync *)
GetTable(r) ==
  /\ First(r, "getall")
  /\ Replies(r, "OK", rows)
  /\ Untouched

(* FindAsync *)
GetRow(r) ==
  /\ First(r, "get")
  /\ IF rows[call[r].id] = NULL
     THEN Replies(r, "NotFound", NULL)
     ELSE Replies(r, "OK", rows[call[r].id])
  /\ Untouched

-----------------------------------------------------------------------------
(* Fault: the key is written where the columns belong.                     *)
PutRowFault(r) ==
  /\ First(r, "put")
  /\ Replies(r, "NoContent", NULL)
  /\ Write(call[r].id, call[r].key)

(* PUT: an id that is not the body's is refused; otherwise UPDATE.  When   *)
(* that finds no row, DbUpdateConcurrencyException is caught.              *)
PutRow(r) ==
  /\ First(r, "put")
  /\ \/ /\ call[r].id # call[r].key
        /\ Replies(r, "BadRequest", NULL)
        /\ Untouched
     \/ /\ call[r].id = call[r].key
        /\ rows[call[r].id] # NULL
        /\ Replies(r, "NoContent", NULL)
        /\ Write(call[r].id, call[r].value)
     \/ /\ call[r].id = call[r].key
        /\ rows[call[r].id] = NULL
        /\ Goes(r, "exists")
        /\ UNCHANGED table

(* Fault: the exception is taken for a missing row without another look.   *)
RowExistsFault(r) ==
  /\ pc[r] = "exists"
  /\ Replies(r, "NotFound", NULL)
  /\ Untouched

(* Is the row there?  If it is, the exception is thrown on.                *)
RowExists(r) ==
  /\ pc[r] = "exists"
  /\ IF rows[call[r].id] = NULL
     THEN Replies(r, "NotFound", NULL)
     ELSE Replies(r, "Error", NULL)
  /\ Untouched

-----------------------------------------------------------------------------
(* POST: INSERT, which fails when the key is taken.                        *)
PostRow(r) ==
  /\ First(r, "post")
  /\ \/ /\ rows[call[r].id] = NULL
        /\ Replies(r, "Created", NULL)
        /\ Write(call[r].id, call[r].value)
     \/ /\ rows[call[r].id] # NULL
        /\ Replies(r, "Error", NULL)
        /\ Untouched

-----------------------------------------------------------------------------
(* DELETE: FindAsync, then Remove and SaveChangesAsync.                    *)
FindRow(r) ==
  /\ First(r, "delete")
  /\ \/ /\ rows[call[r].id] = NULL
        /\ Replies(r, "NotFound", NULL)
        /\ Untouched
     \/ /\ rows[call[r].id] # NULL
        /\ Goes(r, "remove")
        /\ UNCHANGED table

(* Fault: that the row is gone by now goes unnoticed.                      *)
RemoveRowFault(r) ==
  /\ pc[r] = "remove"
  /\ Replies(r, "NoContent", NULL)
  /\ Write(call[r].id, NULL)

(* DELETE FROM, which must find the row again.                             *)
RemoveRow(r) ==
  /\ pc[r] = "remove"
  /\ \/ /\ rows[call[r].id] # NULL
        /\ Replies(r, "NoContent", NULL)
        /\ Write(call[r].id, NULL)
     \/ /\ rows[call[r].id] = NULL
        /\ Replies(r, "Error", NULL)
        /\ Untouched

-----------------------------------------------------------------------------
Step(r) ==
  \/ Arrive(r) \/ GetTable(r) \/ GetRow(r) \/ PutRow(r) \/ RowExists(r)
  \/ PostRow(r) \/ FindRow(r) \/ RemoveRow(r)

CrudNext == \E r \in Requests : Step(r)

CrudSpec == CrudInit /\ [][CrudNext]_crud

-----------------------------------------------------------------------------
(* Properties *)

(* The controllers keep the promise of Table: however the statements of    *)
(* overlapping calls interleave, each call takes effect once, answers for  *)
(* one moment of its run, and fails only when its row came or went.        *)
ImplementsTable == Spec

Answered(k, op, code) ==
  {r \in Requests : /\ reply[r] # NULL
                    /\ call[r].op = op /\ reply[r].code = code
                    /\ call[r].id = k}

Present(row) == IF row = NULL THEN 0 ELSE 1

(* No row is created or deleted twice: the calls that were told they had   *)
(* done it account for the rows that are there.                            *)
RowsAccounted ==
  \A k \in Keys :
     Present(Initial[k]) + Cardinality(Answered(k, "post", "Created"))
       = Present(rows[k]) + Cardinality(Answered(k, "delete", "NoContent"))
=============================================================================
