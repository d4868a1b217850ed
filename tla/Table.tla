------------------------------- MODULE Table --------------------------------
(***************************************************************************)
(* What the API of one table promises its clients: calls overlap, but each *)
(* takes effect at once and at most once, somewhere between its arrival    *)
(* and its answer, and the answer tells what the table was like at that    *)
(* moment.  An edit or a deletion may fail, without effect, but only when  *)
(* its row appeared or vanished while it was under way.                    *)
(***************************************************************************)
CONSTANTS Requests,  \* the calls that may be made, one each
          Keys,      \* the primary keys
          Values,    \* what the other columns of a row may hold
          NULL,      \* no row; no call or answer yet
          Initial    \* the table the server starts with

Row == Values \cup {NULL}

Calls ==
  [op : {"getall"}]
    \cup [op : {"get", "delete"}, id : Keys]
    \cup [op : {"put"}, id : Keys, key : Keys, value : Values]
    \cup [op : {"post"}, id : Keys, value : Values]

Answers ==
  [code : {"OK", "NotFound", "BadRequest", "NoContent", "Created", "Error"},
   body : Row \cup [Keys -> Row]]

ASSUME TableAssumption ==
  /\ NULL \notin Values \cup Calls \cup Answers
  /\ Initial \in [Keys -> Row]

VARIABLES rows,       \* the table: the row of each key
          call,       \* the call each request makes
          reply,      \* its answer
          disturbed   \* calls whose row appeared or vanished under them

table == <<rows, call, reply, disturbed>>

Init ==
  /\ rows = Initial
  /\ call = [r \in Requests |-> NULL]
  /\ reply = [r \in Requests |-> NULL]
  /\ disturbed = {}

(* The calls under way, and those of them that are about the row k.        *)
Pending == {r \in Requests : call[r] # NULL /\ reply[r] = NULL}

About(k) == {r \in Pending : call[r].op # "getall" /\ call[r].id = k}

Invoke(r, c) ==
  /\ call[r] = NULL
  /\ call' = [call EXCEPT ![r] = c]
  /\ UNCHANGED <<rows, reply, disturbed>>

Answer(r, code, body) ==
  reply' = [reply EXCEPT ![r] = [code |-> code, body |-> body]]

Write(k, v) ==
  /\ rows' = [rows EXCEPT ![k] = v]
  /\ disturbed' = IF (rows[k] = NULL) = (v = NULL)
                  THEN disturbed
                  ELSE disturbed \cup About(k)

Untouched == UNCHANGED <<rows, disturbed>>

Is(r, op) == r \in Pending /\ call[r].op = op

GetAll(r) ==
  /\ Is(r, "getall")
  /\ Answer(r, "OK", rows) /\ Untouched
  /\ UNCHANGED call

Get(r) ==
  /\ Is(r, "get")
  /\ \/ /\ rows[call[r].id] # NULL
        /\ Answer(r, "OK", rows[call[r].id]) /\ Untouched
     \/ /\ rows[call[r].id] = NULL
        /\ Answer(r, "NotFound", NULL) /\ Untouched
  /\ UNCHANGED call

Put(r) ==
  /\ Is(r, "put")
  /\ \/ /\ call[r].id # call[r].key
        /\ Answer(r, "BadRequest", NULL) /\ Untouched
     \/ /\ call[r].id = call[r].key /\ rows[call[r].id] # NULL
        /\ Answer(r, "NoContent", NULL)
        /\ Write(call[r].id, call[r].value)
     \/ /\ call[r].id = call[r].key /\ rows[call[r].id] = NULL
        /\ Answer(r, "NotFound", NULL) /\ Untouched
     \/ /\ call[r].id = call[r].key /\ r \in disturbed
        /\ Answer(r, "Error", NULL) /\ Untouched
  /\ UNCHANGED call

Post(r) ==
  /\ Is(r, "post")
  /\ \/ /\ rows[call[r].id] = NULL
        /\ Answer(r, "Created", NULL)
        /\ Write(call[r].id, call[r].value)
     \/ /\ rows[call[r].id] # NULL
        /\ Answer(r, "Error", NULL) /\ Untouched
  /\ UNCHANGED call

Delete(r) ==
  /\ Is(r, "delete")
  /\ \/ /\ rows[call[r].id] # NULL
        /\ Answer(r, "NoContent", NULL)
        /\ Write(call[r].id, NULL)
     \/ /\ rows[call[r].id] = NULL
        /\ Answer(r, "NotFound", NULL) /\ Untouched
     \/ /\ r \in disturbed
        /\ Answer(r, "Error", NULL) /\ Untouched
  /\ UNCHANGED call

Next ==
  \E r \in Requests :
     \/ \E c \in Calls : Invoke(r, c)
     \/ GetAll(r) \/ Get(r) \/ Put(r) \/ Post(r) \/ Delete(r)

Spec == Init /\ [][Next]_table
=============================================================================
