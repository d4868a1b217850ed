--------------------------- MODULE CrudAPIProofs ----------------------------
(***************************************************************************)
(* The controllers of the tables implement Table, for any number of        *)
(* overlapping calls on a table of any size.                               *)
(***************************************************************************)
EXTENDS CrudAPI, FiniteSetTheorems, TLAPS

(* Where a request is says what it has; a request that found its row       *)
(* missing, or there, was disturbed if that has changed since.             *)
AtStatement(r) ==
  /\ pc[r] = "arrive" <=> call[r] = NULL
  /\ pc[r] = "answered" <=> reply[r] # NULL
  /\ pc[r] = "exists" => /\ call[r].op = "put"
                         /\ call[r].id = call[r].key
                         /\ rows[call[r].id] # NULL => r \in disturbed
  /\ pc[r] = "remove" => /\ call[r].op = "delete"
                         /\ rows[call[r].id] = NULL => r \in disturbed

IInv == TypeOK /\ \A r \in Requests : AtStatement(r)

-----------------------------------------------------------------------------
(* A call has the members its kind uses, and nothing is NULL by accident.  *)
LEMMA CallMembers ==
  ASSUME NEW c \in Calls
  PROVE  /\ c # NULL
         /\ c.op \in {"getall", "get", "delete", "put", "post"}
         /\ c.op # "getall" => c.id \in Keys
         /\ c.op = "put" => c.value \in Values /\ c.key \in Keys
         /\ c.op = "post" => c.value \in Values
  BY TableAssumption, SMT DEF Calls

(* What Answer writes is an answer.                                        *)
LEMMA AnswerIsAnswer ==
  ASSUME TypeOK, NEW r \in Requests,
         NEW code \in {"OK", "NotFound", "BadRequest", "NoContent",
                       "Created", "Error"},
         NEW body \in Row \cup [Keys -> Row],
         Answer(r, code, body)
  PROVE  /\ reply' \in [Requests -> Answers \cup {NULL}]
         /\ reply'[r] # NULL
         /\ reply'[r] \in Answers
         /\ \A q \in Requests \ {r} : reply'[q] = reply[q]
  <1> DEFINE a == [code |-> code, body |-> body]
  <1>1. a \in Answers
    BY DEF Answers
  <1>2. a # NULL
    BY <1>1, TableAssumption
  <1>3. reply' = [reply EXCEPT ![r] = a]
    BY DEF Answer
  <1> HIDE DEF a
  <1> QED
    BY <1>1, <1>2, <1>3 DEF TypeOK

(* The initial states.                                                     *)
LEMMA InitIInv == CrudInit => IInv
  BY TableAssumption, SMT DEF CrudInit, Init, IInv, TypeOK, AtStatement, Pcs

-----------------------------------------------------------------------------
(* The write of a row disturbs every other call under way about it.        *)
LEMMA WriteDisturbs ==
  ASSUME IInv, NEW r \in Requests, pc[r] \notin {"arrive", "answered"},
         NEW k \in Keys, NEW v \in Row, Write(k, v)
  PROVE  /\ rows' \in [Keys -> Row]
         /\ disturbed \subseteq disturbed' /\ disturbed' \subseteq Requests
         /\ \A l \in Keys : l # k => rows'[l] = rows[l]
         /\ rows'[k] = v
         /\ \A q \in Requests :
              /\ pc[q] \in {"exists", "remove"}
              /\ call[q].id = k
              /\ (rows[k] = NULL) # (v = NULL)
              => q \in disturbed'
  <1>1. rows' = [rows EXCEPT ![k] = v] /\ rows \in [Keys -> Row]
    BY DEF Write, IInv, TypeOK
  <1>2. disturbed \subseteq disturbed' /\ disturbed' \subseteq Requests
    BY SMT DEF Write, IInv, TypeOK, About, Pending
  <1>3. ASSUME NEW q \in Requests, pc[q] \in {"exists", "remove"},
               call[q].id = k, (rows[k] = NULL) # (v = NULL)
        PROVE  q \in disturbed'
    <2>1. call[q] # NULL /\ reply[q] = NULL /\ call[q].op # "getall"
      BY <1>3, SMT DEF IInv, AtStatement
    <2>2. q \in About(k)
      BY <2>1, <1>3 DEF About, Pending
    <2>3. disturbed' = disturbed \cup About(k)
      BY <1>3 DEF Write
    <2> QED
      BY <2>2, <2>3
  <1> QED
    BY <1>1, <1>2, <1>3

-----------------------------------------------------------------------------
(* A request that answers without a write.                                 *)
LEMMA ReplyKeepsIInv ==
  ASSUME IInv, NEW r \in Requests, pc[r] \notin {"arrive", "answered"},
         NEW code \in {"OK", "NotFound", "BadRequest", "NoContent",
                       "Created", "Error"},
         NEW body \in Row \cup [Keys -> Row],
         Replies(r, code, body), Untouched
  PROVE  IInv'
  <1>1. /\ reply' \in [Requests -> Answers \cup {NULL}]
        /\ reply'[r] # NULL
        /\ \A q \in Requests \ {r} : reply'[q] = reply[q]
    BY AnswerIsAnswer DEF Replies, IInv
  <1>2. TypeOK /\ \A q \in Requests : AtStatement(q)
    BY DEF IInv
  <1>3. /\ pc' = [pc EXCEPT ![r] = "answered"]
        /\ rows' = rows /\ call' = call /\ disturbed' = disturbed
    BY DEF Replies, Goes, Untouched
  <1>4. TypeOK'
    BY <1>1, <1>2, <1>3, SMT DEF TypeOK, Pcs
  <1>5. ASSUME NEW q \in Requests PROVE AtStatement(q)'
    BY <1>1, <1>2, <1>3, SMT DEF TypeOK, AtStatement
  <1> QED
    BY <1>4, <1>5 DEF IInv

(* A request that answers with a write.                                    *)
LEMMA WriteKeepsIInv ==
  ASSUME IInv, NEW r \in Requests, pc[r] \notin {"arrive", "answered"},
         NEW code \in {"OK", "NotFound", "BadRequest", "NoContent",
                       "Created", "Error"},
         NEW k \in Keys, NEW v \in Row,
         Replies(r, code, NULL), Write(k, v)
  PROVE  IInv'
  <1>0. NULL \in Row \cup [Keys -> Row]
    BY DEF Row
  <1>1. /\ reply' \in [Requests -> Answers \cup {NULL}]
        /\ reply'[r] # NULL
        /\ \A q \in Requests \ {r} : reply'[q] = reply[q]
    BY <1>0, AnswerIsAnswer DEF Replies, IInv
  <1>2. TypeOK /\ \A q \in Requests : AtStatement(q)
    BY DEF IInv
  <1>3. pc' = [pc EXCEPT ![r] = "answered"] /\ call' = call
    BY DEF Replies, Goes
  <1>4. /\ rows' \in [Keys -> Row]
        /\ disturbed \subseteq disturbed' /\ disturbed' \subseteq Requests
        /\ \A l \in Keys : l # k => rows'[l] = rows[l]
        /\ rows'[k] = v
        /\ \A q \in Requests :
              /\ pc[q] \in {"exists", "remove"}
              /\ call[q].id = k
              /\ (rows[k] = NULL) # (v = NULL)
              => q \in disturbed'
    BY WriteDisturbs
  <1>5. TypeOK'
    BY <1>1, <1>2, <1>3, <1>4, SMT DEF TypeOK, Pcs
  <1>6. ASSUME NEW q \in Requests PROVE AtStatement(q)'
    <2>1. CASE q = r
      BY <2>1, <1>1, <1>2, <1>3, SMT DEF TypeOK, AtStatement
    <2>2. CASE q # r /\ pc[q] \notin {"exists", "remove"}
      BY <2>2, <1>1, <1>2, <1>3, SMT DEF TypeOK, AtStatement
    <2>3. CASE q # r /\ pc[q] \in {"exists", "remove"}
      <3>1. call[q] \in Calls /\ call[q].op \in {"put", "delete"}
        BY <2>3, <1>2, SMT DEF AtStatement, TypeOK
      <3>2. call[q].id \in Keys
        BY <3>1, CallMembers
      <3>3. /\ pc'[q] = pc[q] /\ call'[q] = call[q] /\ reply'[q] = reply[q]
        BY <2>3, <1>1, <1>3 DEF TypeOK, IInv
      <3>4. CASE call[q].id = k
        BY <3>3, <3>4, <2>3, <1>2, <1>4, SMT DEF AtStatement
      <3>5. CASE call[q].id # k
        BY <3>2, <3>3, <3>5, <2>3, <1>2, <1>4, SMT DEF AtStatement
      <3> QED
        BY <3>4, <3>5
    <2> QED
      BY <2>1, <2>2, <2>3
  <1> QED
    BY <1>5, <1>6 DEF IInv

-----------------------------------------------------------------------------
(* A request at its first statement has a call and no answer.              *)
LEMMA UnderWay ==
  ASSUME IInv, NEW r \in Requests, pc[r] \notin {"arrive", "answered"}
  PROVE  /\ r \in Pending
         /\ call[r] \in Calls
         /\ call[r].op # "getall" => /\ call[r].id \in Keys
                                     /\ rows[call[r].id] \in Row
         /\ call[r].op \in {"put", "post"} => call[r].value \in Row
         /\ rows \in Row \cup [Keys -> Row]
         /\ NULL \in Row \cup [Keys -> Row]
  <1>1. call[r] # NULL /\ reply[r] = NULL /\ TypeOK
    BY DEF IInv, AtStatement
  <1>2. call[r] \in Calls
    BY <1>1 DEF TypeOK
  <1> QED
    BY <1>1, <1>2, CallMembers DEF Pending, TypeOK, Row

(* Every step keeps IInv and is a step of Table or changes nothing of it.  *)
LEMMA StepRefines ==
  ASSUME IInv, NEW r \in Requests, Step(r)
  PROVE  IInv' /\ [Next]_table
  <1> USE DEF Is
  <1>1. CASE Arrive(r)
    <2>1. PICK c \in Calls : Invoke(r, c)
      BY <1>1 DEF Arrive
    <2>2. Next
      BY <2>1 DEF Next
    <2>3. TypeOK /\ (\A q \in Requests : AtStatement(q)) /\ c # NULL
      BY CallMembers DEF IInv
    <2>4. TypeOK'
      BY <1>1, <2>1, <2>3, SMT DEF TypeOK, Arrive, Invoke, Goes, Pcs
    <2>5. ASSUME NEW q \in Requests PROVE AtStatement(q)'
      BY <1>1, <2>1, <2>3, SMT DEF TypeOK, Arrive, Invoke, Goes, AtStatement
    <2> QED
      BY <2>2, <2>4, <2>5 DEF IInv
  <1>2. CASE GetTable(r)
    <2>1. r \in Pending /\ rows \in Row \cup [Keys -> Row]
      BY <1>2, UnderWay DEF GetTable, First
    <2>2. IInv'
      BY <1>2, <2>1, ReplyKeepsIInv DEF GetTable, First
    <2>3. GetAll(r)
      BY <1>2, <2>1 DEF GetTable, First, GetAll, Replies
    <2> QED
      BY <2>2, <2>3 DEF Next
  <1>3. CASE GetRow(r)
    <2>1. /\ r \in Pending /\ call[r].op = "get"
          /\ rows[call[r].id] \in Row \cup [Keys -> Row]
          /\ NULL \in Row \cup [Keys -> Row]
      BY <1>3, UnderWay DEF GetRow, First
    <2>2. IInv'
      BY <1>3, <2>1, ReplyKeepsIInv DEF GetRow, First
    <2>3. Get(r)
      BY <1>3, <2>1 DEF GetRow, Get, Replies
    <2> QED
      BY <2>2, <2>3 DEF Next
  <1>4. CASE PutRow(r)
    <2>1. /\ r \in Pending /\ call[r].op = "put" /\ call[r].id \in Keys
          /\ call[r].value \in Row /\ pc[r] = "first"
          /\ NULL \in Row \cup [Keys -> Row]
      BY <1>4, UnderWay DEF PutRow, First
    <2>2. CASE call[r].id # call[r].key
      <3>1. Replies(r, "BadRequest", NULL) /\ Untouched
        BY <1>4, <2>2 DEF PutRow
      <3>2. IInv'
        BY <2>1, <3>1, ReplyKeepsIInv
      <3>3. Put(r)
        BY <2>1, <2>2, <3>1 DEF Put, Replies
      <3> QED
        BY <3>2, <3>3 DEF Next
    <2>3. CASE call[r].id = call[r].key /\ rows[call[r].id] # NULL
      <3>1. Replies(r, "NoContent", NULL) /\ Write(call[r].id, call[r].value)
        BY <1>4, <2>3 DEF PutRow
      <3>2. IInv'
        BY <2>1, <3>1, WriteKeepsIInv
      <3>3. Put(r)
        BY <2>1, <2>3, <3>1 DEF Put, Replies
      <3> QED
        BY <3>2, <3>3 DEF Next
    <2>4. CASE call[r].id = call[r].key /\ rows[call[r].id] = NULL
      <3>1. Goes(r, "exists") /\ UNCHANGED table
        BY <1>4, <2>4 DEF PutRow
      <3>2. TypeOK'
        BY <3>1, SMT DEF IInv, TypeOK, table, Goes, Pcs
      <3>3. ASSUME NEW q \in Requests PROVE AtStatement(q)'
        BY <3>1, <2>1, <2>4, SMT DEF IInv, TypeOK, table, Goes, AtStatement
      <3> QED
        BY <3>1, <3>2, <3>3 DEF IInv
    <2> QED
      BY <2>2, <2>3, <2>4
  <1>5. CASE RowExists(r)
    <2>1. /\ r \in Pending /\ call[r].op = "put" /\ call[r].id = call[r].key
          /\ rows[call[r].id] # NULL => r \in disturbed
          /\ NULL \in Row \cup [Keys -> Row]
      BY <1>5, UnderWay DEF RowExists, IInv, AtStatement
    <2>2. IInv'
      BY <1>5, <2>1, ReplyKeepsIInv DEF RowExists
    <2>3. Put(r)
      BY <1>5, <2>1 DEF RowExists, Put, Replies
    <2> QED
      BY <2>2, <2>3 DEF Next
  <1>6. CASE PostRow(r)
    <2>1. /\ r \in Pending /\ call[r].op = "post" /\ call[r].id \in Keys
          /\ call[r].value \in Row /\ pc[r] = "first"
          /\ NULL \in Row \cup [Keys -> Row]
      BY <1>6, UnderWay DEF PostRow, First
    <2>2. IInv'
      BY <1>6, <2>1, ReplyKeepsIInv, WriteKeepsIInv DEF PostRow
    <2>3. Post(r)
      BY <1>6, <2>1 DEF PostRow, Post, Replies
    <2> QED
      BY <2>2, <2>3 DEF Next
  <1>7. CASE FindRow(r)
    <2>1. /\ r \in Pending /\ call[r].op = "delete" /\ pc[r] = "first"
          /\ NULL \in Row \cup [Keys -> Row]
      BY <1>7, UnderWay DEF FindRow, First
    <2>2. CASE rows[call[r].id] = NULL
      <3>1. Replies(r, "NotFound", NULL) /\ Untouched
        BY <1>7, <2>2 DEF FindRow
      <3>2. IInv'
        BY <2>1, <3>1, ReplyKeepsIInv
      <3>3. Delete(r)
        BY <2>1, <2>2, <3>1 DEF Delete, Replies
      <3> QED
        BY <3>2, <3>3 DEF Next
    <2>3. CASE rows[call[r].id] # NULL
      <3>1. Goes(r, "remove") /\ UNCHANGED table
        BY <1>7, <2>3 DEF FindRow
      <3>2. TypeOK'
        BY <3>1, SMT DEF IInv, TypeOK, table, Goes, Pcs
      <3>3. ASSUME NEW q \in Requests PROVE AtStatement(q)'
        BY <3>1, <2>1, <2>3, SMT DEF IInv, TypeOK, table, Goes, AtStatement
      <3> QED
        BY <3>1, <3>2, <3>3 DEF IInv
    <2> QED
      BY <2>2, <2>3
  <1>8. CASE RemoveRow(r)
    <2>1. /\ r \in Pending /\ call[r].op = "delete" /\ call[r].id \in Keys
          /\ rows[call[r].id] = NULL => r \in disturbed
          /\ NULL \in Row /\ NULL \in Row \cup [Keys -> Row]
      BY <1>8, UnderWay DEF RemoveRow, IInv, AtStatement, Row
    <2>2. IInv'
      BY <1>8, <2>1, ReplyKeepsIInv, WriteKeepsIInv DEF RemoveRow
    <2>3. Delete(r)
      BY <1>8, <2>1 DEF RemoveRow, Delete, Replies
    <2> QED
      BY <2>2, <2>3 DEF Next
  <1> QED
    BY <1>1, <1>2, <1>3, <1>4, <1>5, <1>6, <1>7, <1>8 DEF Step

-----------------------------------------------------------------------------
(* The type invariant of the controllers holds for any number of calls.    *)
THEOREM CrudTypeCorrect == CrudSpec => []TypeOK
  <1>1. IInv /\ [CrudNext]_crud => IInv'
    <2> SUFFICES ASSUME IInv, [CrudNext]_crud PROVE IInv'
      OBVIOUS
    <2>1. CASE CrudNext
      BY <2>1, StepRefines DEF CrudNext
    <2>2. CASE UNCHANGED crud
      BY <2>2 DEF crud, table, IInv, TypeOK, AtStatement
    <2> QED
      BY <2>1, <2>2
  <1>2. IInv => TypeOK
    BY DEF IInv
  <1> QED
    BY InitIInv, <1>1, <1>2, PTL DEF CrudSpec

(* Refinement: the controllers' statements implement the atomic calls of   *)
(* Table.                                                                  *)
THEOREM ControllersImplementTable == CrudSpec => ImplementsTable
  <1>1. CrudInit => Init
    BY DEF CrudInit
  <1>2. IInv /\ [CrudNext]_crud => IInv' /\ [Next]_table
    <2> SUFFICES ASSUME IInv, [CrudNext]_crud PROVE IInv' /\ [Next]_table
      OBVIOUS
    <2>1. CASE CrudNext
      BY <2>1, StepRefines DEF CrudNext
    <2>2. CASE UNCHANGED crud
      BY <2>2 DEF crud, table, IInv, TypeOK, AtStatement
    <2> QED
      BY <2>1, <2>2
  <1> QED
    BY InitIInv, <1>1, <1>2, PTL DEF CrudSpec, ImplementsTable, Spec

-----------------------------------------------------------------------------
(* The accounts of one row.                                                *)
Balanced(k) ==
  Present(Initial[k]) + Cardinality(Answered(k, "post", "Created"))
    = Present(rows[k]) + Cardinality(Answered(k, "delete", "NoContent"))

(* An answer adds its call to one of the sets of answered calls at most.   *)
LEMMA AnsweredGrows ==
  ASSUME IInv, NEW r \in Requests, pc[r] \notin {"arrive", "answered"},
         NEW code \in {"OK", "NotFound", "BadRequest", "NoContent",
                       "Created", "Error"},
         NEW body \in Row \cup [Keys -> Row],
         Replies(r, code, body),
         NEW k, NEW op, NEW c
  PROVE  /\ r \notin Answered(k, op, c)
         /\ call[r].op = op /\ code = c /\ call[r].id = k
              => Answered(k, op, c)' = Answered(k, op, c) \cup {r}
         /\ ~(call[r].op = op /\ code = c /\ call[r].id = k)
              => Answered(k, op, c)' = Answered(k, op, c)
  <1>1. /\ reply'[r] # NULL
        /\ \A q \in Requests \ {r} : reply'[q] = reply[q]
    BY AnswerIsAnswer DEF Replies, IInv
  <1>2. reply'[r].code = code
    BY DEF Replies, Answer, IInv, TypeOK
  <1>3. reply[r] = NULL /\ call' = call
    BY DEF IInv, AtStatement, Replies
  <1> QED
    BY <1>1, <1>2, <1>3 DEF Answered

(* The sets of answered calls are finite, and one more call counts one.    *)
LEMMA OneMore ==
  ASSUME NEW k, NEW op, NEW c
  PROVE  /\ Cardinality(Answered(k, op, c)) \in Nat
         /\ \A r \in Requests : r \notin Answered(k, op, c) =>
              Cardinality(Answered(k, op, c) \cup {r})
                = Cardinality(Answered(k, op, c)) + 1
  <1>1. IsFiniteSet(Answered(k, op, c))
    BY CrudAssumption, FS_Subset DEF Answered
  <1> QED
    BY <1>1, FS_CardinalityType, FS_AddElement

(* An answer that reports no creation or deletion, without such a write.   *)
LEMMA QuietKeepsBalance ==
  ASSUME IInv, NEW r \in Requests, pc[r] \notin {"arrive", "answered"},
         NEW code \in {"OK", "NotFound", "BadRequest", "NoContent",
                       "Created", "Error"},
         NEW body \in Row \cup [Keys -> Row],
         Replies(r, code, body),
         ~(call[r].op = "post" /\ code = "Created"),
         ~(call[r].op = "delete" /\ code = "NoContent"),
         NEW k \in Keys, Balanced(k), (rows[k] = NULL) <=> (rows'[k] = NULL)
  PROVE  Balanced(k)'
  <1>1. Answered(k, "post", "Created")' = Answered(k, "post", "Created")
    BY AnsweredGrows
  <1>2. Answered(k, "delete", "NoContent")'
          = Answered(k, "delete", "NoContent")
    BY AnsweredGrows
  <1> QED
    BY <1>1, <1>2 DEF Balanced, Present

(* A step that answers nothing and writes nothing.                         *)
LEMMA StillKeepsBalance ==
  ASSUME NEW k \in Keys, Balanced(k), UNCHANGED <<rows, reply>>,
         \A q \in Requests : reply[q] # NULL => call'[q] = call[q]
  PROVE  Balanced(k)'
  <1>1. \A op, c : Answered(k, op, c)' = Answered(k, op, c)
    BY DEF Answered
  <1> QED
    BY <1>1 DEF Balanced

(* Every step keeps the accounts of every row.                             *)
LEMMA StepKeepsBalance ==
  ASSUME IInv, NEW r \in Requests, Step(r), NEW k \in Keys, Balanced(k)
  PROVE  Balanced(k)'
  <1>1. CASE Arrive(r)
    <2>1. UNCHANGED <<rows, reply>> /\ reply[r] = NULL
      BY <1>1 DEF Arrive, Invoke, IInv, AtStatement
    <2>2. \A q \in Requests : reply[q] # NULL => call'[q] = call[q]
      BY <1>1, <2>1 DEF Arrive, Invoke, IInv, TypeOK
    <2> QED
      BY <2>1, <2>2, StillKeepsBalance
  <1>2. CASE GetTable(r)
    <2>1. rows \in Row \cup [Keys -> Row] /\ pc[r] = "first"
      BY <1>2, UnderWay DEF GetTable, First
    <2> QED
      BY <1>2, <2>1, QuietKeepsBalance DEF GetTable, First, Untouched
  <1>3. CASE GetRow(r)
    <2>1. /\ rows[call[r].id] \in Row \cup [Keys -> Row]
          /\ NULL \in Row \cup [Keys -> Row] /\ pc[r] = "first"
      BY <1>3, UnderWay DEF GetRow, First
    <2> QED
      BY <1>3, <2>1, QuietKeepsBalance DEF GetRow, First, Untouched
  <1>4. CASE PutRow(r)
    <2>1. /\ call[r].op = "put" /\ call[r] \in Calls /\ pc[r] = "first"
          /\ NULL \in Row \cup [Keys -> Row]
      BY <1>4, UnderWay DEF PutRow, First
    <2>2. CASE Goes(r, "exists") /\ UNCHANGED table
      BY <2>2, StillKeepsBalance DEF table
    <2>3. CASE Replies(r, "BadRequest", NULL) /\ Untouched
      BY <2>1, <2>3, QuietKeepsBalance DEF Untouched
    <2>4. CASE /\ rows[call[r].id] # NULL
               /\ Replies(r, "NoContent", NULL)
               /\ Write(call[r].id, call[r].value)
      <3>1. call[r].value # NULL
        BY <2>1, CallMembers, TableAssumption
      <3>2. (rows[k] = NULL) <=> (rows'[k] = NULL)
        BY <2>4, <3>1 DEF Write, IInv, TypeOK
      <3> QED
        BY <2>1, <2>4, <3>2, QuietKeepsBalance
    <2> QED
      BY <1>4, <2>2, <2>3, <2>4 DEF PutRow
  <1>5. CASE RowExists(r)
    <2>1. call[r].op = "put" /\ NULL \in Row \cup [Keys -> Row]
      BY <1>5, UnderWay DEF RowExists, IInv, AtStatement
    <2> QED
      BY <1>5, <2>1, QuietKeepsBalance DEF RowExists, Untouched
  <1>6. CASE PostRow(r)
    <2>1. /\ call[r].op = "post" /\ call[r] \in Calls /\ pc[r] = "first"
          /\ NULL \in Row \cup [Keys -> Row] /\ call[r].id \in Keys
      BY <1>6, UnderWay DEF PostRow, First
    <2>2. CASE Replies(r, "Error", NULL) /\ Untouched
      BY <2>1, <2>2, QuietKeepsBalance DEF Untouched
    <2>3. CASE /\ rows[call[r].id] = NULL
               /\ Replies(r, "Created", NULL)
               /\ Write(call[r].id, call[r].value)
      <3>1. call[r].value # NULL
        BY <2>1, CallMembers, TableAssumption
      <3>2. Answered(k, "delete", "NoContent")'
              = Answered(k, "delete", "NoContent")
        BY <2>1, <2>3, AnsweredGrows
      <3>3. CASE call[r].id # k
        <4>1. Answered(k, "post", "Created")' = Answered(k, "post", "Created")
          BY <2>1, <2>3, <3>3, AnsweredGrows
        <4>2. rows'[k] = rows[k]
          BY <2>3, <3>3 DEF Write, IInv, TypeOK
        <4> QED
          BY <3>2, <4>1, <4>2 DEF Balanced
      <3>4. CASE call[r].id = k
        <4>1. /\ r \notin Answered(k, "post", "Created")
              /\ Answered(k, "post", "Created")'
                   = Answered(k, "post", "Created") \cup {r}
          BY <2>1, <2>3, <3>4, AnsweredGrows
        <4>2. Present(rows[k]) = 0 /\ Present(rows'[k]) = 1
          BY <2>1, <2>3, <3>1, <3>4 DEF Write, IInv, TypeOK, Present
        <4>3. Cardinality(Answered(k, "post", "Created"))'
                = Cardinality(Answered(k, "post", "Created")) + 1
          BY <4>1, OneMore
        <4>4. /\ Cardinality(Answered(k, "post", "Created")) \in Nat
              /\ Cardinality(Answered(k, "delete", "NoContent")) \in Nat
              /\ Present(Initial[k]) \in Nat
          BY OneMore DEF Present
        <4> QED
          BY <3>2, <4>2, <4>3, <4>4 DEF Balanced
      <3> QED
        BY <3>3, <3>4
    <2> QED
      BY <1>6, <2>2, <2>3 DEF PostRow
  <1>7. CASE FindRow(r)
    <2>1. /\ call[r].op = "delete" /\ pc[r] = "first"
          /\ NULL \in Row \cup [Keys -> Row]
      BY <1>7, UnderWay DEF FindRow, First
    <2>2. CASE Replies(r, "NotFound", NULL) /\ Untouched
      BY <2>1, <2>2, QuietKeepsBalance DEF Untouched
    <2>3. CASE Goes(r, "remove") /\ UNCHANGED table
      BY <2>3, StillKeepsBalance DEF table
    <2> QED
      BY <1>7, <2>2, <2>3 DEF FindRow
  <1>8. CASE RemoveRow(r)
    <2>1. /\ call[r].op = "delete" /\ pc[r] = "remove"
          /\ NULL \in Row \cup [Keys -> Row] /\ call[r].id \in Keys
      BY <1>8, UnderWay DEF RemoveRow, IInv, AtStatement
    <2>2. CASE Replies(r, "Error", NULL) /\ Untouched
      BY <2>1, <2>2, QuietKeepsBalance DEF Untouched
    <2>3. CASE /\ rows[call[r].id] # NULL
               /\ Replies(r, "NoContent", NULL)
               /\ Write(call[r].id, NULL)
      <3>2. Answered(k, "post", "Created")' = Answered(k, "post", "Created")
        BY <2>1, <2>3, AnsweredGrows
      <3>3. CASE call[r].id # k
        <4>1. Answered(k, "delete", "NoContent")'
                = Answered(k, "delete", "NoContent")
          BY <2>1, <2>3, <3>3, AnsweredGrows
        <4>2. rows'[k] = rows[k]
          BY <2>3, <3>3 DEF Write, IInv, TypeOK
        <4> QED
          BY <3>2, <4>1, <4>2 DEF Balanced
      <3>4. CASE call[r].id = k
        <4>1. /\ r \notin Answered(k, "delete", "NoContent")
              /\ Answered(k, "delete", "NoContent")'
                   = Answered(k, "delete", "NoContent") \cup {r}
          BY <2>1, <2>3, <3>4, AnsweredGrows
        <4>2. Present(rows[k]) = 1 /\ Present(rows'[k]) = 0
          BY <2>1, <2>3, <3>4 DEF Write, IInv, TypeOK, Present
        <4>3. Cardinality(Answered(k, "delete", "NoContent"))'
                = Cardinality(Answered(k, "delete", "NoContent")) + 1
          BY <4>1, OneMore
        <4>4. /\ Cardinality(Answered(k, "post", "Created")) \in Nat
              /\ Cardinality(Answered(k, "delete", "NoContent")) \in Nat
              /\ Present(Initial[k]) \in Nat
          BY OneMore DEF Present
        <4> QED
          BY <3>2, <4>2, <4>3, <4>4 DEF Balanced
      <3> QED
        BY <3>3, <3>4
    <2> QED
      BY <1>8, <2>2, <2>3 DEF RemoveRow
  <1> QED
    BY <1>1, <1>2, <1>3, <1>4, <1>5, <1>6, <1>7, <1>8 DEF Step

(* However many calls overlap, no row is created or deleted twice: the     *)
(* answers account for the rows that are there.                            *)
THEOREM RowsBalance == CrudSpec => []RowsAccounted
  <1>1. CrudInit => RowsAccounted
    <2> SUFFICES ASSUME CrudInit, NEW k \in Keys PROVE Balanced(k)
      BY DEF RowsAccounted, Balanced
    <2>1. \A op, c : Answered(k, op, c) = {}
      BY DEF CrudInit, Init, Answered
    <2>2. rows = Initial
      BY DEF CrudInit, Init
    <2> QED
      BY <2>1, <2>2 DEF Balanced
  <1>2. IInv /\ RowsAccounted /\ [CrudNext]_crud => IInv' /\ RowsAccounted'
    <2> SUFFICES ASSUME IInv, RowsAccounted, [CrudNext]_crud
                 PROVE  IInv' /\ RowsAccounted'
      OBVIOUS
    <2>1. CASE CrudNext
      <3>1. PICK r \in Requests : Step(r)
        BY <2>1 DEF CrudNext
      <3>2. \A k \in Keys : Balanced(k)
        BY DEF RowsAccounted, Balanced
      <3>3. \A k \in Keys : Balanced(k)'
        BY <3>1, <3>2, StepKeepsBalance
      <3>4. IInv'
        BY <3>1, StepRefines
      <3> QED
        BY <3>3, <3>4 DEF RowsAccounted, Balanced
    <2>2. CASE UNCHANGED crud
      <3>1. IInv'
        BY <2>2 DEF crud, table, IInv, TypeOK, AtStatement
      <3>2. \A k, op, c : Answered(k, op, c)' = Answered(k, op, c)
        BY <2>2 DEF crud, table, Answered
      <3> QED
        BY <2>2, <3>1, <3>2 DEF crud, table, RowsAccounted
    <2> QED
      BY <2>1, <2>2
  <1> QED
    BY InitIInv, <1>1, <1>2, PTL DEF CrudSpec
=============================================================================
