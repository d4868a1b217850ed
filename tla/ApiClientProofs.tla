-------------------------- MODULE ApiClientProofs ---------------------------
(***************************************************************************)
(* The client's safety, for any sequence of calls and any failures of the  *)
(* network.                                                                *)
(***************************************************************************)
EXTENDS ApiClient, TLAPS

Last == Len(Script)

(* app_main is within its calls until it is done, the tasks of the calls   *)
(* it has yet to finish do not exist.                                      *)
MainInCalls ==
  /\ \A n \in Calls : n >= main.call => http[n] = "none"
  /\ main.pc # "done" => main.call \in Calls
  /\ main.pc = "done" => main.call = Last + 1

(* Where app_main is tells what is in the buffer: nothing, a part, the     *)
(* request of its call, or still that of the call before.  What a task has *)
(* measured it may send.                                                   *)
BufferInv ==
  /\ main.pc = "build" => request = Empty
  /\ main.pc = "finish" => request = Torn
  /\ main.pc = "create" => request = main.call
  /\ main.pc \in {"clear", "done"} => request = main.call - 1
  /\ \A n \in Calls : http[n] = "write" => size[n] \in MaySend(n)

ClientInv ==
  TypeOK /\ MainInCalls /\ NothingLeaks /\ BufferInv /\ SendsOwnOrLater

(* There is a last call.                                                   *)
LEMMA LastIsCall == Last \in Calls /\ Last \in Nat /\ 1 \in Calls
  BY ScriptAssumption DEF Last, Calls

(* The initial states.                                                     *)
LEMMA ClientInitInv == Init => ClientInv
  BY LastIsCall, ScriptAssumption
  DEF Init, ClientInv, TypeOK, MainInCalls, NothingLeaks, BufferInv,
      SendsOwnOrLater, Calls, Last, Empty

(* A task that exists finds in the buffer what it may send.                *)
LEMMA FindsWhatItMaySend ==
  ASSUME ClientInv, NEW n \in Calls, http[n] # "none"
  PROVE  request \in MaySend(n) /\ (n = Last => MaySend(n) = {Last})
  <1>1. n \in Nat /\ n >= 1 /\ n <= Last /\ Last \in Nat
    BY LastIsCall DEF Calls, Last
  <1>2. main.call \in 1..(Last + 1) /\ ~(n >= main.call)
    BY DEF ClientInv, TypeOK, MainInCalls, Last
  <1>3. n < main.call /\ main.call \in Nat
    BY <1>1, <1>2
  <1>4. main.pc # "done" => main.call <= Last /\ n # Last
    BY <1>1, <1>3 DEF ClientInv, MainInCalls, Calls, Last
  <1>5. main.pc = "done" => main.call = Last + 1
    BY DEF ClientInv, MainInCalls
  <1>6. main.pc \in {"clear", "build", "finish", "create", "done"}
    BY DEF ClientInv, TypeOK
  <1>7. CASE main.pc \in {"build", "finish"}
    <2>1. request \in {Empty, Torn}
      BY <1>7 DEF ClientInv, BufferInv
    <2> QED
      BY <1>4, <1>7, <2>1 DEF MaySend, Last
  <1>8. CASE main.pc \in {"clear", "create", "done"}
    <2>1. \/ request = main.call - 1
          \/ main.pc = "create" /\ request = main.call
      <3>1. /\ main.pc = "create" => request = main.call
            /\ main.pc \in {"clear", "done"} => request = main.call - 1
        BY DEF ClientInv, BufferInv
      <3> QED
        BY <1>8, <3>1
    <2>2. request \in n..Last
      <3> DEFINE c == main.call
      <3>1. request \in {c - 1, c} /\ (request = c => c <= Last) /\ c - 1 <= Last
        <4>1. main.pc # "done" => c <= Last
          BY <1>4
        <4>2. main.pc = "done" => c = Last + 1 /\ request = c - 1
          BY <1>5, <2>1
        <4> QED
          BY <1>1, <1>3, <2>1, <4>1, <4>2
      <3>2. n < c /\ c \in Nat
        BY <1>3
      <3> HIDE DEF c
      <3> QED
        BY <1>1, <3>1, <3>2
    <2>3. n = Last => n..Last = {Last}
      BY <1>1
    <2> QED
      BY <2>2, <2>3 DEF MaySend, Last
  <1>9. n = Last => MaySend(n) = {Last}
    <2>1. Last..Last = {Last}
      BY <1>1
    <2> QED
      BY <2>1 DEF MaySend, Last
  <1> QED
    BY <1>6, <1>7, <1>8, <1>9

-----------------------------------------------------------------------------
(* One failure more stays within the bound.                                *)
LEMMA OneFault ==
  ASSUME faults \in 0..MaxFaults, faults < MaxFaults, faults' = faults + 1
  PROVE  faults' \in 0..MaxFaults
  BY ScriptAssumption

(* CreateTask is the step that goes from one call to the next.             *)
LEMMA CreateTaskKeepsInv ==
  ASSUME ClientInv, CreateTask
  PROVE  ClientInv'
  <1>1. /\ main.call \in Calls /\ request = main.call
        /\ http[main.call] = "none" /\ held[main.call] = {}
    <2>1. main.call \in Calls /\ request = main.call
      BY DEF ClientInv, MainInCalls, BufferInv, CreateTask
    <2>2. main.call \in Nat
      BY <2>1, LastIsCall DEF Calls
    <2>3. http[main.call] = "none"
      BY <2>1, <2>2 DEF ClientInv, MainInCalls
    <2> QED
      BY <2>1, <2>3 DEF ClientInv, NothingLeaks
  <1>2. /\ main'.call = main.call + 1
        /\ main'.pc = IF main.call = Last THEN "done" ELSE "clear"
        /\ main' = [pc |-> main'.pc, call |-> main'.call]
    BY DEF CreateTask, Last
  <1>3. main'.call \in 1..(Last + 1) /\ (main.call # Last => main'.call \in Calls)
    BY <1>1, <1>2, LastIsCall DEF Calls, Last
  <1>4. \A n \in Calls : n >= main'.call => n >= main.call /\ n # main.call
    BY <1>1, <1>2, LastIsCall DEF Calls
  <1>5. faults' \in 0..MaxFaults
    BY OneFault DEF CreateTask, ClientInv, TypeOK
  <1>6. /\ http' = http \/ http' = [http EXCEPT ![main.call] = "lookup"]
        /\ UNCHANGED <<request, size, held, sent, heard, up>>
    BY DEF CreateTask
  <1>7. TypeOK'
    <2>1. main' \in [pc : {"clear", "build", "finish", "create", "done"},
                    call : 1..(Len(Script) + 1)]
      BY <1>2, <1>3 DEF Last
    <2> QED
      BY <1>1, <1>5, <1>6, <2>1 DEF ClientInv, TypeOK
  <1>8. MainInCalls'
    BY <1>1, <1>2, <1>3, <1>4, <1>6 DEF ClientInv, TypeOK, MainInCalls
  <1>9. NothingLeaks'
    BY <1>1, <1>6 DEF ClientInv, TypeOK, NothingLeaks
  <1>10. BufferInv'
    <2>1. main'.call - 1 = main.call
      BY <1>1, <1>2, LastIsCall DEF Calls
    <2>2. \A n \in Calls : http'[n] = "write" => http[n] = "write"
      BY <1>1, <1>6 DEF ClientInv, TypeOK
    <2> QED
      BY <1>1, <1>2, <1>6, <2>1, <2>2 DEF ClientInv, BufferInv, MaySend
  <1>11. SendsOwnOrLater'
    BY <1>6 DEF ClientInv, SendsOwnOrLater
  <1> QED
    BY <1>7, <1>8, <1>9, <1>10, <1>11 DEF ClientInv

(* app_main's steps, none of which it takes once the last task exists.     *)
LEMMA MainKeepsInv ==
  ASSUME ClientInv, MainStep
  PROVE  ClientInv'
  <1>1. CASE ClearRequest
    BY <1>1, LastIsCall
    DEF ClearRequest, MainGoes, ClientInv, TypeOK, MainInCalls, NothingLeaks,
        BufferInv, SendsOwnOrLater
  <1>2. CASE BuildRequest
    BY <1>2, LastIsCall
    DEF BuildRequest, MainGoes, ClientInv, TypeOK, MainInCalls, NothingLeaks,
        BufferInv, SendsOwnOrLater
  <1>3. CASE FinishRequest
    BY <1>3, LastIsCall
    DEF FinishRequest, MainGoes, ClientInv, TypeOK, MainInCalls, NothingLeaks,
        BufferInv, SendsOwnOrLater
  <1>4. CASE CreateTask
    BY <1>4, CreateTaskKeepsInv
  <1> QED
    BY <1>1, <1>2, <1>3, <1>4 DEF MainStep

(* A task that starts over has given up what it held.                      *)
LEMMA FailKeepsInv ==
  ASSUME ClientInv, NEW n \in Calls, http[n] # "none", Fails(n, {}),
         UNCHANGED <<request, main, size, sent, heard, up>>
  PROVE  ClientInv'
  <1>1. faults' \in 0..MaxFaults
    BY OneFault DEF Fails, StartsOver, ClientInv, TypeOK
  <1>2. http' = [http EXCEPT ![n] = "lookup"] /\ held' = [held EXCEPT ![n] = {}]
    BY DEF Fails, StartsOver, Goes, Holds
  <1> QED
    BY <1>1, <1>2, LastIsCall
    DEF ClientInv, TypeOK, MainInCalls, NothingLeaks, BufferInv,
        SendsOwnOrLater

(* The steps of a task.                                                    *)
LEMMA TaskKeepsInv ==
  ASSUME ClientInv, NEW n \in Calls, TaskStep(n)
  PROVE  ClientInv'
  <1> USE LastIsCall
  <1>1. CASE GetAddrInfo(n)
    <2>1. CASE Fails(n, {})
      BY <1>1, <2>1, FailKeepsInv DEF GetAddrInfo
    <2>2. CASE Goes(n, "socket") /\ Holds(n, {"res"}) /\ UNCHANGED faults
      BY <1>1, <2>2
      DEF GetAddrInfo, Goes, Holds, ClientInv, TypeOK, MainInCalls,
          NothingLeaks, BufferInv, SendsOwnOrLater, Last
    <2> QED
      BY <1>1, <2>1, <2>2 DEF GetAddrInfo, Fails
  <1>2. CASE CreateSocket(n)
    <2>1. CASE Fails(n, {})
      BY <1>2, <2>1, FailKeepsInv DEF CreateSocket
    <2>2. CASE Goes(n, "connect") /\ Holds(n, {"res", "s"}) /\ UNCHANGED faults
      BY <1>2, <2>2
      DEF CreateSocket, Goes, Holds, ClientInv, TypeOK, MainInCalls,
          NothingLeaks, BufferInv, SendsOwnOrLater, Last
    <2> QED
      BY <1>2, <2>1, <2>2 DEF CreateSocket, Fails
  <1>3. CASE Connect(n)
    <2>1. CASE Fails(n, {})
      BY <1>3, <2>1, FailKeepsInv DEF Connect
    <2>2. CASE Goes(n, "measure") /\ Holds(n, {"s"}) /\ UNCHANGED faults
      BY <1>3, <2>2
      DEF Connect, Goes, Holds, ClientInv, TypeOK, MainInCalls,
          NothingLeaks, BufferInv, SendsOwnOrLater, Last
    <2> QED
      BY <1>3, <2>1, <2>2 DEF Connect
  <1>4. CASE Measure(n)
    <2>1. request \in MaySend(n)
      BY <1>4, FindsWhatItMaySend DEF Measure
    <2> QED
      BY <1>4, <2>1
      DEF Measure, Goes, ClientInv, TypeOK, MainInCalls, NothingLeaks,
          BufferInv, SendsOwnOrLater, Last
  <1>5. CASE Write(n)
    <2>1. CASE Fails(n, {}) /\ UNCHANGED sent
      BY <1>5, <2>1, FailKeepsInv DEF Write
    <2>2. CASE /\ sent' = [sent EXCEPT ![n] =
                      @ \cup {IF request = size[n] THEN request ELSE Torn}]
               /\ Goes(n, "option")
               /\ UNCHANGED <<held, faults>>
      <3>1. /\ request \in MaySend(n) /\ size[n] \in MaySend(n)
            /\ n = Last => MaySend(n) = {Last}
            /\ n # Last => Torn \in MaySend(n)
        BY <1>5, FindsWhatItMaySend
        DEF Write, ClientInv, BufferInv, MaySend, Last
      <3>2. SendsOwnOrLater'
        <4>1. (IF request = size[n] THEN request ELSE Torn) \in MaySend(n)
          BY <3>1
        <4> QED
          BY <2>2, <4>1 DEF ClientInv, TypeOK, SendsOwnOrLater
      <3>3. TypeOK'
        BY <1>5, <2>2 DEF Write, Goes, ClientInv, TypeOK
      <3> QED
        BY <1>5, <2>2, <3>2, <3>3
        DEF Write, Goes, ClientInv, TypeOK, MainInCalls, NothingLeaks,
            BufferInv
    <2> QED
      BY <1>5, <2>1, <2>2 DEF Write
  <1>6. CASE SetTimeout(n)
    <2>1. CASE Fails(n, {})
      BY <1>6, <2>1, FailKeepsInv DEF SetTimeout
    <2>2. CASE Goes(n, "read") /\ UNCHANGED <<held, faults>>
      BY <1>6, <2>2
      DEF SetTimeout, Goes, ClientInv, TypeOK, MainInCalls, NothingLeaks,
          BufferInv, SendsOwnOrLater, Last
    <2> QED
      BY <1>6, <2>1, <2>2 DEF SetTimeout, Fails
  <1>7. CASE ReadSome(n)
    <2>1. heard' \in [Calls -> SUBSET {"answer", "bad request"}]
      <3>1. PICK a \in {"answer", "bad request"} :
               heard' = [heard EXCEPT ![n] = @ \cup {a}]
        BY <1>7, Zenon DEF ReadSome, Answers
      <3> QED
        BY <3>1 DEF ClientInv, TypeOK
    <2> QED
      BY <1>7, <2>1
      DEF ReadSome, ClientInv, TypeOK, MainInCalls, NothingLeaks,
          BufferInv, SendsOwnOrLater, Last
  <1>8. CASE ReadEnds(n)
    BY <1>8
    DEF ReadEnds, Goes, Holds, ClientInv, TypeOK, MainInCalls,
        NothingLeaks, BufferInv, SendsOwnOrLater, Last
  <1> QED
    BY <1>1, <1>2, <1>3, <1>4, <1>5, <1>6, <1>7, <1>8 DEF TaskStep

(* ClientInv is inductive.                                                 *)
LEMMA ClientInductive == ClientInv /\ [Next]_vars => ClientInv'
  <1> SUFFICES ASSUME ClientInv, [Next]_vars PROVE ClientInv'
    OBVIOUS
  <1>1. CASE MainStep
    BY <1>1, MainKeepsInv
  <1>2. CASE \E n \in Calls : TaskStep(n)
    BY <1>2, TaskKeepsInv
  <1>3. CASE NetworkChanges
    BY <1>3
    DEF NetworkChanges, client, ClientInv, TypeOK, MainInCalls,
        NothingLeaks, BufferInv, SendsOwnOrLater
  <1>4. CASE UNCHANGED vars
    BY <1>4
    DEF vars, client, ClientInv, TypeOK, MainInCalls, NothingLeaks,
        BufferInv, SendsOwnOrLater
  <1> QED
    BY <1>1, <1>2, <1>3, <1>4 DEF Next

(* The strengthened invariant, which the other theorems follow from.       *)
THEOREM ClientInvariant == Spec => []ClientInv
  BY ClientInitInv, ClientInductive, PTL DEF Spec

(* Whatever fails and however often, http_get_task frees its addrinfo and  *)
(* closes its socket before it starts over or ends.                        *)
THEOREM ClientLeaksNothing == Spec => []NothingLeaks
  <1>1. ClientInv => NothingLeaks
    BY DEF ClientInv
  <1> QED
    BY <1>1, ClientInvariant, PTL

(* In a script of any length no task sends an earlier call's request, and  *)
(* that of the last call sends nothing but its own (api_communication.c).  *)
THEOREM NothingStaleIsSent == Spec => []SendsOwnOrLater
  <1>1. ClientInv => SendsOwnOrLater
    BY DEF ClientInv
  <1> QED
    BY <1>1, ClientInvariant, PTL
=============================================================================
