----------------------------- MODULE ApiClient ------------------------------
(***************************************************************************)
(* The robot's side of the manager API: main.c and api_communication.c of  *)
(* the communication manager.  The main task makes its calls one after the *)
(* other; each writes an HTTP request into the global buffer "request" and *)
(* starts a FreeRTOS task that connects to the server, sends whatever is   *)
(* in that buffer by then, and reads the answer.  The tasks are not pinned *)
(* to a core and block in every call to the network, so main and the tasks *)
(* interleave freely.                                                      *)
(***************************************************************************)
EXTENDS Integers, Sequences, FiniteSets

CONSTANTS Script,     \* the calls app_main makes, in order
          MaxFaults   \* bound: calls to the network or to xTaskCreate failing

ASSUME ScriptAssumption ==
  /\ Len(Script) \in Nat \ {0}
  /\ \A n \in 1..Len(Script) :
       Script[n].kind \in {"nexttask", "updatestatus"}
  /\ MaxFaults \in Nat

Calls == 1..Len(Script)

VARIABLES request,  \* char request[]: whose text it holds
          main,     \* what app_main does next, and in which call it is
          http,     \* the task of each call: what it does next
          size,     \* the buffer as the task measured it with strlen
          held,     \* resources a task holds: "res", "s"
          sent,     \* history: what each task has written to its sockets
          heard,    \* history: what each task has read
          faults,   \* failures so far
          up        \* whether the network is within reach

client == <<request, main, http, size, held, sent, heard, faults>>

vars == <<client, up>>

Empty == 0
Torn  == -1   \* half written, or overwritten while it was being sent

(* The lines of the two requests.  Neither sends the empty line that ends  *)
(* the headers of an HTTP request.                                         *)
RequestLines(call) ==
  IF call.kind = "nexttask"
  THEN <<"GET", "Host", "User-Agent">>
  ELSE <<"PUT", "Host", "User-Agent", "Content-Type", "Content-Length",
         "body">>

HeadersEnd(call) ==
  \E i \in 1..Len(RequestLines(call)) : RequestLines(call)[i] = ""

(* The buffer holds one call's request, none or a torn one; main and the   *)
(* tasks are at a statement of theirs.                                     *)
TypeOK ==
  /\ request \in Calls \cup {Empty, Torn}
  /\ main \in [pc : {"clear", "build", "finish", "create", "done"},
               call : 1..(Len(Script) + 1)]
  /\ http \in [Calls -> {"none", "lookup", "socket", "connect", "measure",
                         "write", "option", "read", "ended"}]
  /\ size \in [Calls -> Calls \cup {Empty, Torn}]
  /\ held \in [Calls -> SUBSET {"res", "s"}]
  /\ sent \in [Calls -> SUBSET (Calls \cup {Empty, Torn})]
  /\ heard \in [Calls -> SUBSET {"answer", "bad request"}]
  /\ faults \in 0..MaxFaults
  /\ up \in BOOLEAN

Init ==
  /\ request = Empty
  /\ main = [pc |-> "clear", call |-> 1]
  /\ http = [n \in Calls |-> "none"]
  /\ size = [n \in Calls |-> Empty]
  /\ held = [n \in Calls |-> {}]
  /\ sent = [n \in Calls |-> {}]
  /\ heard = [n \in Calls |-> {}]
  /\ faults = 0
  /\ up \in BOOLEAN

-----------------------------------------------------------------------------
(* app_main and the two api functions, which differ in the text only.      *)

MainGoes(pc) == main' = [pc |-> pc, call |-> main.call]

ClearRequest ==
  /\ main.pc = "clear"
  /\ request' = Empty
  /\ MainGoes("build")
  /\ UNCHANGED <<http, size, held, sent, heard, faults, up>>

BuildRequest ==
  /\ main.pc = "build"
  /\ request' = Torn
  /\ MainGoes("finish")
  /\ UNCHANGED <<http, size, held, sent, heard, faults, up>>

(* Fault: the request of the call after this one is written.               *)
FinishRequestFault ==
  /\ main.pc = "finish"
  /\ request' = main.call + 1
  /\ MainGoes("create")
  /\ UNCHANGED <<http, size, held, sent, heard, faults, up>>

FinishRequest ==
  /\ main.pc = "finish"
  /\ request' = main.call
  /\ MainGoes("create")
  /\ UNCHANGED <<http, size, held, sent, heard, faults, up>>

(* Fault: the buffer is cleared as soon as the task exists.                *)
CreateTaskFault ==
  /\ main.pc = "create"
  /\ main' = [pc |-> IF main.call = Len(Script) THEN "done" ELSE "clear",
              call |-> main.call + 1]
  /\ http' = [http EXCEPT ![main.call] = "lookup"]
  /\ request' = Empty
  /\ UNCHANGED <<size, held, sent, heard, faults, up>>

(* xTaskCreate; that it may fail goes unnoticed.                           *)
CreateTask ==
  /\ main.pc = "create"
  /\ main' = [pc |-> IF main.call = Len(Script) THEN "done" ELSE "clear",
              call |-> main.call + 1]
  /\ \/ /\ http' = [http EXCEPT ![main.call] = "lookup"]
        /\ UNCHANGED faults
     \/ /\ faults < MaxFaults
        /\ faults' = faults + 1
        /\ UNCHANGED http
  /\ UNCHANGED <<request, size, held, sent, heard, up>>

-----------------------------------------------------------------------------
(* http_get_task.  A failing step frees what it holds, waits and starts    *)
(* over.  Out of reach of the network that may happen any number of times, *)
(* within reach MaxFaults times.                                           *)

Goes(n, pc) == http' = [http EXCEPT ![n] = pc]

Holds(n, resources) == held' = [held EXCEPT ![n] = resources]

StartsOver(n, kept) ==
  /\ faults < MaxFaults
  /\ faults' = faults + 1
  /\ Goes(n, "lookup")
  /\ Holds(n, kept)

Fails(n, kept) ==
  \/ StartsOver(n, kept)
  \/ ~up /\ Goes(n, "lookup") /\ Holds(n, kept) /\ UNCHANGED faults

(* WEB_SERVER is an address: no name server is asked.                      *)
GetAddrInfo(n) ==
  /\ http[n] = "lookup"
  /\ \/ Goes(n, "socket") /\ Holds(n, {"res"}) /\ UNCHANGED faults
     \/ StartsOver(n, {})
  /\ UNCHANGED <<request, main, size, sent, heard, up>>

CreateSocket(n) ==
  /\ http[n] = "socket"
  /\ \/ Goes(n, "connect") /\ Holds(n, {"res", "s"}) /\ UNCHANGED faults
     \/ StartsOver(n, {})
  /\ UNCHANGED <<request, main, size, sent, heard, up>>

(* Fault: the socket is not closed when connect fails.                     *)
ConnectFault(n) ==
  /\ http[n] = "connect"
  /\ \/ up /\ Goes(n, "measure") /\ Holds(n, {"s"}) /\ UNCHANGED faults
     \/ Fails(n, {"s"})
  /\ UNCHANGED <<request, main, size, sent, heard, up>>

Connect(n) ==
  /\ http[n] = "connect"
  /\ \/ up /\ Goes(n, "measure") /\ Holds(n, {"s"}) /\ UNCHANGED faults
     \/ Fails(n, {})
  /\ UNCHANGED <<request, main, size, sent, heard, up>>

(* strlen(request), before write copies as many bytes out of the buffer.   *)
Measure(n) ==
  /\ http[n] = "measure"
  /\ size' = [size EXCEPT ![n] = request]
  /\ Goes(n, "write")
  /\ UNCHANGED <<request, main, held, sent, heard, faults, up>>

(* lwIP takes the bytes, and keeps them while the network is out of reach. *)
Write(n) ==
  /\ http[n] = "write"
  /\ \/ /\ sent' = [sent EXCEPT ![n] =
                      @ \cup {IF request = size[n] THEN request ELSE Torn}]
        /\ Goes(n, "option")
        /\ UNCHANGED <<held, faults>>
     \/ Fails(n, {}) /\ UNCHANGED sent
  /\ UNCHANGED <<request, main, size, heard, up>>

(* The receive timeout is set only after the request went out: a failure   *)
(* here sends it again.                                                    *)
SetTimeout(n) ==
  /\ http[n] = "option"
  /\ \/ Goes(n, "read") /\ UNCHANGED <<held, faults>>
     \/ StartsOver(n, {})
  /\ UNCHANGED <<request, main, size, sent, heard, up>>

(* The server's part: it handles a request once its headers have ended,    *)
(* and may refuse, or wait on, anything else.                              *)
Answers(n) ==
  {a \in {"answer", "bad request"} :
     IF a = "answer" THEN \E m \in sent[n] \cap Calls : HeadersEnd(Script[m])
                     ELSE sent[n] # {Empty}}

ReadSome(n) ==
  /\ http[n] = "read"
  /\ up
  /\ \E a \in Answers(n) : /\ a \notin heard[n]
                           /\ heard' = [heard EXCEPT ![n] = @ \cup {a}]
  /\ UNCHANGED <<request, main, http, size, held, sent, faults, up>>

(* Fault: a timeout does not end the reading.                              *)
ReadEndsFault(n) ==
  /\ http[n] = "read"
  /\ IF heard[n] # {} THEN Goes(n, "ended") /\ Holds(n, {})
                      ELSE UNCHANGED <<http, held>>
  /\ UNCHANGED <<request, main, size, sent, heard, faults, up>>

(* read returns 0 or fails, in particular after 5 s without an answer.     *)
ReadEnds(n) ==
  /\ http[n] = "read"
  /\ Goes(n, "ended")
  /\ Holds(n, {})
  /\ UNCHANGED <<request, main, size, sent, heard, faults, up>>

-----------------------------------------------------------------------------
(* The network, as the client finds it: it comes and goes.                 *)
NetworkChanges ==
  /\ up' = ~up
  /\ UNCHANGED client

MainStep == ClearRequest \/ BuildRequest \/ FinishRequest \/ CreateTask

TaskStep(n) ==
  \/ GetAddrInfo(n) \/ CreateSocket(n) \/ Connect(n)
  \/ Measure(n) \/ Write(n) \/ SetTimeout(n) \/ ReadSome(n) \/ ReadEnds(n)

Next ==
  \/ MainStep
  \/ \E n \in Calls : TaskStep(n)
  \/ NetworkChanges

Spec == Init /\ [][Next]_vars

-----------------------------------------------------------------------------
(* Properties *)

(* Whatever fails, a task that starts over or ends has closed its socket   *)
(* and freed its addrinfo, and it owns a socket while it uses one.         *)
NothingLeaks ==
  \A n \in Calls :
     /\ http[n] \in {"none", "lookup", "ended"} => held[n] = {}
     /\ http[n] \in {"connect", "measure", "write", "option", "read"}
          => "s" \in held[n]

(* What the task of a call may find in the buffer when it comes to send.   *)
MaySend(n) ==
  (n..Len(Script)) \cup (IF n = Len(Script) THEN {} ELSE {Empty, Torn})

(* How far the tasks' sharing of the buffer can go wrong: a task sends     *)
(* nothing but its own request or, late, what the later calls have made of *)
(* the buffer by then, never an earlier call's request; and the last       *)
(* call's task sends its own one, whole, as often as it has to.            *)
SendsOwnOrLater == \A n \in Calls : sent[n] \subseteq MaySend(n)

-----------------------------------------------------------------------------
(* What comments of the code say of it and it does not do *)

(* "Keeps repeating until there is an answer from the HTTP server": a task *)
(* ends only after it has read something.                                  *)
EndsAnswered == \A n \in Calls : http[n] = "ended" => heard[n] # {}
=============================================================================
