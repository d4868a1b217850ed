---------------------------- MODULE RobotProofs -----------------------------
(***************************************************************************)
(* The composed robot implements both its parts, so that what is proved of *)
(* the client and of the station holds of it; and its calls wait for the   *)
(* station.                                                                *)
(***************************************************************************)
EXTENDS Robot, ApiClientProofs, WifiConnectionProofs

(* The client sees the station's network.                                  *)
Linked == up = Online(station)

(* A step of the robot is one of the client and one of the station, or     *)
(* changes nothing of theirs.                                              *)
LEMMA RobotStep ==
  Linked /\ [RobotNext]_all
    => Linked' /\ [Next]_vars /\ [StationNext]_station_vars
  <1> SUFFICES ASSUME Linked, [RobotNext]_all
               PROVE  Linked' /\ [Next]_vars /\ [StationNext]_station_vars
    OBVIOUS
  <1>1. CASE StationStep(StationNext)
    <2>1. up' = up \/ up' = ~up
      BY <1>1 DEF StationStep, Linked, Online
    <2> QED
      BY <1>1, <2>1
      DEF StationStep, Linked, Next, NetworkChanges, vars
  <1>2. CASE AppMain
    <2>1. MainStep /\ UNCHANGED station_vars /\ up' = up
      BY <1>2
      DEF AppMain, MainStep, ClearRequest, BuildRequest, FinishRequest,
          CreateTask
    <2> QED
      BY <2>1 DEF Next, Linked, station_vars
  <1>3. CASE \E n \in Calls : HttpTask(n)
    <2>1. PICK n \in Calls : TaskStep(n) /\ UNCHANGED station_vars
      BY <1>3 DEF HttpTask
    <2>2. up' = up
      BY <2>1
      DEF TaskStep, GetAddrInfo, CreateSocket, Connect, Measure, Write,
          SetTimeout, ReadSome, ReadEnds
    <2> QED
      BY <2>1, <2>2 DEF Next, Linked, station_vars
  <1>4. CASE UNCHANGED all
    BY <1>4 DEF all, vars, station_vars, Linked
  <1> QED
    BY <1>1, <1>2, <1>3, <1>4 DEF RobotNext

(* Refinement: what the robot does is a behaviour of the client alone and  *)
(* one of the station alone.                                               *)
THEOREM RobotImplementsParts == RobotSpec => Spec /\ StationSpec
  <1>1. RobotInit => Init /\ StationInit /\ Linked
    BY DEF RobotInit, Linked
  <1> QED
    BY <1>1, RobotStep, PTL DEF RobotSpec, Spec, StationSpec

(* The type invariant of both parts.                                       *)
THEOREM RobotTypeCorrect == RobotSpec => []RobotTypeOK
  <1>1. ClientInv /\ StationInv => RobotTypeOK
    BY DEF ClientInv, StationInv, RobotTypeOK
  <1> QED
    BY <1>1, RobotImplementsParts, ClientInvariant, StationInvariant, PTL

(* However often the network fails or is lost, the robot leaks nothing,    *)
(* sends its last request whole, keeps to its retries and does not give up *)
(* before they are used up.                                                *)
THEOREM RobotIsSafe ==
  RobotSpec => /\ []NothingLeaks /\ []SendsOwnOrLater
               /\ []AttemptsBounded /\ FailAfterAllRetries
  BY RobotImplementsParts, ClientLeaksNothing, NothingStaleIsSent,
     AttemptsAreBounded, FailureIsFinal, PTL

-----------------------------------------------------------------------------
(* The calls wait for wifi_connect, which waits for a bit; bits are never  *)
(* cleared, and without the one for an address the retries stay used up.   *)
Waited ==
  /\ wifi \notin {"connected", "failed"} => main.pc = "clear" /\ main.call = 1
  /\ wifi \in {"connected", "failed"} => bits # {}
  /\ "FAIL" \in bits /\ "CONNECTED" \notin bits => s_retry_num = MaximumRetry

(* Waited is inductive.                                                    *)
LEMMA WaitedInductive ==
  ASSUME StationInv, Waited, [RobotNext]_all
  PROVE  Waited'
  <1>0. s_retry_num \in 0..MaximumRetry /\ MaximumRetry \in Nat
    BY WifiAssumption DEF StationInv, StationTypeOK
  <1>1. CASE StationStep(StationNext)
    <2>1. main' = main
      BY <1>1 DEF StationStep, client
    <2>2. CASE OnDisconnected
      <3>1. CASE s_retry_num < MaximumRetry
        <4>1. "FAIL" \in bits => "CONNECTED" \in bits
          BY <1>0, <3>1 DEF Waited
        <4> QED
          BY <2>1, <2>2, <3>1, <4>1 DEF OnDisconnected, Waited
      <3>2. CASE ~(s_retry_num < MaximumRetry)
        <4>1. s_retry_num = MaximumRetry
          BY <1>0, <3>2
        <4> QED
          BY <2>1, <2>2, <3>2, <4>1 DEF OnDisconnected, Waited
      <3> QED
        BY <3>1, <3>2
    <2>3. CASE OnGotIP
      BY <2>1, <2>3 DEF OnGotIP, Waited
    <2>4. CASE WaitBits
      BY <2>1, <2>4 DEF WaitBits, Waited
    <2>5. CASE StartStation
      BY <2>1, <2>5 DEF StartStation, Waited
    <2>6. CASE Driver \/ LoseConnection \/ OnStart
      BY <2>1, <2>6
      DEF Driver, Associate, FailToConnect, ObtainIP, LoseConnection,
          OnStart, Waited
    <2> QED
      BY <1>1, <2>2, <2>3, <2>4, <2>5, <2>6
      DEF StationStep, StationNext, EventLoop, StationMain
  <1>2. CASE AppMain
    BY <1>2 DEF AppMain, station_vars, Waited
  <1>3. CASE \E n \in Calls : HttpTask(n)
    <2>1. UNCHANGED <<main, station_vars>>
      BY <1>3
      DEF HttpTask, TaskStep, GetAddrInfo, CreateSocket, Connect, Measure,
          Write, SetTimeout, ReadSome, ReadEnds
    <2> QED
      BY <2>1 DEF station_vars, Waited
  <1>4. CASE UNCHANGED all
    BY <1>4 DEF all, vars, client, station_vars, Waited
  <1> QED
    BY <1>1, <1>2, <1>3, <1>4 DEF RobotNext

(* No call begins before the network was joined or all attempts at it were *)
(* made.                                                                   *)
THEOREM CallsWaitForWifi == RobotSpec => []CallsAfterWifi
  <1>1. RobotInit => Waited
    BY DEF RobotInit, Init, StationInit, Waited
  <1>2. StationInv /\ Waited /\ [RobotNext]_all => Waited'
    BY WaitedInductive
  <1>3. ClientInv /\ StationInv /\ Waited => CallsAfterWifi
    <2> SUFFICES ASSUME ClientInv, StationInv, Waited,
                        main.pc # "clear" \/ main.call > 1
                 PROVE  \/ "CONNECTED" \in bits
                        \/ "FAIL" \in bits /\ s_retry_num = MaximumRetry
      BY DEF CallsAfterWifi
    <2>1. ~(main.pc = "clear" /\ main.call = 1)
      OBVIOUS
    <2>2. bits # {} /\ bits \subseteq {"CONNECTED", "FAIL"}
      BY <2>1 DEF Waited, StationInv, StationTypeOK
    <2> QED
      BY <2>2 DEF Waited
  <1> QED
    BY <1>1, <1>2, <1>3, RobotImplementsParts, ClientInvariant,
       StationInvariant, PTL DEF RobotSpec
=============================================================================
