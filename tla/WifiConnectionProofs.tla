------------------------ MODULE WifiConnectionProofs ------------------------
(***************************************************************************)
(* The retries of the station, for any number of them and however often    *)
(* the connection is lost.                                                 *)
(***************************************************************************)
EXTENDS WifiConnection, TLAPS

(* A start or a disconnection is the newest event, and the station does    *)
(* nothing before it has been handled: so there is one at a time.          *)
LastWord ==
  \A i \in 1..Len(events) :
     events[i] \in {"STA_START", "STA_DISCONNECTED"} =>
        i = Len(events) /\ station = "idle"

(* Every attempt but the first is counted as a retry.                      *)
Counted ==
  /\ s_retry_num <= attempts /\ attempts <= s_retry_num + 1
  /\ (\E i \in 1..Len(events) : events[i] = "STA_START") => attempts = 0
  /\ wifi = "init" => attempts = 0 /\ station = "off" /\ events = << >>
  /\ station = "off" => events = << >>

StationInv == StationTypeOK /\ LastWord /\ Counted

(* The initial states.                                                     *)
LEMMA StationInitInv == StationInit => StationInv
  BY WifiAssumption
  DEF StationInit, StationInv, StationTypeOK, LastWord, Counted

Events == {"STA_START", "STA_DISCONNECTED", "STA_GOT_IP"}

(* What Post does to the queue.                                            *)
LEMMA PostFacts ==
  ASSUME events \in Seq(Events), NEW e \in Events, Post(e)
  PROVE  /\ events' \in Seq(Events)
         /\ Len(events') = Len(events) + 1 /\ Len(events') <= MaxEvents
         /\ \A i \in 1..Len(events) : events'[i] = events[i]
         /\ events'[Len(events) + 1] = e
  BY WifiAssumption DEF Post

(* What Take does to the queue.                                            *)
LEMMA TakeFacts ==
  ASSUME events \in Seq(Events), NEW e \in Events, Take(e)
  PROVE  /\ events' \in Seq(Events)
         /\ Len(events) \in Nat /\ Len(events) >= 1
         /\ Len(events') = Len(events) - 1
         /\ \A i \in 1..Len(events') :
              events'[i] = events[i + 1] /\ i + 1 \in 1..Len(events)
         /\ events[1] = e
  BY DEF Take

-----------------------------------------------------------------------------
(* A step of the driver posts an event and leaves the counters alone.      *)
LEMMA DriverKeepsInv ==
  ASSUME StationInv, NEW e \in {"STA_DISCONNECTED", "STA_GOT_IP"}, Post(e),
         station \in {"connecting", "associated", "online"},
         station' = IF e = "STA_DISCONNECTED" THEN "idle" ELSE "online",
         losses' \in 0..MaxLosses,
         UNCHANGED <<s_retry_num, bits, wifi, attempts>>
  PROVE  StationInv'
  <1>1. events \in Seq(Events) /\ e \in Events
    BY DEF StationInv, StationTypeOK, Events
  <1>2. /\ events' \in Seq(Events)
        /\ Len(events) \in Nat
        /\ Len(events') = Len(events) + 1 /\ Len(events') <= MaxEvents
        /\ \A i \in 1..Len(events) : events'[i] = events[i]
        /\ events'[Len(events) + 1] = e
    BY <1>1, PostFacts
  <1>3. \A i \in 1..Len(events) :
           events[i] \notin {"STA_START", "STA_DISCONNECTED"}
    BY DEF StationInv, LastWord
  <1>4. StationTypeOK'
    BY <1>2 DEF StationInv, StationTypeOK, Events
  <1>5. \A i \in 1..Len(events') :
           events'[i] \in {"STA_START", "STA_DISCONNECTED"} =>
             i = Len(events') /\ e = "STA_DISCONNECTED" /\ events'[i] = e
    BY <1>2, <1>3
  <1>6. LastWord'
    BY <1>5 DEF LastWord
  <1>7. Counted'
    BY <1>5 DEF StationInv, StationTypeOK, Counted
  <1> QED
    BY <1>4, <1>6, <1>7 DEF StationInv

(* A start or a disconnection that is handled leaves an empty queue.       *)
LEMMA HandledLast ==
  ASSUME StationInv, NEW e \in {"STA_START", "STA_DISCONNECTED"}, Take(e)
  PROVE  /\ events' = << >> /\ station = "idle"
         /\ wifi # "init"
         /\ e = "STA_START" => attempts = 0
  <1>1. events \in Seq(Events) /\ e \in Events
    BY DEF StationInv, StationTypeOK, Events
  <1>2. /\ events' \in Seq(Events) /\ Len(events) \in Nat /\ Len(events) >= 1
        /\ Len(events') = Len(events) - 1 /\ events[1] = e
    BY <1>1, TakeFacts
  <1>3. 1 \in 1..Len(events)
    BY <1>2
  <1>4. 1 = Len(events) /\ station = "idle"
    BY <1>2, <1>3 DEF StationInv, LastWord
  <1>5. events' = << >> /\ events # << >>
    <2>1. events' = Tail(events) /\ events # << >>
      BY DEF Take
    <2> QED
      BY <1>1, <1>2, <1>4, <2>1
  <1>6. wifi # "init"
    BY <1>5 DEF StationInv, Counted
  <1> QED
    BY <1>2, <1>3, <1>4, <1>5, <1>6 DEF StationInv, Counted

(* A handler of a start or a disconnection, which has the queue to itself. *)
LEMMA HandlerKeepsInv ==
  ASSUME StationInv, events' = << >>, wifi # "init", wifi' = wifi,
         losses' = losses, bits' \subseteq {"CONNECTED", "FAIL"},
         station' \in {"idle", "connecting"},
         s_retry_num' \in 0..MaximumRetry, attempts' \in Nat,
         s_retry_num' <= attempts', attempts' <= s_retry_num' + 1
  PROVE  StationInv'
  <1>1. /\ events' \in Seq(Events) /\ Len(events') = 0 /\ 0 <= MaxEvents
    BY WifiAssumption
  <1>2. StationTypeOK'
    BY <1>1 DEF StationInv, StationTypeOK, Events
  <1>3. \A i \in 1..Len(events') : FALSE
    BY <1>1
  <1> QED
    BY <1>2, <1>3 DEF StationInv, LastWord, Counted

(* Every step keeps StationInv.                                            *)
LEMMA StationInductive ==
  StationInv /\ [StationNext]_station_vars => StationInv'
  <1> SUFFICES ASSUME StationInv, [StationNext]_station_vars
               PROVE  StationInv'
    OBVIOUS
  <1>0. /\ s_retry_num \in 0..MaximumRetry /\ attempts \in Nat
        /\ s_retry_num <= attempts /\ attempts <= s_retry_num + 1
        /\ losses \in 0..MaxLosses /\ bits \subseteq {"CONNECTED", "FAIL"}
    BY DEF StationInv, StationTypeOK, Counted
  <1>1. CASE Associate
    BY <1>1 DEF Associate, StationInv, StationTypeOK, LastWord, Counted
  <1>2. CASE FailToConnect
    BY <1>0, <1>2, DriverKeepsInv DEF FailToConnect
  <1>3. CASE ObtainIP
    BY <1>0, <1>3, DriverKeepsInv DEF ObtainIP
  <1>4. CASE LoseConnection
    <2>1. losses' \in 0..MaxLosses
      BY <1>0, <1>4, WifiAssumption DEF LoseConnection
    <2> QED
      BY <1>4, <2>1, DriverKeepsInv DEF LoseConnection
  <1>5. CASE OnStart
    <2>1. events' = << >> /\ station = "idle" /\ wifi # "init" /\ attempts = 0
      BY <1>5, HandledLast DEF OnStart
    <2>2. /\ station' = "connecting" /\ attempts' = 1
          /\ UNCHANGED <<s_retry_num, bits, wifi, losses>>
      BY <1>5, <2>1 DEF OnStart, esp_wifi_connect
    <2>3. s_retry_num' <= attempts' /\ attempts' <= s_retry_num' + 1
      BY <1>0, <2>1, <2>2
    <2> QED
      BY <1>0, <2>1, <2>2, <2>3, HandlerKeepsInv
  <1>6. CASE OnDisconnected
    <2>1. events' = << >> /\ station = "idle" /\ wifi # "init"
      BY <1>6, HandledLast DEF OnDisconnected
    <2>2. CASE s_retry_num < MaximumRetry
      <3>1. /\ station' = "connecting" /\ attempts' = attempts + 1
            /\ s_retry_num' = s_retry_num + 1
            /\ UNCHANGED <<bits, wifi, losses>>
        BY <1>6, <2>2 DEF OnDisconnected, esp_wifi_connect
      <3>2. /\ s_retry_num' \in 0..MaximumRetry /\ attempts' \in Nat
            /\ s_retry_num' <= attempts' /\ attempts' <= s_retry_num' + 1
        BY <1>0, <2>2, <3>1, WifiAssumption
      <3> QED
        BY <1>0, <2>1, <3>1, <3>2, HandlerKeepsInv
    <2>3. CASE ~(s_retry_num < MaximumRetry)
      <3>1. /\ bits' = bits \cup {"FAIL"}
            /\ UNCHANGED <<station, s_retry_num, attempts, wifi, losses>>
        BY <1>6, <2>3 DEF OnDisconnected
      <3> QED
        BY <1>0, <2>1, <3>1, HandlerKeepsInv
    <2> QED
      BY <2>2, <2>3
  <1>7. CASE OnGotIP
    <2>1. events \in Seq(Events) /\ "STA_GOT_IP" \in Events
      BY DEF StationInv, StationTypeOK, Events
    <2>2. /\ events' \in Seq(Events)
          /\ Len(events) \in Nat /\ Len(events) >= 1
          /\ Len(events') = Len(events) - 1
          /\ \A i \in 1..Len(events') :
               events'[i] = events[i + 1] /\ i + 1 \in 1..Len(events)
      BY <1>7, <2>1, TakeFacts DEF OnGotIP
    <2>3. /\ s_retry_num' = 0 /\ attempts' = 0
          /\ bits' = bits \cup {"CONNECTED"}
          /\ UNCHANGED <<station, wifi, losses>>
      BY <1>7 DEF OnGotIP
    <2>4. StationTypeOK'
      <3>1. Len(events') <= MaxEvents
        BY <2>2, WifiAssumption DEF StationInv, StationTypeOK
      <3>2. s_retry_num' \in 0..MaximumRetry /\ attempts' \in Nat
        BY <2>3, WifiAssumption
      <3> QED
        BY <2>2, <2>3, <3>1, <3>2 DEF StationInv, StationTypeOK, Events
    <2>5. LastWord'
      BY <2>2, <2>3 DEF StationInv, LastWord
    <2>6. Counted'
      <3>1. events # << >>
        BY <2>2
      <3> QED
        BY <2>3, <3>1 DEF StationInv, Counted
    <2> QED
      BY <2>4, <2>5, <2>6 DEF StationInv
  <1>8. CASE StartStation
    <2>1. /\ events = << >> /\ attempts = 0 /\ events \in Seq(Events)
          /\ "STA_START" \in Events
      BY <1>8 DEF StartStation, StationInv, Counted, StationTypeOK, Events
    <2>2. /\ events' \in Seq(Events) /\ Len(events') <= MaxEvents
          /\ Len(events') = 1
      BY <1>8, <2>1, PostFacts DEF StartStation
    <2>3. /\ station' = "idle" /\ wifi' = "waiting"
          /\ UNCHANGED <<s_retry_num, bits, attempts, losses>>
      BY <1>8 DEF StartStation
    <2>4. StationTypeOK'
      BY <2>2, <2>3 DEF StationInv, StationTypeOK, Events
    <2>5. LastWord'
      BY <2>2, <2>3 DEF LastWord
    <2>6. Counted'
      BY <2>1, <2>3 DEF StationInv, Counted
    <2> QED
      BY <2>4, <2>5, <2>6 DEF StationInv
  <1>9. CASE WaitBits
    BY <1>9 DEF WaitBits, StationInv, StationTypeOK, LastWord, Counted
  <1>10. CASE UNCHANGED station_vars
    BY <1>10 DEF station_vars, StationInv, StationTypeOK, LastWord, Counted
  <1> QED
    BY <1>1, <1>2, <1>3, <1>4, <1>5, <1>6, <1>7, <1>8, <1>9, <1>10
    DEF StationNext, Driver, EventLoop, StationMain

-----------------------------------------------------------------------------
(* The strengthened invariant, which the other theorems follow from.       *)
THEOREM StationInvariant == StationSpec => []StationInv
  BY StationInitInv, StationInductive, PTL DEF StationSpec

(* For any EXAMPLE_ESP_MAXIMUM_RETRY, the station is told to connect at    *)
(* most once more than that without an address in between.                 *)
THEOREM AttemptsAreBounded == StationSpec => []AttemptsBounded
  <1>1. StationInv => AttemptsBounded
    BY WifiAssumption
    DEF StationInv, StationTypeOK, Counted, AttemptsBounded
  <1> QED
    BY <1>1, StationInvariant, PTL

(* The FAIL bit is set only when all the retries of this connection were   *)
(* used up and the station is idle.                                        *)
THEOREM FailureIsFinal == StationSpec => FailAfterAllRetries
  <1> DEFINE Fail == /\ bits' # bits /\ "FAIL" \in bits' \ bits
                     => attempts >= MaximumRetry /\ station = "idle"
  <1>1. StationInv /\ [StationNext]_station_vars => [Fail]_station_vars
    <2> SUFFICES ASSUME StationInv, StationNext, "FAIL" \in bits' \ bits
                 PROVE  attempts >= MaximumRetry /\ station = "idle"
      OBVIOUS
    <2>1. OnDisconnected /\ ~(s_retry_num < MaximumRetry)
      BY DEF StationNext, Driver, EventLoop, StationMain, Associate,
             FailToConnect, ObtainIP, LoseConnection, OnStart, OnGotIP,
             OnDisconnected, StartStation, WaitBits
    <2>2. station = "idle"
      BY <2>1, HandledLast DEF OnDisconnected
    <2>3. attempts >= MaximumRetry
      BY <2>1, WifiAssumption DEF StationInv, StationTypeOK, Counted
    <2> QED
      BY <2>2, <2>3
  <1> QED
    BY <1>1, StationInvariant, PTL DEF StationSpec, FailAfterAllRetries
=============================================================================
