------------------------- MODULE CamLifecycleProofs -------------------------
(***************************************************************************)
(* Whichever step of bringing the camera up fails, and when it is shut     *)
(* down, what was allocated is released once, for any number of frames,    *)
(* channels and calls.                                                     *)
(***************************************************************************)
EXTENDS CamLifecycle, TLAPS

Before == {"idle", "failed"}

(* What is allocated is what the pointers lead to, but for an I2C driver   *)
(* that was not installed; all that cam_obj leads to is in reach of        *)
(* cam_deinit, and s_state's things are not.                               *)
Owned ==
  /\ heap \subseteq cam \cup StateThings
  /\ cam \cup (StateThings \ {Sccb}) \subseteq heap
  /\ cam \subseteq Deinits
  /\ cam # {} => CamObj \in cam
  /\ pc \notin Before \cup {"deinit"} => CamObj \in cam
  /\ pc \in Before => cam = {}

(* The clock comes with ll_cam_config, s_state with camera_probe, which    *)
(* goes on only with a driver on the port.                                 *)
Powered ==
  /\ pc \in {"idle", "failed", "channel", "state"} => ~s_state
  /\ pc \in {"probe", "format", "config", "task", "framesize", "start",
             "running"} => s_state
  /\ pc \in {"state", "probe", "format", "config", "task", "framesize",
             "start", "running"} => xclk
  /\ pc \in {"format", "config", "task", "framesize", "start", "running"} =>
       Sccb \in heap \/ foreign
  /\ s_state /\ Sccb \notin heap => noBus

(* cam_config's allocations are there in the order they are made.          *)
Progress ==
  /\ pc \in {"config", "task", "framesize", "start", "running"} =>
       \A i \in 1..done : Allocations[i] \in heap
  /\ pc \in {"task", "framesize", "start", "running"} =>
       done = Len(Allocations)
  /\ pc \in {"state", "probe", "format"} => done = 0
  /\ pc = "channel" => done = 0

(* The channel was free, and no other has lost its link.                   *)
OwnChannel ==
  others # DmaChannels =>
     /\ pc # "running" => link = others
     /\ pc = "running" => link = others \cup {dma_num}
     /\ others \subseteq link
     /\ pc \notin Before \cup {"channel"} /\ cam # {} => dma_num \notin others

(* Without a free channel at first, only channel 0 is ever let go.         *)
NoChannel ==
  others = DmaChannels => dma_num = 0 /\ DmaChannels \ link \subseteq {0}

IInv ==
  /\ TypeOK /\ Owned /\ Powered /\ Progress
  /\ OwnChannel /\ NoChannel /\ FreedOnce

-----------------------------------------------------------------------------
(* The allocations of cam_config are among what cam_deinit frees.          *)
LEMMA AllocationsDeinit ==
  /\ Len(Allocations) \in Nat
  /\ \A i \in 1..Len(Allocations) : Allocations[i] \in Deinits \cap Things
  /\ \A t \in Range(Allocations) :
       \E i \in 1..Len(Allocations) : t = Allocations[i]
  <1>1. FrameThings \in Seq({"buf", "desc"} \X (1..FrameCnt))
    <2>1. \A i \in 1..(2 * FrameCnt) : (i + 1) \div 2 \in 1..FrameCnt
      BY LifecycleAssumption
    <2>2. 2 * FrameCnt \in Nat
      BY LifecycleAssumption
    <2>3. FrameThings \in [1..(2 * FrameCnt) -> {"buf", "desc"} \X (1..FrameCnt)]
      BY <2>1 DEF FrameThings
    <2> QED
      BY <2>2, <2>3
  <1> DEFINE first == <<Thing("frames")>>
             last == <<Thing("event_queue"), Thing("frame_buffer_queue"),
                       Thing("dma_intr"), Thing("cam_intr")>>
  <1>2. first \in Seq(Deinits) /\ last \in Seq(Deinits)
    BY DEF Deinits
  <1>3. FrameThings \in Seq(Deinits)
    <2>1. {"buf", "desc"} \X (1..FrameCnt) \subseteq Deinits
      BY DEF Deinits
    <2> QED
      BY <1>1, <2>1
  <1>4. Allocations = (first \o FrameThings) \o last
    BY DEF Allocations
  <1> HIDE DEF first, last
  <1>5. Allocations \in Seq(Deinits)
    BY <1>2, <1>3, <1>4
  <1>6. \A i \in 1..Len(Allocations) : Allocations[i] \in Range(Allocations)
    BY <1>5 DEF Range
  <1> QED
    BY <1>5, <1>6 DEF Range, Things

(* s_state's things are not cam_obj's.                                     *)
LEMMA ThingsApart ==
  /\ StateThings \cap Deinits = {}
  /\ CamObj \in Deinits /\ Thing("task") \in Deinits
  /\ CamObj \in Things /\ Thing("task") \in Things
  /\ {Thing("s_state"), Sccb} \subseteq Things
  <1>1. \A x \in {"buf", "desc"} \X (1..FrameCnt) : x[1] \in {"buf", "desc"}
    OBVIOUS
  <1>2. /\ Thing("s_state")[1] = "s_state" /\ Thing("sccb")[1] = "sccb"
        /\ Thing("cam_obj")[1] = "cam_obj" /\ Thing("task")[1] = "task"
        /\ Thing("event_queue")[1] = "event_queue"
        /\ Thing("frame_buffer_queue")[1] = "frame_buffer_queue"
        /\ Thing("frames")[1] = "frames"
        /\ Thing("dma_intr")[1] = "dma_intr"
        /\ Thing("cam_intr")[1] = "cam_intr"
    BY DEF Thing
  <1>3. \A x \in Deinits : x[1] # "s_state" /\ x[1] # "sccb"
    BY <1>1, <1>2 DEF Deinits, CamObj
  <1> QED
    BY <1>2, <1>3 DEF StateThings, Deinits, Things, CamObj, Sccb

(* The initial states.                                                     *)
LEMMA LifecycleInit == Init => IInv
  <1> SUFFICES ASSUME Init PROVE IInv
    OBVIOUS
  <1>1. 0 \in 0..Len(Allocations) /\ 0 \in DmaChannels /\ 0 \in 0..MaxTries
    BY LifecycleAssumption, AllocationsDeinit DEF DmaChannels
  <1>2. StateThings = {}
    BY DEF Init, StateThings
  <1> QED
    BY <1>1, <1>2
    DEF Init, IInv, TypeOK, Owned, Powered, Progress, OwnChannel, NoChannel, FreedOnce,
        Before

-----------------------------------------------------------------------------
(* cam_deinit, with or without a cam_obj, frees what the handles lead to   *)
(* and what its caller frees: only an I2C driver may not be there.         *)
LEMMA DeinitFrees ==
  ASSUME IInv, NEW more \in {{}, StateThings}, CamDeinit(more)
  PROVE  /\ heap' = (heap \cap StateThings) \ more /\ cam' = {}
         /\ twice' \subseteq (IF noBus THEN {Sccb} ELSE {})
         /\ link' \subseteq DmaChannels
         /\ cam = {} => link' = link
         /\ cam # {} => link' = link \ {dma_num}
  <1>1. HandlesIn(cam \cap Deinits) = cam
    BY DEF IInv, Owned, HandlesIn
  <1>2. cam \cap StateThings = {}
    BY ThingsApart DEF IInv, Owned
  <1>3. /\ heap' = heap \ (cam \cup more)
        /\ twice' = twice \cup ((cam \cup more) \ heap)
    BY <1>1 DEF CamDeinit, Frees
  <1>4. more \subseteq StateThings
    OBVIOUS
  <1>5. cam # {} => CamObj \in cam
    BY DEF IInv, Owned
  <1>6. heap' = (heap \cap StateThings) \ more
    BY <1>2, <1>3, <1>4 DEF IInv, Owned
  <1>7. twice' \subseteq (IF noBus THEN {Sccb} ELSE {})
    <2>1. (cam \cup more) \ heap \subseteq {Sccb}
      BY <1>4 DEF IInv, Owned
    <2>2. Sccb \in (cam \cup more) \ heap => noBus
      <3>1. Sccb \notin cam \/ Sccb \in heap
        BY DEF IInv, Owned
      <3>2. Sccb \in StateThings => s_state
        BY DEF StateThings
      <3> QED
        BY <1>4, <3>1, <3>2 DEF IInv, Powered
    <2>3. twice \subseteq (IF noBus THEN {Sccb} ELSE {})
      BY DEF IInv, FreedOnce
    <2> QED
      BY <1>3, <2>1, <2>2, <2>3
  <1> QED
    BY <1>5, <1>6, <1>7 DEF CamDeinit, HandlesIn, IInv, TypeOK

(* Every step keeps IInv.                                                  *)
LEMMA LifecycleInductive == IInv /\ [Next]_vars => IInv'
  <1> SUFFICES ASSUME IInv, [Next]_vars PROVE IInv'
    OBVIOUS
  <1>0. /\ TypeOK /\ Owned /\ Powered /\ Progress /\ OwnChannel
        /\ NoChannel /\ FreedOnce
    BY DEF IInv
  <1>1. CASE CamInit
    <2>1. tries' \in 0..MaxTries /\ 0 \in DmaChannels
          /\ 0 \in 0..Len(Allocations)
      BY <1>0, <1>1, LifecycleAssumption, AllocationsDeinit
      DEF CamInit, TypeOK, DmaChannels
    <2>2. heap = {} /\ ~s_state /\ cam = {}
      BY <1>0, <1>1 DEF CamInit, Owned, Powered, StateThings, Before
    <2> QED
      BY <1>0, <1>1, <2>1, <2>2, ThingsApart
      DEF CamInit, bus, IInv, TypeOK, Owned, Powered, Progress, OwnChannel, NoChannel,
          FreedOnce, StateThings, Before
  <1>2. CASE LlCamConfig
    <2>1. CASE /\ \E c \in DmaChannels \ link : dma_num' = c
               /\ pc' = "state" /\ UNCHANGED <<heap, twice, link, cam>>
      <3>1. NoChannel'
        BY <1>0, <1>2, <2>1 DEF LlCamConfig, NoChannel
      <3> QED
        BY <1>0, <1>2, <2>1, <3>1
        DEF LlCamConfig, bus, IInv, TypeOK, Owned, Powered, Progress,
            OwnChannel, FreedOnce, StateThings, Before
    <2>2. CASE /\ link = DmaChannels /\ CamDeinit({}) /\ pc' = "failed"
               /\ UNCHANGED dma_num
      <3>0. StateThings = {}
        BY <1>0, <1>2 DEF LlCamConfig, Powered, StateThings
      <3>1. /\ heap' = {} /\ cam' = {}
            /\ twice' \subseteq (IF noBus THEN {Sccb} ELSE {})
            /\ link' \subseteq DmaChannels
            /\ link' = link \/ link' = link \ {dma_num}
        BY <2>2, <3>0, DeinitFrees
      <3>2. others = DmaChannels
        BY <1>0, <1>2, <2>2 DEF LlCamConfig, OwnChannel
      <3>3. NoChannel'
        BY <1>0, <1>2, <2>2, <3>1, <3>2 DEF LlCamConfig, NoChannel
      <3>4. twice' \subseteq Things /\ Sccb \in Things
        BY <3>1, ThingsApart
      <3> QED
        BY <1>0, <1>2, <2>2, <3>1, <3>2, <3>3, <3>4
        DEF LlCamConfig, bus, IInv, TypeOK, Owned, Powered, Progress,
            OwnChannel, FreedOnce, StateThings, Before
    <2> QED
      BY <1>2, <2>1, <2>2 DEF LlCamConfig
  <1>3. CASE AllocState
    <2>1. StateThings = {} /\ heap = cam /\ ~s_state
      BY <1>0, <1>3 DEF AllocState, Owned, Powered, StateThings
    <2>2. Owned'
      BY <1>0, <1>3, <2>1 DEF AllocState, Owned, StateThings, Before
    <2>3. TypeOK'
      BY <1>0, <1>3, ThingsApart DEF AllocState, TypeOK
    <2>4. /\ noBus => noBus'
          /\ s_state' /\ Sccb \notin heap' => noBus'
      <3>1. CASE pc' = "deinit" /\ UNCHANGED <<heap, s_state, noBus>>
        BY <2>1, <3>1
      <3>2. ASSUME NEW sccb \in SUBSET {Sccb},
                   heap' = heap \cup {Thing("s_state")} \cup sccb,
                   noBus' = (noBus \/ sccb = {})
            PROVE  (noBus => noBus') /\ (Sccb \notin heap' => noBus')
        <4>1. sccb = {} \/ Sccb \in sccb
          OBVIOUS
        <4>2. sccb = {} => noBus'
          BY <3>2, Zenon
        <4>3. noBus => noBus'
          BY <3>2, Zenon
        <4> QED
          BY <3>2, <4>1, <4>2, <4>3, Zenon
      <3> QED
        BY <1>3, <3>1, <3>2 DEF AllocState
    <2>5. Powered' /\ FreedOnce'
      <3>1. \/ pc' = "deinit" /\ s_state' = s_state
            \/ pc' = "probe" /\ s_state' = TRUE
        BY <1>3 DEF AllocState
      <3>2. twice' = twice /\ xclk' = xclk /\ pc = "state"
        BY <1>3 DEF AllocState
      <3> QED
        BY <1>0, <2>1, <2>4, <3>1, <3>2 DEF Powered, FreedOnce
    <2> QED
      BY <1>0, <1>3, <2>2, <2>3, <2>4, <2>5
      DEF AllocState, IInv, Progress, OwnChannel, NoChannel, Before
  <1>4. CASE CameraProbe
    BY <1>0, <1>4
    DEF CameraProbe, bus, IInv, TypeOK, Owned, Powered, Progress, OwnChannel, NoChannel,
        FreedOnce, StateThings, Before
  <1>5. CASE CheckFormat
    <2>1. \A i \in 1..0 : FALSE
      OBVIOUS
    <2> QED
      BY <1>0, <1>5, <2>1
      DEF CheckFormat, bus, IInv, TypeOK, Owned, Powered, Progress, OwnChannel, NoChannel,
          FreedOnce, StateThings, Before
  <1>6. CASE Allocate
    <2>1. CASE /\ done' = done + 1
               /\ heap' = heap \cup {Allocations[done']}
               /\ cam' = cam \cup {Allocations[done']}
               /\ pc' = IF done' = Len(Allocations) THEN "task" ELSE "config"
               /\ UNCHANGED <<link, twice>>
      <3>1. /\ done' \in 1..Len(Allocations) /\ done' \in 0..Len(Allocations)
            /\ \A i \in 1..done' : i = done' \/ i \in 1..done
        BY <1>0, <1>6, <2>1, AllocationsDeinit DEF Allocate, bus, TypeOK
      <3>2. Allocations[done'] \in Deinits \cap Things
        BY <3>1, AllocationsDeinit
      <3>3. TypeOK'
        BY <1>0, <1>6, <2>1, <3>1, <3>2 DEF Allocate, bus, TypeOK
      <3>4. Owned' /\ Powered'
        BY <1>0, <1>6, <2>1, <3>2
        DEF Allocate, bus, Owned, Powered, StateThings, Before
      <3>5. Progress'
        BY <1>0, <1>6, <2>1, <3>1 DEF Allocate, Progress
      <3>6. OwnChannel' /\ NoChannel' /\ FreedOnce'
        BY <1>0, <1>6, <2>1
        DEF Allocate, bus, OwnChannel, NoChannel, FreedOnce, Before, Owned
      <3> QED
        BY <3>3, <3>4, <3>5, <3>6 DEF IInv
    <2>2. CASE pc' = "deinit" /\ CamDeinit({}) /\ UNCHANGED done
      <3>1. /\ heap' = heap \cap StateThings /\ cam' = {}
            /\ twice' \subseteq (IF noBus THEN {Sccb} ELSE {})
            /\ link' \subseteq DmaChannels
            /\ cam = {} => link' = link
            /\ cam # {} => link' = link \ {dma_num}
        BY <2>2, DeinitFrees
      <3>2. others # DmaChannels => link' = others
        BY <1>0, <1>6, <3>1 DEF Allocate, OwnChannel, Before, Owned
      <3>3. StateThings' = StateThings
        BY <1>6 DEF Allocate, StateThings
      <3>4. TypeOK'
        BY <1>0, <1>6, <2>2, <3>1, ThingsApart
        DEF Allocate, bus, TypeOK, StateThings
      <3>5. Owned'
        BY <1>0, <1>6, <2>2, <3>1, <3>3 DEF Allocate, Owned, Before
      <3>6. Powered'
        <4>1. Sccb \in heap /\ s_state => Sccb \in heap'
          BY <3>1 DEF StateThings
        <4> QED
          BY <1>0, <1>6, <2>2, <4>1 DEF Allocate, bus, Powered
      <3>7. NoChannel'
        BY <1>0, <1>6, <3>1 DEF Allocate, NoChannel
      <3>8. FreedOnce'
        BY <1>6, <3>1 DEF Allocate, bus, FreedOnce
      <3> QED
        BY <1>0, <1>6, <2>2, <3>1, <3>2, <3>4, <3>5, <3>6, <3>7, <3>8
        DEF Allocate, IInv, Progress, OwnChannel, Before
    <2> QED
      BY <1>6, <2>1, <2>2 DEF Allocate
  <1>7. CASE CreateCamTask
    BY <1>0, <1>7, ThingsApart
    DEF CreateCamTask, bus, IInv, TypeOK, Owned, Powered, Progress, OwnChannel, NoChannel,
        FreedOnce, StateThings, Before
  <1>8. CASE SetFramesize
    BY <1>0, <1>8
    DEF SetFramesize, bus, IInv, TypeOK, Owned, Powered, Progress, OwnChannel, NoChannel,
        FreedOnce, StateThings, Before
  <1>9. CASE CamStart
    BY <1>0, <1>9
    DEF CamStart, bus, IInv, TypeOK, Owned, Powered, Progress, OwnChannel, NoChannel,
        FreedOnce, StateThings, Before
  <1>10. CASE EspCameraDeinit
    <2>1. /\ heap' = {} /\ cam' = {}
          /\ twice' \subseteq (IF noBus THEN {Sccb} ELSE {})
          /\ link' \subseteq DmaChannels
          /\ cam = {} => link' = link
          /\ cam # {} => link' = link \ {dma_num}
      BY <1>10, DeinitFrees DEF EspCameraDeinit
    <2>2. others # DmaChannels => link' = others
      BY <1>0, <1>10, <2>1 DEF EspCameraDeinit, OwnChannel, Before, Owned
    <2>3. NoChannel'
      BY <1>0, <1>10, <2>1 DEF EspCameraDeinit, NoChannel
    <2>4. twice' \subseteq Things
      BY <2>1, ThingsApart
    <2>5. StateThings' = {}
      BY <1>10 DEF EspCameraDeinit, StateThings
    <2> QED
      BY <1>0, <1>10, <2>1, <2>2, <2>3, <2>4, <2>5
      DEF EspCameraDeinit, IInv, TypeOK, Owned, Powered, Progress,
          OwnChannel, FreedOnce, Before
  <1>11. CASE UNCHANGED vars
    BY <1>0, <1>11
    DEF vars, bus, IInv, TypeOK, Owned, Powered, Progress, OwnChannel, NoChannel,
        FreedOnce, StateThings
  <1> QED
    BY <1>1, <1>2, <1>3, <1>4, <1>5, <1>6, <1>7, <1>8, <1>9, <1>10, <1>11
    DEF Next

-----------------------------------------------------------------------------
(* The strengthened invariant, which the other theorems follow from.       *)
THEOREM LifecycleInvariant == Spec => []IInv
  BY LifecycleInit, LifecycleInductive, PTL DEF Spec

(* The variables hold what they should, for any number of frame buffers.  *)
THEOREM LifecycleTypeCorrect == Spec => []TypeOK
  <1>1. IInv => TypeOK
    BY DEF IInv
  <1> QED
    BY <1>1, LifecycleInvariant, PTL

(* Whichever step of esp_camera_init fails, and when esp_camera_deinit is  *)
(* called for a running camera, everything allocated is released and no    *)
(* handle leads to what was.                                               *)
THEOREM FailureReleasesAll == Spec => []NothingLost
  <1>1. IInv => NothingLost
    BY DEF IInv, NothingLost, Owned, Powered, StateThings, Before
  <1> QED
    BY <1>1, LifecycleInvariant, PTL

(* And it is released once, though cam_deinit and esp_camera_deinit both   *)
(* run for some of the failures; SCCB_Deinit alone may run for nothing,    *)
(* after an installation that failed or was left to others.                *)
THEOREM NothingFreedTwice == Spec => []FreedOnce
  <1>1. IInv => FreedOnce
    BY DEF IInv
  <1> QED
    BY <1>1, LifecycleInvariant, PTL

(* A camera that runs has all its buffers, queues and interrupts, and an   *)
(* I2C driver, its own or another's: camera_probe ends the call otherwise. *)
THEOREM RunningHasAll == Spec => []RunningIsComplete
  <1>1. IInv => RunningIsComplete
    <2> SUFFICES ASSUME IInv, pc = "running"
                 PROVE  /\ Things \ {Thing("task"), Sccb} \subseteq heap
                        /\ Sccb \in heap \/ foreign
                        /\ xclk
      BY DEF RunningIsComplete
    <2>1. Range(Allocations) \subseteq heap
      BY AllocationsDeinit DEF IInv, Progress
    <2>2. CamObj \in heap
      BY DEF IInv, Owned, Before
    <2>3. xclk /\ (Sccb \in heap \/ foreign) /\ s_state
      BY DEF IInv, Powered
    <2>4. Thing("s_state") \in StateThings \ {Sccb}
      <3>1. Thing("s_state")[1] = "s_state" /\ Sccb[1] = "sccb"
        BY DEF Thing, Sccb
      <3> QED
        BY <2>3, <3>1 DEF StateThings
    <2>5. Thing("s_state") \in heap
      BY <2>4 DEF IInv, Owned
    <2> QED
      BY <2>1, <2>2, <2>3, <2>5 DEF Things, CamObj, Sccb
  <1> QED
    BY <1>1, LifecycleInvariant, PTL

(* No other peripheral loses its channel, but for channel 0 when there was *)
(* none for the camera.                                                    *)
THEOREM OthersKeepTheirs == Spec => []OthersUndisturbed
  <1>1. IInv => OthersUndisturbed
    BY DEF IInv, OthersUndisturbed, OwnChannel, NoChannel, Owned, Before
  <1> QED
    BY <1>1, LifecycleInvariant, PTL
=============================================================================
