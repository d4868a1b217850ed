---------------------------- MODULE CamHalProofs ----------------------------
(***************************************************************************)
(* Proofs about CamHal for every number of frames, every queue length and  *)
(* both pixel formats.                                                     *)
(***************************************************************************)
EXTENDS CamHal, TLAPS

-----------------------------------------------------------------------------
(* What the frame queue's operations do to its elements. *)

(* xQueueSend adds the frame to the queued ones.                           *)
LEMMA AppendElements ==
    ASSUME NEW S, NEW q \in Seq(S), NEW e \in S, IsInjective(q), e \notin Range(q)
    PROVE  /\ Append(q, e) \in Seq(S)
           /\ Range(Append(q, e)) = Range(q) \union {e}
           /\ IsInjective(Append(q, e))
<1>1. /\ Append(q, e) \in Seq(S)
      /\ Len(Append(q, e)) = Len(q) + 1
      /\ DOMAIN Append(q, e) = 1 .. Len(q) + 1
      /\ DOMAIN q = 1 .. Len(q)
      /\ Append(q, e)[Len(q) + 1] = e
      /\ \A i \in 1 .. Len(q) : Append(q, e)[i] = q[i]
      /\ Len(q) \in Nat
    OBVIOUS
<1>2. Range(Append(q, e)) = Range(q) \union {e}
    BY <1>1 DEF Range
<1>3. IsInjective(Append(q, e))
    BY <1>1 DEF Range, IsInjective
<1> QED BY <1>1, <1>2, <1>3

(* xQueueReceive takes the head, and only it, out of the queue.            *)
LEMMA TailElements ==
    ASSUME NEW S, NEW q \in Seq(S), q # << >>, IsInjective(q)
    PROVE  /\ Tail(q) \in Seq(S)
           /\ Head(q) \in S
           /\ Head(q) \in Range(q)
           /\ Range(Tail(q)) = Range(q) \ {Head(q)}
           /\ IsInjective(Tail(q))
<1>1. /\ Tail(q) \in Seq(S)
      /\ Len(q) \in Nat \ {0}
      /\ Len(Tail(q)) = Len(q) - 1
      /\ DOMAIN Tail(q) = 1 .. Len(q) - 1
      /\ DOMAIN q = 1 .. Len(q)
      /\ Head(q) = q[1]
      /\ Head(q) \in S
      /\ \A i \in 1 .. Len(q) - 1 : Tail(q)[i] = q[i + 1]
    OBVIOUS
<1>2. \A i, j \in 1 .. Len(q) : q[i] = q[j] => i = j
    BY <1>1 DEF IsInjective
<1>3. Head(q) \in Range(q)
    BY <1>1 DEF Range
<1>4. ASSUME NEW e \in Range(Tail(q)) PROVE e \in Range(q) /\ e # Head(q)
    <2>1. PICK i \in 1 .. Len(q) - 1 : e = Tail(q)[i]
        BY <1>1 DEF Range
    <2>2. i + 1 \in 1 .. Len(q) /\ i + 1 # 1 /\ 1 \in 1 .. Len(q) /\ e = q[i + 1]
        BY <2>1, <1>1
    <2> QED BY <2>2, <1>1, <1>2 DEF Range
<1>5. ASSUME NEW e \in Range(q), e # Head(q) PROVE e \in Range(Tail(q))
    <2>1. PICK i \in 1 .. Len(q) : e = q[i]
        BY <1>1 DEF Range
    <2>2. i - 1 \in 1 .. Len(q) - 1 /\ Tail(q)[i - 1] = e
        BY <2>1, <1>5, <1>1
    <2> QED BY <2>2, <1>1 DEF Range
<1>6. IsInjective(Tail(q))
    BY <1>1, <1>2 DEF IsInjective
<1> QED BY <1>1, <1>3, <1>4, <1>5, <1>6

-----------------------------------------------------------------------------
(* A frame has one owner, spelled out for the provers. *)
Owned(f) ==
    LET free == f \in Free
        queued == f \in Queued
        recorded == f \in Recorded
        popped == f \in Popped
        searched == f \in Searched
        app_s == f \in held
    IN  \/ free /\ ~queued /\ ~recorded /\ ~popped /\ ~searched /\ ~app_s
        \/ ~free /\ queued /\ ~recorded /\ ~popped /\ ~searched /\ ~app_s
        \/ ~free /\ ~queued /\ recorded /\ ~popped /\ ~searched /\ ~app_s
        \/ ~free /\ ~queued /\ ~recorded /\ popped /\ ~searched /\ ~app_s
        \/ ~free /\ ~queued /\ ~recorded /\ ~popped /\ searched /\ ~app_s
        \/ ~free /\ ~queued /\ ~recorded /\ ~popped /\ ~searched /\ app_s

(* Having exactly one place in Places is Owned.                            *)
LEMMA OwnedLemma ==
    ASSUME NEW f
    PROVE  (\E p \in 1 .. 6 : \A q \in 1 .. 6 : f \in Places[q] <=> q = p) <=> Owned(f)
<1>1. 1 .. 6 = {1, 2, 3, 4, 5, 6}
    OBVIOUS
<1>2. /\ Places[1] = Free /\ Places[2] = Queued /\ Places[3] = Recorded
      /\ Places[4] = Popped /\ Places[5] = Searched /\ Places[6] = held
    BY DEF Places
<1>3. ASSUME NEW p \in 1 .. 6, \A q \in 1 .. 6 : f \in Places[q] <=> q = p
      PROVE  Owned(f)
    BY <1>1, <1>2, <1>3 DEF Owned
<1>4. ASSUME Owned(f)
      PROVE  \E p \in 1 .. 6 : \A q \in 1 .. 6 : f \in Places[q] <=> q = p
    <2>1. CASE f \in Free
        <3>1. \A q \in 1 .. 6 : f \in Places[q] <=> q = 1
            BY <1>1, <1>2, <1>4, <2>1 DEF Owned
        <3> QED BY <3>1
    <2>2. CASE f \in Queued
        <3>1. \A q \in 1 .. 6 : f \in Places[q] <=> q = 2
            BY <1>1, <1>2, <1>4, <2>2 DEF Owned
        <3> QED BY <3>1
    <2>3. CASE f \in Recorded
        <3>1. \A q \in 1 .. 6 : f \in Places[q] <=> q = 3
            BY <1>1, <1>2, <1>4, <2>3 DEF Owned
        <3> QED BY <3>1
    <2>4. CASE f \in Popped
        <3>1. \A q \in 1 .. 6 : f \in Places[q] <=> q = 4
            BY <1>1, <1>2, <1>4, <2>4 DEF Owned
        <3> QED BY <3>1
    <2>5. CASE f \in Searched
        <3>1. \A q \in 1 .. 6 : f \in Places[q] <=> q = 5
            BY <1>1, <1>2, <1>4, <2>5 DEF Owned
        <3> QED BY <3>1
    <2>6. CASE f \in held
        <3>1. \A q \in 1 .. 6 : f \in Places[q] <=> q = 6
            BY <1>1, <1>2, <1>4, <2>6 DEF Owned
        <3> QED BY <3>1
    <2> QED BY <1>4, <2>1, <2>2, <2>3, <2>4, <2>5, <2>6 DEF Owned
<1> QED BY <1>3, <1>4

-----------------------------------------------------------------------------
(* The invariant, in the form the steps below use it. *)

(* OneOwner says that every frame is Owned and queued at most once.        *)
LEMMA OneOwnerLemma ==
    OneOwner <=> (\A f \in Frames : Owned(f)) /\ IsInjective(frame_buffer_queue)
BY OwnedLemma DEF OneOwner

(* The initial states satisfy the invariant.                               *)
LEMMA InitInvariant == Init => IInv
<1> SUFFICES ASSUME Init PROVE IInv
    OBVIOUS
<1>1. TypeOK
    BY SizeAssumption, NullAssumption DEF Init, TypeOK, Frames, Events, Labels
<1>2. \A f \in Frames : Owned(f)
    <2>1. Range(frame_buffer_queue) = {}
        BY DEF Init, Range
    <2> QED BY <2>1, NullAssumption
            DEF Init, Owned, Free, Queued, Recorded, Popped, Searched
<1>3. IsInjective(frame_buffer_queue)
    BY DEF Init, IsInjective
<1>4. OneOwner
    BY <1>2, <1>3, OwnedLemma DEF OneOwner
<1>5. DmaInv /\ StateInv /\ PromptInv /\ ReadsWhatIsRecorded
    BY DEF Init, DmaInv, StateInv, PromptInv, ReadsWhatIsRecorded, Events
<1> QED BY <1>1, <1>4, <1>5 DEF IInv

(* The same in the next state.                                             *)
LEMMA OneOwnerNext ==
    OneOwner' <=> (\A f \in Frames : Owned(f)') /\ IsInjective(frame_buffer_queue')
<1>1. (OneOwner <=> (\A f \in Frames : Owned(f)) /\ IsInjective(frame_buffer_queue))'
    BY OneOwnerLemma, PTL
<1> QED BY <1>1 DEF Frames

-----------------------------------------------------------------------------
(* Every step preserves the invariant.  The first lemma is about the steps *)
(* that leave the frames where they are, the others about the steps that   *)
(* move one.                                                               *)

(* A step that keeps the en flags, the frame queue and the application's   *)
(* frames, and takes no recorded or popped frame into or out of cam_task's *)
(* hands, keeps every frame with its owner.                                *)
LEMMA OwnersKept ==
    ASSUME IInv,
           UNCHANGED <<en, frame_buffer_queue, search, held>>,
           UNCHANGED <<Recorded, Popped>>
    PROVE  OneOwner'
<1>1. \A f \in Frames : Owned(f) /\ IsInjective(frame_buffer_queue)
    BY OneOwnerLemma DEF IInv
<1>2. Free' = Free /\ Queued' = Queued /\ Searched' = Searched
    BY DEF Free, Queued, Searched, Frames
<1>3. \A f \in Frames : Owned(f)'
    BY <1>1, <1>2 DEF Owned
<1>4. IsInjective(frame_buffer_queue')
    BY OneOwnerLemma DEF IInv
<1> QED BY <1>3, <1>4, OneOwnerNext

(* Enabling the VSYNC interrupt.                                           *)
LEMMA CamStartKeeps ==
    ASSUME IInv, CamStart PROVE IInv'
<1>1. TypeOK'
    BY SizeAssumption, NullAssumption DEF IInv, TypeOK, CamStart, task, app, Frames, Events, Labels
<1>2. OneOwner'
    <2>1. UNCHANGED <<en, frame_buffer_queue, search, held>>
        BY DEF CamStart, task, app
    <2>2. UNCHANGED <<Recorded, Popped>>
        BY DEF CamStart, task, app, Recorded, Popped
    <2> QED BY <2>1, <2>2, OwnersKept
<1>3. DmaInv'
    BY NullAssumption DEF IInv, TypeOK, DmaInv, StateInv, CamStart, task, app, Frames
<1>4. StateInv' /\ PromptInv'
    BY SizeAssumption, NullAssumption
       DEF IInv, TypeOK, DmaInv, StateInv, PromptInv, ReadsWhatIsRecorded, CamStart, task, app, Events, Labels
<1>5. ReadsWhatIsRecorded'
    BY SizeAssumption, NullAssumption
       DEF IInv, TypeOK, DmaInv, StateInv, PromptInv, ReadsWhatIsRecorded, CamStart, task, app, Events, Labels
<1> QED BY <1>1, <1>2, <1>3, <1>4, <1>5 DEF IInv

(* An interrupt handler starts.                                            *)
LEMMA InterruptKeeps ==
    ASSUME IInv, NEW e \in Events, Interrupt(e) PROVE IInv'
<1>1. TypeOK'
    BY SizeAssumption, NullAssumption DEF IInv, TypeOK, Interrupt, task, app, Frames, Events, Labels
<1>2. OneOwner'
    <2>1. UNCHANGED <<en, frame_buffer_queue, search, held>>
        BY DEF Interrupt, task, app
    <2>2. UNCHANGED <<Recorded, Popped>>
        BY DEF Interrupt, task, app, Recorded, Popped
    <2> QED BY <2>1, <2>2, OwnersKept
<1>3. DmaInv'
    BY NullAssumption DEF IInv, TypeOK, DmaInv, StateInv, Interrupt, task, app, Frames
<1>4. StateInv' /\ PromptInv'
    BY SizeAssumption, NullAssumption
       DEF IInv, TypeOK, DmaInv, StateInv, PromptInv, ReadsWhatIsRecorded, Interrupt, task, app, Events, Labels
<1>5. ReadsWhatIsRecorded'
    BY SizeAssumption, NullAssumption
       DEF IInv, TypeOK, DmaInv, StateInv, PromptInv, ReadsWhatIsRecorded, Interrupt, task, app, Events, Labels
<1> QED BY <1>1, <1>2, <1>3, <1>4, <1>5 DEF IInv

(* An event is queued.                                                     *)
LEMMA SendEventKeeps ==
    ASSUME IInv, SendEvent PROVE IInv'
<1>1. TypeOK'
    BY SizeAssumption, NullAssumption DEF IInv, TypeOK, SendEvent, task, app, Frames, Events, Labels
<1>2. OneOwner'
    <2>1. UNCHANGED <<en, frame_buffer_queue, search, held>>
        BY DEF SendEvent, task, app
    <2>2. UNCHANGED <<Recorded, Popped>>
        BY DEF SendEvent, task, app, Recorded, Popped
    <2> QED BY <2>1, <2>2, OwnersKept
<1>3. DmaInv'
    BY NullAssumption DEF IInv, TypeOK, DmaInv, StateInv, SendEvent, task, app, Frames
<1>4. StateInv' /\ PromptInv'
    BY SizeAssumption, NullAssumption
       DEF IInv, TypeOK, DmaInv, StateInv, PromptInv, ReadsWhatIsRecorded, SendEvent, task, app, Events, Labels
<1>5. ReadsWhatIsRecorded'
    BY SizeAssumption, NullAssumption
       DEF IInv, TypeOK, DmaInv, StateInv, PromptInv, ReadsWhatIsRecorded, SendEvent, task, app, Events, Labels
<1> QED BY <1>1, <1>2, <1>3, <1>4, <1>5 DEF IInv

(* The event queue overflows and the DMA engine is stopped.                *)
LEMMA SendEventFailsKeeps ==
    ASSUME IInv, SendEventFails PROVE IInv'
<1>1. TypeOK'
    BY SizeAssumption, NullAssumption DEF IInv, TypeOK, SendEventFails, task, app, Frames, Events, Labels
<1>2. OneOwner'
    <2>1. UNCHANGED <<en, frame_buffer_queue, search, held>>
        BY DEF SendEventFails, task, app
    <2>2. UNCHANGED <<Recorded, Popped>>
        BY DEF SendEventFails, task, app, Recorded, Popped
    <2> QED BY <2>1, <2>2, OwnersKept
<1>3. DmaInv'
    BY NullAssumption DEF IInv, TypeOK, DmaInv, StateInv, SendEventFails, task, app, Frames
<1>4. StateInv' /\ PromptInv'
    BY SizeAssumption, NullAssumption
       DEF IInv, TypeOK, DmaInv, StateInv, PromptInv, ReadsWhatIsRecorded, SendEventFails, task, app, Events, Labels
<1>5. ReadsWhatIsRecorded'
    BY SizeAssumption, NullAssumption
       DEF IInv, TypeOK, DmaInv, StateInv, PromptInv, ReadsWhatIsRecorded, SendEventFails, task, app, Events, Labels
<1> QED BY <1>1, <1>2, <1>3, <1>4, <1>5 DEF IInv

(* The interrupt handler forces the state to IDLE.                         *)
LEMMA ForceIdleKeeps ==
    ASSUME IInv, ForceIdle PROVE IInv'
<1>1. TypeOK'
    BY SizeAssumption, NullAssumption DEF IInv, TypeOK, ForceIdle, task, app, Frames, Events, Labels
<1>2. OneOwner'
    <2>1. UNCHANGED <<en, frame_buffer_queue, search, held>>
        BY DEF ForceIdle, task, app
    <2>2. UNCHANGED <<Recorded, Popped>>
        BY DEF ForceIdle, task, app, Recorded, Popped
    <2> QED BY <2>1, <2>2, OwnersKept
<1>3. DmaInv'
    BY NullAssumption DEF IInv, TypeOK, DmaInv, StateInv, ForceIdle, task, app, Frames
<1>4. StateInv' /\ PromptInv'
    BY SizeAssumption, NullAssumption
       DEF IInv, TypeOK, DmaInv, StateInv, PromptInv, ReadsWhatIsRecorded, ForceIdle, task, app, Events, Labels
<1>5. ReadsWhatIsRecorded'
    BY SizeAssumption, NullAssumption
       DEF IInv, TypeOK, DmaInv, StateInv, PromptInv, ReadsWhatIsRecorded, ForceIdle, task, app, Events, Labels
<1> QED BY <1>1, <1>2, <1>3, <1>4, <1>5 DEF IInv

(* cam_task begins.                                                        *)
LEMMA BeginKeeps ==
    ASSUME IInv, Begin PROVE IInv'
<1>1. TypeOK'
    BY SizeAssumption, NullAssumption DEF IInv, TypeOK, Begin, task, app, Frames, Events, Labels
<1>2. OneOwner'
    <2>1. UNCHANGED <<en, frame_buffer_queue, search, held>>
        BY DEF Begin, task, app
    <2>2. UNCHANGED <<Recorded, Popped>>
        BY DEF Begin, task, app, Recorded, Popped
    <2> QED BY <2>1, <2>2, OwnersKept
<1>3. DmaInv'
    BY NullAssumption DEF IInv, TypeOK, DmaInv, StateInv, Begin, task, app, Frames
<1>4. StateInv' /\ PromptInv'
    BY SizeAssumption, NullAssumption
       DEF IInv, TypeOK, DmaInv, StateInv, PromptInv, ReadsWhatIsRecorded, Begin, task, app, Events, Labels
<1>5. ReadsWhatIsRecorded'
    BY SizeAssumption, NullAssumption
       DEF IInv, TypeOK, DmaInv, StateInv, PromptInv, ReadsWhatIsRecorded, Begin, task, app, Events, Labels
<1> QED BY <1>1, <1>2, <1>3, <1>4, <1>5 DEF IInv

(* cam_task receives an event.                                             *)
LEMMA ReceiveEventKeeps ==
    ASSUME IInv, ReceiveEvent PROVE IInv'
<1>1. TypeOK'
    BY SizeAssumption, NullAssumption DEF IInv, TypeOK, ReceiveEvent, task, app, Frames, Events, Labels
<1>2. OneOwner'
    <2>1. UNCHANGED <<en, frame_buffer_queue, search, held>>
        BY DEF ReceiveEvent, task, app
    <2>2. UNCHANGED <<Recorded, Popped>>
        BY DEF ReceiveEvent, task, app, Recorded, Popped
    <2> QED BY <2>1, <2>2, OwnersKept
<1>3. DmaInv'
    BY NullAssumption DEF IInv, TypeOK, DmaInv, StateInv, ReceiveEvent, task, app, Frames
<1>4. StateInv' /\ PromptInv'
    BY SizeAssumption, NullAssumption
       DEF IInv, TypeOK, DmaInv, StateInv, PromptInv, ReadsWhatIsRecorded, ReceiveEvent, task, app, Events, Labels
<1>5. ReadsWhatIsRecorded'
    BY SizeAssumption, NullAssumption
       DEF IInv, TypeOK, DmaInv, StateInv, PromptInv, ReadsWhatIsRecorded, ReceiveEvent, task, app, Events, Labels
<1> QED BY <1>1, <1>2, <1>3, <1>4, <1>5 DEF IInv

(* cam_task is idle.                                                       *)
LEMMA SwitchIdleKeeps ==
    ASSUME IInv, SwitchIdle PROVE IInv'
<1>1. TypeOK'
    BY SizeAssumption, NullAssumption DEF IInv, TypeOK, SwitchIdle, task, app, Frames, Events, Labels
<1>2. OneOwner'
    <2>1. UNCHANGED <<en, frame_buffer_queue, search, held>>
        BY DEF SwitchIdle, task, app
    <2>2. UNCHANGED <<Recorded, Popped>>
        BY DEF SwitchIdle, task, app, Recorded, Popped
    <2> QED BY <2>1, <2>2, OwnersKept
<1>3. DmaInv'
    BY NullAssumption DEF IInv, TypeOK, DmaInv, StateInv, SwitchIdle, task, app, Frames
<1>4. StateInv' /\ PromptInv'
    BY SizeAssumption, NullAssumption
       DEF IInv, TypeOK, DmaInv, StateInv, PromptInv, ReadsWhatIsRecorded, SwitchIdle, task, app, Events, Labels
<1>5. ReadsWhatIsRecorded'
    BY SizeAssumption, NullAssumption
       DEF IInv, TypeOK, DmaInv, StateInv, PromptInv, ReadsWhatIsRecorded, SwitchIdle, task, app, Events, Labels
<1> QED BY <1>1, <1>2, <1>3, <1>4, <1>5 DEF IInv

(* cam_task counts a block.                                                *)
LEMMA SwitchEofKeeps ==
    ASSUME IInv, NEW soi \in BOOLEAN, SwitchEof(soi) PROVE IInv'
<1>1. TypeOK'
    BY SizeAssumption, NullAssumption DEF IInv, TypeOK, SwitchEof, task, app, Frames, Events, Labels
<1>2. OneOwner'
    <2>1. UNCHANGED <<en, frame_buffer_queue, search, held>>
        BY DEF SwitchEof, task, app
    <2>2. UNCHANGED <<Recorded, Popped>>
        BY DEF SwitchEof, task, app, Recorded, Popped
    <2> QED BY <2>1, <2>2, OwnersKept
<1>3. DmaInv'
    BY NullAssumption DEF IInv, TypeOK, DmaInv, StateInv, SwitchEof, task, app, Frames
<1>4. StateInv' /\ PromptInv'
    BY SizeAssumption, NullAssumption
       DEF IInv, TypeOK, DmaInv, StateInv, PromptInv, ReadsWhatIsRecorded, SwitchEof, task, app, Events, Labels
<1>5. ReadsWhatIsRecorded'
    BY SizeAssumption, NullAssumption
       DEF IInv, TypeOK, DmaInv, StateInv, PromptInv, ReadsWhatIsRecorded, SwitchEof, task, app, Events, Labels
<1> QED BY <1>1, <1>2, <1>3, <1>4, <1>5 DEF IInv

(* cam_get_next_frame looks at the current frame.                          *)
LEMMA NextFrameKeeps ==
    ASSUME IInv, NextFrame PROVE IInv'
<1>1. TypeOK'
    BY SizeAssumption, NullAssumption DEF IInv, TypeOK, NextFrame, task, app, Frames, Events, Labels
<1>2. OneOwner'
    <2>1. UNCHANGED <<en, frame_buffer_queue, search, held>>
        BY DEF NextFrame, task, app
    <2>2. UNCHANGED <<Recorded, Popped>>
        BY DEF NextFrame, task, app, Recorded, Popped
    <2> QED BY <2>1, <2>2, OwnersKept
<1>3. DmaInv'
    BY NullAssumption DEF IInv, TypeOK, DmaInv, StateInv, NextFrame, task, app, Frames
<1>4. StateInv' /\ PromptInv'
    BY SizeAssumption, NullAssumption
       DEF IInv, TypeOK, DmaInv, StateInv, PromptInv, ReadsWhatIsRecorded, NextFrame, task, app, Events, Labels
<1>5. ReadsWhatIsRecorded'
    BY SizeAssumption, NullAssumption
       DEF IInv, TypeOK, DmaInv, StateInv, PromptInv, ReadsWhatIsRecorded, NextFrame, task, app, Events, Labels
<1> QED BY <1>1, <1>2, <1>3, <1>4, <1>5 DEF IInv

(* cam_get_next_frame finds a frame.                                       *)
LEMMA ScanFoundKeeps ==
    ASSUME IInv, ScanFound PROVE IInv'
<1>1. TypeOK'
    BY SizeAssumption, NullAssumption DEF IInv, TypeOK, ScanFound, task, app, Frames, Events, Labels
<1>2. OneOwner'
    <2>1. UNCHANGED <<en, frame_buffer_queue, search, held>>
        BY DEF ScanFound, task, app
    <2>2. UNCHANGED <<Recorded, Popped>>
        BY DEF ScanFound, task, app, Recorded, Popped
    <2> QED BY <2>1, <2>2, OwnersKept
<1>3. DmaInv'
    BY NullAssumption DEF IInv, TypeOK, DmaInv, StateInv, ScanFound, task, app, Frames
<1>4. StateInv' /\ PromptInv'
    BY SizeAssumption, NullAssumption
       DEF IInv, TypeOK, DmaInv, StateInv, PromptInv, ReadsWhatIsRecorded, ScanFound, task, app, Events, Labels
<1>5. ReadsWhatIsRecorded'
    BY SizeAssumption, NullAssumption
       DEF IInv, TypeOK, DmaInv, StateInv, PromptInv, ReadsWhatIsRecorded, ScanFound, task, app, Events, Labels
<1> QED BY <1>1, <1>2, <1>3, <1>4, <1>5 DEF IInv

(* cam_get_next_frame looks at the next frame.                             *)
LEMMA ScanOnKeeps ==
    ASSUME IInv, ScanOn PROVE IInv'
<1>1. TypeOK'
    BY SizeAssumption, NullAssumption DEF IInv, TypeOK, ScanOn, task, app, Frames, Events, Labels
<1>2. OneOwner'
    <2>1. UNCHANGED <<en, frame_buffer_queue, search, held>>
        BY DEF ScanOn, task, app
    <2>2. UNCHANGED <<Recorded, Popped>>
        BY DEF ScanOn, task, app, Recorded, Popped
    <2> QED BY <2>1, <2>2, OwnersKept
<1>3. DmaInv'
    BY NullAssumption DEF IInv, TypeOK, DmaInv, StateInv, ScanOn, task, app, Frames
<1>4. StateInv' /\ PromptInv'
    BY SizeAssumption, NullAssumption
       DEF IInv, TypeOK, DmaInv, StateInv, PromptInv, ReadsWhatIsRecorded, ScanOn, task, app, Events, Labels
<1>5. ReadsWhatIsRecorded'
    BY SizeAssumption, NullAssumption
       DEF IInv, TypeOK, DmaInv, StateInv, PromptInv, ReadsWhatIsRecorded, ScanOn, task, app, Events, Labels
<1> QED BY <1>1, <1>2, <1>3, <1>4, <1>5 DEF IInv

(* cam_get_next_frame finds no frame.                                      *)
LEMMA ScanFailsKeeps ==
    ASSUME IInv, ScanFails PROVE IInv'
<1>1. TypeOK'
    BY SizeAssumption, NullAssumption DEF IInv, TypeOK, ScanFails, task, app, Frames, Events, Labels
<1>2. OneOwner'
    <2>1. UNCHANGED <<en, frame_buffer_queue, search, held>>
        BY DEF ScanFails, task, app
    <2>2. UNCHANGED <<Recorded, Popped>>
        BY DEF ScanFails, task, app, Recorded, Popped
    <2> QED BY <2>1, <2>2, OwnersKept
<1>3. DmaInv'
    BY NullAssumption DEF IInv, TypeOK, DmaInv, StateInv, ScanFails, task, app, Frames
<1>4. StateInv' /\ PromptInv'
    BY SizeAssumption, NullAssumption
       DEF IInv, TypeOK, DmaInv, StateInv, PromptInv, ReadsWhatIsRecorded, ScanFails, task, app, Events, Labels
<1>5. ReadsWhatIsRecorded'
    BY SizeAssumption, NullAssumption
       DEF IInv, TypeOK, DmaInv, StateInv, PromptInv, ReadsWhatIsRecorded, ScanFails, task, app, Events, Labels
<1> QED BY <1>1, <1>2, <1>3, <1>4, <1>5 DEF IInv

(* The DMA engine is started.                                              *)
LEMMA StartDmaKeeps ==
    ASSUME IInv, StartDma PROVE IInv'
<1>1. TypeOK'
    BY SizeAssumption, NullAssumption DEF IInv, TypeOK, StartDma, task, app, Frames, Events, Labels
<1>2. OneOwner'
    <2>1. UNCHANGED <<en, frame_buffer_queue, search, held>>
        BY DEF StartDma, task, app
    <2>2. UNCHANGED <<Recorded, Popped>>
        BY DEF StartDma, task, app, Recorded, Popped
    <2> QED BY <2>1, <2>2, OwnersKept
<1>3. DmaInv'
    BY NullAssumption DEF IInv, TypeOK, DmaInv, StateInv, StartDma, task, app, Frames
<1>4. StateInv' /\ PromptInv'
    BY SizeAssumption, NullAssumption
       DEF IInv, TypeOK, DmaInv, StateInv, PromptInv, ReadsWhatIsRecorded, StartDma, task, app, Events, Labels
<1>5. ReadsWhatIsRecorded'
    BY SizeAssumption, NullAssumption
       DEF IInv, TypeOK, DmaInv, StateInv, PromptInv, ReadsWhatIsRecorded, StartDma, task, app, Events, Labels
<1> QED BY <1>1, <1>2, <1>3, <1>4, <1>5 DEF IInv

(* cam_start_frame returns true.                                           *)
LEMMA StartedKeeps ==
    ASSUME IInv, Started PROVE IInv'
<1>1. TypeOK'
    BY SizeAssumption, NullAssumption DEF IInv, TypeOK, Started, task, app, Frames, Events, Labels
<1>2. OneOwner'
    <2>1. UNCHANGED <<en, frame_buffer_queue, search, held>>
        BY DEF Started, task, app
    <2>2. UNCHANGED <<Recorded, Popped>>
        BY DEF Started, task, app, Recorded, Popped
    <2> QED BY <2>1, <2>2, OwnersKept
<1>3. DmaInv'
    BY NullAssumption DEF IInv, TypeOK, DmaInv, StateInv, Started, task, app, Frames
<1>4. StateInv' /\ PromptInv'
    BY SizeAssumption, NullAssumption
       DEF IInv, TypeOK, DmaInv, StateInv, PromptInv, ReadsWhatIsRecorded, Started, task, app, Events, Labels
<1>5. ReadsWhatIsRecorded'
    BY SizeAssumption, NullAssumption
       DEF IInv, TypeOK, DmaInv, StateInv, PromptInv, ReadsWhatIsRecorded, Started, task, app, Events, Labels
<1> QED BY <1>1, <1>2, <1>3, <1>4, <1>5 DEF IInv

(* The recorded frame is taken from the driver's.                          *)
LEMMA SwitchVsyncKeeps ==
    ASSUME IInv, SwitchVsync PROVE IInv'
<1>o. (\A g \in Frames : Owned(g)) /\ IsInjective(frame_buffer_queue)
    BY OneOwnerLemma DEF IInv
<1>1. TypeOK'
    BY SizeAssumption, NullAssumption DEF IInv, TypeOK, DmaInv, StateInv, SwitchVsync, task, app, Frames, Events, Labels
<1>2. OneOwner'
    <2>1. /\ Free' = Free \ {frame_pos} /\ Queued' = Queued /\ Recorded' = {frame_pos}
          /\ Popped' = {} /\ Searched' = Searched /\ held' = held
        BY NullAssumption
           DEF IInv, TypeOK, DmaInv, StateInv, SwitchVsync, task, app, Free, Queued, Recorded, Popped, Searched
    <2>2. frame_pos \in Free /\ Recorded = {} /\ Popped = {}
        BY <1>o, NullAssumption
           DEF IInv, TypeOK, DmaInv, StateInv, SwitchVsync, Owned, Free, Recorded, Popped, Searched
    <2>3. \A g \in Frames : Owned(g)'
        BY <1>o, <2>1, <2>2 DEF Owned
    <2>4. IsInjective(frame_buffer_queue')
        BY <1>o DEF SwitchVsync
    <2> QED BY <2>3, <2>4, OneOwnerNext
<1>3. DmaInv'
    BY NullAssumption DEF IInv, TypeOK, DmaInv, StateInv, SwitchVsync, task, app, Frames
<1>4. StateInv' /\ PromptInv' /\ ReadsWhatIsRecorded'
    BY NullAssumption
       DEF IInv, TypeOK, DmaInv, StateInv, PromptInv, ReadsWhatIsRecorded, SwitchVsync, task, app
<1> QED BY <1>1, <1>2, <1>3, <1>4 DEF IInv

(* The popped frame becomes the driver's again.                            *)
LEMMA GivePoppedKeeps ==
    ASSUME IInv, GivePopped PROVE IInv'
<1>o. (\A g \in Frames : Owned(g)) /\ IsInjective(frame_buffer_queue)
    BY OneOwnerLemma DEF IInv
<1>1. TypeOK'
    BY SizeAssumption, NullAssumption DEF IInv, TypeOK, DmaInv, StateInv, GivePopped, task, app, Frames, Events, Labels
<1>2. OneOwner'
    <2>1. /\ Free' = Free \union {fb2} /\ Queued' = Queued /\ Recorded' = {}
          /\ Popped' = {} /\ Searched' = Searched /\ held' = held
        BY NullAssumption
           DEF IInv, TypeOK, DmaInv, StateInv, GivePopped, task, app, Free, Queued, Recorded, Popped, Searched
    <2>2. fb2 \in Frames /\ Popped = {fb2} /\ Recorded = {}
        BY <1>o, NullAssumption
           DEF IInv, TypeOK, DmaInv, StateInv, GivePopped, Owned, Free, Recorded, Popped, Searched
    <2>3. \A g \in Frames : Owned(g)'
        BY <1>o, <2>1, <2>2 DEF Owned
    <2>4. IsInjective(frame_buffer_queue')
        BY <1>o DEF GivePopped
    <2> QED BY <2>3, <2>4, OneOwnerNext
<1>3. DmaInv'
    BY NullAssumption DEF IInv, TypeOK, DmaInv, StateInv, GivePopped, task, app, Frames
<1>4. StateInv' /\ PromptInv' /\ ReadsWhatIsRecorded'
    BY NullAssumption
       DEF IInv, TypeOK, DmaInv, StateInv, PromptInv, ReadsWhatIsRecorded, GivePopped, task, app
<1> QED BY <1>1, <1>2, <1>3, <1>4 DEF IInv

(* cam_take returns the frame it looked through.                           *)
LEMMA EoiFoundKeeps ==
    ASSUME IInv, EoiFound PROVE IInv'
<1>o. (\A g \in Frames : Owned(g)) /\ IsInjective(frame_buffer_queue)
    BY OneOwnerLemma DEF IInv
<1>1. TypeOK'
    BY SizeAssumption, NullAssumption DEF IInv, TypeOK, DmaInv, StateInv, EoiFound, task, app, Frames, Events, Labels
<1>2. OneOwner'
    <2>1. /\ Free' = Free /\ Queued' = Queued /\ Recorded' = Recorded
          /\ Popped' = Popped /\ Searched' = {} /\ held' = held \union {search}
        BY NullAssumption
           DEF IInv, TypeOK, DmaInv, StateInv, EoiFound, task, app, Free, Queued, Recorded, Popped, Searched
    <2>2. search \in Frames /\ Searched = {search}
        BY <1>o, NullAssumption
           DEF IInv, TypeOK, DmaInv, StateInv, EoiFound, Owned, Free, Recorded, Popped, Searched
    <2>3. \A g \in Frames : Owned(g)'
        BY <1>o, <2>1, <2>2 DEF Owned
    <2>4. IsInjective(frame_buffer_queue')
        BY <1>o DEF EoiFound
    <2> QED BY <2>3, <2>4, OneOwnerNext
<1>3. DmaInv'
    BY NullAssumption DEF IInv, TypeOK, DmaInv, StateInv, EoiFound, task, app, Frames
<1>4. StateInv' /\ PromptInv' /\ ReadsWhatIsRecorded'
    BY NullAssumption
       DEF IInv, TypeOK, DmaInv, StateInv, PromptInv, ReadsWhatIsRecorded, EoiFound, task, app
<1> QED BY <1>1, <1>2, <1>3, <1>4 DEF IInv

(* cam_take gives the frame back.                                          *)
LEMMA NoEoiKeeps ==
    ASSUME IInv, NoEoi PROVE IInv'
<1>o. (\A g \in Frames : Owned(g)) /\ IsInjective(frame_buffer_queue)
    BY OneOwnerLemma DEF IInv
<1>1. TypeOK'
    BY SizeAssumption, NullAssumption DEF IInv, TypeOK, DmaInv, StateInv, NoEoi, task, app, Frames, Events, Labels
<1>2. OneOwner'
    <2>1. /\ Free' = Free \union {search} /\ Queued' = Queued /\ Recorded' = Recorded
          /\ Popped' = Popped /\ Searched' = {} /\ held' = held
        BY NullAssumption
           DEF IInv, TypeOK, DmaInv, StateInv, NoEoi, task, app, Free, Queued, Recorded, Popped, Searched
    <2>2. search \in Frames /\ Searched = {search}
        BY <1>o, NullAssumption
           DEF IInv, TypeOK, DmaInv, StateInv, NoEoi, Owned, Free, Recorded, Popped, Searched
    <2>3. \A g \in Frames : Owned(g)'
        BY <1>o, <2>1, <2>2 DEF Owned
    <2>4. IsInjective(frame_buffer_queue')
        BY <1>o DEF NoEoi
    <2> QED BY <2>3, <2>4, OneOwnerNext
<1>3. DmaInv'
    BY NullAssumption DEF IInv, TypeOK, DmaInv, StateInv, NoEoi, task, app, Frames
<1>4. StateInv' /\ PromptInv' /\ ReadsWhatIsRecorded'
    BY NullAssumption
       DEF IInv, TypeOK, DmaInv, StateInv, PromptInv, ReadsWhatIsRecorded, NoEoi, task, app
<1> QED BY <1>1, <1>2, <1>3, <1>4 DEF IInv

(* The application returns a frame.                                        *)
LEMMA CamGiveKeeps ==
    ASSUME IInv, NEW f \in Frames, CamGive(f) PROVE IInv'
<1>o. (\A g \in Frames : Owned(g)) /\ IsInjective(frame_buffer_queue)
    BY OneOwnerLemma DEF IInv
<1>1. TypeOK'
    BY SizeAssumption, NullAssumption DEF IInv, TypeOK, DmaInv, StateInv, CamGive, task, app, Frames, Events, Labels
<1>2. OneOwner'
    <2>1. /\ Free' = Free \union {f} /\ Queued' = Queued /\ Recorded' = Recorded
          /\ Popped' = Popped /\ Searched' = Searched /\ held' = held \ {f}
        BY NullAssumption
           DEF IInv, TypeOK, DmaInv, StateInv, CamGive, task, app, Free, Queued, Recorded, Popped, Searched
    <2>2. f \in held
        BY <1>o, NullAssumption
           DEF IInv, TypeOK, DmaInv, StateInv, CamGive, Owned, Free, Recorded, Popped, Searched
    <2>3. \A g \in Frames : Owned(g)'
        BY <1>o, <2>1, <2>2 DEF Owned
    <2>4. IsInjective(frame_buffer_queue')
        BY <1>o DEF CamGive
    <2> QED BY <2>3, <2>4, OneOwnerNext
<1>3. DmaInv'
    BY NullAssumption DEF IInv, TypeOK, DmaInv, StateInv, CamGive, task, app, Frames
<1>4. StateInv' /\ PromptInv' /\ ReadsWhatIsRecorded'
    BY NullAssumption
       DEF IInv, TypeOK, DmaInv, StateInv, PromptInv, ReadsWhatIsRecorded, CamGive, task, app
<1> QED BY <1>1, <1>2, <1>3, <1>4 DEF IInv

(* The recorded frame is queued, or the queue is full.                     *)
LEMMA SendFrameKeeps ==
    ASSUME IInv, SendFrame PROVE IInv'
<1>o. (\A g \in Frames : Owned(g)) /\ IsInjective(frame_buffer_queue)
    BY OneOwnerLemma DEF IInv
<1>t. TypeOK
    BY DEF IInv
<1>a. frame_buffer_queue \in Seq(Frames) /\ frame_pos \in Frames
    BY <1>t DEF TypeOK
<1>n. ~en[frame_pos]
    BY <1>o, <1>a DEF SendFrame, Owned, Free, Recorded
<1>b. frame_pos \notin Range(frame_buffer_queue)
    BY <1>o, <1>a DEF SendFrame, Owned, Queued, Recorded
<1>e. /\ Append(frame_buffer_queue, frame_pos) \in Seq(Frames)
      /\ Range(Append(frame_buffer_queue, frame_pos)) = Range(frame_buffer_queue) \union {frame_pos}
      /\ IsInjective(Append(frame_buffer_queue, frame_pos))
    BY <1>o, <1>a, <1>b, AppendElements
<1>l. Len(Append(frame_buffer_queue, frame_pos)) = Len(frame_buffer_queue) + 1 /\ Len(frame_buffer_queue) \in Nat
    BY <1>a
<1>1. TypeOK'
    <2>1. frame_buffer_queue' \in Seq(Frames) /\ Len(frame_buffer_queue') <= FrameQueueLen
        <3>1. CASE frame_buffer_queue' = frame_buffer_queue
            BY <1>n, <1>t, <3>1 DEF TypeOK
        <3>2. CASE frame_buffer_queue' # frame_buffer_queue
            <4>1. /\ Len(frame_buffer_queue) < FrameQueueLen
                  /\ frame_buffer_queue' = Append(frame_buffer_queue, frame_pos)
                BY <1>n, <3>2 DEF SendFrame
            <4>2. Len(frame_buffer_queue) <= FrameQueueLen
                BY <1>t DEF TypeOK
            <4> QED BY <1>n, <1>e, <1>l, <4>1, <4>2, SizeAssumption
        <3> QED BY <3>1, <3>2
    <2>2. en' \in [Frames -> BOOLEAN] /\ held' \subseteq Frames
        BY <1>n, <1>t, <1>e DEF TypeOK, SendFrame, task, app
    <2>3. pc' \in Labels /\ fb2' \in Frames \union {NULL} /\ search' \in Frames \union {NULL}
        BY <1>n, <1>t, <1>e DEF TypeOK, SendFrame, task, app, Labels
    <2> QED BY <1>n, <1>t, <2>1, <2>2, <2>3 DEF TypeOK, SendFrame, task, app
<1>2. OneOwner'
    <2>1. CASE Len(frame_buffer_queue) < FrameQueueLen
        <3>1. /\ Free' = Free /\ Queued' = Queued \union {frame_pos} /\ Recorded' = {}
              /\ Popped' = Popped /\ Searched' = Searched /\ held' = held
            BY <1>n, <1>t, <1>e, <2>1, NullAssumption
               DEF TypeOK, SendFrame, task, app, Free, Queued, Recorded, Popped, Searched
        <3>2. frame_pos \in Frames /\ Recorded = {frame_pos}
            BY <1>n, <1>o, <1>t, <1>e, <2>1 DEF TypeOK, SendFrame, Owned, Free, Queued, Recorded, Popped, Searched
        <3>3. \A g \in Frames : Owned(g)'
            BY <1>n, <1>o, <3>1, <3>2 DEF Owned
        <3>4. IsInjective(frame_buffer_queue')
            BY <1>n, <1>o, <1>e, <2>1 DEF SendFrame
        <3> QED BY <3>3, <3>4, OneOwnerNext
    <2>2. CASE ~(Len(frame_buffer_queue) < FrameQueueLen)
        <3>1. /\ Free' = Free /\ Queued' = Queued /\ Recorded' = Recorded
              /\ Popped' = Popped /\ Searched' = Searched /\ held' = held
            BY <1>n, <1>t, <1>e, <2>2, NullAssumption
               DEF TypeOK, SendFrame, task, app, Free, Queued, Recorded, Popped, Searched
        <3>2. Recorded = {frame_pos}
            BY <1>n, <1>o, <1>t, <1>e, <2>2 DEF TypeOK, SendFrame, Owned, Free, Queued, Recorded, Popped, Searched
        <3>3. \A g \in Frames : Owned(g)'
            BY <1>n, <1>o, <3>1, <3>2 DEF Owned
        <3>4. IsInjective(frame_buffer_queue')
            BY <1>n, <1>o, <1>e, <2>2 DEF SendFrame
        <3> QED BY <3>3, <3>4, OneOwnerNext
    <2> QED BY <2>1, <2>2
<1>3. DmaInv'
    BY <1>n, <1>e, NullAssumption DEF IInv, TypeOK, DmaInv, StateInv, SendFrame, task, app, Frames
<1>4. StateInv' /\ PromptInv' /\ ReadsWhatIsRecorded'
    BY <1>n, <1>e, NullAssumption
       DEF IInv, TypeOK, DmaInv, StateInv, PromptInv, ReadsWhatIsRecorded, SendFrame, task, app
<1> QED BY <1>1, <1>2, <1>3, <1>4 DEF IInv

(* The recorded frame is queued in place of the popped one.                *)
LEMMA PushFrameKeeps ==
    ASSUME IInv, PushFrame PROVE IInv'
<1>o. (\A g \in Frames : Owned(g)) /\ IsInjective(frame_buffer_queue)
    BY OneOwnerLemma DEF IInv
<1>t. TypeOK
    BY DEF IInv
<1>a. frame_buffer_queue \in Seq(Frames) /\ frame_pos \in Frames
    BY <1>t DEF TypeOK
<1>b. frame_pos \notin Range(frame_buffer_queue)
    BY <1>o, <1>a DEF PushFrame, Owned, Queued, Recorded
<1>e. /\ Append(frame_buffer_queue, frame_pos) \in Seq(Frames)
      /\ Range(Append(frame_buffer_queue, frame_pos)) = Range(frame_buffer_queue) \union {frame_pos}
      /\ IsInjective(Append(frame_buffer_queue, frame_pos))
    BY <1>o, <1>a, <1>b, AppendElements
<1>l. Len(Append(frame_buffer_queue, frame_pos)) = Len(frame_buffer_queue) + 1 /\ Len(frame_buffer_queue) \in Nat
    BY <1>a
<1>1. TypeOK'
    <2>1. frame_buffer_queue' \in Seq(Frames) /\ Len(frame_buffer_queue') <= FrameQueueLen
        <3>1. CASE frame_buffer_queue' = frame_buffer_queue
            BY <1>t, <3>1 DEF TypeOK
        <3>2. CASE frame_buffer_queue' # frame_buffer_queue
            <4>1. /\ Len(frame_buffer_queue) < FrameQueueLen
                  /\ frame_buffer_queue' = Append(frame_buffer_queue, frame_pos)
                BY <3>2 DEF PushFrame
            <4>2. Len(frame_buffer_queue) <= FrameQueueLen
                BY <1>t DEF TypeOK
            <4> QED BY <1>e, <1>l, <4>1, <4>2, SizeAssumption
        <3> QED BY <3>1, <3>2
    <2>2. en' \in [Frames -> BOOLEAN] /\ held' \subseteq Frames
        BY <1>t, <1>e DEF TypeOK, PushFrame, task, app
    <2>3. pc' \in Labels /\ fb2' \in Frames \union {NULL} /\ search' \in Frames \union {NULL}
        BY <1>t, <1>e DEF TypeOK, PushFrame, task, app, Labels
    <2> QED BY <1>t, <2>1, <2>2, <2>3 DEF TypeOK, PushFrame, task, app
<1>2. OneOwner'
    <2>1. CASE Len(frame_buffer_queue) < FrameQueueLen
        <3>1. /\ Free' = Free /\ Queued' = Queued \union {frame_pos} /\ Recorded' = {}
              /\ Popped' = Popped /\ Searched' = Searched /\ held' = held
            BY <1>t, <1>e, <2>1, NullAssumption
               DEF TypeOK, PushFrame, task, app, Free, Queued, Recorded, Popped, Searched
        <3>2. frame_pos \in Frames /\ Recorded = {frame_pos}
            BY <1>o, <1>t, <1>e, <2>1 DEF TypeOK, PushFrame, Owned, Free, Queued, Recorded, Popped, Searched
        <3>3. \A g \in Frames : Owned(g)'
            BY <1>o, <3>1, <3>2 DEF Owned
        <3>4. IsInjective(frame_buffer_queue')
            BY <1>o, <1>e, <2>1 DEF PushFrame
        <3> QED BY <3>3, <3>4, OneOwnerNext
    <2>2. CASE ~(Len(frame_buffer_queue) < FrameQueueLen)
        <3>1. /\ Free' = Free \union {frame_pos} /\ Queued' = Queued /\ Recorded' = {}
              /\ Popped' = Popped /\ Searched' = Searched /\ held' = held
            BY <1>t, <1>e, <2>2, NullAssumption
               DEF TypeOK, PushFrame, task, app, Free, Queued, Recorded, Popped, Searched
        <3>2. frame_pos \in Frames /\ Recorded = {frame_pos}
            BY <1>o, <1>t, <1>e, <2>2 DEF TypeOK, PushFrame, Owned, Free, Queued, Recorded, Popped, Searched
        <3>3. \A g \in Frames : Owned(g)'
            BY <1>o, <3>1, <3>2 DEF Owned
        <3>4. IsInjective(frame_buffer_queue')
            BY <1>o, <1>e, <2>2 DEF PushFrame
        <3> QED BY <3>3, <3>4, OneOwnerNext
    <2> QED BY <2>1, <2>2
<1>3. DmaInv'
    BY <1>e, NullAssumption DEF IInv, TypeOK, DmaInv, StateInv, PushFrame, task, app, Frames
<1>4. StateInv' /\ PromptInv' /\ ReadsWhatIsRecorded'
    BY <1>e, NullAssumption
       DEF IInv, TypeOK, DmaInv, StateInv, PromptInv, ReadsWhatIsRecorded, PushFrame, task, app
<1> QED BY <1>1, <1>2, <1>3, <1>4 DEF IInv

(* The oldest frame is popped, or the recorded one dropped.                *)
LEMMA PopFrameKeeps ==
    ASSUME IInv, PopFrame PROVE IInv'
<1>o. (\A g \in Frames : Owned(g)) /\ IsInjective(frame_buffer_queue)
    BY OneOwnerLemma DEF IInv
<1>t. TypeOK
    BY DEF IInv
<1>e. frame_buffer_queue # << >> =>
          /\ Tail(frame_buffer_queue) \in Seq(Frames)
          /\ Head(frame_buffer_queue) \in Frames
          /\ Head(frame_buffer_queue) \in Range(frame_buffer_queue)
          /\ Range(Tail(frame_buffer_queue)) = Range(frame_buffer_queue) \ {Head(frame_buffer_queue)}
          /\ IsInjective(Tail(frame_buffer_queue))
    BY <1>o, <1>t, TailElements DEF TypeOK
<1>l. frame_buffer_queue # << >> => Len(Tail(frame_buffer_queue)) = Len(frame_buffer_queue) - 1 /\ Len(frame_buffer_queue) \in Nat
    BY <1>t DEF TypeOK
<1>1. TypeOK'
    <2>1. frame_buffer_queue' \in Seq(Frames) /\ Len(frame_buffer_queue') <= FrameQueueLen
        <3>1. CASE frame_buffer_queue' = frame_buffer_queue
            BY <1>t, <3>1 DEF TypeOK
        <3>2. CASE frame_buffer_queue' # frame_buffer_queue
            <4>1. frame_buffer_queue # << >> /\ frame_buffer_queue' = Tail(frame_buffer_queue)
                BY <3>2 DEF PopFrame
            <4>2. Len(frame_buffer_queue) <= FrameQueueLen
                BY <1>t DEF TypeOK
            <4> QED BY <1>e, <1>l, <4>1, <4>2, SizeAssumption
        <3> QED BY <3>1, <3>2
    <2>2. en' \in [Frames -> BOOLEAN] /\ held' \subseteq Frames
        BY <1>t, <1>e DEF TypeOK, PopFrame, task, app
    <2>3. pc' \in Labels /\ fb2' \in Frames \union {NULL} /\ search' \in Frames \union {NULL}
        BY <1>t, <1>e DEF TypeOK, PopFrame, task, app, Labels
    <2> QED BY <1>t, <2>1, <2>2, <2>3 DEF TypeOK, PopFrame, task, app
<1>2. OneOwner'
    <2>1. CASE frame_buffer_queue # << >>
        <3>1. /\ Free' = Free /\ Queued' = Queued \ {Head(frame_buffer_queue)} /\ Recorded' = Recorded
              /\ Popped' = {Head(frame_buffer_queue)} /\ Searched' = Searched /\ held' = held
            BY <1>t, <1>e, <2>1, NullAssumption
               DEF TypeOK, PopFrame, task, app, Free, Queued, Recorded, Popped, Searched
        <3>2. Head(frame_buffer_queue) \in Queued /\ Popped = {}
            BY <1>o, <1>t, <1>e, <2>1 DEF TypeOK, PopFrame, Owned, Free, Queued, Recorded, Popped, Searched
        <3>3. \A g \in Frames : Owned(g)'
            BY <1>o, <3>1, <3>2 DEF Owned
        <3>4. IsInjective(frame_buffer_queue')
            BY <1>o, <1>e, <2>1 DEF PopFrame
        <3> QED BY <3>3, <3>4, OneOwnerNext
    <2>2. CASE ~(frame_buffer_queue # << >>)
        <3>1. /\ Free' = Free \union {frame_pos} /\ Queued' = Queued /\ Recorded' = {}
              /\ Popped' = Popped /\ Searched' = Searched /\ held' = held
            BY <1>t, <1>e, <2>2, NullAssumption
               DEF TypeOK, PopFrame, task, app, Free, Queued, Recorded, Popped, Searched
        <3>2. frame_pos \in Frames /\ Recorded = {frame_pos}
            BY <1>o, <1>t, <1>e, <2>2 DEF TypeOK, PopFrame, Owned, Free, Queued, Recorded, Popped, Searched
        <3>3. \A g \in Frames : Owned(g)'
            BY <1>o, <3>1, <3>2 DEF Owned
        <3>4. IsInjective(frame_buffer_queue')
            BY <1>o, <1>e, <2>2 DEF PopFrame
        <3> QED BY <3>3, <3>4, OneOwnerNext
    <2> QED BY <2>1, <2>2
<1>3. DmaInv'
    BY <1>e, NullAssumption DEF IInv, TypeOK, DmaInv, StateInv, PopFrame, task, app, Frames
<1>4. StateInv' /\ PromptInv' /\ ReadsWhatIsRecorded'
    BY <1>e, NullAssumption
       DEF IInv, TypeOK, DmaInv, StateInv, PromptInv, ReadsWhatIsRecorded, PopFrame, task, app
<1> QED BY <1>1, <1>2, <1>3, <1>4 DEF IInv

(* cam_take receives a frame.                                              *)
LEMMA CamTakeKeeps ==
    ASSUME IInv, CamTake PROVE IInv'
<1>o. (\A g \in Frames : Owned(g)) /\ IsInjective(frame_buffer_queue)
    BY OneOwnerLemma DEF IInv
<1>t. TypeOK
    BY DEF IInv
<1>e. frame_buffer_queue # << >> =>
          /\ Tail(frame_buffer_queue) \in Seq(Frames)
          /\ Head(frame_buffer_queue) \in Frames
          /\ Head(frame_buffer_queue) \in Range(frame_buffer_queue)
          /\ Range(Tail(frame_buffer_queue)) = Range(frame_buffer_queue) \ {Head(frame_buffer_queue)}
          /\ IsInjective(Tail(frame_buffer_queue))
    BY <1>o, <1>t, TailElements DEF TypeOK
<1>l. frame_buffer_queue # << >> => Len(Tail(frame_buffer_queue)) = Len(frame_buffer_queue) - 1 /\ Len(frame_buffer_queue) \in Nat
    BY <1>t DEF TypeOK
<1>1. TypeOK'
    <2>1. frame_buffer_queue' \in Seq(Frames) /\ Len(frame_buffer_queue') <= FrameQueueLen
        <3>1. CASE frame_buffer_queue' = frame_buffer_queue
            BY <1>t, <3>1 DEF TypeOK
        <3>2. CASE frame_buffer_queue' # frame_buffer_queue
            <4>1. frame_buffer_queue # << >> /\ frame_buffer_queue' = Tail(frame_buffer_queue)
                BY <3>2 DEF CamTake
            <4>2. Len(frame_buffer_queue) <= FrameQueueLen
                BY <1>t DEF TypeOK
            <4> QED BY <1>e, <1>l, <4>1, <4>2, SizeAssumption
        <3> QED BY <3>1, <3>2
    <2>2. en' \in [Frames -> BOOLEAN] /\ held' \subseteq Frames
        BY <1>t, <1>e DEF TypeOK, CamTake, task, app
    <2>3. pc' \in Labels /\ fb2' \in Frames \union {NULL} /\ search' \in Frames \union {NULL}
        BY <1>t, <1>e DEF TypeOK, CamTake, task, app, Labels
    <2> QED BY <1>t, <2>1, <2>2, <2>3 DEF TypeOK, CamTake, task, app
<1>2. OneOwner'
    <2>1. CASE jpeg_mode
        <3>1. /\ Free' = Free /\ Queued' = Queued \ {Head(frame_buffer_queue)} /\ Recorded' = Recorded
              /\ Popped' = Popped /\ Searched' = {Head(frame_buffer_queue)} /\ held' = held
            BY <1>t, <1>e, <2>1, NullAssumption
               DEF TypeOK, CamTake, task, app, Free, Queued, Recorded, Popped, Searched
        <3>2. Head(frame_buffer_queue) \in Queued /\ Searched = {}
            BY <1>o, <1>t, <1>e, <2>1 DEF TypeOK, CamTake, Owned, Free, Queued, Recorded, Popped, Searched
        <3>3. \A g \in Frames : Owned(g)'
            BY <1>o, <3>1, <3>2 DEF Owned
        <3>4. IsInjective(frame_buffer_queue')
            BY <1>o, <1>e, <2>1 DEF CamTake
        <3> QED BY <3>3, <3>4, OneOwnerNext
    <2>2. CASE ~jpeg_mode
        <3>1. /\ Free' = Free /\ Queued' = Queued \ {Head(frame_buffer_queue)} /\ Recorded' = Recorded
              /\ Popped' = Popped /\ Searched' = Searched /\ held' = held \union {Head(frame_buffer_queue)}
            BY <1>t, <1>e, <2>2, NullAssumption
               DEF TypeOK, CamTake, task, app, Free, Queued, Recorded, Popped, Searched
        <3>2. Head(frame_buffer_queue) \in Queued
            BY <1>o, <1>t, <1>e, <2>2 DEF TypeOK, CamTake, Owned, Free, Queued, Recorded, Popped, Searched
        <3>3. \A g \in Frames : Owned(g)'
            BY <1>o, <3>1, <3>2 DEF Owned
        <3>4. IsInjective(frame_buffer_queue')
            BY <1>o, <1>e, <2>2 DEF CamTake
        <3> QED BY <3>3, <3>4, OneOwnerNext
    <2> QED BY <2>1, <2>2
<1>3. DmaInv'
    BY <1>e, NullAssumption DEF IInv, TypeOK, DmaInv, StateInv, CamTake, task, app, Frames
<1>4. StateInv' /\ PromptInv' /\ ReadsWhatIsRecorded'
    BY <1>e, NullAssumption
       DEF IInv, TypeOK, DmaInv, StateInv, PromptInv, ReadsWhatIsRecorded, CamTake, task, app
<1> QED BY <1>1, <1>2, <1>3, <1>4 DEF IInv

(* Every step of the driver and the application, and a stuttering step.    *)
LEMMA NextInvariant == IInv /\ [Next]_vars => IInv'
<1> SUFFICES ASSUME IInv, [Next]_vars PROVE IInv'
    OBVIOUS
<1>1. CASE CamStart \/ \E e \in Events : Interrupt(e)
    BY <1>1, CamStartKeeps, InterruptKeeps
<1>2. CASE IsrStep
    BY <1>2, SendEventKeeps, SendEventFailsKeeps, ForceIdleKeeps DEF IsrStep
<1>3. CASE TaskStep
    <2>1. CASE Begin \/ ReceiveEvent \/ SwitchIdle \/ SwitchVsync
        BY <2>1, BeginKeeps, ReceiveEventKeeps, SwitchIdleKeeps, SwitchVsyncKeeps
    <2>2. CASE \E soi \in BOOLEAN : SwitchEof(soi)
        BY <2>2, SwitchEofKeeps
    <2>3. CASE SendFrame \/ PopFrame \/ PushFrame \/ GivePopped
        BY <2>3, SendFrameKeeps, PopFrameKeeps, PushFrameKeeps, GivePoppedKeeps
    <2>4. CASE NextFrame \/ ScanFound \/ ScanOn \/ ScanFails
        BY <2>4, NextFrameKeeps, ScanFoundKeeps, ScanOnKeeps, ScanFailsKeeps
    <2>5. CASE StartDma \/ Started
        BY <2>5, StartDmaKeeps, StartedKeeps
    <2> QED BY <1>3, <2>1, <2>2, <2>3, <2>4, <2>5 DEF TaskStep
<1>4. CASE AppStep
    BY <1>4, CamTakeKeeps, EoiFoundKeeps, NoEoiKeeps, CamGiveKeeps DEF AppStep
<1>5. CASE UNCHANGED vars
    <2>1. UNCHANGED <<en, frame_buffer_queue, search, held>> /\ UNCHANGED <<Recorded, Popped>>
        BY <1>5 DEF vars, task, app, Recorded, Popped
    <2>2. OneOwner'
        BY <2>1, OwnersKept
    <2>3. TypeOK' /\ DmaInv' /\ StateInv' /\ PromptInv' /\ ReadsWhatIsRecorded'
        BY <1>5 DEF IInv, TypeOK, DmaInv, StateInv, PromptInv, ReadsWhatIsRecorded,
                    vars, task, app
    <2> QED BY <2>2, <2>3 DEF IInv
<1> QED BY <1>1, <1>2, <1>3, <1>4, <1>5 DEF Next

-----------------------------------------------------------------------------
(* The inductive invariant holds of every behaviour of the driver, with an *)
(* application that returns only frames it has, for every number of frames *)
(* and every length of the two queues.                                     *)
THEOREM CameraInvariance == Spec => []IInv
<1>1. Init => IInv
    BY InitInvariant
<1>2. IInv /\ [Next]_vars => IInv'
    BY NextInvariant
<1> QED BY <1>1, <1>2, PTL DEF Spec

(* Every variable of the driver keeps its type; neither queue outgrows the *)
(* length it was created with (cam_hal.c:378-386).                         *)
THEOREM CameraTypeCorrect == Spec => []TypeOK
<1>1. IInv => TypeOK
    BY DEF IInv
<1> QED BY <1>1, CameraInvariance, PTL

(* cam_task, cam_take and cam_give lose no frame and never give one two    *)
(* owners, although the en flags and the two queues are shared without a   *)
(* lock and the interrupt handlers may force the state to IDLE at any      *)
(* moment.                                                                 *)
THEOREM FramesHaveOneOwner == Spec => []OneOwner
<1>1. IInv => OneOwner
    BY DEF IInv
<1> QED BY <1>1, CameraInvariance, PTL

(* The DMA engine, started by ll_cam_start, never writes into a frame that *)
(* the application has or will get: it runs on an enabled frame (DmaInv),  *)
(* which by OneOwner has no other owner.                                   *)
THEOREM FramesNeverOverwritten == Spec => []NeverOverwritten
<1>1. IInv => NeverOverwritten
    <2> SUFFICES ASSUME IInv, dma # NULL PROVE dma \notin Queued \union Searched \union held
        BY DEF NeverOverwritten
    <2>1. dma \in Frames /\ dma \in Free
        BY DEF IInv, TypeOK, DmaInv, Free
    <2>2. Owned(dma)
        BY <2>1, OneOwnerLemma DEF IInv
    <2> QED BY <2>1, <2>2 DEF Owned
<1> QED BY <1>1, CameraInvariance, PTL

(* If cam_task keeps up with the interrupts, the frame that a VSYNC hands  *)
(* over is the one the DMA engine has been recording until then.           *)
THEOREM FramesRecordedWhole == Spec => []ReadsWhatIsRecorded
<1>1. IInv => ReadsWhatIsRecorded
    BY DEF IInv
<1> QED BY <1>1, CameraInvariance, PTL

-----------------------------------------------------------------------------
(* The refinement: what each step of the driver is to FrameSource. *)

(* A frame that cam_task has recorded, or that is enabled, is the driver's *)
(* own in the sense of FrameSource.                                        *)
LEMMA DriversOwn ==
    ASSUME IInv, NEW f \in Frames, f \in Recorded \union Free
    PROVE  f \in FS!Own
<1>1. Owned(f)
    BY OneOwnerLemma DEF IInv
<1>2. f \notin Queued /\ f \notin Searched /\ f \notin held
    BY <1>1 DEF Owned
<1> QED BY <1>2 DEF FS!Own, FS!Range, Queued, Range

(* A step of an interrupt handler stops the recording or does nothing that *)
(* FrameSource can see.                                                    *)
LEMMA IsrImplements ==
    ASSUME IInv, CamStart \/ (\E e \in Events : Interrupt(e)) \/ IsrStep
    PROVE  FS!Stop \/ UNCHANGED FS!source
BY DEF IInv, CamStart, Interrupt, IsrStep, SendEvent, SendEventFails, ForceIdle,
       FS!Stop, FS!source, Searched, app

(* A step of cam_task stops the recording, starts one, delivers a frame or *)
(* discards the oldest, or does nothing that FrameSource can see.          *)
LEMMA TaskImplements ==
    ASSUME IInv, TaskStep
    PROVE  FS!Driver \/ UNCHANGED FS!source
<1> USE DEF FS!Driver
<1>0. frame_pos \in Frames
    BY DEF IInv, TypeOK
<1>1. CASE Begin \/ ReceiveEvent \/ SwitchIdle \/ GivePopped \/ NextFrame
           \/ ScanFound \/ ScanOn \/ ScanFails \/ Started
    BY <1>1 DEF Begin, ReceiveEvent, SwitchIdle, GivePopped, NextFrame, ScanFound,
                ScanOn, ScanFails, Started, FS!source, Searched, app
<1>2. CASE (\E soi \in BOOLEAN : SwitchEof(soi)) \/ SwitchVsync
    <2>1. FS!Stop \/ UNCHANGED FS!source
        BY <1>2 DEF SwitchEof, SwitchVsync, FS!Stop, FS!source, Searched, app
    <2> QED BY <2>1
<1>3. CASE SendFrame \/ PushFrame
    <2>1. frame_pos \in FS!Own
        BY <1>0, <1>3, DriversOwn DEF SendFrame, PushFrame, Recorded
    <2>2. dma = NULL
        BY <1>3 DEF SendFrame, PushFrame, IInv, DmaInv
    <2>3. FS!Deliver(frame_pos) \/ UNCHANGED FS!source
        BY <1>3, <2>1, <2>2 DEF SendFrame, PushFrame, FS!Deliver, FS!source, Searched, app
    <2> QED BY <1>0, <2>3
<1>4. CASE PopFrame
    <2>1. FS!Discard \/ UNCHANGED FS!source
        BY <1>4 DEF PopFrame, FS!Discard, FS!source, Searched, app
    <2> QED BY <2>1
<1>5. CASE StartDma
    <2>1. frame_pos \in FS!Own
        BY <1>0, <1>5, DriversOwn DEF StartDma, IInv, DmaInv, Free
    <2>2. FS!Record(frame_pos)
        BY <1>5, <2>1 DEF StartDma, FS!Record, Searched, app
    <2> QED BY <1>0, <2>2
<1> QED BY <1>1, <1>2, <1>3, <1>4, <1>5 DEF TaskStep

(* A step of the application's task takes a frame, gives one back, or      *)
(* finds the end marker of a frame that was taken already.                 *)
LEMMA AppImplements ==
    ASSUME IInv, AppStep
    PROVE  FS!Take \/ (\E f \in Frames : FS!Give(f)) \/ UNCHANGED FS!source
<1>0. NULL \notin Frames /\ search \in Frames \union {NULL} /\ held \subseteq Frames
    BY NullAssumption DEF IInv, TypeOK
<1>1. CASE CamTake
    <2>1. Head(frame_buffer_queue) \in Frames
        BY <1>1, TailElements DEF CamTake, IInv, TypeOK, OneOwner
    <2>2. held' \union Searched' = (held \union Searched) \union {Head(frame_buffer_queue)}
        BY <1>0, <1>1, <2>1 DEF CamTake, Searched
    <2>3. FS!Take
        BY <1>1, <2>2 DEF CamTake, FS!Take
    <2> QED BY <2>3
<1>2. CASE EoiFound
    <2>1. held' \union Searched' = held \union Searched
        BY <1>2 DEF EoiFound, Searched
    <2> QED BY <1>2, <2>1 DEF EoiFound, FS!source
<1>3. CASE NoEoi
    <2>1. search \in Frames /\ search \in Searched
        BY <1>0, <1>3 DEF NoEoi, Searched
    <2>2. search \notin held
        BY <2>1, OneOwnerLemma DEF IInv, Owned
    <2>3. held' \union Searched' = (held \union Searched) \ {search}
        BY <1>3, <2>1, <2>2 DEF NoEoi, Searched
    <2>4. FS!Give(search)
        BY <1>3, <2>1, <2>3 DEF NoEoi, FS!Give
    <2> QED BY <2>1, <2>4
<1>4. ASSUME NEW f \in Frames, CamGive(f) PROVE FS!Give(f)
    <2>1. f \in held /\ f \notin Searched
        BY <1>4, OneOwnerLemma DEF CamGive, IInv, Owned
    <2>2. held' \union Searched' = (held \union Searched) \ {f}
        BY <1>4, <2>1 DEF CamGive, Searched
    <2> QED BY <1>4, <2>1, <2>2 DEF CamGive, FS!Give
<1> QED BY <1>1, <1>2, <1>3, <1>4 DEF AppStep

(* The driver implements FrameSource: for every number of frames and every *)
(* length of the queues, whatever the order in which handlers, cam_task    *)
(* and application run, it only records into frames of its own, delivers   *)
(* frames that are not being recorded into, and hands each one out in      *)
(* order and at most once until it is given back.                          *)
THEOREM DriverImplementsFrameSource == Spec => ImplementsFrameSource
<1>1. Init => FS!Init
    <2>1. SUFFICES ASSUME Init PROVE FS!Init
        OBVIOUS
    <2>2. Searched = {}
        BY <2>1 DEF Init, Searched
    <2> QED BY <2>1, <2>2 DEF Init, FS!Init
<1>2. IInv /\ [Next]_vars => [FS!Next]_FS!source
    <2> SUFFICES ASSUME IInv, [Next]_vars PROVE FS!Next \/ UNCHANGED FS!source
        OBVIOUS
    <2>1. CASE CamStart \/ (\E e \in Events : Interrupt(e)) \/ IsrStep
        BY <2>1, IsrImplements DEF FS!Next, FS!Driver
    <2>2. CASE TaskStep
        BY <2>2, TaskImplements DEF FS!Next
    <2>3. CASE AppStep
        BY <2>3, AppImplements DEF FS!Next
    <2>4. CASE UNCHANGED vars
        BY <2>4 DEF vars, app, FS!source, Searched
    <2> QED BY <2>1, <2>2, <2>3, <2>4 DEF Next
<1> QED BY <1>1, <1>2, CameraInvariance, PTL DEF Spec, ImplementsFrameSource, FS!Spec
=============================================================================
