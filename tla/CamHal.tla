------------------------------- MODULE CamHal -------------------------------
(***************************************************************************)
(* The frame path of the camera driver (cam_hal.c, ll_cam.c and the frame  *)
(* calls of esp_camera.c, as edited for the robot: ESP32-S3, psram_mode =  *)
(* 1, so that the DMA engine writes straight into the frame buffers).      *)
(*                                                                         *)
(* Three parties share cam_obj without a lock.  The interrupt handlers     *)
(* turn VSYNC and DMA end-of-block interrupts into events and, when the    *)
(* event queue is full, stop the DMA and force the state to IDLE.          *)
(* cam_task takes the events, chooses the frame to record into, and hands  *)
(* the recorded frame over.  The application's task takes frames and       *)
(* returns them.  The steps below are cut wherever one party touches what  *)
(* another one reads: the two queues, state, the DMA engine, the en flags. *)
(***************************************************************************)
EXTENDS Naturals, Sequences, Functions

CONSTANTS
    frame_cnt,      \* config->fb_count
    EventQueueLen,  \* dma_half_buffer_cnt - 1
    FrameQueueLen,  \* frame_cnt, or one less with CAMERA_GRAB_LATEST
    jpeg_mode,      \* config->pixel_format == PIXFORMAT_JPEG
    Prompt,         \* cam_task keeps up: no interrupt finds the event queue full
    NULL

ASSUME SizeAssumption ==
    /\ frame_cnt \in Nat \ {0}
    /\ EventQueueLen \in Nat \ {0}
    /\ FrameQueueLen \in Nat \ {0}
    /\ jpeg_mode \in BOOLEAN
    /\ Prompt \in BOOLEAN

Frames == 0 .. frame_cnt - 1

ASSUME NullAssumption == NULL \notin Frames

Events == {"VSYNC", "EOF"}

VARIABLES
    en,                  \* frames[x].en: the driver may record into frame x
    event_queue,
    frame_buffer_queue,
    state,
    dma,                 \* the frame the DMA engine writes into, NULL when stopped
    vsync_ena,           \* the VSYNC interrupt is enabled
    isr,                 \* what the interrupt handler has got to
    pc,                  \* where cam_task is
    event,               \* its locals cam_event, cnt, frame_pos, fb2
    cnt,
    frame_pos,
    fb2,
    x,                   \* the loop index of cam_get_next_frame
    site,                \* the state in whose case cam_start_frame was called
    search,              \* the frame cam_take is looking for an EOI marker in
    held                 \* the frames the application has

task == <<event, cnt, frame_pos, fb2, x, site>>
app == <<search, held>>
vars == <<en, event_queue, frame_buffer_queue, state, dma, vsync_ena, isr, pc, task, app>>

Labels == {"begin", "receive", "switch", "send", "pop", "push", "give",
           "next", "scan", "start", "started"}

(* The type of every variable; cnt matters only as zero or not.            *)
TypeOK ==
    /\ en \in [Frames -> BOOLEAN]
    /\ event_queue \in Seq(Events) /\ Len(event_queue) <= EventQueueLen
    /\ frame_buffer_queue \in Seq(Frames) /\ Len(frame_buffer_queue) <= FrameQueueLen
    /\ state \in {"IDLE", "READ_BUF"}
    /\ dma \in Frames \union {NULL}
    /\ vsync_ena \in BOOLEAN
    /\ isr \in Events \union {"none", "overflow"}
    /\ pc \in Labels
    /\ event \in Events
    /\ cnt \in {0, 1}
    /\ frame_pos \in Frames
    /\ fb2 \in Frames \union {NULL}
    /\ x \in Frames
    /\ site \in {"IDLE", "READ_BUF"}
    /\ search \in Frames \union {NULL}
    /\ held \subseteq Frames

(* cam_config: every frame allocated and enabled, the queues empty, the    *)
(* task created; the VSYNC interrupt stays off until cam_start.            *)
Init ==
    /\ en = [f \in Frames |-> TRUE]
    /\ event_queue = << >>
    /\ frame_buffer_queue = << >>
    /\ state = "IDLE"
    /\ dma = NULL
    /\ vsync_ena = FALSE
    /\ isr = "none"
    /\ pc = "begin"
    /\ event = "VSYNC"
    /\ cnt = 0
    /\ frame_pos = 0
    /\ fb2 = NULL
    /\ x = 0
    /\ site = "IDLE"
    /\ search = NULL
    /\ held = {}

(* cam_start, the last call of esp_camera_init.                            *)
CamStart ==
    /\ ~vsync_ena
    /\ vsync_ena' = TRUE
    /\ UNCHANGED <<en, event_queue, frame_buffer_queue, state, dma, isr, pc, task, app>>

-----------------------------------------------------------------------------
(* The interrupt handlers. *)

(* A handler has read and cleared its status register.  End-of-block       *)
(* interrupts are enabled by ll_cam_start in JPEG mode only, and disabled  *)
(* by ll_cam_stop.                                                         *)
Interrupt(e) ==
    /\ isr = "none"
    /\ e = "VSYNC" => vsync_ena
    /\ e = "EOF" => jpeg_mode /\ dma # NULL
    /\ Prompt => Len(event_queue) < EventQueueLen
    /\ isr' = e
    /\ UNCHANGED <<en, event_queue, frame_buffer_queue, state, dma, vsync_ena, pc, task, app>>

(* Fault: the queue holds one event more than it was created for.          *)
SendEventFault ==
    /\ isr \in Events
    /\ Len(event_queue) <= EventQueueLen
    /\ event_queue' = Append(event_queue, isr)
    /\ isr' = "none"
    /\ UNCHANGED <<en, frame_buffer_queue, state, dma, vsync_ena, pc, task, app>>

(* ll_cam_send_event: xQueueSendFromISR succeeds.                          *)
SendEvent ==
    /\ isr \in Events
    /\ Len(event_queue) < EventQueueLen
    /\ event_queue' = Append(event_queue, isr)
    /\ isr' = "none"
    /\ UNCHANGED <<en, frame_buffer_queue, state, dma, vsync_ena, pc, task, app>>

(* ll_cam_send_event: the queue is full; the event is lost, the DMA is     *)
(* stopped ...                                                             *)
SendEventFails ==
    /\ isr \in Events
    /\ Len(event_queue) >= EventQueueLen
    /\ dma' = NULL
    /\ isr' = "overflow"
    /\ UNCHANGED <<en, event_queue, frame_buffer_queue, state, vsync_ena, pc, task, app>>

(* ... and the state forced to IDLE, whatever cam_task is doing.           *)
ForceIdle ==
    /\ isr = "overflow"
    /\ state' = "IDLE"
    /\ isr' = "none"
    /\ UNCHANGED <<en, event_queue, frame_buffer_queue, dma, vsync_ena, pc, task, app>>

-----------------------------------------------------------------------------
(* cam_task. *)

Begin ==
    /\ pc = "begin"
    /\ state' = "IDLE"
    /\ event_queue' = << >>
    /\ pc' = "receive"
    /\ UNCHANGED <<en, frame_buffer_queue, dma, vsync_ena, isr, task, app>>

ReceiveEvent ==
    /\ pc = "receive"
    /\ event_queue # << >>
    /\ event' = Head(event_queue)
    /\ event_queue' = Tail(event_queue)
    /\ pc' = "switch"
    /\ UNCHANGED <<en, frame_buffer_queue, state, dma, vsync_ena, isr,
                   cnt, frame_pos, fb2, x, site, app>>

(* case CAM_STATE_IDLE: only a VSYNC starts a frame.                       *)
SwitchIdle ==
    /\ pc = "switch" /\ state = "IDLE"
    /\ pc' = IF event = "VSYNC" THEN "next" ELSE "receive"
    /\ site' = "IDLE"
    /\ UNCHANGED <<en, event_queue, frame_buffer_queue, state, dma, vsync_ena, isr,
                   event, cnt, frame_pos, fb2, x, app>>

(* case CAM_STATE_READ_BUF, end of a block: the first block must begin     *)
(* with the SOI marker, or the frame is given up.                          *)
SwitchEof(soi) ==
    /\ pc = "switch" /\ state = "READ_BUF" /\ event = "EOF"
    /\ cnt' = 1
    /\ IF jpeg_mode /\ cnt = 0 /\ ~soi
       THEN dma' = NULL /\ state' = "IDLE"
       ELSE UNCHANGED <<dma, state>>
    /\ pc' = "receive"
    /\ UNCHANGED <<en, event_queue, frame_buffer_queue, vsync_ena, isr,
                   event, frame_pos, fb2, x, site, app>>

(* Fault: the frame is handed over with the DMA engine still running.      *)
SwitchVsyncFault ==
    /\ pc = "switch" /\ state = "READ_BUF" /\ event = "VSYNC"
    /\ en' = [en EXCEPT ![frame_pos] = FALSE]
    /\ site' = "READ_BUF"
    /\ pc' = "send"
    /\ UNCHANGED <<event_queue, frame_buffer_queue, state, dma, vsync_ena, isr,
                   event, cnt, frame_pos, fb2, x, app>>

(* case CAM_STATE_READ_BUF, VSYNC: the DMA is stopped and the frame is no  *)
(* longer the driver's to record into (psram_mode skips the size checks).  *)
SwitchVsync ==
    /\ pc = "switch" /\ state = "READ_BUF" /\ event = "VSYNC"
    /\ dma' = NULL
    /\ en' = [en EXCEPT ![frame_pos] = FALSE]
    /\ site' = "READ_BUF"
    /\ pc' = "send"
    /\ UNCHANGED <<event_queue, frame_buffer_queue, state, vsync_ena, isr,
                   event, cnt, frame_pos, fb2, x, app>>

(* xQueueSend of the recorded frame, without waiting, if its en flag is    *)
(* clear; by OneOwner it is.                                               *)
SendFrame ==
    /\ pc = "send"
    /\ IF ~en[frame_pos] /\ Len(frame_buffer_queue) < FrameQueueLen
       THEN /\ frame_buffer_queue' = Append(frame_buffer_queue, frame_pos)
            /\ pc' = "next"
       ELSE /\ UNCHANGED frame_buffer_queue
            /\ pc' = IF en[frame_pos] THEN "next" ELSE "pop"
    /\ UNCHANGED <<en, event_queue, state, dma, vsync_ena, isr, task, app>>

(* Fault: the popped frame is forgotten and the send tried again.          *)
PopFrameFault ==
    /\ pc = "pop"
    /\ frame_buffer_queue # << >>
    /\ frame_buffer_queue' = Tail(frame_buffer_queue)
    /\ pc' = "send"
    /\ UNCHANGED <<en, event_queue, state, dma, vsync_ena, isr, task, app>>

(* The queue was full: the oldest frame is popped.  By now the application *)
(* may have emptied the queue; then the new frame is dropped.              *)
PopFrame ==
    /\ pc = "pop"
    /\ IF frame_buffer_queue # << >>
       THEN /\ fb2' = Head(frame_buffer_queue)
            /\ frame_buffer_queue' = Tail(frame_buffer_queue)
            /\ pc' = "push"
            /\ UNCHANGED en
       ELSE /\ en' = [en EXCEPT ![frame_pos] = TRUE]
            /\ pc' = "next"
            /\ UNCHANGED <<fb2, frame_buffer_queue>>
    /\ UNCHANGED <<event_queue, state, dma, vsync_ena, isr, event, cnt, frame_pos, x, site, app>>

PushFrame ==
    /\ pc = "push"
    /\ IF Len(frame_buffer_queue) < FrameQueueLen
       THEN /\ frame_buffer_queue' = Append(frame_buffer_queue, frame_pos)
            /\ UNCHANGED en
       ELSE /\ UNCHANGED frame_buffer_queue
            /\ en' = [en EXCEPT ![frame_pos] = TRUE]
    /\ pc' = "give"
    /\ UNCHANGED <<event_queue, state, dma, vsync_ena, isr, task, app>>

(* cam_give(fb2).                                                          *)
GivePopped ==
    /\ pc = "give"
    /\ en' = [en EXCEPT ![fb2] = TRUE]
    /\ pc' = "next"
    /\ UNCHANGED <<event_queue, frame_buffer_queue, state, dma, vsync_ena, isr, task, app>>

(* cam_get_next_frame: the current frame if it is enabled, else a search.  *)
NextFrame ==
    /\ pc = "next"
    /\ pc' = IF en[frame_pos] THEN "start" ELSE "scan"
    /\ x' = 0
    /\ UNCHANGED <<en, event_queue, frame_buffer_queue, state, dma, vsync_ena, isr,
                   event, cnt, frame_pos, fb2, site, app>>

ScanFound ==
    /\ pc = "scan" /\ en[x]
    /\ frame_pos' = x
    /\ pc' = "start"
    /\ UNCHANGED <<en, event_queue, frame_buffer_queue, state, dma, vsync_ena, isr,
                   event, cnt, fb2, x, site, app>>

ScanOn ==
    /\ pc = "scan" /\ ~en[x] /\ x + 1 < frame_cnt
    /\ x' = x + 1
    /\ UNCHANGED <<en, event_queue, frame_buffer_queue, state, dma, vsync_ena, isr, pc,
                   event, cnt, frame_pos, fb2, site, app>>

(* Fault: the driver goes on reading without a frame.                      *)
ScanFailsFault ==
    /\ pc = "scan" /\ ~en[x] /\ x + 1 = frame_cnt
    /\ cnt' = 0
    /\ pc' = "receive"
    /\ UNCHANGED <<en, event_queue, frame_buffer_queue, state, dma, vsync_ena, isr,
                   event, frame_pos, fb2, x, site, app>>

(* No frame is enabled: both call sites leave the driver idle.             *)
ScanFails ==
    /\ pc = "scan" /\ ~en[x] /\ x + 1 = frame_cnt
    /\ state' = IF site = "IDLE" THEN state ELSE "IDLE"
    /\ cnt' = 0
    /\ pc' = "receive"
    /\ UNCHANGED <<en, event_queue, frame_buffer_queue, dma, vsync_ena, isr,
                   event, frame_pos, fb2, x, site, app>>

(* ll_cam_start: the DMA engine is pointed at the frame and started.       *)
StartDma ==
    /\ pc = "start"
    /\ dma' = frame_pos
    /\ pc' = "started"
    /\ UNCHANGED <<en, event_queue, frame_buffer_queue, state, vsync_ena, isr, task, app>>

(* cam_start_frame has returned true.                                      *)
Started ==
    /\ pc = "started"
    /\ state' = IF site = "IDLE" THEN "READ_BUF" ELSE state
    /\ cnt' = 0
    /\ pc' = "receive"
    /\ UNCHANGED <<en, event_queue, frame_buffer_queue, dma, vsync_ena, isr,
                   event, frame_pos, fb2, x, site, app>>

-----------------------------------------------------------------------------
(* The application's task. *)

(* esp_camera_fb_get, cam_take: wait for a frame, for ever.                *)
CamTake ==
    /\ search = NULL
    /\ frame_buffer_queue # << >>
    /\ frame_buffer_queue' = Tail(frame_buffer_queue)
    /\ IF jpeg_mode
       THEN search' = Head(frame_buffer_queue) /\ UNCHANGED held
       ELSE held' = held \union {Head(frame_buffer_queue)} /\ UNCHANGED search
    /\ UNCHANGED <<en, event_queue, state, dma, vsync_ena, isr, pc, task>>

(* cam_take found the EOI marker.                                          *)
EoiFound ==
    /\ search # NULL
    /\ held' = held \union {search}
    /\ search' = NULL
    /\ UNCHANGED <<en, event_queue, frame_buffer_queue, state, dma, vsync_ena, isr, pc, task>>

(* cam_take did not: the frame is given back and the wait starts again.    *)
NoEoi ==
    /\ search # NULL
    /\ en' = [en EXCEPT ![search] = TRUE]
    /\ search' = NULL
    /\ UNCHANGED <<event_queue, frame_buffer_queue, state, dma, vsync_ena, isr, pc, task, held>>

(* Fault: the returned frame is not enabled again.                         *)
CamGiveFault(f) ==
    /\ f \in held
    /\ held' = held \ {f}
    /\ UNCHANGED <<en, event_queue, frame_buffer_queue, state, dma, vsync_ena, isr, pc, task, search>>

(* esp_camera_fb_return of a frame the application has.                    *)
CamGive(f) ==
    /\ f \in held
    /\ en' = [en EXCEPT ![f] = TRUE]
    /\ held' = held \ {f}
    /\ UNCHANGED <<event_queue, frame_buffer_queue, state, dma, vsync_ena, isr, pc, task, search>>

-----------------------------------------------------------------------------
IsrStep == SendEvent \/ SendEventFails \/ ForceIdle

TaskStep ==
    \/ Begin \/ ReceiveEvent
    \/ SwitchIdle \/ (\E soi \in BOOLEAN : SwitchEof(soi)) \/ SwitchVsync
    \/ SendFrame \/ PopFrame \/ PushFrame \/ GivePopped
    \/ NextFrame \/ ScanFound \/ ScanOn \/ ScanFails
    \/ StartDma \/ Started

AppStep == CamTake \/ EoiFound \/ NoEoi \/ (\E f \in Frames : CamGive(f))

Next ==
    \/ CamStart
    \/ \E e \in Events : Interrupt(e)
    \/ IsrStep
    \/ TaskStep
    \/ AppStep

Spec == Init /\ [][Next]_vars

(* The sensor's clock goes on, cam_task and the handlers run, and the      *)
(* application takes frames and returns each one it has.                   *)
FairSpec ==
    /\ Spec
    /\ WF_vars(CamStart)
    /\ WF_vars(Interrupt("VSYNC"))
    /\ WF_vars(IsrStep)
    /\ WF_vars(TaskStep)
    /\ WF_vars(CamTake)
    /\ \A f \in Frames : WF_vars(CamGive(f))

-----------------------------------------------------------------------------
Queued == Range(frame_buffer_queue)

(* Who may touch a frame: the driver to record into it, the frame queue,   *)
(* cam_task while it hands the recorded or the popped frame over, cam_take *)
(* while it looks for the end marker, the application.                     *)
Free == {f \in Frames : en[f]}
Recorded == IF pc \in {"send", "pop", "push"} THEN {frame_pos} ELSE {}
Popped == IF pc \in {"push", "give"} THEN {fb2} ELSE {}
Searched == {search} \ {NULL}

Places == <<Free, Queued, Recorded, Popped, Searched, held>>

(* No frame is ever lost or in two hands: the unlocked en flags, the full  *)
(* queue's pop and push (cam_hal.c:198-213), the returns of the            *)
(* application and the overflow path of the interrupt handlers together    *)
(* keep every frame with exactly one owner, and queue it at most once.     *)
OneOwner ==
    /\ \A f \in Frames : \E p \in 1 .. 6 : \A q \in 1 .. 6 : f \in Places[q] <=> q = p
    /\ IsInjective(frame_buffer_queue)

(* The DMA engine never writes into a frame that is queued, being          *)
(* searched or with the application, whatever the interrupt handlers did   *)
(* to state between two steps of cam_task.                                 *)
NeverOverwritten == dma # NULL => dma \notin Queued \union Searched \union held

(* While cam_task keeps up with the events, a driver that is reading has   *)
(* the DMA engine running on the frame that the next VSYNC will hand over, *)
(* so no frame is handed over that was not recorded to its end.            *)
ReadsWhatIsRecorded ==
    Prompt /\ pc \in {"receive", "switch"} /\ state = "READ_BUF" => dma = frame_pos

(* The driver keeps the promises of FrameSource, whatever the interrupt    *)
(* handlers do: the frames cam_task has in its hands count as the          *)
(* driver's, the one cam_take is looking at as taken.                      *)
FS == INSTANCE FrameSource WITH
        ready <- frame_buffer_queue, taken <- held \union Searched, recording <- dma

ImplementsFrameSource == FS!Spec

(* What the proofs of the three invariants rest on.  The DMA engine runs   *)
(* only on an enabled frame that is cam_task's current one, and never      *)
(* while that frame is handed over; a frame is enabled when the engine is  *)
(* started on it, and still when cam_task is about to hand it over.        *)
DmaInv ==
    /\ dma # NULL => /\ dma = frame_pos
                     /\ en[frame_pos]
                     /\ pc \notin {"send", "pop", "push", "give", "scan"}
    /\ pc \in {"start", "started"} => en[frame_pos]
    /\ pc \in {"receive", "switch"} /\ state = "READ_BUF" => en[frame_pos]
    /\ pc \in {"push", "give"} => fb2 \in Frames

(* The handlers only ever force state to IDLE, so inside cam_start_frame   *)
(* called from the idle case it is still IDLE.                             *)
StateInv ==
    /\ pc = "begin" => state = "IDLE"
    /\ pc \in {"next", "scan", "start", "started"} /\ site = "IDLE" => state = "IDLE"
    /\ pc \in {"send", "pop", "push", "give"} => site = "READ_BUF"

(* While cam_task keeps up there is always room for the event at hand, so  *)
(* nobody but cam_task stops the DMA engine or changes state.              *)
PromptInv ==
    Prompt =>
        /\ isr # "overflow"
        /\ isr \in Events => Len(event_queue) < EventQueueLen
        /\ pc = "started" => dma = frame_pos

IInv == TypeOK /\ OneOwner /\ DmaInv /\ StateInv /\ PromptInv /\ ReadsWhatIsRecorded

(* The camera does not run dry: as long as frames come back, the           *)
(* application gets another one, also after every frame was out and the    *)
(* driver had to go idle.                                                  *)
FramesKeepComing == []<>(held # {})

=============================================================================
