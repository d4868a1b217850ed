---------------------------- MODULE FrameSource -----------------------------
(***************************************************************************)
(* What the camera driver promises the tasks above it.  A frame is the     *)
(* driver's, or waits in the queue of recorded frames, or was taken by a   *)
(* task; the driver records only into frames that are its own, so that     *)
(* nobody reads a picture that is changing.  CamHal implements this        *)
(* specification, QrPipeline is built on it.                               *)
(***************************************************************************)
EXTENDS Naturals, Sequences, Functions

CONSTANTS Frames,         \* the frame buffers
          FrameQueueLen,  \* the length of the queue of recorded frames
          NULL

VARIABLES ready,      \* recorded frames nobody has taken yet, oldest first
          taken,      \* frames that esp_camera_fb_get has handed out
          recording   \* the frame being recorded into, NULL when there is none

source == <<ready, taken, recording>>

(* The frames that are the driver's own.                                   *)
Own == Frames \ (Range(ready) \union taken)

Init ==
  /\ ready = << >>
  /\ taken = {}
  /\ recording = NULL

(* The DMA engine is started on a frame of the driver's.                   *)
Record(f) ==
  /\ f \in Own
  /\ recording' = f
  /\ UNCHANGED <<ready, taken>>

(* The recording has ended, or is given up.                                *)
Stop ==
  /\ recording' = NULL
  /\ UNCHANGED <<ready, taken>>

(* A frame that is not being recorded into is queued.                      *)
Deliver(f) ==
  /\ f \in Own
  /\ recording = NULL
  /\ Len(ready) < FrameQueueLen
  /\ ready' = Append(ready, f)
  /\ UNCHANGED <<taken, recording>>

(* The oldest frame makes room for a newer one.                            *)
Discard ==
  /\ ready # << >>
  /\ ready' = Tail(ready)
  /\ UNCHANGED <<taken, recording>>

(* esp_camera_fb_get.                                                      *)
Take ==
  /\ ready # << >>
  /\ ready' = Tail(ready)
  /\ taken' = taken \union {Head(ready)}
  /\ UNCHANGED recording

(* esp_camera_fb_return.                                                   *)
Give(f) ==
  /\ f \in taken
  /\ taken' = taken \ {f}
  /\ UNCHANGED <<ready, recording>>

Driver == Stop \/ Discard \/ \E f \in Frames : Record(f) \/ Deliver(f)

Next == Driver \/ Take \/ \E f \in Frames : Give(f)

Spec == Init /\ [][Next]_source
=============================================================================
