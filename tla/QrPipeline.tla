----------------------------- MODULE QrPipeline -----------------------------
(***************************************************************************)
(* The QR pose application: main.cpp starts the camera task (who_camera.c) *)
(* and the pose task (QR_Posing.c), with a queue of frames between them.   *)
(* The camera task takes frames from the driver and queues them; the pose  *)
(* task searches each one for codes, reports the widest over the serial    *)
(* line and gives the frame back.  Of the driver only the promises of      *)
(* FrameSource are used.                                                   *)
(***************************************************************************)
EXTENDS QrSearch, FiniteSets

CONSTANTS Frames, FrameQueueLen, NULL,
          CamQueueLen,  \* length of xQueueCAMFrame
          Pictures,     \* what the camera may see: sets of codes
          Surroundings  \* what memory around PureBOrW may hold: sets of cells

(* The place and the size of a code, and which half of it is lower.        *)
Codes ==
  [left : Nat, top : Nat, w : Nat \ {0}, h : Nat \ {0}, drop : {-1, 0, 1}]

(* Codes are in the picture and the cells around it are not; NULL is       *)
(* neither a frame nor a code.                                             *)
ASSUME PipelineAssumption ==
  /\ IsFiniteSet(Frames) /\ NULL \notin Frames \union Notes
  /\ FrameQueueLen \in Nat \ {0} /\ CamQueueLen \in Nat \ {0}
  /\ \A picture \in Pictures : \A code \in picture :
       /\ code \in Codes
       /\ code.left + code.w <= Size
       /\ code.top + code.h + code.drop * code.drop <= Size
  /\ \A cells \in Surroundings : \A cell \in cells :
       cell[1] \in Int \ 0..(Size - 1)

VARIABLES ready, taken, recording,  \* the driver, as in FrameSource
          pictures,   \* what was last recorded into each frame
          boot,       \* app_main: what it registers next
          cam,        \* the camera task: "off", "get", "send"
          fb,         \* its frame
          camQueue,   \* xQueueCAMFrame
          pose,       \* the pose task: what it does next
          frame,      \* its frame
          bw,         \* PureBOrW
          l1, best,   \* the codes noted, the one to report
          report      \* what was last reported

Driver == INSTANCE FrameSource

source == <<ready, taken, recording, pictures>>
camera == <<cam, fb, camQueue>>
poser == <<frame, bw, l1, best, report>>
vars == <<source, boot, camera, pose, poser>>

(* A code of w columns and h rows whose right half (drop = 1) or left half *)
(* (drop = -1) is one row lower, and the pixels that are white in a        *)
(* picture.                                                                *)
Lowered(code, c) ==
  \/ code.drop = 1 /\ 2 * c >= code.w
  \/ code.drop = -1 /\ 2 * c < code.w

Lowering(code, c) == IF Lowered(code, c) THEN 1 ELSE 0

Pixels(picture) ==
  UNION {{<<code.top + r + Lowering(code, c), code.left + c>> :
            c \in 0..(code.w - 1), r \in 0..(code.h - 1)} : code \in picture}

(* The report of a picture in which nothing was found.                     *)
Nothing == [x |-> 500, width |-> 5]

Labels == {"off", "receive", "convert", "search", "report", "return"}

(* The frames in each variable are frames, the queue is within its length. *)
TypeOK ==
  /\ recording \in Frames \union {NULL}
  /\ pictures \in [Frames -> Pictures]
  /\ boot \in {"camera", "lcd", "done"}
  /\ cam \in {"off", "get", "send"} /\ fb \in Frames \union {NULL}
  /\ camQueue \in Seq(Frames) /\ Len(camQueue) <= CamQueueLen
  /\ pose \in Labels /\ frame \in Frames \union {NULL}
  /\ l1 \in Seq(Notes) /\ Len(l1) <= MaxCodes
  /\ report \in [x : 0..Size, width : 0..Size] \union {Nothing, NULL}

Init ==
  /\ Driver!Init
  /\ pictures \in [Frames -> Pictures]
  /\ boot = "camera"
  /\ cam = "off" /\ fb = NULL /\ camQueue = << >>
  /\ pose = "off" /\ frame = NULL
  /\ bw = NULL /\ l1 = << >> /\ best = NULL /\ report = NULL

-----------------------------------------------------------------------------
(* app_main.  Whether a registration succeeded goes unnoticed.             *)

RegisterCamera ==
  /\ boot = "camera"
  /\ boot' = "lcd"
  /\ cam' \in {"get", "off"}
  /\ UNCHANGED <<source, fb, camQueue, pose, poser>>

RegisterLcd ==
  /\ boot = "lcd"
  /\ boot' = "done"
  /\ pose' \in {"receive", "off"}
  /\ UNCHANGED <<source, camera, poser>>

-----------------------------------------------------------------------------
(* The driver of a camera that was initialised.  A recording leaves a new  *)
(* picture in its frame.                                                   *)

RecordPicture ==
  /\ cam # "off"
  /\ \E f \in Frames :
       /\ Driver!Record(f)
       /\ \E picture \in Pictures : pictures' = [pictures EXCEPT ![f] = picture]
  /\ UNCHANGED <<boot, camera, pose, poser>>

EndRecording ==
  /\ recording # NULL
  /\ Driver!Stop
  /\ UNCHANGED <<pictures, boot, camera, pose, poser>>

DeliverFrame ==
  /\ cam # "off"
  /\ \E f \in Frames : Driver!Deliver(f)
  /\ UNCHANGED <<pictures, boot, camera, pose, poser>>

DiscardFrame ==
  /\ Driver!Discard
  /\ UNCHANGED <<pictures, boot, camera, pose, poser>>

-----------------------------------------------------------------------------
(* who_camera.c: esp_camera_fb_get, tried again for as long as it has no   *)
(* frame, then xQueueSend, for as long as it takes.                        *)

GetFrame ==
  /\ cam = "get"
  /\ Driver!Take
  /\ fb' = Head(ready)
  /\ cam' = "send"
  /\ UNCHANGED <<pictures, boot, camQueue, pose, poser>>

(* Fault: the frame is dropped when there is no room for it.               *)
SendFrameFault ==
  /\ cam = "send"
  /\ camQueue' = IF Len(camQueue) < CamQueueLen
                 THEN Append(camQueue, fb) ELSE camQueue
  /\ fb' = NULL
  /\ cam' = "get"
  /\ UNCHANGED <<source, boot, pose, poser>>

SendFrame ==
  /\ cam = "send"
  /\ Len(camQueue) < CamQueueLen
  /\ camQueue' = Append(camQueue, fb)
  /\ fb' = NULL
  /\ cam' = "get"
  /\ UNCHANGED <<source, boot, pose, poser>>

-----------------------------------------------------------------------------
(* QR_Posing.c: receive a frame and forget the codes of the last one, make *)
(* its picture black and white, search it, report, give the frame back.    *)

(* Fault: the codes of the last frame are kept.                            *)
ReceiveFrameFault ==
  /\ pose = "receive"
  /\ camQueue # << >>
  /\ frame' = Head(camQueue)
  /\ camQueue' = Tail(camQueue)
  /\ pose' = "convert"
  /\ UNCHANGED <<source, boot, cam, fb, bw, l1, best, report>>

ReceiveFrame ==
  /\ pose = "receive"
  /\ camQueue # << >>
  /\ frame' = Head(camQueue)
  /\ camQueue' = Tail(camQueue)
  /\ l1' = << >>
  /\ pose' = "convert"
  /\ UNCHANGED <<source, boot, cam, fb, bw, best, report>>

(* What lies around PureBOrW in memory is not known; it stays the same for *)
(* the one search.                                                         *)
ConvertFrame ==
  /\ pose = "convert"
  /\ \E cells \in Surroundings :
       bw' = [white |-> Pixels(pictures[frame]), around |-> cells]
  /\ pose' = "search"
  /\ UNCHANGED <<source, boot, camera, frame, l1, best, report>>

SearchFrame ==
  /\ pose = "search"
  /\ l1' = Search(bw, l1)
  /\ bw' = NULL
  /\ pose' = "report"
  /\ UNCHANGED <<source, boot, camera, frame, best, report>>

(* Fault: the sum of the columns instead of their mean.                    *)
SendFault(code) ==
  report' = IF code = NULL THEN Nothing
            ELSE [x |-> code.x1 + code.x0, width |-> Width(code)]

Send(code) ==
  report' = IF code = NULL THEN Nothing
            ELSE [x |-> (code.x1 + code.x0) \div 2, width |-> Width(code)]

ReportBest ==
  /\ pose = "report"
  /\ best' = Widest(l1, NULL)
  /\ Send(best')
  /\ pose' = "return"
  /\ UNCHANGED <<source, boot, camera, frame, bw, l1>>

(* Fault: the frame is not returned to the driver.                         *)
ReturnFrameFault ==
  /\ pose = "return"
  /\ frame' = NULL
  /\ pose' = "receive"
  /\ UNCHANGED <<source, boot, camera, bw, l1, best, report>>

(* esp_camera_fb_return; the report and the codes of the frame are not     *)
(* read any more.                                                          *)
ReturnFrame ==
  /\ pose = "return"
  /\ Driver!Give(frame)
  /\ frame' = NULL
  /\ report' = NULL
  /\ pose' = "receive"
  /\ UNCHANGED <<pictures, boot, camera, bw, l1, best>>

-----------------------------------------------------------------------------
CameraTask == GetFrame \/ SendFrame

PoseTask == ReceiveFrame \/ ConvertFrame \/ SearchFrame \/ ReportBest \/ ReturnFrame

Next ==
  \/ RegisterCamera \/ RegisterLcd
  \/ RecordPicture \/ EndRecording \/ DeliverFrame \/ DiscardFrame
  \/ CameraTask \/ PoseTask

Spec == Init /\ [][Next]_vars

(* A step of SearchFrame, which can be taken whenever a picture is to be   *)
(* searched.                                                               *)
SearchEnds == pose = "search" /\ pose' = "report"

(* app_main and the tasks run.  The driver ends its recordings, and frames *)
(* keep coming: the camera task is not for ever too late for one.          *)
FairSpec ==
  /\ Spec
  /\ WF_vars(RegisterCamera \/ RegisterLcd)
  /\ WF_vars(EndRecording) /\ SF_vars(DeliverFrame)
  /\ SF_vars(GetFrame) /\ WF_vars(SendFrame)
  /\ WF_vars(ReceiveFrame) /\ WF_vars(ConvertFrame) /\ WF_pose(SearchEnds)
  /\ WF_vars(ReportBest) /\ WF_vars(ReturnFrame)

-----------------------------------------------------------------------------
(* Properties *)

InQueue == {camQueue[n] : n \in 1..Len(camQueue)}

(* Every frame the driver has handed out is with exactly one of the two    *)
(* tasks or in the queue between them, once: none is lost, none is given   *)
(* back while the other task still has it (who_camera.c:13-15,             *)
(* QR_Posing.c:391-398).                                                   *)
FramesAccounted ==
  /\ taken = InQueue \union ({fb, frame} \ {NULL})
  /\ Len(camQueue) + (IF fb = NULL THEN 0 ELSE 1) + (IF frame = NULL THEN 0 ELSE 1)
       = Cardinality(taken)

(* The row where a code begins at its left end, and the first one below    *)
(* it.                                                                     *)
FirstRow(code) == code.top + Lowering(code, 0)

Below(code) == code.top + code.h + code.drop * code.drop

(* The picture is whole above its last row and below its first ones, where *)
(* the search has no memory but the picture's to look at.                  *)
Clear(picture) ==
  \A code \in picture : code.top >= TopMargin /\ Below(code) < Size

(* Between any two codes there is a black column, or as many black rows as *)
(* an upper edge has above it.                                             *)
Separate(picture) ==
  \A code, other \in picture :
    \/ code = other
    \/ code.left + code.w < other.left \/ other.left + other.w < code.left
    \/ Below(code) + TopMargin <= other.top \/ Below(other) + TopMargin <= code.top

(* After the edge of other in row y, to the left of a code, the scan may   *)
(* move on beyond the left end of the code: it moves by the length of the  *)
(* side (QR_Posing.c:181).                                                 *)
Hides(other, code, y) ==
  /\ other.w > MinL /\ other.left + other.w < code.left
  /\ y \in other.top..(other.top + other.drop * other.drop + TopMargin - 1)
  /\ code.left + y + MinL < other.left + other.w + Below(other)

(* The scan comes to the left end of the code: in its first row, or, if    *)
(* level codes of the same first row hide it there, in the next one, when  *)
(* those have been noted.                                                  *)
Shown(code, picture) ==
  LET y == FirstRow(code)
  IN  \/ \A other \in picture : ~Hides(other, code, y)
      \/ /\ code.drop # -1
         /\ \A other \in picture :
              Hides(other, code, y) \/ Hides(other, code, y + 1) =>
                /\ other.drop = 0 /\ other.top = y
                /\ \A third \in picture : ~Hides(third, other, y)

(* What is reported is in the frame the pose task has, whatever the frames *)
(* before it showed and whatever the driver records meanwhile.  Of any     *)
(* number of separate codes it is one that is large enough, or a part of   *)
(* one, and never a mixture of two; and if the search did not run out of   *)
(* places for notes, the widest code is reported where it is and as wide   *)
(* as it is, unless others hide it.                                        *)
ReportsWhatIsSeen ==
  pose = "return" /\ Clear(pictures[frame]) /\ Separate(pictures[frame]) =>
    LET seen == pictures[frame]
        first == report.x - report.width \div 2
    IN  /\ report # Nothing =>
             \E code \in seen :
               /\ code.w > MinL /\ code.h + code.drop * code.drop > MinL
               /\ code.left - 1 <= first
               /\ first + report.width <= code.left + code.w
        /\ Len(l1) < MaxCodes =>
             \A code \in seen :
               /\ code.w > MinL /\ code.h > MinL + 1
               /\ \A other \in seen \ {code} : other.w < code.w
               /\ Shown(code, seen)
               => report = [x |-> (2 * code.left + code.w) \div 2, width |-> code.w]

(* Nothing is invented in a picture none of whose codes reaches the last   *)
(* row, whatever is in the memory around it: every column of a reported    *)
(* code, but for the one beyond its end, has a white pixel in the frame    *)
(* the pose task has, there are more of them than the least, and so are    *)
(* the rows.  With white pixels in the last row it does not hold           *)
(* (SendsNothing below).                                                   *)
ReportIsVisible ==
  pose = "return" /\ report # Nothing
  /\ (\A code \in pictures[frame] : Below(code) < Size) =>
    LET white == Pixels(pictures[frame])
        first == report.x - report.width \div 2
    IN  /\ report.width > MinL
        /\ \E end \in {0, 1} : \A c \in (first + end)..(first + end + report.width - 1) :
             \E r \in 0..(Size - 1) : <<r, c>> \in white
        /\ \E r, c, e \in 0..(Size - 1) :
             <<r, e>> \in white /\ \A k \in 1..MinL : <<r + k, c>> \in white

(* A code that is alone in the picture is reported where it is and as wide *)
(* as it is, level or slanted to either side, when it is a row higher than *)
(* the least; if it is too small, nothing is reported.                     *)
SingleCodeReported ==
  pose = "return" /\ Clear(pictures[frame]) =>
    \A code \in pictures[frame] : pictures[frame] = {code} =>
      /\ code.w > MinL /\ code.h > MinL + 1
           => report = [x |-> (2 * code.left + code.w) \div 2, width |-> code.w]
      /\ code.w <= MinL \/ code.h + code.drop * code.drop <= MinL
           => report = Nothing

(* The application goes on: once both tasks run, reports keep coming.      *)
ReportsKeepComing ==
  <>[](cam # "off" /\ pose # "off") => []<>(pose = "return")

-----------------------------------------------------------------------------
(* What a comment of the code says of it and it does not do *)

(* "sends 500 if nothing was found": a picture without a code of the       *)
(* smallest size is reported as nothing, wherever its white pixels are.    *)
SendsNothing ==
  pose = "return"
  /\ (\A code \in pictures[frame] : code.w <= MinL \/ code.h + code.drop * code.drop <= MinL)
    => report = Nothing
=============================================================================
