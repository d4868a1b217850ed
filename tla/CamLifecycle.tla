--------------------------- MODULE CamLifecycle -----------------------------
(***************************************************************************)
(* Bringing the camera up: esp_camera_init with cam_init, camera_probe and *)
(* cam_config, and the clean-up when one of their steps fails.  The global *)
(* cam_obj and its handles, and s_state, are the only way back to what was *)
(* allocated; three functions free through them, and two or three of them  *)
(* run after the same failure.  The driver is psram_mode only, and brought *)
(* up again only after it failed or was shut down.  On the ESP32-S3 the    *)
(* LCD_CAM unit makes the sensor's clock: the macros that would switch it  *)
(* in esp_camera.c are empty.                                              *)
(***************************************************************************)
EXTENDS Naturals, Sequences, Functions

CONSTANTS FrameCnt,  \* fb_count
          Channels,  \* SOC_GDMA_PAIRS_PER_GROUP
          MaxTries   \* bound: calls of esp_camera_init

ASSUME LifecycleAssumption ==
  /\ FrameCnt \in Nat \ {0}
  /\ Channels \in Nat \ {0}
  /\ MaxTries \in Nat \ {0}

Thing(name) == <<name, 0>>

(* What cam_dma_config allocates for the frames: a buffer and the DMA      *)
(* descriptors for each.                                                   *)
FrameThings ==
  [i \in 1..(2 * FrameCnt) |->
     <<IF i % 2 = 1 THEN "buf" ELSE "desc", (i + 1) \div 2>>]

(* The allocations of cam_config, in order.                                *)
Allocations ==
  <<Thing("frames")>> \o FrameThings
    \o <<Thing("event_queue"), Thing("frame_buffer_queue"),
         Thing("dma_intr"), Thing("cam_intr")>>

VARIABLES pc,       \* where esp_camera_init is
          done,     \* allocations of cam_config made so far
          heap,     \* what is allocated
          cam,      \* cam_obj and those of its handles that are not NULL
          s_state,  \* whether s_state is not NULL
          foreign,  \* whether somebody else's driver is on the I2C port
          xclk,     \* whether the sensor's clock is on
          dma_num,  \* the member of cam_obj: the camera's DMA channel
          link,     \* DMA channels whose link.addr is not 0
          tries,    \* calls so far
          others,   \* history: the channels other peripherals had at first
          noBus,    \* history: s_state came without an own I2C driver
          twice     \* history: what was freed though it was not allocated

vars == <<pc, done, heap, cam, s_state, foreign, xclk, dma_num, link, tries,
          others, noBus, twice>>

bus == <<foreign, noBus>>

DmaChannels == 0..(Channels - 1)

Things ==
  Range(Allocations)
    \cup {Thing(n) : n \in {"cam_obj", "s_state", "sccb", "task"}}

(* A statement of esp_camera_init, and sets of what there is.              *)
TypeOK ==
  /\ pc \in {"idle", "channel", "state", "probe", "format", "config", "task",
             "framesize", "start", "deinit", "failed", "running"}
  /\ done \in 0..Len(Allocations)
  /\ heap \subseteq Things /\ cam \subseteq Things /\ twice \subseteq Things
  /\ s_state \in BOOLEAN /\ xclk \in BOOLEAN
  /\ foreign \in BOOLEAN /\ noBus \in BOOLEAN
  /\ dma_num \in DmaChannels
  /\ link \subseteq DmaChannels /\ others \subseteq DmaChannels
  /\ tries \in 0..MaxTries

Init ==
  /\ pc = "idle" /\ done = 0
  /\ heap = {} /\ cam = {} /\ s_state = FALSE /\ xclk = FALSE
  /\ foreign \in BOOLEAN /\ noBus = FALSE
  /\ dma_num = 0
  /\ others \in SUBSET DmaChannels
  /\ link = others
  /\ tries = 0 /\ twice = {}

-----------------------------------------------------------------------------
Frees(things) ==
  /\ heap' = heap \ things
  /\ twice' = twice \cup (things \ heap)

CamObj == Thing("cam_obj")
Sccb == Thing("sccb")

(* What cam_deinit and ll_cam_deinit free, when the handle is not NULL.    *)
Deinits ==
  {CamObj, Thing("task"), Thing("event_queue"), Thing("frame_buffer_queue"),
   Thing("frames"), Thing("dma_intr"), Thing("cam_intr")}
    \cup {"buf", "desc"} \X (1..FrameCnt)

HandlesIn(handles) == IF CamObj \in cam THEN handles ELSE {}

(* Fault: cam_obj keeps its value.                                         *)
CamDeinitFault(more) ==
  /\ Frees(HandlesIn(cam \cap Deinits) \cup more)
  /\ link' = link \ HandlesIn({dma_num})
  /\ UNCHANGED cam

(* cam_deinit, which does nothing without a cam_obj; its caller frees more.*)
CamDeinit(more) ==
  /\ Frees(HandlesIn(cam \cap Deinits) \cup more)
  /\ link' = link \ HandlesIn({dma_num})
  /\ cam' = {}

-----------------------------------------------------------------------------
(* cam_init *)

CamInit ==
  /\ pc \in {"idle", "failed"}
  /\ tries < MaxTries
  /\ tries' = tries + 1
  /\ done' = 0
  /\ dma_num' = 0
  /\ \/ pc' = "channel" /\ heap' = heap \cup {CamObj} /\ cam' = {CamObj}
     \/ pc' = "failed" /\ cam' = {} /\ UNCHANGED heap
  /\ UNCHANGED <<s_state, xclk, bus, link, others, twice>>

(* Fault: the search begins one too high.                                  *)
LlCamConfigFault ==
  /\ pc = "channel"
  /\ \E c \in 0..Channels \ link :
        dma_num' = c /\ \A d \in 0..Channels \ link : d <= c
  /\ pc' = "state" /\ xclk' = TRUE
  /\ UNCHANGED <<done, heap, cam, s_state, bus, link, tries, others, twice>>

(* Fault: the first channel is taken without a look.                       *)
LlCamConfigBusy ==
  /\ pc = "channel"
  /\ pc' = "state" /\ xclk' = TRUE
  /\ UNCHANGED <<done, heap, cam, s_state, bus, dma_num, link, tries,
                 others, twice>>

(* ll_cam_config starts the clock, which nothing stops again, and then     *)
(* ll_cam_dma_init takes the last channel with a link.addr of 0.  Without  *)
(* one it tears everything down itself, with the dma_num of a fresh        *)
(* cam_obj, and cam_init then frees NULL.                                  *)
LlCamConfig ==
  /\ pc = "channel"
  /\ xclk' = TRUE
  /\ \/ /\ \E c \in DmaChannels \ link :
              dma_num' = c /\ \A d \in DmaChannels \ link : d <= c
        /\ pc' = "state"
        /\ UNCHANGED <<heap, twice, link, cam>>
     \/ /\ link = DmaChannels
        /\ CamDeinit({})
        /\ pc' = "failed"
        /\ UNCHANGED dma_num
  /\ UNCHANGED <<done, s_state, bus, tries, others>>

-----------------------------------------------------------------------------
(* camera_probe *)

(* calloc, and SCCB_Init unless the configuration says that the I2C port   *)
(* is set up already.  i2c_driver_install fails without memory, or when    *)
(* there is a driver on the port; SCCB_Init does not look.                 *)
AllocState ==
  /\ pc = "state"
  /\ \/ /\ \E sccb \in SUBSET {Sccb} :
              /\ sccb # {} => ~foreign
              /\ heap' = heap \cup {Thing("s_state")} \cup sccb
              /\ noBus' = (noBus \/ sccb = {})
        /\ s_state' = TRUE /\ pc' = "probe"
     \/ pc' = "deinit" /\ UNCHANGED <<heap, s_state, noBus>>
  /\ UNCHANGED <<done, cam, foreign, xclk, dma_num, link, tries, others,
                 twice>>

(* No sensor answers, as when the port has no driver, or none that is      *)
(* supported.                                                              *)
CameraProbe ==
  /\ pc = "probe"
  /\ \/ pc' = "format" /\ (Sccb \in heap \/ foreign)
     \/ pc' = "deinit"
  /\ UNCHANGED <<done, heap, cam, s_state, bus, xclk, dma_num, link, tries,
                 others, twice>>

(* Fault: esp_camera_init returns at once.                                 *)
CheckFormatFault ==
  /\ pc = "format"
  /\ pc' \in {"config", "failed"}
  /\ UNCHANGED <<done, heap, cam, s_state, bus, xclk, dma_num, link, tries,
                 others, twice>>

(* A sensor without JPEG was asked for it.                                 *)
CheckFormat ==
  /\ pc = "format"
  /\ pc' \in {"config", "deinit"}
  /\ UNCHANGED <<done, heap, cam, s_state, bus, xclk, dma_num, link, tries,
                 others, twice>>

-----------------------------------------------------------------------------
(* cam_config: one allocation after the other, and cam_deinit when one     *)
(* fails.                                                                  *)

(* Fault: a failure is not noticed.                                        *)
AllocateFault ==
  /\ pc = "config"
  /\ done < Len(Allocations)
  /\ done' = done + 1
  /\ \/ /\ heap' = heap \cup {Allocations[done']}
        /\ cam' = cam \cup {Allocations[done']}
     \/ UNCHANGED <<heap, cam>>
  /\ pc' = IF done' = Len(Allocations) THEN "task" ELSE "config"
  /\ UNCHANGED <<s_state, bus, xclk, dma_num, link, tries, others, twice>>

Allocate ==
  /\ pc = "config"
  /\ done < Len(Allocations)
  /\ \/ /\ done' = done + 1
        /\ heap' = heap \cup {Allocations[done']}
        /\ cam' = cam \cup {Allocations[done']}
        /\ pc' = IF done' = Len(Allocations) THEN "task" ELSE "config"
        /\ UNCHANGED <<link, twice>>
     \/ pc' = "deinit" /\ CamDeinit({}) /\ UNCHANGED done
  /\ UNCHANGED <<s_state, bus, xclk, dma_num, tries, others>>

(* xTaskCreate; that it may fail goes unnoticed.                           *)
CreateCamTask ==
  /\ pc = "task"
  /\ \/ /\ heap' = heap \cup {Thing("task")}
        /\ cam' = cam \cup {Thing("task")}
     \/ UNCHANGED <<heap, cam>>
  /\ pc' = "framesize"
  /\ UNCHANGED <<done, s_state, bus, xclk, dma_num, link, tries,
                 others, twice>>

-----------------------------------------------------------------------------
(* The end of esp_camera_init *)

SetFramesize ==
  /\ pc = "framesize"
  /\ pc' \in {"start", "deinit"}
  /\ UNCHANGED <<done, heap, cam, s_state, bus, xclk, dma_num, link, tries,
                 others, twice>>

(* cam_start: with the first vsync the channel gets its link.addr.         *)
CamStart ==
  /\ pc = "start"
  /\ pc' = "running"
  /\ link' = link \cup {dma_num}
  /\ UNCHANGED <<done, heap, cam, s_state, bus, xclk, dma_num, tries, others,
                 twice>>

StateThings == IF s_state THEN {Sccb, Thing("s_state")} ELSE {}

(* esp_camera_deinit, at the label fail or called for a running camera.    *)
(* With an s_state it deletes the driver on the I2C port, whosever it is;  *)
(* when there is none i2c_driver_delete returns an error nobody looks at.  *)
EspCameraDeinit ==
  /\ pc \in {"deinit", "running"}
  /\ CamDeinit(StateThings)
  /\ s_state' = FALSE
  /\ foreign' = (foreign /\ ~s_state)
  /\ pc' = "failed"
  /\ UNCHANGED <<done, xclk, dma_num, tries, others, noBus>>

-----------------------------------------------------------------------------
Next ==
  \/ CamInit \/ LlCamConfig
  \/ AllocState \/ CameraProbe \/ CheckFormat
  \/ Allocate \/ CreateCamTask
  \/ SetFramesize \/ CamStart \/ EspCameraDeinit

Spec == Init /\ [][Next]_vars

-----------------------------------------------------------------------------
(* Properties *)

(* Whichever step fails, no handle dangles and all that is allocated can   *)
(* be reached through cam_obj or s_state, and nothing of it is left when   *)
(* esp_camera_init has returned an error or the camera was shut down: it   *)
(* can be brought up again.                                                *)
NothingLost ==
  /\ heap \subseteq cam \cup StateThings
  /\ cam \cup (StateThings \ {Sccb}) \subseteq heap
  /\ pc = "failed" => heap = {}

(* The clean-ups that run one after the other for the same failure, or     *)
(* after a run of the camera, free nothing twice and nothing that was not  *)
(* allocated - but for the I2C driver, and that only after a call that did *)
(* not install one.                                                        *)
FreedOnce == twice \subseteq (IF noBus THEN {Sccb} ELSE {})

(* When esp_camera_init has returned ESP_OK, everything is there that the  *)
(* frame path uses and the sensor is driven by, the I2C driver included,   *)
(* whose installation nobody checked.  Only cam_task may be missing, since *)
(* nobody checks its creation either.                                      *)
RunningIsComplete ==
  pc = "running" =>
     /\ Things \ {Thing("task"), Sccb} \subseteq heap
     /\ Sccb \in heap \/ foreign
     /\ xclk

(* No failure and no retry takes a DMA channel from another peripheral,    *)
(* but for channel 0 when at first there was none left for the camera.     *)
OthersUndisturbed ==
  LET lost == IF others = DmaChannels THEN {0} ELSE {}
  IN  /\ others \ link \subseteq lost
      /\ pc = "running" => dma_num \notin others \ lost
=============================================================================
