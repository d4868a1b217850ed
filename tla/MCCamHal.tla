------------------------------ MODULE MCCamHal ------------------------------
(* Small instances of CamHal: two or three frame buffers and an event      *)
(* queue short enough to overflow.  There is no symmetry: frame numbers    *)
(* are scanned in order.                                                   *)
EXTENDS CamHal
=============================================================================
