-------------------------- MODULE MCCamLifecycle ----------------------------
(* CamLifecycle with the channels of the ESP32-S3.                         *)
EXTENDS CamLifecycle

PairsPerGroup == 5
=============================================================================
