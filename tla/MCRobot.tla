------------------------------ MODULE MCRobot -------------------------------
(***************************************************************************)
(* Robot with the calls of main.c: api_get_nexttask(3), then               *)
(* api_update_status(3, 2, 1, 5.6).                                        *)
(***************************************************************************)
EXTENDS Robot, MCApiClient
=============================================================================
