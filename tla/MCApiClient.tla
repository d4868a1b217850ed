---------------------------- MODULE MCApiClient -----------------------------
(***************************************************************************)
(* ApiClient with the calls of main.c: api_get_nexttask(3), then           *)
(* api_update_status(3, 2, 1, 5.6).                                        *)
(***************************************************************************)
EXTENDS ApiClient

MainC ==
  <<[kind |-> "nexttask", id |-> 3],
    [kind |-> "updatestatus", id |-> 3, task_id |-> 2, qr_id |-> 1]>>
=============================================================================
