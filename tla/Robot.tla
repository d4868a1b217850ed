------------------------------- MODULE Robot --------------------------------
(***************************************************************************)
(* The communication manager as a whole: app_main joins the network with   *)
(* wifi_connect and then makes its calls, whether the network was joined   *)
(* or not, since wifi_connect does not say.  The station may lose the      *)
(* network and join it again while the calls' tasks are running; they can  *)
(* reach the server only while it has an address.                          *)
(***************************************************************************)
EXTENDS ApiClient, WifiConnection

all == <<vars, station_vars>>

Online(s) == s = "online"

RobotInit ==
  /\ StationInit
  /\ Init
  /\ up = Online(station)

(* The driver, the event loop and wifi_init_sta.                           *)
StationStep(A) ==
  /\ A
  /\ up' = Online(station')
  /\ UNCHANGED client

(* Fault: the calls do not wait for wifi_connect.                          *)
AppMainFault ==
  /\ wifi # "init"
  /\ MainStep
  /\ UNCHANGED station_vars

(* app_main goes on to its calls when wifi_connect has returned.           *)
AppMain ==
  /\ wifi \in {"connected", "failed"}
  /\ MainStep
  /\ UNCHANGED station_vars

HttpTask(n) == TaskStep(n) /\ UNCHANGED station_vars

RobotNext ==
  \/ StationStep(StationNext)
  \/ AppMain
  \/ \E n \in Calls : HttpTask(n)

RobotSpec == RobotInit /\ [][RobotNext]_all

(* The scheduler runs every task that is ready, and every call to the      *)
(* network returns: lwIP's own timeouts end connect and write, SO_RCVTIMEO *)
(* read.  The driver ends every attempt to connect.  Nothing is assumed of *)
(* an association: DHCP may never answer and the wait has no timeout.      *)
FairRobotSpec ==
  /\ RobotSpec
  /\ WF_all(StationStep(EventLoop))
  /\ WF_all(StationStep(StationMain))
  /\ WF_all(StationStep(EndAttempt))
  /\ WF_all(AppMain)
  /\ \A n \in Calls : WF_all(HttpTask(n))

-----------------------------------------------------------------------------
(* Properties *)

RobotTypeOK == TypeOK /\ StationTypeOK

(* No request is written or sent before the network was joined or every    *)
(* attempt at it was made: what the calls find there is at worst a network *)
(* that has been lost since.                                               *)
CallsAfterWifi ==
  main.pc # "clear" \/ main.call > 1 =>
     \/ "CONNECTED" \in bits
     \/ "FAIL" \in bits /\ s_retry_num = MaximumRetry

(* If the network comes to stay, app_main makes all its calls and every    *)
(* task it created ends: no retry loop and no read goes on for ever,       *)
(* whatever the outages before left the task with.                         *)
AllCallsEnd ==
  <>[]up => <>(/\ main.pc = "done"
               /\ \A n \in Calls : http[n] \in {"none", "ended"})
=============================================================================
