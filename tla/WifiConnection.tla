--------------------------- MODULE WifiConnection ---------------------------
(***************************************************************************)
(* Joining the Wi-Fi network: wifi_connection.c of the communication       *)
(* manager.  The Wi-Fi driver and the TCP/IP stack post events; the event  *)
(* loop's task hands them, in order, to event_handler; the main task waits *)
(* in wifi_init_sta for one of two bits.                                   *)
(***************************************************************************)
EXTENDS Integers, Sequences

CONSTANTS MaximumRetry,  \* EXAMPLE_ESP_MAXIMUM_RETRY
          MaxEvents,     \* bound: events waiting for the event loop
          MaxLosses      \* bound: established connections that are lost

ASSUME WifiAssumption ==
  MaximumRetry \in Nat /\ MaxEvents \in Nat \ {0} /\ MaxLosses \in Nat

VARIABLES station,    \* the driver: what the radio is doing
          events,     \* the default event loop's queue
          s_retry_num,
          bits,       \* s_wifi_event_group
          wifi,       \* wifi_init_sta: "init", "waiting", then its outcome
          attempts,   \* history: esp_wifi_connect calls since the last IP
          losses      \* connections lost so far

station_vars == <<station, events, s_retry_num, bits, wifi, attempts, losses>>

(* The retry counter stays within EXAMPLE_ESP_MAXIMUM_RETRY and the event  *)
(* queue within its bound.                                                 *)
StationTypeOK ==
  /\ station \in {"off", "idle", "connecting", "associated", "online"}
  /\ events \in Seq({"STA_START", "STA_DISCONNECTED", "STA_GOT_IP"})
  /\ Len(events) <= MaxEvents
  /\ s_retry_num \in 0..MaximumRetry
  /\ bits \subseteq {"CONNECTED", "FAIL"}
  /\ wifi \in {"init", "waiting", "connected", "failed"}
  /\ attempts \in Nat
  /\ losses \in 0..MaxLosses

StationInit ==
  /\ station = "off"
  /\ events = <<>>
  /\ s_retry_num = 0
  /\ bits = {}
  /\ wifi = "init"
  /\ attempts = 0
  /\ losses = 0

-----------------------------------------------------------------------------
(* The driver, as event_handler relies on it.                              *)

Post(event) ==
  /\ Len(events) < MaxEvents
  /\ events' = Append(events, event)

Associate ==
  /\ station = "connecting"
  /\ station' = "associated"
  /\ UNCHANGED <<events, s_retry_num, bits, wifi, attempts, losses>>

(* The access point is not found, refuses, or is lost before DHCP is done. *)
FailToConnect ==
  /\ station \in {"connecting", "associated"}
  /\ Post("STA_DISCONNECTED")
  /\ station' = "idle"
  /\ UNCHANGED <<s_retry_num, bits, wifi, attempts, losses>>

ObtainIP ==
  /\ station = "associated"
  /\ Post("STA_GOT_IP")
  /\ station' = "online"
  /\ UNCHANGED <<s_retry_num, bits, wifi, attempts, losses>>

LoseConnection ==
  /\ station = "online"
  /\ losses < MaxLosses
  /\ losses' = losses + 1
  /\ Post("STA_DISCONNECTED")
  /\ station' = "idle"
  /\ UNCHANGED <<s_retry_num, bits, wifi, attempts>>

-----------------------------------------------------------------------------
(* event_handler *)

Take(event) ==
  /\ events # <<>>
  /\ Head(events) = event
  /\ events' = Tail(events)

esp_wifi_connect ==
  /\ station' = "connecting"
  /\ attempts' = attempts + 1

OnStart ==
  /\ Take("STA_START")
  /\ esp_wifi_connect
  /\ UNCHANGED <<s_retry_num, bits, wifi, losses>>

(* Fault: the retries are not counted.                                     *)
OnDisconnectedUncounted ==
  /\ Take("STA_DISCONNECTED")
  /\ esp_wifi_connect
  /\ UNCHANGED <<s_retry_num, bits, wifi, losses>>

(* Fault: nobody is told that the retries are used up.                     *)
OnDisconnectedSilent ==
  /\ Take("STA_DISCONNECTED")
  /\ IF s_retry_num < MaximumRetry
     THEN esp_wifi_connect /\ s_retry_num' = s_retry_num + 1
     ELSE UNCHANGED <<station, s_retry_num, attempts>>
  /\ UNCHANGED <<bits, wifi, losses>>

OnDisconnected ==
  /\ Take("STA_DISCONNECTED")
  /\ IF s_retry_num < MaximumRetry
     THEN /\ esp_wifi_connect
          /\ s_retry_num' = s_retry_num + 1
          /\ UNCHANGED bits
     ELSE /\ bits' = bits \cup {"FAIL"}
          /\ UNCHANGED <<station, s_retry_num, attempts>>
  /\ UNCHANGED <<wifi, losses>>

(* Fault: the retries of an earlier connection are not forgotten.          *)
OnGotIPFault ==
  /\ Take("STA_GOT_IP")
  /\ attempts' = 0
  /\ bits' = bits \cup {"CONNECTED"}
  /\ UNCHANGED <<station, s_retry_num, wifi, losses>>

OnGotIP ==
  /\ Take("STA_GOT_IP")
  /\ s_retry_num' = 0
  /\ attempts' = 0
  /\ bits' = bits \cup {"CONNECTED"}
  /\ UNCHANGED <<station, wifi, losses>>

-----------------------------------------------------------------------------
(* wifi_connect and wifi_init_sta: the handlers are registered before      *)
(* esp_wifi_start, then the task waits for a bit, however long it takes.   *)
StartStation ==
  /\ wifi = "init"
  /\ Post("STA_START")
  /\ station' = "idle"
  /\ wifi' = "waiting"
  /\ UNCHANGED <<s_retry_num, bits, attempts, losses>>

WaitBits ==
  /\ wifi = "waiting"
  /\ bits # {}
  /\ wifi' = IF "CONNECTED" \in bits THEN "connected" ELSE "failed"
  /\ UNCHANGED <<station, events, s_retry_num, bits, attempts, losses>>

-----------------------------------------------------------------------------
Driver == Associate \/ FailToConnect \/ ObtainIP

(* An attempt to connect ends: with an association or with an event.       *)
EndAttempt == station = "connecting" /\ (Associate \/ FailToConnect)

EventLoop == OnStart \/ OnDisconnected \/ OnGotIP

StationMain == StartStation \/ WaitBits

StationNext == Driver \/ LoseConnection \/ EventLoop \/ StationMain

StationSpec == StationInit /\ [][StationNext]_station_vars

-----------------------------------------------------------------------------
(* Properties *)

(* "avoid station reconnecting to the AP unlimited": without an address in *)
(* between, the station is told to connect at most once more than there    *)
(* are retries, however its events queue up.                               *)
AttemptsBounded == attempts <= MaximumRetry + 1

(* Failure is reported only after all the retries of this connection were  *)
(* used up: when the FAIL bit is set, as many attempts as there are        *)
(* retries have failed since the station last had an address, whatever was *)
(* spent on connections before that.                                       *)
FailAfterAllRetries ==
  [][bits' # bits /\ "FAIL" \in bits' \ bits
       => attempts >= MaximumRetry /\ station = "idle"]_station_vars

(* Only an association that gets no address and is not ended either can    *)
(* keep the main task in xEventGroupWaitBits for ever: if the station does *)
(* not stay associated without an address, one of the two bits comes,      *)
(* through any mixture of failed attempts, lost associations and           *)
(* connections lost before the task saw them.                              *)
MainProceeds ==
  []<>(station # "associated")
    => (wifi = "waiting" ~> wifi \in {"connected", "failed"})
=============================================================================
