------------------------------- MODULE Uplink -------------------------------
(***************************************************************************)
(* The vehicle's uplink: the boot sequence of app_main (ota_init, then     *)
(* comms_init, then the peripherals and the tasks), the MQTT session of    *)
(* Connectivity and the update and rollback of Ota, which meet in two      *)
(* places: MQTT_EVENT_CONNECTED both raises s_mqtt_connected and confirms  *)
(* the running image, and a cmd/ota message reaches ota_start only through *)
(* a session.  A reset takes the session with it; a broken image never     *)
(* opens one, or does while app_main is on its way to a failing            *)
(* ESP_ERROR_CHECK.                                                        *)
(***************************************************************************)
EXTENDS Ota, Connectivity

VARIABLE tasks      \* app_main has created control_task and the others

UplinkInit == Init /\ NetInit /\ tasks = FALSE

\* What a reset leaves of the rest; the network itself goes on.
NetReset ==
    /\ tasks' = FALSE
    /\ sta' = "stopped"
    /\ events' = <<>>
    /\ retries' = 0
    /\ bits' = {}
    /\ comms' = "before"
    /\ client' = "none"
    /\ connected' = FALSE

\* A step of the update or the watchdog, and the reset it may end in.
OnBoard(A) ==
    /\ A
    /\ IF phase # "off" /\ phase' = "off" THEN NetReset /\ UNCHANGED drops
                                          ELSE UNCHANGED <<netvars, tasks>>

\* The power fails.
PowerFails ==
    /\ drops < MaxDrops
    /\ drops' = drops + 1
    /\ Crash
    /\ NetReset

\* Mutants: errors are not checked; app_main goes on only with a client.
PeripheralsUnchecked ==
    comms \in {"ok", "failed"} /\ ~tasks /\ tasks' = TRUE /\ UNCHANGED <<vars, netvars>>

PeripheralsIfOk ==
    /\ comms = "ok" /\ ~tasks
    /\ IF img[run] = "aborts"
       THEN Reset /\ NetReset /\ UNCHANGED <<flash, drops>>
       ELSE tasks' = TRUE /\ UNCHANGED <<vars, netvars>>

\* app_main after comms_init, whose failure it only logs: uart_link_init,
\* motor_init, encoder_init and i2c_bus_init abort on any error (here: an
\* image built for another board); then the tasks are created.
Peripherals ==
    /\ comms \in {"ok", "failed"} /\ ~tasks
    /\ IF img[run] = "aborts"
       THEN Reset /\ NetReset /\ UNCHANGED <<flash, drops>>
       ELSE tasks' = TRUE /\ UNCHANGED <<vars, netvars>>

\* A step of the network or of the handlers that Ota does not see.
Online(A) == phase = "running" /\ A /\ UNCHANGED <<vars, tasks>>

\* mqtt_evt runs to its end before the client's task does anything else.
HandlerBusy == mqtt = "marking"

Connected == MqttConnected /\ ota_mark_healthy /\ UNCHANGED tasks

Disconnected ==
    ~HandlerBusy /\ MqttDisconnected /\ SessionEnds /\ UNCHANGED tasks

StartUpdate == ota_start /\ UNCHANGED <<netvars, tasks>>

Session ==
    \/ Online(img[run] # "bad" /\ OpenSession)
    \/ Online(KeepAliveFails)
    \/ Online(BrokerCloses)

Driver == Online(Associate) \/ Online(Lease) \/ Online(Drop)

UplinkNext ==
    \/ PowerFails \/ OnBoard(Boot) \/ OnBoard(ota_init) \/ Peripherals
    \/ OnBoard(Watchdog) \/ OnBoard(MarkValid) \/ OnBoard(OtaTask)
    \/ Connected \/ Disconnected \/ StartUpdate
    \/ Online(StartWifi) \/ Online(InitWaits) \/ Online(WifiEvt)
    \/ Driver \/ Session

uvars == <<vars, netvars, tasks>>

UplinkSpec == UplinkInit /\ [][UplinkNext]_uvars

\* Fairness of Ota and Connectivity, of the steps they make together.
UplinkFairSpec ==
    /\ UplinkSpec
    /\ WF_uvars(OnBoard(Boot)) /\ WF_uvars(OnBoard(ota_init))
    /\ WF_uvars(Peripherals)
    /\ WF_uvars(OnBoard(Watchdog)) /\ WF_uvars(OnBoard(MarkValid))
    /\ WF_uvars(OnBoard(OtaTask))
    /\ WF_uvars(Connected \/ Disconnected)
    /\ WF_uvars(Online(StartWifi)) /\ WF_uvars(Online(InitWaits))
    /\ WF_uvars(Online(WifiEvt))
    /\ WF_uvars(Online(Associate)) /\ WF_uvars(Online(Lease))
    /\ WF_uvars(Online(img[run] # "bad" /\ OpenSession))
    /\ WF_uvars(Online(KeepAliveFails))

-----------------------------------------------------------------------------
\* The session Connectivity keeps is the one Ota has been told of.
UplinkTypeOK ==
    /\ TypeOK
    /\ NetTypeOK
    /\ mqtt # "down" <=> client \in {"session", "broken"}
    /\ tasks => comms \in {"ok", "failed"} /\ img[run] # "aborts"

\* An image that was confirmed before it aborted: every boot ends the same way.
BootLoop == img[run] = "aborts" /\ proven[run]

(***************************************************************************)
(* The vehicle can be driven, over the UART at least: whatever the network *)
(* does and whatever image was installed, app_main gets to its tasks (the  *)
(* control loop among them) again and again, unless updates keep being     *)
(* requested or the image had reached the broker, and so been confirmed,   *)
(* before it failed in app_main.  (comms.h: comms_init "blocks until WiFi  *)
(* associates (or retry budget is exhausted)".)  It needs more than an     *)
(* association: an address must be granted (WF of Lease); and a driver     *)
(* that refuses a connect leaves app_main waiting for ever.                *)
(***************************************************************************)
Drives == []<>(tasks \/ s_in_progress \/ BootLoop \/ sta = "refused")

(***************************************************************************)
(* The vehicle gets back to an open session after every loss, also when an *)
(* image that cannot reach the broker was installed: it is rolled back.    *)
(* What keeps it offline is a first association or a client that failed,   *)
(* retries that are used up (nothing tries again before a reset), a driver *)
(* that refused a connect, a call into ESP-IDF that failed while an image  *)
(* was on trial, or a boot loop.                                           *)
(***************************************************************************)
ComesOnline ==
    []<>(\/ client = "session" \/ comms = "failed" \/ GaveUp \/ sta = "refused"
         \/ idf_failed \/ BootLoop)
=============================================================================
