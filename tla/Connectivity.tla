---------------------------- MODULE Connectivity ----------------------------
(***************************************************************************)
(* How the vehicle comes online: wifi_init_sta and mqtt_init, run by       *)
(* app_main inside comms_init, the event handlers wifi_evt (in the event-  *)
(* loop task) and mqtt_evt (in the MQTT client's task), and the flag       *)
(* s_mqtt_connected both handlers write and every publisher reads.         *)
(*                                                                         *)
(* The WiFi driver and the MQTT client are external.  The driver posts its *)
(* events to a queue that the event-loop task empties later; a TCP session *)
(* outlives a short loss of the association, and the client only notices   *)
(* an outage when its keep-alive fails.                                    *)
(***************************************************************************)
EXTENDS Naturals, Sequences

CONSTANTS
    MaxRetry,       \* CONFIG_UGV_WIFI_MAX_RETRY
    MaxDrops        \* bound of the model: associations and sessions lost,
                    \* calls into the driver, calls of mqtt_init and power
                    \* supplies that failed

ASSUME ConnectivityAssumption ==
    /\ MaxRetry \in Nat
    /\ MaxDrops \in Nat

VARIABLES
    sta,        \* the driver: stopped, idle, trying, associated, online (has
                \* an address), refused (idle after a failed esp_wifi_connect)
    events,     \* events posted to the event loop and not handled yet
    retries,    \* s_wifi_retries
    bits,       \* s_wifi_events: CONNECTED and FAIL once they are set
    comms,      \* app_main in comms_init: before, waiting, ok, failed
    client,     \* the MQTT client: none, connecting, accepted (session open,
                \* MQTT_EVENT_CONNECTED to come), session, broken (loss seen,
                \* MQTT_EVENT_DISCONNECTED to come)
    connected,  \* s_mqtt_connected
    drops       \* how many of these failures there were

netvars == <<sta, events, retries, bits, comms, client, connected, drops>>
app == <<retries, bits, comms, client, connected>>

NetInit ==
    /\ sta = "stopped"
    /\ events = <<>>
    /\ retries = 0
    /\ bits = {}
    /\ comms = "before"
    /\ client = "none"
    /\ connected = FALSE
    /\ drops = 0

-----------------------------------------------------------------------------
(***************************************************************************)
(* app_main in comms_init.                                                 *)
(***************************************************************************)

\* wifi_init_sta up to esp_wifi_start; the driver reports STA_START.
StartWifi ==
    /\ comms = "before"
    /\ comms' = "waiting"
    /\ sta' = "idle"
    /\ events' = Append(events, "STA_START")
    /\ UNCHANGED <<retries, bits, client, connected, drops>>

\* mqtt_init: the client is created and started, or not.
mqtt_init ==
    \/ comms' = "ok" /\ client' = "connecting" /\ UNCHANGED drops
    \/ /\ drops < MaxDrops
       /\ drops' = drops + 1
       /\ comms' = "failed"
       /\ UNCHANGED client

\* xEventGroupWaitBits returns.
AssociationOk ==
    /\ comms = "waiting"
    /\ "CONNECTED" \in bits
    /\ mqtt_init
    /\ UNCHANGED <<sta, events, retries, bits, connected>>

AssociationFailed ==
    /\ comms = "waiting"
    /\ bits = {"FAIL"}
    /\ comms' = "failed"
    /\ UNCHANGED <<sta, events, retries, bits, client, connected, drops>>

InitWaits == AssociationOk \/ AssociationFailed

-----------------------------------------------------------------------------
(***************************************************************************)
(* wifi_evt.                                                               *)
(***************************************************************************)

\* An attempt of an idle driver starts, or the call fails, which wifi_evt does
\* not look at: there is no event to come then.
esp_wifi_connect ==
    \/ sta' = "trying" /\ UNCHANGED drops
    \/ /\ drops < MaxDrops
       /\ drops' = drops + 1
       /\ sta' = "refused"

Handle(event) ==
    /\ events # <<>>
    /\ Head(events) = event
    /\ events' = Tail(events)

WifiStarted ==
    /\ Handle("STA_START")
    /\ esp_wifi_connect
    /\ UNCHANGED <<retries, bits, comms, client, connected>>

\* Mutant: a retry that is counted but not made.
CountOnly ==
    /\ Handle("STA_DISCONNECTED")
    /\ connected' = FALSE
    /\ retries < MaxRetry
    /\ retries' = retries + 1
    /\ UNCHANGED <<sta, bits, comms, client, drops>>

WifiRetry ==
    /\ Handle("STA_DISCONNECTED")
    /\ connected' = FALSE
    /\ retries < MaxRetry
    /\ retries' = retries + 1
    /\ esp_wifi_connect
    /\ UNCHANGED <<bits, comms, client>>

WifiGiveUp ==
    /\ Handle("STA_DISCONNECTED")
    /\ connected' = FALSE
    /\ retries >= MaxRetry
    /\ bits' = bits \cup {"FAIL"}
    /\ UNCHANGED <<sta, retries, comms, client, drops>>

WifiGotIp ==
    /\ Handle("GOT_IP")
    /\ retries' = 0
    /\ bits' = bits \cup {"CONNECTED"}
    /\ UNCHANGED <<sta, comms, client, connected, drops>>

WifiEvt == WifiStarted \/ WifiRetry \/ WifiGiveUp \/ WifiGotIp

-----------------------------------------------------------------------------
(***************************************************************************)
(* mqtt_evt.                                                               *)
(***************************************************************************)

\* MQTT_EVENT_CONNECTED (ota_mark_healthy is in Ota).
MqttConnected ==
    /\ client = "accepted"
    /\ client' = "session"
    /\ connected' = TRUE
    /\ UNCHANGED <<sta, events, retries, bits, comms, drops>>

\* Mutant: the flag survives the session.
DisconnectedKeepingFlag ==
    /\ client = "broken"
    /\ client' = "connecting"
    /\ UNCHANGED <<sta, events, retries, bits, comms, connected, drops>>

\* MQTT_EVENT_DISCONNECTED; the client reconnects by itself.
MqttDisconnected ==
    /\ client = "broken"
    /\ client' = "connecting"
    /\ connected' = FALSE
    /\ UNCHANGED <<sta, events, retries, bits, comms, drops>>

MqttEvt == MqttConnected \/ MqttDisconnected

-----------------------------------------------------------------------------
(***************************************************************************)
(* The WiFi driver, the network and the MQTT client.                       *)
(***************************************************************************)

Associate ==
    /\ sta = "trying"
    /\ sta' = "associated"
    /\ UNCHANGED <<events, app, drops>>

Lease ==
    /\ sta = "associated"
    /\ sta' = "online"
    /\ events' = Append(events, "GOT_IP")
    /\ UNCHANGED <<app, drops>>

\* An attempt fails or an association is lost.
Drop ==
    /\ sta \in {"trying", "associated", "online"}
    /\ drops < MaxDrops
    /\ drops' = drops + 1
    /\ sta' = "idle"
    /\ events' = Append(events, "STA_DISCONNECTED")
    /\ UNCHANGED app

\* The broker accepts a session.
OpenSession ==
    /\ client = "connecting"
    /\ sta = "online"
    /\ client' = "accepted"
    /\ UNCHANGED <<sta, events, retries, bits, comms, connected, drops>>

\* The keep-alive of a session without a network fails.
KeepAliveFails ==
    /\ client = "session"
    /\ sta # "online"
    /\ client' = "broken"
    /\ UNCHANGED <<sta, events, retries, bits, comms, connected, drops>>

\* The broker closes a session.
BrokerCloses ==
    /\ client = "session"
    /\ drops < MaxDrops
    /\ drops' = drops + 1
    /\ client' = "broken"
    /\ UNCHANGED <<sta, events, retries, bits, comms, connected>>

NetNext ==
    \/ StartWifi \/ InitWaits
    \/ WifiEvt
    \/ MqttEvt
    \/ Associate \/ Lease \/ Drop
    \/ OpenSession \/ KeepAliveFails \/ BrokerCloses

NetSpec == NetInit /\ [][NetNext]_netvars

\* The tasks run, and the network answers what it is asked in the end: every
\* attempt ends in an association or a failure, every request for an address
\* is granted, the broker accepts, a keep-alive without a network fails.
\* Losses are never owed.
NetFairSpec ==
    /\ NetSpec
    /\ WF_netvars(StartWifi) /\ WF_netvars(InitWaits)
    /\ WF_netvars(WifiEvt) /\ WF_netvars(MqttEvt)
    /\ WF_netvars(Associate) /\ WF_netvars(Lease)
    /\ WF_netvars(OpenSession) /\ WF_netvars(KeepAliveFails)

-----------------------------------------------------------------------------
NetTypeOK ==
    /\ sta \in {"stopped", "idle", "trying", "associated", "online", "refused"}
    /\ events \in Seq({"STA_START", "STA_DISCONNECTED", "GOT_IP"})
    /\ retries \in 0..MaxRetry
    /\ bits \subseteq {"CONNECTED", "FAIL"}
    /\ comms \in {"before", "waiting", "ok", "failed"}
    /\ client \in {"none", "connecting", "accepted", "session", "broken"}
    /\ connected \in BOOLEAN
    /\ drops \in 0..MaxDrops

Pending(event) == \E i \in DOMAIN events : events[i] = event

GaveUp == "FAIL" \in bits /\ retries = MaxRetry /\ sta = "idle" /\ events = <<>>

\* No attempt is under way only if an event that will start one is on its way
\* to the handler, the handler has used up its retries, or the driver refused.
NeverStranded ==
    sta = "idle" => \/ Pending("STA_START")
                    \/ Pending("STA_DISCONNECTED")
                    \/ GaveUp

\* While the vehicle is online, or was until an event that is still pending,
\* no earlier failure counts.
FreshBudget ==
    sta = "online" => retries = 0 \/ Pending("GOT_IP")

(***************************************************************************)
(* The driver is never left idle by accident, and an association that is   *)
(* lost after the vehicle was online leaves the full retry budget, in any  *)
(* order of the driver's events and the handler's runs.                    *)
(***************************************************************************)
WifiRecovers == NeverStranded /\ FreshBudget

\* comms_publish_wheel, _battery, _imu and _ota_status go on to hand their
\* packet to the client (which drops it, at QoS 0, if the session has ended
\* since this test).
Publishes == connected

(***************************************************************************)
(* No publisher passes its test when there is no session, or no client:    *)
(* the flag that gates the publishers is set only between the two events   *)
(* of one session.                                                         *)
(***************************************************************************)
FlagImpliesSession == Publishes => client \in {"session", "broken"}

(***************************************************************************)
(* comms.h: comms_mqtt_connected is "true once the MQTT client has         *)
(* reported MQTT_EVENT_CONNECTED at least once in the current session".    *)
(***************************************************************************)
FlagFollowsSession == client = "session" ~> connected \/ client # "session"
=============================================================================
