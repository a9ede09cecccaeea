--------------------------- MODULE Uplink_proofs ----------------------------
(***************************************************************************)
(* Proofs about Uplink and its part Ota. Of Ota: what the slots hold in    *)
(* every reachable state, and from it that a trial has a fallback and a    *)
(* watchdog, and that the slot booted next is whole, for every combination *)
(* of failing calls. Of Uplink: it implements Ota, so all this holds in    *)
(* the whole uplink; and the flag that gates the telemetry is never set    *)
(* without a session, and the WiFi driver is never left idle with attempts *)
(* to spare.                                                               *)
(***************************************************************************)
EXTENDS Uplink, SequenceTheorems, TLAPS

(***************************************************************************)
(* The update.                                                             *)
(***************************************************************************)

\* A slot that the bootloader may run without a trial.
Fallback(s) == Whole(s) /\ proven[s] /\ st[s] = "valid"

\* A complete image was proven before it was marked valid, and no image is
\* complete that otadata knows nothing of.
SlotInv ==
    \A s \in Slots :
        /\ Whole(s) /\ st[s] = "valid" => proven[s]
        /\ st[s] = "undefined" => ~Whole(s)

\* Without power: the selected slot may run, or gets its only trial, or had it
\* and leaves the other one.
OffInv ==
    phase = "off" =>
        /\ ota = "idle" /\ mqtt = "down" /\ timer = "none"
        /\ ~s_validated /\ ~idf_failed
        /\ st[Other(boot)] # "pending"
        /\ \/ Fallback(boot)
           \/ /\ Whole(boot) /\ st[boot] \in {"new", "pending"}
              /\ Fallback(Other(boot))

\* With power: what runs is whole, only it may be on trial, and then no
\* update has touched the other slot; otadata selects it until an update has
\* selected a complete new image.
OnInv ==
    phase # "off" =>
        /\ Whole(run)
        /\ st[Other(run)] # "pending"
        /\ \/ st[run] = "valid"
           \/ /\ st[run] = "pending" /\ ota \in {"idle", "begin"}
              /\ Fallback(Other(run))
        /\ IF ota = "rebooting"
           THEN boot = Other(run) /\ Whole(boot) /\ st[boot] = "new"
           ELSE boot = run

\* Before ota_init nothing else runs; an image being marked has been proven;
\* there is one ota_task, and s_in_progress says so.
BootInv ==
    /\ ota # "idle" => s_in_progress
    /\ phase # "running" => ota = "idle" /\ mqtt = "down"
    /\ phase = "started" => timer = "none" /\ ~s_validated /\ ~idf_failed
    /\ mqtt = "marking" => proven[run]

\* Who watches an image on trial, unless a call into ESP-IDF has failed.
WatchInv ==
    phase = "running" /\ st[run] = "pending" /\ ~idf_failed =>
        \/ mqtt = "marking"
        \/ ~s_validated /\ timer \in {"armed", "expired"}

OtaInv == TypeOK /\ SlotInv /\ OffInv /\ OnInv /\ BootInv /\ WatchInv

-----------------------------------------------------------------------------
LEMMA OtherSlot == \A s \in Slots : Other(s) \in Slots /\ Other(s) # s /\ Other(Other(s)) = s
BY DEF Slots, Other

LEMMA InitInv == Init => OtaInv
BY OtherSlot DEF Init, OtaInv, TypeOK, SlotInv, OffInv, OnInv, BootInv, WatchInv,
   Fallback, Whole, Images, Slots, Other

\* A reset that leaves the flash alone, at any moment.
LEMMA CrashStep == OtaInv /\ Crash => OtaInv'
<1> SUFFICES ASSUME OtaInv, Crash PROVE OtaInv'
  OBVIOUS
<1> USE OtherSlot DEF OtaInv, Images, Crash, Reset, flash
<1>1. TypeOK'
  BY DEF TypeOK
<1>2. SlotInv'
  BY DEF TypeOK, SlotInv, Whole
<1>3. OffInv'
  BY DEF TypeOK, SlotInv, OffInv, OnInv, Fallback, Whole
<1>4. OnInv'
  BY DEF TypeOK, SlotInv, OffInv, OnInv, BootInv, Fallback, Whole
<1>5. BootInv'
  BY DEF TypeOK, OffInv, OnInv, BootInv
<1>6. WatchInv'
  BY DEF TypeOK, OffInv, OnInv, BootInv, WatchInv
<1>. QED
  BY <1>1, <1>2, <1>3, <1>4, <1>5, <1>6

\* The bootloader: a trial begins, or has ended and leaves its fallback.
LEMMA BootStep == OtaInv /\ Boot => OtaInv'
<1> SUFFICES ASSUME OtaInv, Boot PROVE OtaInv'
  OBVIOUS
<1> USE OtherSlot DEF OtaInv, Images, Boot
<1>1. TypeOK'
  BY DEF TypeOK
<1>2. SlotInv'
  BY DEF TypeOK, SlotInv, Whole
<1>3. OffInv'
  BY DEF TypeOK, SlotInv, OffInv, OnInv, Fallback, Whole
<1>4. OnInv'
  BY DEF TypeOK, SlotInv, OffInv, OnInv, BootInv, Fallback, Whole
<1>5. BootInv'
  BY DEF TypeOK, OffInv, OnInv, BootInv
<1>6. WatchInv'
  BY DEF TypeOK, OffInv, OnInv, BootInv, WatchInv
<1>. QED
  BY <1>1, <1>2, <1>3, <1>4, <1>5, <1>6

\* A trial gets its watchdog.
LEMMA InitStep == OtaInv /\ ota_init => OtaInv'
<1> SUFFICES ASSUME OtaInv, ota_init PROVE OtaInv'
  OBVIOUS
<1> USE OtherSlot DEF OtaInv, Images, ota_init, flash
<1>1. TypeOK'
  BY DEF TypeOK
<1>2. SlotInv'
  BY DEF TypeOK, SlotInv, Whole
<1>3. OffInv'
  BY DEF TypeOK, SlotInv, OffInv, OnInv, Fallback, Whole
<1>4. OnInv'
  BY DEF TypeOK, SlotInv, OffInv, OnInv, BootInv, Fallback, Whole
<1>5. BootInv'
  BY DEF TypeOK, OffInv, OnInv, BootInv
<1>6. WatchInv'
  BY DEF TypeOK, OffInv, OnInv, BootInv, WatchInv
<1>. QED
  BY <1>1, <1>2, <1>3, <1>4, <1>5, <1>6

\* Only an image that nobody validated keeps an expired watchdog.
LEMMA TimerStep == OtaInv /\ TimerExpires => OtaInv'
<1> SUFFICES ASSUME OtaInv, TimerExpires PROVE OtaInv'
  OBVIOUS
<1> USE OtherSlot DEF OtaInv, Images, TimerExpires, flash
<1>1. TypeOK'
  BY DEF TypeOK
<1>2. SlotInv'
  BY DEF TypeOK, SlotInv, Whole
<1>3. OffInv'
  BY DEF TypeOK, SlotInv, OffInv, OnInv, Fallback, Whole
<1>4. OnInv'
  BY DEF TypeOK, SlotInv, OffInv, OnInv, BootInv, Fallback, Whole
<1>5. BootInv'
  BY DEF TypeOK, OffInv, OnInv, BootInv
<1>6. WatchInv'
  BY DEF TypeOK, OffInv, OnInv, BootInv, WatchInv
<1>. QED
  BY <1>1, <1>2, <1>3, <1>4, <1>5, <1>6

\* The fallback is what boots after a rollback; the other branch of the callback
\* is not taken on trial.
LEMMA RollBackStep == OtaInv /\ RollBack => OtaInv'
<1> SUFFICES ASSUME OtaInv, RollBack PROVE OtaInv'
  OBVIOUS
<1> USE OtherSlot DEF OtaInv, Images, RollBack, RollbackPossible, Reset, flash
<1>1. TypeOK'
  BY DEF TypeOK
<1>2. SlotInv'
  BY DEF TypeOK, SlotInv, Whole
<1>3. OffInv'
  BY DEF TypeOK, SlotInv, OffInv, OnInv, Fallback, Whole
<1>4. OnInv'
  BY DEF TypeOK, SlotInv, OffInv, OnInv, BootInv, Fallback, Whole
<1>5. BootInv'
  BY DEF TypeOK, OffInv, OnInv, BootInv
<1>6. WatchInv'
  BY DEF TypeOK, OnInv, BootInv, WatchInv, Fallback, Whole
<1>. QED
  BY <1>1, <1>2, <1>3, <1>4, <1>5, <1>6

\* An image has reached the broker before it is marked valid.
LEMMA HealthyStep == OtaInv /\ ota_mark_healthy => OtaInv'
<1> SUFFICES ASSUME OtaInv, ota_mark_healthy PROVE OtaInv'
  OBVIOUS
<1> USE OtherSlot DEF OtaInv, Images, ota_mark_healthy
<1>1. TypeOK'
  BY DEF TypeOK
<1>2. SlotInv'
  BY DEF TypeOK, SlotInv, Whole
<1>3. OffInv'
  BY DEF TypeOK, SlotInv, OffInv, OnInv, Fallback, Whole
<1>4. OnInv'
  BY DEF TypeOK, SlotInv, OffInv, OnInv, BootInv, Fallback, Whole
<1>5. BootInv'
  BY DEF TypeOK, OffInv, OnInv, BootInv
<1>6. WatchInv'
  BY DEF TypeOK, OffInv, OnInv, BootInv, WatchInv
<1>. QED
  BY <1>1, <1>2, <1>3, <1>4, <1>5, <1>6

LEMMA MarkStep == OtaInv /\ MarkValid => OtaInv'
<1> SUFFICES ASSUME OtaInv, MarkValid PROVE OtaInv'
  OBVIOUS
<1> USE OtherSlot DEF OtaInv, Images, MarkValid
<1>1. TypeOK'
  BY DEF TypeOK
<1>2. SlotInv'
  BY DEF TypeOK, SlotInv, OnInv, BootInv, Whole
<1>3. OffInv'
  BY DEF TypeOK, SlotInv, OffInv, OnInv, Fallback, Whole
<1>4. OnInv'
  BY DEF TypeOK, SlotInv, OffInv, OnInv, BootInv, Fallback, Whole
<1>5. BootInv'
  BY DEF TypeOK, OffInv, OnInv, BootInv
<1>6. WatchInv'
  BY DEF TypeOK, OffInv, OnInv, BootInv, WatchInv
<1>. QED
  BY <1>1, <1>2, <1>3, <1>4, <1>5, <1>6

\* The slot that an update destroys is nobody's fallback.
LEMMA BeginStep == OtaInv /\ Begin => OtaInv'
<1> SUFFICES ASSUME OtaInv, Begin PROVE OtaInv'
  OBVIOUS
<1> USE OtherSlot DEF OtaInv, Images, Begin
<1>1. TypeOK'
  BY DEF TypeOK
<1>2. SlotInv'
  BY DEF TypeOK, SlotInv, Whole
<1>3. OffInv'
  BY DEF TypeOK, SlotInv, OffInv, OnInv, Fallback, Whole
<1>4. OnInv'
  BY DEF TypeOK, SlotInv, OffInv, OnInv, BootInv, Fallback, Whole
<1>5. BootInv'
  BY DEF TypeOK, OffInv, OnInv, BootInv
<1>6. WatchInv'
  BY DEF TypeOK, OffInv, OnInv, BootInv, WatchInv
<1>. QED
  BY <1>1, <1>2, <1>3, <1>4, <1>5, <1>6

\* The selected slot is new and whole, and the one that runs its fallback.
LEMMA FinishStep == OtaInv /\ (\E image \in Images : Finish(image)) => OtaInv'
<1> SUFFICES ASSUME OtaInv, (\E image \in Images : Finish(image)) PROVE OtaInv'
  OBVIOUS
<1> USE OtherSlot DEF OtaInv, Images, Finish
<1>1. TypeOK'
  BY DEF TypeOK
<1>2. SlotInv'
  BY DEF TypeOK, SlotInv, Whole
<1>3. OffInv'
  BY DEF TypeOK, SlotInv, OffInv, OnInv, Fallback, Whole
<1>4. OnInv'
  BY DEF TypeOK, SlotInv, OffInv, OnInv, BootInv, Fallback, Whole
<1>5. BootInv'
  BY DEF TypeOK, OffInv, OnInv, BootInv
<1>6. WatchInv'
  BY DEF TypeOK, OffInv, OnInv, BootInv, WatchInv
<1>. QED
  BY <1>1, <1>2, <1>3, <1>4, <1>5, <1>6

\* Steps that touch no flash, no trial and no watchdog.
LEMMA QuietStep == OtaInv /\ (SessionEnds \/ ota_start \/ BeginFails \/ DownloadFails) => OtaInv'
<1> SUFFICES ASSUME OtaInv, (SessionEnds \/ ota_start \/ BeginFails \/ DownloadFails) PROVE OtaInv'
  OBVIOUS
<1> USE OtherSlot DEF OtaInv, Images, SessionEnds, ota_start,
        BeginFails, DownloadFails, Done, flash
<1>1. TypeOK'
  BY DEF TypeOK
<1>2. SlotInv'
  BY DEF TypeOK, SlotInv, Whole
<1>3. OffInv'
  BY DEF TypeOK, SlotInv, OffInv, OnInv, Fallback, Whole
<1>4. OnInv'
  BY DEF TypeOK, SlotInv, OffInv, OnInv, BootInv, Fallback, Whole
<1>5. BootInv'
  BY DEF TypeOK, OffInv, OnInv, BootInv
<1>6. WatchInv'
  BY DEF TypeOK, OffInv, OnInv, BootInv, WatchInv
<1>. QED
  BY <1>1, <1>2, <1>3, <1>4, <1>5, <1>6

LEMMA StutterStep == OtaInv /\ UNCHANGED vars => OtaInv'
<1> SUFFICES ASSUME OtaInv, UNCHANGED vars PROVE OtaInv'
  OBVIOUS
<1> USE OtherSlot DEF OtaInv, Images, vars, flash, ram
<1>1. TypeOK'
  BY DEF TypeOK
<1>2. SlotInv'
  BY DEF TypeOK, SlotInv, Whole
<1>3. OffInv'
  BY DEF TypeOK, SlotInv, OffInv, OnInv, Fallback, Whole
<1>4. OnInv'
  BY DEF TypeOK, SlotInv, OffInv, OnInv, BootInv, Fallback, Whole
<1>5. BootInv'
  BY DEF TypeOK, OffInv, OnInv, BootInv
<1>6. WatchInv'
  BY DEF TypeOK, OffInv, OnInv, BootInv, WatchInv
<1>. QED
  BY <1>1, <1>2, <1>3, <1>4, <1>5, <1>6

LEMMA NextInv == OtaInv /\ [Next]_vars => OtaInv'
<1> SUFFICES ASSUME OtaInv, [Next]_vars PROVE OtaInv'
  OBVIOUS
<1>1. CASE Crash \/ Restart
  <2>1. phase # "off"
    BY <1>1 DEF Crash, Restart, OtaInv, OffInv
  <2>. QED
    BY <1>1, <2>1, CrashStep DEF Crash, Restart
<1>2. CASE Boot \/ ota_init
  BY <1>2, BootStep, InitStep
<1>3. CASE Watchdog
  BY <1>3, TimerStep, RollBackStep DEF Watchdog
<1>4. CASE ota_mark_healthy \/ MarkValid
  BY <1>4, HealthyStep, MarkStep
<1>5. CASE Begin \/ \E image \in Images : Finish(image)
  BY <1>5, BeginStep, FinishStep
<1>6. CASE SessionEnds \/ ota_start \/ BeginFails \/ DownloadFails
  BY <1>6, QuietStep
<1>7. CASE UNCHANGED vars
  BY <1>7, StutterStep
<1>. QED
  BY <1>1, <1>2, <1>3, <1>4, <1>5, <1>6, <1>7 DEF Next, OtaTask

THEOREM OtaInvariant == Spec => []OtaInv
<1>1. Init => OtaInv
  BY InitInv
<1>2. OtaInv /\ [Next]_vars => OtaInv'
  BY NextInv
<1>. QED
  BY <1>1, <1>2, PTL DEF Spec

-----------------------------------------------------------------------------
\* Type correctness of the slots, otadata and the three tasks' state.
THEOREM OtaTypeCorrect == Spec => []TypeOK
BY OtaInvariant, PTL DEF OtaInv

LEMMA FallbackFacts == OtaInv => TrialHasFallback /\ NextBootWhole /\ TrialIsWatched
<1> SUFFICES ASSUME OtaInv PROVE TrialHasFallback /\ NextBootWhole /\ TrialIsWatched
  OBVIOUS
<1> USE DEF OtaInv
<1>1. TrialHasFallback
  BY DEF TrialHasFallback, OnTrial, RollbackPossible, OnInv, Fallback
<1>2. NextBootWhole
  BY OtherSlot DEF NextBootWhole, TypeOK, OffInv, OnInv, Fallback
<1>3. TrialIsWatched
  BY DEF TrialIsWatched, OnTrial, WatchInv
<1>. QED
  BY <1>1, <1>2, <1>3

(***************************************************************************)
(* An image on trial (ota_init's PENDING_VERIFY) always has a proven image *)
(* to fall back to: no update destroys it, whatever fails or is cut off.   *)
(***************************************************************************)
THEOREM FallbackHolds == Spec => []TrialHasFallback
BY OtaInvariant, FallbackFacts, PTL

(***************************************************************************)
(* Whenever the power fails, in the update task, a confirmation or the     *)
(* watchdog's callback, the slot that boots next holds a complete image.   *)
(***************************************************************************)
THEOREM NextBootHolds == Spec => []NextBootWhole
BY OtaInvariant, FallbackFacts, PTL

(***************************************************************************)
(* An image on trial has its watchdog or is being confirmed, unless        *)
(* esp_timer_create or the call that marks it valid failed.                *)
(***************************************************************************)
THEOREM WatchHolds == Spec => []TrialIsWatched
BY OtaInvariant, FallbackFacts, PTL

-----------------------------------------------------------------------------
(***************************************************************************)
(* The uplink.                                                             *)
(***************************************************************************)

\* app_main gets past comms_init only in a running image, and before that
\* there is no client; the flag is set between the events of one session.
UplinkInv ==
    /\ comms # "before" => phase = "running"
    /\ comms \in {"before", "waiting"} => client = "none"
    /\ connected => client \in {"session", "broken"}

LEMMA UplinkInitInv == UplinkInit => UplinkInv
BY DEF UplinkInit, NetInit, Init, UplinkInv

\* A reset, by whatever cause.
LEMMA NetResetInv == NetReset => UplinkInv'
BY DEF NetReset, UplinkInv

\* The steps of the update that leave the network alone keep a running image
\* running.
LEMMA OnBoardInv ==
    UplinkInv /\ (\/ OnBoard(Boot) \/ OnBoard(ota_init) \/ OnBoard(Watchdog)
                  \/ OnBoard(MarkValid) \/ OnBoard(OtaTask))
        => UplinkInv'
<1> SUFFICES ASSUME UplinkInv,
                    \/ OnBoard(Boot) \/ OnBoard(ota_init) \/ OnBoard(Watchdog)
                    \/ OnBoard(MarkValid) \/ OnBoard(OtaTask)
             PROVE  UplinkInv'
  OBVIOUS
<1>1. CASE phase # "off" /\ phase' = "off"
  BY <1>1, NetResetInv DEF OnBoard
<1>2. CASE ~(phase # "off" /\ phase' = "off")
  <2>1. UNCHANGED netvars
    BY <1>2 DEF OnBoard
  <2>2. phase = "running" => phase' = "running"
    BY <1>2 DEF OnBoard, Boot, ota_init, Watchdog, TimerExpires, RollBack, Reset,
       MarkValid, OtaTask, BeginFails, Begin, DownloadFails, Finish, Restart
  <2>. QED
    BY <2>1, <2>2 DEF UplinkInv, netvars
<1>. QED
  BY <1>1, <1>2

\* The network and the event handlers.
LEMMA OnlineInv ==
    UplinkInv /\ (\/ Online(StartWifi) \/ Online(InitWaits) \/ Online(WifiEvt)
                  \/ Driver \/ Session)
        => UplinkInv'
<1> SUFFICES ASSUME UplinkInv,
                    \/ Online(StartWifi) \/ Online(InitWaits) \/ Online(WifiEvt)
                    \/ Driver \/ Session
             PROVE  UplinkInv'
  OBVIOUS
<1>1. phase = "running" /\ phase' = "running"
  BY DEF Online, Driver, Session, vars, ram
<1> USE <1>1 DEF UplinkInv, Online
<1>2. CASE Online(StartWifi)
  BY <1>2 DEF StartWifi
<1>3. CASE Online(InitWaits)
  BY <1>3 DEF InitWaits, AssociationOk, AssociationFailed, mqtt_init
<1>4. CASE Online(WifiEvt)
  BY <1>4 DEF WifiEvt, WifiStarted, WifiRetry, WifiGiveUp, WifiGotIp
<1>5. CASE Driver
  BY <1>5 DEF Driver, Associate, Lease, Drop, app
<1>6. CASE Session
  BY <1>6 DEF Session, OpenSession, KeepAliveFails, BrokerCloses
<1>. QED
  BY <1>2, <1>3, <1>4, <1>5, <1>6

LEMMA UplinkNextInv == UplinkInv /\ [UplinkNext]_uvars => UplinkInv'
<1> SUFFICES ASSUME UplinkInv, [UplinkNext]_uvars PROVE UplinkInv'
  OBVIOUS
<1>1. CASE PowerFails
  BY <1>1, NetResetInv DEF PowerFails
<1>2. CASE \/ OnBoard(Boot) \/ OnBoard(ota_init) \/ OnBoard(Watchdog)
           \/ OnBoard(MarkValid) \/ OnBoard(OtaTask)
  BY <1>2, OnBoardInv
<1>3. CASE Peripherals
  BY <1>3, NetResetInv DEF Peripherals, UplinkInv, vars, ram, netvars
<1>4. CASE Connected
  BY <1>4 DEF Connected, MqttConnected, ota_mark_healthy, UplinkInv
<1>5. CASE Disconnected
  BY <1>5 DEF Disconnected, MqttDisconnected, SessionEnds, UplinkInv
<1>6. CASE StartUpdate
  BY <1>6 DEF StartUpdate, ota_start, UplinkInv, netvars
<1>7. CASE \/ Online(StartWifi) \/ Online(InitWaits) \/ Online(WifiEvt)
           \/ Driver \/ Session
  BY <1>7, OnlineInv
<1>8. CASE UNCHANGED uvars
  BY <1>8 DEF uvars, vars, ram, netvars, UplinkInv
<1>. QED
  BY <1>1, <1>2, <1>3, <1>4, <1>5, <1>6, <1>7, <1>8 DEF UplinkNext

\* Every step of the uplink is a step of Ota or none: a failing
\* ESP_ERROR_CHECK is one of its crashes.
LEMMA StepIsOtas == UplinkInv /\ [UplinkNext]_uvars => [Next]_vars
<1> SUFFICES ASSUME UplinkInv, UplinkNext PROVE [Next]_vars
  BY DEF uvars
<1>1. CASE PowerFails \/ Connected \/ Disconnected \/ StartUpdate
  BY <1>1 DEF PowerFails, Connected, Disconnected, StartUpdate, Next
<1>2. CASE \/ OnBoard(Boot) \/ OnBoard(ota_init) \/ OnBoard(Watchdog)
           \/ OnBoard(MarkValid) \/ OnBoard(OtaTask)
  BY <1>2 DEF OnBoard, Next
<1>3. CASE Peripherals
  <2>1. CASE img[run] = "aborts"
    BY <1>3, <2>1 DEF Peripherals, UplinkInv, Crash, Next
  <2>2. CASE img[run] # "aborts"
    BY <1>3, <2>2 DEF Peripherals
  <2>. QED
    BY <2>1, <2>2
<1>4. CASE \/ Online(StartWifi) \/ Online(InitWaits) \/ Online(WifiEvt)
           \/ Driver \/ Session
  BY <1>4 DEF Online, Driver, Session
<1>. QED
  BY <1>1, <1>2, <1>3, <1>4 DEF UplinkNext

-----------------------------------------------------------------------------
(***************************************************************************)
(* The boot sequence and the network do to the update what Ota allows its  *)
(* environment: crashes, confirmations, lost sessions, requests.           *)
(***************************************************************************)
THEOREM UplinkRefinesOta == UplinkSpec => Spec
<1>1. UplinkInit => Init
  BY DEF UplinkInit
<1>2. UplinkInit => UplinkInv
  BY UplinkInitInv
<1>3. UplinkInv /\ [UplinkNext]_uvars => UplinkInv'
  BY UplinkNextInv
<1>4. UplinkInv /\ [UplinkNext]_uvars => [Next]_vars
  BY StepIsOtas
<1>. QED
  BY <1>1, <1>2, <1>3, <1>4, PTL DEF UplinkSpec, Spec

(***************************************************************************)
(* The rollback's promises hold in the whole uplink, for every budget of   *)
(* retries and any number of losses: a trial has a proven fallback and a   *)
(* watchdog, and the next boot finds a complete image.                     *)
(***************************************************************************)
THEOREM UplinkUpdateSafe ==
    UplinkSpec => [](TrialHasFallback /\ NextBootWhole /\ TrialIsWatched)
BY UplinkRefinesOta, FallbackHolds, NextBootHolds, WatchHolds, PTL

(***************************************************************************)
(* comms_publish_* hand nothing to a client without a session: whichever   *)
(* of wifi_evt and mqtt_evt wrote s_mqtt_connected last.                   *)
(***************************************************************************)
THEOREM FlagHolds == UplinkSpec => []FlagImpliesSession
<1>1. UplinkInit => UplinkInv
  BY UplinkInitInv
<1>2. UplinkInv /\ [UplinkNext]_uvars => UplinkInv'
  BY UplinkNextInv
<1>3. UplinkInv => FlagImpliesSession
  BY DEF UplinkInv, FlagImpliesSession, Publishes
<1>. QED
  BY <1>1, <1>2, <1>3, PTL DEF UplinkSpec

-----------------------------------------------------------------------------
\* What may wait for wifi_evt in each state of the driver, and what the
\* handler has counted by then: at most an address and its loss are queued.
LinkInv ==
    /\ retries \in 0..MaxRetry
    /\ sta \in {"stopped", "idle", "trying", "associated", "online", "refused"}
    /\ sta \in {"stopped", "trying", "associated", "refused"} => events = <<>>
    /\ sta = "idle" => \/ events = <<"STA_START">>
                       \/ events = <<"STA_DISCONNECTED">>
                       \/ events = <<"GOT_IP", "STA_DISCONNECTED">>
                       \/ GaveUp
    /\ sta = "online" => \/ events = <<"GOT_IP">>
                         \/ events = <<>> /\ retries = 0
    /\ comms = "before" => sta = "stopped"

\* Appending to a one-element sequence.
LEMMA AppendSecond == ASSUME NEW a, NEW b PROVE Append(<<a>>, b) = <<a, b>>
<1> DEFINE s == Append(<<a>>, b)
           t == <<a, b>>
<1>1. /\ s \in Seq({a, b}) /\ Len(s) = 2
      /\ s[1] = a /\ s[2] = b
  <2>1. <<a>> \in Seq({a, b}) /\ Len(<<a>>) = 1 /\ <<a>>[1] = a
    OBVIOUS
  <2>. QED
    BY <2>1, AppendProperties
<1>2. /\ t \in Seq({a, b}) /\ Len(t) = 2
      /\ t[1] = a /\ t[2] = b
  OBVIOUS
<1>3. \A i \in 1..Len(s) : s[i] = t[i]
  <2>1. \A i \in 1..2 : i = 1 \/ i = 2
    OBVIOUS
  <2>. HIDE DEF s, t
  <2>. QED
    BY <1>1, <1>2, <2>1
<1>. HIDE DEF s, t
<1>4. s = t
  BY <1>1, <1>2, <1>3, SeqEqual
<1>. QED
  BY <1>4 DEF s, t

LEMMA NetResetLink == NetReset => LinkInv'
BY ConnectivityAssumption DEF NetReset, LinkInv

\* wifi_evt: one event handled.
LEMMA WifiEvtLink == LinkInv /\ WifiEvt => LinkInv'
<1> SUFFICES ASSUME LinkInv, WifiEvt PROVE LinkInv'
  OBVIOUS
<1> USE ConnectivityAssumption
<1>1. CASE events = <<"STA_START">>
  <2>1. sta = "idle" /\ WifiStarted
    BY <1>1 DEF LinkInv, GaveUp, WifiEvt, WifiStarted, WifiRetry, WifiGiveUp, WifiGotIp, Handle
  <2>2. Tail(events) = <<>>
    BY <1>1
  <2>3. sta' \in {"trying", "refused"} /\ UNCHANGED <<retries, comms>> /\ events' = <<>>
    BY <2>1, <2>2 DEF WifiStarted, Handle, esp_wifi_connect
  <2>. QED
    BY <2>1, <2>3 DEF LinkInv
<1>2. CASE events = <<"STA_DISCONNECTED">>
  <2>1. sta = "idle" /\ (WifiRetry \/ WifiGiveUp)
    BY <1>2 DEF LinkInv, GaveUp, WifiEvt, WifiStarted, WifiRetry, WifiGiveUp, WifiGotIp, Handle
  <2>2. Tail(events) = <<>>
    BY <1>2
  <2>3. CASE WifiRetry
    <3>1. /\ sta' \in {"trying", "refused"} /\ comms' = comms /\ events' = <<>>
          /\ retries' = retries + 1 /\ retries < MaxRetry
      BY <2>2, <2>3 DEF WifiRetry, Handle, esp_wifi_connect
    <3>. QED
      BY <2>1, <3>1 DEF LinkInv
  <2>4. CASE WifiGiveUp
    <3>1. retries = MaxRetry
      BY <2>4 DEF LinkInv, WifiGiveUp
    <3>. QED
      BY <2>1, <2>2, <2>4, <3>1 DEF LinkInv, WifiGiveUp, Handle, GaveUp
  <2>. QED
    BY <2>1, <2>3, <2>4
<1>3. CASE events = <<"GOT_IP", "STA_DISCONNECTED">>
  <2>1. sta = "idle" /\ WifiGotIp
    BY <1>3 DEF LinkInv, GaveUp, WifiEvt, WifiStarted, WifiRetry, WifiGiveUp, WifiGotIp, Handle
  <2>2. Tail(events) = <<"STA_DISCONNECTED">>
    BY <1>3
  <2>. QED
    BY <2>1, <2>2 DEF LinkInv, WifiGotIp, Handle
<1>4. CASE events = <<"GOT_IP">>
  <2>1. sta = "online" /\ WifiGotIp
    BY <1>4 DEF LinkInv, GaveUp, WifiEvt, WifiStarted, WifiRetry, WifiGiveUp, WifiGotIp, Handle
  <2>2. Tail(events) = <<>>
    BY <1>4
  <2>. QED
    BY <2>1, <2>2 DEF LinkInv, WifiGotIp, Handle
<1>5. events # <<>>
  BY DEF WifiEvt, WifiStarted, WifiRetry, WifiGiveUp, WifiGotIp, Handle
<1>. QED
  BY <1>1, <1>2, <1>3, <1>4, <1>5 DEF LinkInv, GaveUp

\* The driver: an event is added to an empty queue, but for the loss of an
\* address that the handler has not seen yet.
LEMMA DriverLink == LinkInv /\ Driver => LinkInv'
<1> SUFFICES ASSUME LinkInv, Driver PROVE LinkInv'
  OBVIOUS
<1> USE DEF LinkInv, Driver, Online, app
<1>1. CASE Online(Associate)
  BY <1>1 DEF Associate
<1>2. CASE Online(Lease)
  <2>1. events' = <<"GOT_IP">>
    BY <1>2 DEF Lease
  <2>. QED
    BY <1>2, <2>1 DEF Lease
<1>3. CASE Online(Drop)
  <2>1. events' = <<"STA_DISCONNECTED">> \/ events' = <<"GOT_IP", "STA_DISCONNECTED">>
    <3>1. events' = Append(events, "STA_DISCONNECTED")
      BY <1>3 DEF Drop
    <3>2. CASE events = <<>>
      BY <3>1, <3>2
    <3>3. CASE events = <<"GOT_IP">>
      BY <3>1, <3>3, AppendSecond
    <3>. QED
      BY <1>3, <3>2, <3>3 DEF Drop
  <2>. QED
    BY <1>3, <2>1 DEF Drop
<1>. QED
  BY <1>1, <1>2, <1>3

\* Every other step leaves the association alone, or is a reset.
LEMMA UplinkNextLink == LinkInv /\ [UplinkNext]_uvars => LinkInv'
<1> SUFFICES ASSUME LinkInv, [UplinkNext]_uvars PROVE LinkInv'
  OBVIOUS
<1>1. CASE UNCHANGED <<sta, events, retries, bits>> /\ (comms' = "before" => comms = "before")
  BY <1>1 DEF LinkInv, GaveUp
<1>2. CASE PowerFails
  BY <1>2, NetResetLink DEF PowerFails
<1>3. CASE \/ OnBoard(Boot) \/ OnBoard(ota_init) \/ OnBoard(Watchdog)
           \/ OnBoard(MarkValid) \/ OnBoard(OtaTask)
  BY <1>1, <1>3, NetResetLink DEF OnBoard, netvars
<1>4. CASE Peripherals
  BY <1>1, <1>4, NetResetLink DEF Peripherals, netvars
<1>5. CASE Connected \/ Disconnected \/ StartUpdate \/ Session \/ UNCHANGED uvars
  <2>1. UNCHANGED <<sta, events, retries, bits, comms>>
    BY <1>5 DEF Connected, Disconnected, StartUpdate, Session, Online, OpenSession,
       KeepAliveFails, BrokerCloses, MqttConnected, MqttDisconnected, netvars, uvars
  <2>. QED
    BY <1>1, <2>1
<1>6. CASE Online(StartWifi)
  <2>1. events' = <<"STA_START">>
    BY <1>6 DEF Online, StartWifi, LinkInv
  <2>. QED
    BY <1>6, <2>1 DEF Online, StartWifi, LinkInv
<1>7. CASE Online(InitWaits)
  BY <1>1, <1>7 DEF Online, InitWaits, AssociationOk, AssociationFailed, mqtt_init
<1>8. CASE Online(WifiEvt)
  BY <1>8, WifiEvtLink DEF Online
<1>9. CASE Driver
  BY <1>9, DriverLink
<1>. QED
  BY <1>2, <1>3, <1>4, <1>5, <1>6, <1>7, <1>8, <1>9 DEF UplinkNext

(***************************************************************************)
(* For every retry budget and any number of losses: the WiFi driver is     *)
(* idle only with an event on its way to wifi_evt that starts an attempt,  *)
(* or with the budget spent; and an association lost after the vehicle was *)
(* online leaves the whole budget.                                         *)
(***************************************************************************)
THEOREM WifiRecoversHolds == UplinkSpec => []WifiRecovers
<1>1. UplinkInit => LinkInv
  BY ConnectivityAssumption DEF UplinkInit, NetInit, LinkInv
<1>2. LinkInv /\ [UplinkNext]_uvars => LinkInv'
  BY UplinkNextLink
<1>3. LinkInv => NeverStranded
  <2> SUFFICES ASSUME LinkInv, sta = "idle" PROVE NeverStranded
    BY DEF NeverStranded
  <2>1. CASE events = <<"STA_START">>
    BY <2>1 DEF NeverStranded, Pending
  <2>2. CASE events = <<"STA_DISCONNECTED">>
    BY <2>2 DEF NeverStranded, Pending
  <2>3. CASE events = <<"GOT_IP", "STA_DISCONNECTED">>
    <3>1. 2 \in DOMAIN events /\ events[2] = "STA_DISCONNECTED"
      BY <2>3
    <3>. QED
      BY <3>1 DEF NeverStranded, Pending
  <2>. QED
    BY <2>1, <2>2, <2>3 DEF LinkInv, NeverStranded
<1>4. LinkInv => FreshBudget
  <2>1. ASSUME events = <<"GOT_IP">> PROVE Pending("GOT_IP")
    <3>1. 1 \in DOMAIN events /\ events[1] = "GOT_IP"
      BY <2>1
    <3>. QED
      BY <3>1 DEF Pending
  <2>. QED
    BY <2>1 DEF LinkInv, FreshBudget
<1>. QED
  BY <1>1, <1>2, <1>3, <1>4, PTL DEF UplinkSpec, WifiRecovers

-----------------------------------------------------------------------------
\* The session the network keeps is the one the update has been told of, and
\* the tasks run only in an image that got through app_main.
SessionInv ==
    /\ bits \subseteq {"CONNECTED", "FAIL"}
    /\ comms \in {"before", "waiting", "ok", "failed"}
    /\ client \in {"none", "connecting", "accepted", "session", "broken"}
    /\ connected \in BOOLEAN
    /\ drops \in 0..MaxDrops
    /\ mqtt # "down" <=> client \in {"session", "broken"}
    /\ tasks => comms \in {"ok", "failed"} /\ img[run] # "aborts"

LEMMA ResetSession ==
    ASSUME SessionInv, Reset, NetReset, drops' \in 0..MaxDrops PROVE SessionInv'
BY DEF SessionInv, Reset, NetReset

LEMMA OnBoardSession ==
    ASSUME SessionInv, UplinkInv, TypeOK,
           \/ OnBoard(Boot) \/ OnBoard(ota_init) \/ OnBoard(Watchdog)
           \/ OnBoard(MarkValid) \/ OnBoard(OtaTask)
    PROVE  SessionInv'
<1>1. CASE phase # "off" /\ phase' = "off"
  <2>1. NetReset /\ drops' = drops
    BY <1>1 DEF OnBoard
  <2>2. Reset
    BY <1>1 DEF OnBoard, Boot, ota_init, Watchdog, TimerExpires, RollBack, MarkValid,
       OtaTask, BeginFails, Begin, DownloadFails, Finish, Restart
  <2>. QED
    BY <2>1, <2>2, ResetSession DEF SessionInv
<1>2. CASE ~(phase # "off" /\ phase' = "off")
  <2>1. UNCHANGED <<netvars, tasks>>
    BY <1>2 DEF OnBoard
  <2>2. mqtt' # "down" <=> client \in {"session", "broken"}
    <3>1. CASE UNCHANGED mqtt
      BY <3>1 DEF SessionInv
    <3>2. CASE mqtt = "marking" /\ mqtt' = "up"
      BY <3>2 DEF SessionInv
    <3>3. CASE phase = "off" /\ mqtt' = "down"
      BY <3>3 DEF UplinkInv, SessionInv
    <3>. QED
      BY <1>2, <3>1, <3>2, <3>3 DEF OnBoard, Boot, ota_init, Watchdog, TimerExpires,
         RollBack, Reset, MarkValid, OtaTask, BeginFails, Begin, DownloadFails, Finish,
         Restart, ram
  <2>3. ASSUME tasks PROVE img'[run'] = img[run]
    <3>1. run \in Slots /\ img \in [Slots -> {"none", "partial"} \cup Images] /\ phase = "running"
      BY <2>3 DEF TypeOK, UplinkInv, SessionInv
    <3>2. Other(run) # run /\ Other(run) \in Slots
      BY <3>1, OtherSlot
    <3>3. UNCHANGED run
      BY <3>1 DEF OnBoard, Boot, ota_init, Watchdog, TimerExpires, RollBack, Reset,
         MarkValid, OtaTask, BeginFails, Begin, DownloadFails, Finish, Restart
    <3>4. UNCHANGED img \/ \E v : img' = [img EXCEPT ![Other(run)] = v]
      <4>1. CASE OnBoard(Boot) \/ OnBoard(ota_init) \/ OnBoard(Watchdog) \/ OnBoard(MarkValid)
        BY <4>1 DEF OnBoard, Boot, ota_init, Watchdog, TimerExpires, RollBack, MarkValid, flash
      <4>2. CASE OnBoard(OtaTask)
        BY <4>2 DEF OnBoard, OtaTask, BeginFails, Begin, DownloadFails, Finish, Restart, flash
      <4>. QED
        BY <4>1, <4>2
    <3>5. CASE UNCHANGED img
      BY <3>3, <3>5
    <3>6. CASE \E v : img' = [img EXCEPT ![Other(run)] = v]
      BY <3>1, <3>2, <3>3, <3>6
    <3>. QED
      BY <3>4, <3>5, <3>6
  <2>. QED
    BY <2>1, <2>2, <2>3 DEF SessionInv, netvars
<1>. QED
  BY <1>1, <1>2

LEMMA OnlineSession ==
    ASSUME SessionInv, UplinkInv,
           \/ Online(StartWifi) \/ Online(InitWaits) \/ Online(WifiEvt)
           \/ Driver \/ Session
    PROVE  SessionInv'
<1>1. UNCHANGED <<mqtt, img, run, tasks>>
  BY DEF Online, Driver, Session, vars, flash, ram
<1>2. MaxDrops \in Nat /\ drops \in 0..MaxDrops
  BY ConnectivityAssumption DEF SessionInv
<1> DEFINE open(c) == c \in {"session", "broken"}
           Clients == {"none", "connecting", "accepted", "session", "broken"}
<1>3. SUFFICES /\ bits' \subseteq {"CONNECTED", "FAIL"}
               /\ comms' \in {"before", "waiting", "ok", "failed"}
               /\ client' \in Clients /\ (open(client') <=> open(client))
               /\ connected' \in {connected, FALSE}
               /\ drops' \in 0..MaxDrops
               /\ comms \in {"ok", "failed"} => comms' = comms
  <2>1. (mqtt' # "down" <=> mqtt # "down") /\ (tasks' <=> tasks) /\ img'[run'] = img[run]
    BY <1>1
  <2>2. connected' \in BOOLEAN
    BY <1>3 DEF SessionInv
  <2>3. mqtt' # "down" <=> open(client')
    BY <1>3, <2>1 DEF SessionInv
  <2>4. tasks' => comms' \in {"ok", "failed"} /\ img'[run'] # "aborts"
    BY <1>3, <2>1 DEF SessionInv
  <2>. QED
    BY <1>3, <2>2, <2>3, <2>4 DEF SessionInv
<1>4. /\ bits \subseteq {"CONNECTED", "FAIL"}
      /\ comms \in {"before", "waiting", "ok", "failed"}
      /\ client \in Clients
      /\ comms = "waiting" => client = "none"
  BY DEF SessionInv, UplinkInv
<1>5. CASE Online(StartWifi)
  BY <1>2, <1>4, <1>5 DEF Online, StartWifi
<1>6. CASE Online(InitWaits)
  <2>1. /\ comms = "waiting" /\ comms' \in {"ok", "failed"}
        /\ bits' = bits /\ connected' = connected
        /\ client' = client \/ client' = "connecting"
        /\ drops' = drops \/ (drops < MaxDrops /\ drops' = drops + 1)
    BY <1>6 DEF Online, InitWaits, AssociationOk, AssociationFailed, mqtt_init
  <2>. QED
    BY <1>2, <1>4, <2>1
<1>7. CASE Online(WifiEvt)
  <2>1. /\ bits' \in {bits, bits \cup {"CONNECTED"}, bits \cup {"FAIL"}}
        /\ UNCHANGED <<comms, client>> /\ connected' \in {connected, FALSE}
        /\ drops' = drops \/ (drops < MaxDrops /\ drops' = drops + 1)
    BY <1>7 DEF Online, WifiEvt, WifiStarted, WifiRetry, WifiGiveUp, WifiGotIp, esp_wifi_connect
  <2>2. bits' \subseteq {"CONNECTED", "FAIL"}
    BY <1>4, <2>1
  <2>3. drops' \in 0..MaxDrops
    BY <1>2, <2>1
  <2>4. client' = client /\ comms' = comms /\ connected' \in {connected, FALSE}
    BY <2>1
  <2>5. open(client') <=> open(client)
    BY <2>4
  <2>. HIDE DEF open, Clients
  <2>. QED
    BY <1>4, <2>2, <2>3, <2>4, <2>5
<1>8. CASE Driver
  <2>1. /\ UNCHANGED <<bits, comms, client, connected>>
        /\ drops' = drops \/ (drops < MaxDrops /\ drops' = drops + 1)
    BY <1>8 DEF Online, Driver, Associate, Lease, Drop, app
  <2>. QED
    BY <1>2, <1>4, <2>1
<1>9. CASE Session
  <2>1. /\ UNCHANGED <<bits, comms, connected>>
        /\ \/ client = "connecting" /\ client' = "accepted"
           \/ client = "session" /\ client' = "broken"
        /\ drops' = drops \/ (drops < MaxDrops /\ drops' = drops + 1)
    BY <1>9 DEF Online, Session, OpenSession, KeepAliveFails, BrokerCloses
  <2>. QED
    BY <1>2, <1>4, <2>1
<1>. QED
  BY <1>5, <1>6, <1>7, <1>8, <1>9

LEMMA UplinkNextSession ==
    SessionInv /\ UplinkInv /\ TypeOK /\ [UplinkNext]_uvars => SessionInv'
<1> SUFFICES ASSUME SessionInv, UplinkInv, TypeOK, [UplinkNext]_uvars PROVE SessionInv'
  OBVIOUS
<1>1. MaxDrops \in Nat /\ drops \in 0..MaxDrops
  BY ConnectivityAssumption DEF SessionInv
<1>2. CASE PowerFails
  BY <1>1, <1>2, ResetSession DEF PowerFails, Crash
<1>3. CASE \/ OnBoard(Boot) \/ OnBoard(ota_init) \/ OnBoard(Watchdog)
           \/ OnBoard(MarkValid) \/ OnBoard(OtaTask)
  BY <1>3, OnBoardSession
<1>4. CASE Peripherals
  <2>1. CASE img[run] = "aborts"
    BY <1>1, <1>4, <2>1, ResetSession DEF Peripherals
  <2>2. CASE img[run] # "aborts"
    BY <1>4, <2>2 DEF Peripherals, SessionInv, vars, flash, ram, netvars
  <2>. QED
    BY <2>1, <2>2
<1>5. CASE Connected
  BY <1>5 DEF Connected, MqttConnected, ota_mark_healthy, SessionInv
<1>6. CASE Disconnected
  BY <1>6 DEF Disconnected, MqttDisconnected, SessionEnds, flash, SessionInv
<1>7. CASE StartUpdate
  BY <1>7 DEF StartUpdate, ota_start, flash, netvars, SessionInv
<1>8. CASE \/ Online(StartWifi) \/ Online(InitWaits) \/ Online(WifiEvt)
           \/ Driver \/ Session
  BY <1>8, OnlineSession
<1>9. CASE UNCHANGED uvars
  BY <1>9 DEF uvars, vars, flash, ram, netvars, SessionInv
<1>. QED
  BY <1>2, <1>3, <1>4, <1>5, <1>6, <1>7, <1>8, <1>9 DEF UplinkNext

(***************************************************************************)
(* Type correctness of the uplink: the session ota.c has been told of is   *)
(* the client's, and the tasks run only after comms_init returned, in an   *)
(* image whose peripherals came up.                                        *)
(***************************************************************************)
THEOREM UplinkTypeCorrect == UplinkSpec => []UplinkTypeOK
<1>1. UplinkInit => UplinkInv /\ LinkInv /\ SessionInv
  <2> SUFFICES ASSUME UplinkInit PROVE LinkInv /\ SessionInv
    BY UplinkInitInv
  <2>1. /\ sta = "stopped" /\ events = <<>> /\ retries = 0 /\ bits = {} /\ comms = "before"
        /\ client = "none" /\ connected = FALSE /\ drops = 0 /\ mqtt = "down" /\ ~tasks
    BY DEF UplinkInit, NetInit, Init
  <2>2. MaxRetry \in Nat /\ MaxDrops \in Nat
    BY ConnectivityAssumption
  <2>3. LinkInv
    BY <2>1, <2>2 DEF LinkInv
  <2>4. /\ bits \subseteq {"CONNECTED", "FAIL"} /\ connected \in BOOLEAN /\ drops \in 0..MaxDrops
        /\ mqtt = "down" /\ client = "none" /\ comms = "before" /\ ~tasks
    <3>1. bits \subseteq {"CONNECTED", "FAIL"} /\ drops \in 0..MaxDrops
      BY <2>1, <2>2
    <3>. QED
      BY <2>1, <3>1, Zenon
  <2>5. SessionInv
    BY <2>4, Zenon DEF SessionInv
  <2>. QED
    BY <2>3, <2>5
<1>2. UplinkInv /\ [UplinkNext]_uvars => UplinkInv'
  BY UplinkNextInv
<1>3. LinkInv /\ [UplinkNext]_uvars => LinkInv'
  BY UplinkNextLink
<1>4. SessionInv /\ UplinkInv /\ TypeOK /\ [UplinkNext]_uvars => SessionInv'
  BY UplinkNextSession
<1>5. UplinkSpec => []TypeOK
  BY UplinkRefinesOta, OtaTypeCorrect, PTL
<1>6. TypeOK /\ LinkInv /\ SessionInv => UplinkTypeOK
  <2> SUFFICES ASSUME TypeOK, LinkInv, SessionInv PROVE UplinkTypeOK
    OBVIOUS
  <2> DEFINE S == Seq({"STA_START", "STA_DISCONNECTED", "GOT_IP"})
  <2>1. /\ <<>> \in S /\ <<"STA_START">> \in S /\ <<"STA_DISCONNECTED">> \in S
        /\ <<"GOT_IP">> \in S /\ <<"GOT_IP", "STA_DISCONNECTED">> \in S
    OBVIOUS
  <2> HIDE DEF S
  <2>2. events \in S
    BY <2>1 DEF LinkInv, GaveUp
  <2>3. NetTypeOK
    BY <2>2 DEF NetTypeOK, LinkInv, SessionInv, S
  <2>. QED
    BY <2>3 DEF UplinkTypeOK, SessionInv
<1>. QED
  BY <1>1, <1>2, <1>3, <1>4, <1>5, <1>6, PTL DEF UplinkSpec

-----------------------------------------------------------------------------
\* A step of Connectivity, or a reset of the vehicle, which the supply may
\* have caused.
NetOrReset == NetNext \/ (NetReset /\ drops' \in {drops, drops + 1})


LEMMA StepIsNets ==
    ASSUME UplinkNext
    PROVE  NetOrReset \/ UNCHANGED netvars
<1>1. CASE PowerFails
  BY <1>1 DEF PowerFails, NetOrReset
<1>2. CASE \/ OnBoard(Boot) \/ OnBoard(ota_init) \/ OnBoard(Watchdog)
           \/ OnBoard(MarkValid) \/ OnBoard(OtaTask)
  BY <1>2 DEF OnBoard, NetOrReset
<1>3. CASE Peripherals
  <2>1. (NetReset /\ UNCHANGED drops) \/ UNCHANGED netvars
    BY <1>3 DEF Peripherals
  <2> QED
    BY <2>1 DEF NetOrReset
<1>4. CASE Connected \/ Disconnected
  BY <1>4 DEF Connected, Disconnected, MqttEvt, NetNext, NetOrReset
<1>5. CASE StartUpdate
  BY <1>5 DEF StartUpdate
<1>6. CASE Online(StartWifi) \/ Online(InitWaits) \/ Online(WifiEvt)
  BY <1>6 DEF Online, NetNext, NetOrReset
<1>7. CASE Driver \/ Session
  BY <1>7 DEF Driver, Session, Online, NetNext, NetOrReset
<1> QED
  BY <1>1, <1>2, <1>3, <1>4, <1>5, <1>6, <1>7 DEF UplinkNext

(***************************************************************************)
(* The boot sequence and the update do to the network what Connectivity    *)
(* does by itself, or reset it: a vehicle that updates comes online the    *)
(* way Connectivity says, from its first state, after every reset.         *)
(***************************************************************************)
THEOREM UplinkRefinesNet == UplinkSpec => NetInit /\ [][NetOrReset]_netvars
<1>1. UplinkInit => NetInit
  BY DEF UplinkInit
<1>2. [UplinkNext]_uvars => [NetOrReset]_netvars
  BY StepIsNets DEF uvars
<1>. QED
  BY <1>1, <1>2, PTL DEF UplinkSpec
=============================================================================
