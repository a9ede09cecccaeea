-------------------------------- MODULE Ota --------------------------------
(***************************************************************************)
(* Over-the-air update and its rollback watchdog (ota.c), with the parts   *)
(* of ESP-IDF it relies on: the two application slots, the otadata that    *)
(* records each slot's state and which slot boots next, and the bootloader.*)
(*                                                                         *)
(* Three tasks act on the running image: the MQTT client (confirms it and  *)
(* starts updates), the esp_timer task (rolls it back) and ota_task        *)
(* (writes the other slot).  Power may fail between any two steps; flash   *)
(* survives, everything else starts again.  The build is one with MQTT:    *)
(* without it ota_init confirms the image on the spot.                     *)
(***************************************************************************)
EXTENDS Naturals

CONSTANTS
    StateMayFail,    \* esp_ota_get_state_partition may return an error,
    TimerMayFail,    \* esp_timer_create or esp_timer_start_once may,
    MarkMayFail      \* esp_ota_mark_app_valid_cancel_rollback may

ASSUME OtaAssumption ==
    StateMayFail \in BOOLEAN /\ TimerMayFail \in BOOLEAN /\ MarkMayFail \in BOOLEAN

Slots == {0, 1}
Other(s) == 1 - s

VARIABLES
    \* flash
    img,            \* what a slot holds: nothing, part of an image, an image
                    \* that can reach the broker, one that cannot, one that
                    \* can but fails in app_main after comms_init
    st,             \* esp_ota_img_states_t of a slot
    boot,           \* the slot otadata selects
    proven,         \* history: the slot's image has once reached the broker
    \* RAM
    phase,          \* "off", "started" (before ota_init) or "running"
    run,            \* the slot the code runs from
    s_validated,
    timer,          \* s_rollback_timer: "none", "armed", or "expired": the
                    \* callback has found s_validated false
    mqtt,           \* "down", "up", or "marking": inside ota_mark_healthy
    s_in_progress,
    ota,            \* where ota_task is
    idf_failed      \* history: a call into ESP-IDF failed since the reset

flash == <<img, st, boot, proven>>
ram == <<phase, run, s_validated, timer, mqtt, s_in_progress, ota,
         idf_failed>>
vars == <<flash, ram>>

Images == {"good", "bad", "aborts"}

Whole(s) == img[s] \in Images

\* The serial bootstrap: slot 0 flashed, and seen to reach the broker.
Init ==
    /\ img = [s \in Slots |-> IF s = 0 THEN "good" ELSE "none"]
    /\ st = [s \in Slots |-> IF s = 0 THEN "valid" ELSE "undefined"]
    /\ boot = 0
    /\ proven = [s \in Slots |-> s = 0]
    /\ phase = "off"
    /\ run = 0
    /\ s_validated = FALSE
    /\ timer = "none"
    /\ mqtt = "down"
    /\ s_in_progress = FALSE
    /\ ota = "idle"
    /\ idf_failed = FALSE

-----------------------------------------------------------------------------
(***************************************************************************)
(* ESP-IDF.                                                                *)
(***************************************************************************)

\* Any reset: RAM is lost.
Reset ==
    /\ phase' = "off"
    /\ s_validated' = FALSE
    /\ timer' = "none"
    /\ mqtt' = "down"
    /\ s_in_progress' = FALSE
    /\ ota' = "idle"
    /\ idf_failed' = FALSE
    /\ UNCHANGED run

\* A power failure or a panic.
Crash == phase # "off" /\ Reset /\ UNCHANGED flash

\* The bootloader: a new image gets one trial boot; a trial that ended in a
\* reset is aborted and the other slot boots.
Boot ==
    /\ phase = "off"
    /\ LET trialOver == st[boot] = "pending"
           s == IF trialOver THEN Other(boot) ELSE boot
       IN  /\ run' = s
           /\ boot' = s
           /\ st' = CASE trialOver -> [st EXCEPT ![boot] = "aborted"]
                      [] st[s] = "new" -> [st EXCEPT ![s] = "pending"]
                      [] OTHER -> st
    /\ phase' = "started"
    /\ UNCHANGED <<img, proven, s_validated, timer, mqtt, s_in_progress, ota, idf_failed>>

\* esp_ota_check_rollback_is_possible
RollbackPossible ==
    Whole(Other(run)) /\ st[Other(run)] \notin {"invalid", "aborted", "new"}

-----------------------------------------------------------------------------
(***************************************************************************)
(* The rollback watchdog.                                                  *)
(***************************************************************************)

\* Mutant: the timer is created and never started.
InitWithoutTimer ==
    /\ phase = "started"
    /\ phase' = "running"
    /\ s_validated' = (st[run] # "pending")
    /\ UNCHANGED <<flash, run, timer, mqtt, s_in_progress, ota, idf_failed>>

\* An image not on trial is as good as confirmed, and so is one whose state
\* cannot be read; any other gets its watchdog.
ota_init ==
    /\ phase = "started"
    /\ phase' = "running"
    /\ IF st[run] # "pending"
       THEN s_validated' = TRUE /\ UNCHANGED <<timer, idf_failed>>
       ELSE \/ timer' = "armed" /\ UNCHANGED <<s_validated, idf_failed>>
            \/ /\ StateMayFail /\ idf_failed' = TRUE
               /\ s_validated' = TRUE /\ UNCHANGED timer
            \/ /\ TimerMayFail /\ idf_failed' = TRUE
               /\ UNCHANGED <<s_validated, timer>>
    /\ UNCHANGED <<flash, run, mqtt, s_in_progress, ota>>

\* Mutant: the callback's test inverted.
ExpiresInverted ==
    /\ timer = "armed"
    /\ timer' = IF s_validated THEN "expired" ELSE "none"
    /\ UNCHANGED <<flash, phase, run, s_validated, mqtt, s_in_progress, ota, idf_failed>>

\* rollback_timer_cb up to its check, and the rest of it.
TimerExpires ==
    /\ timer = "armed"
    /\ timer' = IF s_validated THEN "none" ELSE "expired"
    /\ UNCHANGED <<flash, phase, run, s_validated, mqtt, s_in_progress, ota, idf_failed>>

RollBack ==
    /\ timer = "expired"
    /\ IF RollbackPossible
       THEN /\ st' = [st EXCEPT ![run] = "invalid"]
            /\ boot' = Other(run)
            /\ UNCHANGED <<img, proven>>
            /\ Reset
       ELSE /\ timer' = "none"
            /\ UNCHANGED <<flash, phase, run, s_validated, mqtt,
                           s_in_progress, ota, idf_failed>>

\* Called on MQTT_EVENT_CONNECTED; up to the calls into otadata.  A validated
\* image has nothing left to do, an unvalidated one stops its watchdog first.
ota_mark_healthy ==
    /\ phase = "running"
    /\ mqtt = "down"
    /\ img[run] # "bad"
    /\ proven' = [proven EXCEPT ![run] = TRUE]
    /\ s_validated' = TRUE
    /\ IF s_validated
       THEN mqtt' = "up" /\ UNCHANGED timer
       ELSE /\ mqtt' = "marking"
            /\ timer' = IF timer = "armed" THEN "none" ELSE timer
    /\ UNCHANGED <<img, st, boot, phase, run, s_in_progress, ota, idf_failed>>

\* Mutant: the watchdog is stopped and nothing is written.
MarkNothing ==
    /\ mqtt = "marking"
    /\ mqtt' = "up"
    /\ UNCHANGED <<flash, phase, run, s_validated, timer, s_in_progress, ota, idf_failed>>

\* The rest of it.
MarkValid ==
    /\ mqtt = "marking"
    /\ mqtt' = "up"
    /\ \/ /\ st' = [st EXCEPT ![run] = IF @ = "pending" THEN "valid" ELSE @]
          /\ UNCHANGED idf_failed
       \/ MarkMayFail /\ idf_failed' = TRUE /\ UNCHANGED st
    /\ UNCHANGED <<img, boot, proven, phase, run, s_validated, timer,
                   s_in_progress, ota>>

SessionEnds ==
    /\ mqtt = "up"
    /\ mqtt' = "down"
    /\ UNCHANGED <<flash, phase, run, s_validated, timer, s_in_progress, ota, idf_failed>>

-----------------------------------------------------------------------------
(***************************************************************************)
(* The update.                                                             *)
(***************************************************************************)

\* ota_start on cmd/ota with an acceptable URL; a refused one changes nothing.
ota_start ==
    /\ mqtt = "up"
    /\ ~s_in_progress
    /\ s_in_progress' = TRUE
    /\ ota' = "begin"
    /\ UNCHANGED <<flash, phase, run, s_validated, timer, mqtt, idf_failed>>

\* Mutant: the flag stays up.
DoneStillBusy == ota' = "idle" /\ UNCHANGED s_in_progress

\* The done: label of ota_task.
Done ==
    /\ s_in_progress' = FALSE
    /\ ota' = "idle"

\* esp_https_ota_begin: the host answers or not, and ESP-IDF refuses to erase
\* the other slot while the running image is still on trial.
BeginFails ==
    /\ ota = "begin"
    /\ Done
    /\ UNCHANGED <<flash, phase, run, s_validated, timer, mqtt, idf_failed>>

\* Mutant: an update may start while the running image is on trial.
BeginOnTrial ==
    /\ ota = "begin"
    /\ img' = [img EXCEPT ![Other(run)] = "partial"]
    /\ proven' = [proven EXCEPT ![Other(run)] = FALSE]
    /\ ota' = "download"
    /\ UNCHANGED <<st, boot, phase, run, s_validated, timer, mqtt,
                   s_in_progress, idf_failed>>

Begin ==
    /\ ota = "begin"
    /\ st[run] # "pending"
    /\ img' = [img EXCEPT ![Other(run)] = "partial"]
    /\ proven' = [proven EXCEPT ![Other(run)] = FALSE]
    /\ ota' = "download"
    /\ UNCHANGED <<st, boot, phase, run, s_validated, timer, mqtt,
                   s_in_progress, idf_failed>>

\* Mutant: an incomplete download is selected for boot.
SelectIncomplete ==
    /\ ota = "download"
    /\ st' = [st EXCEPT ![Other(run)] = "new"]
    /\ boot' = Other(run)
    /\ ota' = "rebooting"
    /\ UNCHANGED <<img, proven, phase, run, s_validated, timer, mqtt,
                   s_in_progress, idf_failed>>

\* esp_https_ota_perform failed, the data is incomplete, or finish refused it.
DownloadFails ==
    /\ ota = "download"
    /\ Done
    /\ UNCHANGED <<flash, phase, run, s_validated, timer, mqtt, idf_failed>>

\* A complete image, verified by esp_https_ota_finish, is selected for boot.
Finish(image) ==
    /\ ota = "download"
    /\ img' = [img EXCEPT ![Other(run)] = image]
    /\ st' = [st EXCEPT ![Other(run)] = "new"]
    /\ boot' = Other(run)
    /\ ota' = "rebooting"
    /\ UNCHANGED <<proven, phase, run, s_validated, timer, mqtt,
                   s_in_progress, idf_failed>>

\* esp_restart, 300 ms after the last report.
Restart == ota = "rebooting" /\ Reset /\ UNCHANGED flash

-----------------------------------------------------------------------------
OtaTask ==
    \/ BeginFails
    \/ Begin
    \/ DownloadFails
    \/ \E image \in Images : Finish(image)
    \/ Restart

Watchdog == TimerExpires \/ RollBack

Next ==
    \/ Crash
    \/ Boot
    \/ ota_init
    \/ Watchdog
    \/ ota_mark_healthy
    \/ MarkValid
    \/ SessionEnds
    \/ ota_start
    \/ OtaTask

Spec == Init /\ [][Next]_vars

\* The chip boots, the timer fires and its callback finishes, the handler
\* finishes, and every HTTP call returns or times out.  Nothing makes the
\* broker reachable.
Fairness ==
    /\ WF_vars(Boot)
    /\ WF_vars(ota_init)
    /\ WF_vars(Watchdog)
    /\ WF_vars(MarkValid)
    /\ WF_vars(OtaTask)

FairSpec == Spec /\ Fairness

-----------------------------------------------------------------------------
TypeOK ==
    /\ img \in [Slots -> {"none", "partial"} \cup Images]
    /\ st \in [Slots -> {"undefined", "new", "pending", "valid", "invalid",
                         "aborted"}]
    /\ boot \in Slots
    /\ proven \in [Slots -> BOOLEAN]
    /\ phase \in {"off", "started", "running"}
    /\ run \in Slots
    /\ s_validated \in BOOLEAN
    /\ timer \in {"none", "armed", "expired"}
    /\ mqtt \in {"down", "up", "marking"}
    /\ s_in_progress \in BOOLEAN
    /\ ota \in {"idle", "begin", "download", "rebooting"}
    /\ idf_failed \in BOOLEAN

OnTrial == phase # "off" /\ st[run] = "pending"

(***************************************************************************)
(* An image on trial always has something to fall back to: the other slot  *)
(* holds a complete image that has reached the broker and may be booted.   *)
(***************************************************************************)
TrialHasFallback ==
    OnTrial => RollbackPossible /\ proven[Other(run)]

(***************************************************************************)
(* The slot that boots next holds a complete image, whenever the power     *)
(* fails during an update, a confirmation or a rollback.                   *)
(***************************************************************************)
NextBootWhole ==
    Whole(IF st[boot] = "pending" /\ phase = "off" THEN Other(boot) ELSE boot)

(***************************************************************************)
(* An image on trial is never left alone: its watchdog is armed or rolling *)
(* it back, or it is being confirmed.  Only a failing call into ESP-IDF    *)
(* breaks this (ota.c: no such failure is acted on).                       *)
(***************************************************************************)
TrialIsWatched ==
    OnTrial /\ phase = "running" /\ ~idf_failed
      => timer \in {"armed", "expired"} \/ mqtt = "marking"

(***************************************************************************)
(* Every trial ends: the image is confirmed, rolled back or aborted, also  *)
(* if the broker is never reached; again but for a failing call.           *)
(***************************************************************************)
TrialEnds ==
    \A s \in Slots : st[s] = "pending" ~> st[s] # "pending" \/ idf_failed

(***************************************************************************)
(* An update always ends, whatever fails, so the next one can be started.  *)
(***************************************************************************)
UpdateEnds == s_in_progress ~> ~s_in_progress

(***************************************************************************)
(* ota.h: ota_mark_healthy "Marks the running image valid and cancels the  *)
(* rollback watchdog": an image marked valid is not rolled back.           *)
(***************************************************************************)
ConfirmedStays ==
    [][ phase = "running" /\ st[run] = "valid" => st'[run] # "invalid" ]_vars
=============================================================================
