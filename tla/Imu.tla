-------------------------------- MODULE Imu --------------------------------
(***************************************************************************)
(* The IMU path: imu_init and imu_read with the transactions of qmi8658.c  *)
(* and ak09918.c, one per step, against a magnetometer that samples on its *)
(* own.  Any transaction may fail (bus time-out, another task holding the  *)
(* bus).  The chips keep their set-up and their latch over a reset of the  *)
(* processor.  A magnetometer reading is represented by whether a packet   *)
(* has carried it.                                                         *)
(***************************************************************************)
EXTENDS Naturals

CONSTANT MaxFaults      \* bound of the model: failed transactions, late passes

ASSUME ImuAssumption == MaxFaults \in Nat

VARIABLES
    chips,      \* motion and mag: the QMI8658 is set up, the AK09918 runs in
                \* continuous mode; drdy: its latch; taken: its newest sample
                \* has been read, or was lost
    pc,         \* the next transaction of imu_task; sleep: vTaskDelayUntil
    sent,       \* history: a packet has carried s_last_mag
    fresh,      \* mag_fresh of this pass
    faults

imuvars == <<chips, pc, sent, fresh, faults>>

Chips == [motion: BOOLEAN, mag: BOOLEAN, drdy: BOOLEAN, taken: BOOLEAN]

\* After a power-up, or after a reset that found the chips running.
ImuInit ==
    /\ chips \in {c \in Chips : (c.drdy => c.mag) /\ c.taken = ~c.drdy}
    /\ pc = "init"
    /\ sent = TRUE
    /\ fresh = FALSE
    /\ faults = 0

Fails == faults < MaxFaults /\ faults' = faults + 1

Succeeds == UNCHANGED faults

-----------------------------------------------------------------------------
\* The chip takes a sample, unless the latch of the last one is still set
\* (ak09918.c: "without it the next sample never appears").
Sample ==
    /\ chips.mag /\ ~chips.drdy
    /\ chips' = [chips EXCEPT !.drdy = TRUE, !.taken = FALSE]
    /\ UNCHANGED <<pc, sent, fresh, faults>>

-----------------------------------------------------------------------------
\* The chips after imu_init.
SetUp == [motion |-> TRUE, mag |-> TRUE, drdy |-> FALSE, taken |-> TRUE]

\* ak09918_init with failures: of the soft reset (ignored), of the mode write.
MagFaulty ==
    {[chips EXCEPT !.motion = TRUE, !.mag = TRUE],
     [SetUp EXCEPT !.mag = FALSE],
     [chips EXCEPT !.motion = TRUE]}

\* imu_init: a failed WHO_AM_I read ends it; the results of the five writes
\* to the QMI8658 are ignored; a failure of the magnetometer is not passed on.
\* app_main creates imu_task whatever imu_init returns.
imu_init ==
    /\ pc = "init"
    /\ pc' = "sleep"
    /\ \/ Succeeds /\ chips' = SetUp
       \/ /\ Fails
          /\ \/ UNCHANGED chips
             \/ chips' \in MagFaulty
             \/ \E c \in MagFaulty \cup {SetUp} :
                   chips' = [c EXCEPT !.motion = chips.motion]
    /\ UNCHANGED <<sent, fresh>>

-----------------------------------------------------------------------------
\* qmi8658_read: accelerometer and gyroscope.  A failure ends the pass.  (The
\* temperature is read next; a failure there only makes it NaN.)
ReadMotion ==
    /\ pc = "sleep"
    /\ \/ Succeeds /\ pc' = "st1"
       \/ Fails /\ pc' = "sleep"
    /\ UNCHANGED <<chips, sent, fresh>>

\* ak09918_read: the status register.
ReadStatus ==
    /\ pc = "st1"
    /\ \/ Succeeds /\ pc' = IF chips.drdy THEN "mag" ELSE "publish"
       \/ Fails /\ pc' = "publish"
    /\ UNCHANGED <<chips, sent, fresh>>

Released == [chips EXCEPT !.drdy = FALSE, !.taken = TRUE]

\* Mutants: the transaction ends before ST2, so that the latch stays; the
\* flag is set before the result is looked at.
ReadWithoutSt2 ==
    /\ pc = "mag"
    /\ Succeeds
    /\ fresh' = TRUE
    /\ sent' = chips.taken
    /\ chips' = [chips EXCEPT !.taken = TRUE]
    /\ pc' = "publish"

FlagBeforeResult ==
    /\ pc = "mag"
    /\ fresh' = TRUE
    /\ \/ Succeeds /\ sent' = chips.taken /\ chips' = Released
       \/ Fails /\ UNCHANGED <<sent, chips>>
    /\ pc' = "publish"

\* ak09918_read: HXL to ST2, and what imu_read makes of it.  The chip may
\* have released its latch although the transaction failed.
ReadMag ==
    /\ pc = "mag"
    /\ \/ /\ Succeeds
          /\ fresh' = TRUE
          /\ sent' = chips.taken
          /\ chips' = Released
       \/ /\ Fails
          /\ UNCHANGED <<fresh, sent>>
          /\ chips' \in {chips, Released}
    /\ pc' = "publish"

\* The packet goes out (its seq counts the packets and is not modelled).
Publish ==
    /\ pc = "publish"
    /\ pc' = "sleep"
    /\ sent' = TRUE
    /\ fresh' = FALSE
    /\ UNCHANGED <<chips, faults>>

-----------------------------------------------------------------------------
\* The magnetometer is read only while its latch is set.
ImuTypeOK ==
    /\ chips \in Chips
    /\ pc \in {"init", "sleep", "st1", "mag", "publish"}
    /\ pc = "mag" => chips.drdy
    /\ fresh => pc = "publish"
    /\ chips.drdy => chips.mag
    /\ sent \in BOOLEAN
    /\ fresh \in BOOLEAN
    /\ faults \in 0..MaxFaults

(***************************************************************************)
(* README: "a mag_fresh flag tells the host whether the mag fields were    *)
(* updated this packet or repeat the previous reading".  A flagged packet  *)
(* carries a reading no packet carried before, an unflagged one what the   *)
(* last packet carried, whichever transactions failed.                     *)
(***************************************************************************)
FlagIsHonest == pc = "publish" => (fresh <=> ~sent)
=============================================================================
