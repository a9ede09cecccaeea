------------------------------ MODULE Sensors ------------------------------
(***************************************************************************)
(* Where the pose estimate comes from: the wheels' encoders (Encoder),     *)
(* read by control_task, the gyro and accelerometer (Imu), read by         *)
(* imu_task, and the estimate both write (Odometry).  The sensors are      *)
(* ideal: what the wheels roll is what the vehicle turns and what the gyro *)
(* feels; the speed filter is off (CONFIG_UGV_VEL_FILTER_ALPHA_X100 = 100).*)
(***************************************************************************)
EXTENDS Encoder, Odometry, Imu

CONSTANTS
    Builds,         \* the values of CONFIG_UGV_ENABLE_IMU
    Dts,            \* the times between two passes of control_task
    ImuDt,          \* the constant dt of imu_task
    Tilts,          \* pitch_acc and roll_acc values
    TiltRates,      \* gyro steps gx * dt and gy * dt
    MaxTurned,      \* bound of the model: how far each wheel turns
    MaxUnfelt,      \* bound of the model: the turn between two IMU passes
    MaxPos          \* bound of the model: how far the vehicle goes

\* The accelerometer's angles and the gyro's steps are bounded.
ASSUME SensorsAssumption ==
    /\ Builds \subseteq BOOLEAN
    /\ Dts \subseteq Nat \ {0}
    /\ ImuDt \in 1..Second
    /\ Tilts \subseteq Int
    /\ TiltRates \subseteq Int
    /\ \A S \in {Tilts, TiltRates} :
          \E n \in {fabsf(x) : x \in S \cup {0}} : \A x \in S : fabsf(x) <= n
    /\ MaxTurned \in [Side -> Nat] /\ MaxPos \in Nat

\* Speeds and turns come out even in the instance's units, as they do in the
\* code's floats but for their rounding.
ASSUME UnitsAssumption ==
    /\ MetersPerTick % (2 * TrackW) = 0
    /\ \A dt \in Dts : dt <= Second => MetersPerTick % dt = 0

\* Between two passes the vehicle turns once around at most (odometry.c takes
\* a single turn off the yaw).
ASSUME TurnAssumption ==
    /\ MaxUnfelt \in 0..(2 * Pi)
    /\ 2 * (MetersPerTick \div (2 * TrackW)) <= Pi

VARIABLES
    imu_on,     \* CONFIG_UGV_ENABLE_IMU of this build
    gz,         \* gyr[2] * dt of this pass of imu_task
    felt,       \* history: the heading when the gyro was last due
    owed        \* history: the turns that reached neither source's report

svars == <<pos, unit, pose, imuvars, imu_on, gz, felt, owed>>

Init ==
    /\ EncoderInit /\ odometry_init /\ ImuInit
    /\ imu_on \in Builds
    /\ gz = 0 /\ felt = 0 /\ owed = 0

\* What one quarter period more of the right wheel turns the vehicle.
QuarterTurn == MetersPerTick \div (2 * TrackW)

Heading == (pos["right"] - pos["left"]) * QuarterTurn

\* The turn that the encoders' counts amount to.
TickTurn == 2 * QuarterTurn * (encoder_ticks("right") - encoder_ticks("left"))

Owe(turn) == owed' = (owed + turn) % (2 * Pi)

-----------------------------------------------------------------------------
\* The vehicle moves for dt, then control_task runs: the ticks since its last
\* pass are speeds for the odometry.
ControlPass(turn, dt) ==
    LET ticks(s) == encoder_ticks(s)' - encoder_ticks(s)
        v(s)     == kinematics_ticks_to_meters(ticks(s)) \div dt
    IN  /\ imu_on => pc # "init"
        /\ WheelsTurn(turn)
        /\ odometry_update_wheels(v("left"), v("right"), dt)
        /\ \A s \in Side : fabsf(pos'[s]) <= MaxTurned[s]
        /\ fabsf(s_x') + fabsf(s_y') <= MaxPos
        /\ imu_on => fabsf(Heading' - felt) <= MaxUnfelt
        /\ IF Dropped(dt) THEN Fails /\ Owe(TickTurn' - TickTurn)
                          ELSE Succeeds /\ UNCHANGED owed
        /\ UNCHANGED <<s_pitch, s_roll, chips, pc, sent, fresh, imu_on, gz, felt>>

-----------------------------------------------------------------------------
\* A step of imu_task or of the magnetometer that the pose does not see.
Unseen(step) == imu_on /\ step /\ UNCHANGED <<pos, unit, pose, imu_on, gz, felt, owed>>

\* The gyro reports the turn of the period that ends; a pass whose read fails
\* is skipped with it, and a QMI8658 that is not set up reads 0.
MotionRead ==
    LET turned == Heading - felt
        got    == pc' = "st1" /\ chips.motion
    IN  /\ imu_on /\ ReadMotion
        /\ felt' = Heading
        /\ IF got THEN gz' = turned /\ UNCHANGED owed
                  ELSE gz' = 0 /\ Owe(turned)
        /\ UNCHANGED <<pos, unit, pose, imu_on>>

\* The rest of the pass.
ImuUpdate(pitch_acc, roll_acc, gx, gy) ==
    /\ imu_on /\ Publish
    /\ odometry_update_imu(pitch_acc, roll_acc, [x |-> gx, y |-> gy, z |-> gz], ImuDt)
    /\ gz' = 0
    /\ UNCHANGED <<pos, unit, s_x, s_y, imu_on, felt, owed>>

\* A QMI8658 that is not set up reads no tilt either.
ImuUpdates ==
    \/ chips.motion /\ \E pa, ra \in Tilts, gx, gy \in TiltRates :
                           ImuUpdate(pa, ra, gx, gy)
    \/ ~chips.motion /\ ImuUpdate(0, 0, 0, 0)

ImuTask ==
    \/ Unseen(imu_init) \/ MotionRead
    \/ Unseen(ReadStatus) \/ Unseen(ReadMag)
    \/ ImuUpdates

Next ==
    \/ \E turn \in [Side -> -1..1], dt \in Dts : ControlPass(turn, dt)
    \/ Unseen(Sample)
    \/ ImuTask

Spec == Init /\ [][Next]_svars

\* vTaskDelayUntil lets imu_task run every period; the chip runs at 100 Hz.
FairSpec == Spec /\ WF_svars(ImuTask) /\ WF_svars(Unseen(Sample))

-----------------------------------------------------------------------------
\* The largest magnitude in a set of integers with 0.
Largest(S) == CHOOSE n \in {fabsf(x) : x \in S \cup {0}} :
                 \A x \in S : fabsf(x) <= n

\* However long the gyro's bias is integrated, gravity keeps a tilt angle
\* within the accelerometer's range plus the filter's gain on the bias (one
\* unit of rounding granted).
TiltBounded ==
    \A angle \in {s_pitch, s_roll} :
        (One - AlphaNum) * (fabsf(angle) - 1) <=
            (One - AlphaNum) * Largest(Tilts) + AlphaNum * Largest(TiltRates)

\* No angle winds up: the yaw is wrapped, the tilt angles are filtered.
TypeOK ==
    /\ PoseTypeOK
    /\ TiltBounded
    /\ ImuTypeOK
    /\ imu_on \in Builds
    /\ ~imu_on => pc = "init" /\ s_pitch = 0 /\ s_roll = 0 /\ felt = 0
    /\ pc \in {"init", "sleep"} => gz = 0
    /\ owed \in 0..(2 * Pi - 1)
    /\ \A s \in Side : fabsf(unit[s].count) < HighLimit

(***************************************************************************)
(* Every turn of the vehicle is in the yaw once for each source that saw   *)
(* it, in whole turns: the encoders' ticks lose nothing, and the yaw lacks *)
(* only the reading imu_task still holds, the passes control_task was too  *)
(* late for (dt > 1 s) and the periods whose gyro reading failed or came   *)
(* from a chip that imu_init did not set up.                               *)
(***************************************************************************)
YawAccount ==
    /\ TicksFollowWheels
    /\ LET gyro == IF imu_on THEN felt - gz ELSE 0
       IN  (s_yaw - (TickTurn + gyro - owed)) % (2 * Pi) = 0

(***************************************************************************)
(* The yaw is the heading of the vehicle, in whole turns, but for half a   *)
(* tick of each wheel, what the gyro has not reported and what was lost.   *)
(* (odometry.c: yaw from the IMU is "fused with the wheel-odometry yaw via *)
(* weighted blend".)                                                       *)
(***************************************************************************)
YawFollowsHeading ==
    owed = 0 =>
        \E slack \in -(2 * QuarterTurn)..(2 * QuarterTurn) :
            \/ (s_yaw - Heading - slack) % (2 * Pi) = 0
            \/ (s_yaw - felt - slack) % (2 * Pi) = 0

(***************************************************************************)
(* A magnetometer that imu_init set up keeps delivering: no order of       *)
(* failures leaves its latch set, or imu_task without new readings, for    *)
(* ever.                                                                   *)
(***************************************************************************)
MagDelivers ==
    imu_on /\ pc = "sleep" /\ chips.mag ~> pc = "publish" /\ fresh /\ ~sent
=============================================================================
