------------------------------ MODULE Odometry ------------------------------
(***************************************************************************)
(* odometry.c: the pose estimate that control_task (wheels) and imu_task   *)
(* (gyro, accelerometer) write and display_task reads, each under one      *)
(* spinlock, so that each call is one step.  Angles are in a unit of which *)
(* Pi make half a turn.                                                    *)
(***************************************************************************)
EXTENDS FixedPoint

CONSTANTS
    Pi,             \* M_PI
    Second,         \* 1.0f, in the unit of dt
    TrackW,         \* s_track_w
    Cos(_), Sin(_), \* cosf and sinf
    AlphaNum, One   \* ALPHA is AlphaNum / One

ASSUME OdometryAssumption ==
    /\ Pi \in Nat \ {0}
    /\ Second \in Nat \ {0}
    /\ TrackW \in Nat \ {0}
    /\ AlphaNum \in Nat /\ One \in Nat /\ AlphaNum < One
    /\ \A a \in (-2 * Pi)..(2 * Pi) : Cos(a) \in Int /\ Sin(a) \in Int

VARIABLES s_x, s_y, s_yaw, s_pitch, s_roll

pose == <<s_x, s_y, s_yaw, s_pitch, s_roll>>

\* What odometry_init leaves (odometry_reset has no other caller).
odometry_init ==
    /\ s_x = 0 /\ s_y = 0 /\ s_yaw = 0 /\ s_pitch = 0 /\ s_roll = 0

\* Wrap yaw to (-pi, pi]: one turn is taken off, or added, at most.
Wrap(yaw) ==
    LET y == IF yaw > Pi THEN yaw - 2 * Pi ELSE yaw
    IN  IF y <= -Pi THEN y + 2 * Pi ELSE y

\* dt_s out of range: the update is dropped.
Dropped(dt) == dt <= 0 \/ dt > Second

odometry_update_wheels(v_left, v_right, dt) ==
    IF Dropped(dt) THEN UNCHANGED <<s_x, s_y, s_yaw>>
    ELSE LET v      == (v_left + v_right) \div 2
             dtheta == ((v_right - v_left) * dt) \div TrackW
             th_mid == s_yaw + dtheta \div 2
         IN  /\ s_x' = s_x + v * Cos(th_mid) * dt
             /\ s_y' = s_y + v * Sin(th_mid) * dt
             /\ s_yaw' = Wrap(s_yaw + dtheta)

\* Mutant: the gyro integrated, gravity ignored.
GyroOnly(angle, g, acc) == angle + g

\* The complementary filter: gyro step g, static estimate acc.
Fused(angle, g, acc) ==
    (AlphaNum * (angle + g) + (One - AlphaNum) * acc) \div One

\* The accelerometer's angles, and what the gyro turned in dt about x, y, z.
odometry_update_imu(pitch_acc, roll_acc, turn, dt) ==
    IF Dropped(dt) THEN UNCHANGED <<s_yaw, s_pitch, s_roll>>
    ELSE /\ s_pitch' = Fused(s_pitch, turn.y, pitch_acc)
         /\ s_roll' = Fused(s_roll, turn.x, roll_acc)
         /\ s_yaw' = Wrap(s_yaw + turn.z)

\* The yaw stays in (-pi, pi], whichever task writes it.
PoseTypeOK ==
    /\ s_x \in Int /\ s_y \in Int
    /\ s_yaw \in (1 - Pi)..Pi
    /\ s_pitch \in Int /\ s_roll \in Int
=============================================================================
