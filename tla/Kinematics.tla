----------------------------- MODULE Kinematics -----------------------------
(***************************************************************************)
(* kinematics.c: differential-drive inverse kinematics with the            *)
(* angular-priority saturation, and the encoder's tick-to-distance scale.  *)
(***************************************************************************)
EXTENDS FixedPoint

CONSTANTS
    HalfTrack,       \* half of track_width_m (turn speed per unit of angular_z)
    MaxWheel,        \* max_wheel_mps; 0 disables the saturation
    MetersPerTick    \* meters_per_tick

ASSUME KinematicsAssumption ==
    /\ HalfTrack \in Nat
    /\ MaxWheel \in Nat
    /\ MetersPerTick \in Nat

Side == {"left", "right"}

\* A pair of per-wheel values.
Wheels(l, r) == [s \in Side |-> IF s = "left" THEN l ELSE r]

\* The largest speed of each wheel that keeps the turn: the differential part
\* is cut to the ceiling only if it exceeds it alone, and the common part is
\* then cut to what room is left.
Saturate(common, turn) ==
    LET diff == IF fabsf(turn) > MaxWheel THEN copysignf(MaxWheel, turn) ELSE turn
        room == MaxWheel - fabsf(diff)
        c    == IF fabsf(common) > room THEN copysignf(room, common) ELSE common
    IN  Wheels(c - diff, c + diff)

kinematics_cmd_vel_to_wheels(linear_x, angular_z) ==
    LET vl == linear_x - angular_z * HalfTrack
        vr == linear_x + angular_z * HalfTrack
    IN  IF MaxWheel > 0
        THEN Saturate((vl + vr) \div 2, (vr - vl) \div 2)
        ELSE Wheels(vl, vr)

kinematics_ticks_to_meters(ticks) == ticks * MetersPerTick
=============================================================================
