----------------------------- MODULE MCControl -----------------------------
(***************************************************************************)
(* Instances of ControlTask for TLC.  A clock unit stands for half a loop  *)
(* period in the timing instance and for a whole period in the regulator   *)
(* instances; speeds are in wheel-speed units that one unit of linear_x    *)
(* produces, outputs in PWM counts.                                        *)
(***************************************************************************)
EXTENDS ControlTask

Vel(x, z) == [linear_x |-> x, angular_z |-> z]

Gains(kp, ki, kd, clamp, min_drive) ==
    [kp |-> kp, ki |-> ki, kd |-> kd, clamp |-> clamp,
     min_drive |-> min_drive]

\* Timing instance: one forward command and the stop.
TimedVel == {Vel(0, 0), Vel(2, 0)}
TimedPid == {}
TimedTicks == {0, 2}
TimedDefaults == Gains(10, 0, 0, 40, 5)

\* Regulator instance: a build with the proportional gain alone, whose
\* stiction floor is below its clamp; a retune with an integral and a
\* derivative gain and a tighter envelope that keeps the floor; a retune whose
\* floor exceeds its clamp.  A wheel stalls or overshoots.
RegVel == {Vel(0, 0), Vel(2, 0), Vel(-1, 2)}
RegPid == {Gains(4, 3, 1, 6, -1), Gains(3, 0, 0, 2, 9)}
RegTicks == {0, 3}
RegDefaults == Gains(8, 0, 0, 20, 5)

NoInvert == [s \in Side |-> FALSE]
LeftInvert == [s \in Side |-> s = "left"]
=============================================================================
