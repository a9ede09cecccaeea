------------------------------- MODULE MCPath -------------------------------
(***************************************************************************)
(* An instance of CommandPath for TLC: the timing instance of the control  *)
(* loop with both transports, a wheel that follows its command at once and *)
(* one harmless retune.                                                    *)
(***************************************************************************)
EXTENDS CommandPath

Vel(x, z) == [linear_x |-> x, angular_z |-> z]

Gains(kp, ki, kd, clamp, min_drive) ==
    [kp |-> kp, ki |-> ki, kd |-> kd, clamp |-> clamp,
     min_drive |-> min_drive]

PathVel == {Vel(0, 0), Vel(2, 0)}
PathPid == {Gains(10, 0, 0, 40, 5)}
PathTicks == {0}
PathDefaults == Gains(10, 0, 0, 40, 5)
NoInvert == [s \in Side |-> FALSE]
=============================================================================
