-------------------------------- MODULE Pid --------------------------------
(***************************************************************************)
(* pid.c: the wheel-speed regulator, as functions from a controller record *)
(* to the record the C function leaves behind.  ki is per clock unit, so   *)
(* that ki * error * dt is a number of PWM counts, like every output.      *)
(***************************************************************************)
EXTENDS FixedPoint

CONSTANT Second      \* 1.0f of pid_compute and odometry.c, in clock units

ASSUME SecondAssumption == Second \in Nat \ {0}

\* ugv_pid_t
PidState == [kp: Int, ki: Int, kd: Int, out_min: Int, out_max: Int,
             min_drive: Int, i_term: Int, last_meas: Int, last_us: Int,
             initialized: BOOLEAN]

\* Mutant: forgets that the next sample must only be a baseline.
pid_reset_integral_only(p) == [p EXCEPT !.i_term = 0]

pid_reset(p) ==
    [p EXCEPT !.i_term = 0, !.last_meas = 0, !.last_us = 0,
              !.initialized = FALSE]

pid_init(kp, ki, kd, out_min, out_max, min_drive) ==
    [kp |-> kp, ki |-> ki, kd |-> kd, out_min |-> out_min,
     out_max |-> out_max, min_drive |-> min_drive, i_term |-> 0,
     last_meas |-> 0, last_us |-> 0, initialized |-> FALSE]

pid_set_tunings(p, kp, ki, kd) ==
    [p EXCEPT !.kp = kp, !.ki = ki, !.kd = kd]

\* Mutant: leaves the integral outside the new envelope.
pid_set_limits_only(p, out_min, out_max) ==
    [p EXCEPT !.out_min = out_min, !.out_max = out_max]

pid_set_output_limits(p, out_min, out_max) ==
    [p EXCEPT !.out_min = out_min, !.out_max = out_max,
              !.i_term = clampf(p.i_term, out_min, out_max)]

pid_set_min_drive(p, min_drive) == [p EXCEPT !.min_drive = min_drive]

-----------------------------------------------------------------------------
(***************************************************************************)
(* pid_compute, in the parts its early returns separate.                   *)
(***************************************************************************)

\* What every path leaves in the record: this sample becomes the last one.
Sampled(p, measurement, now) ==
    [p EXCEPT !.last_meas = measurement, !.last_us = now,
              !.initialized = TRUE]

\* The first sample, or one after a pause or a clock anomaly: no output.
NoBaseline(p, now) ==
    ~p.initialized \/ now - p.last_us <= 0 \/ now - p.last_us > Second

\* The tentative integral, clamped to the output envelope.
Integral(p, error, dt) ==
    clampf(p.i_term + p.ki * error * dt, p.out_min, p.out_max)

\* The output before saturation.
RawOutput(p, error, measurement, dt) ==
    p.kp * error + Integral(p, error, dt)
      - (p.kd * (measurement - p.last_meas)) \div dt

\* Saturation in the code's order (out_max is tested first).
Saturated(p, raw) ==
    IF raw > p.out_max THEN p.out_max
    ELSE IF raw < p.out_min THEN p.out_min ELSE raw

\* Conditional anti-windup: on a rail, the integral is kept only if it unwinds.
Commits(p, raw, error) ==
    \/ raw > p.out_max /\ error < 0
    \/ raw <= p.out_max /\ raw < p.out_min /\ error > 0
    \/ raw <= p.out_max /\ raw >= p.out_min

\* Mutant: a floor without the test for a stall.
FloorAlways(p, out, setpoint, measurement) ==
    IF p.min_drive > 0 /\ fabsf(out) < p.min_drive
    THEN copysignf(p.min_drive, setpoint) ELSE out

\* The stiction floor: only for a stalled wheel, with the sign of the output.
StictionFloor(p, out, setpoint, measurement) ==
    IF /\ p.min_drive > 0
       /\ 2 * fabsf(measurement) < fabsf(setpoint)
       /\ fabsf(out) < p.min_drive
    THEN copysignf(p.min_drive, IF out # 0 THEN out ELSE setpoint)
    ELSE out

\* The regulator proper, reached with a baseline and a setpoint to track.
Track(p, setpoint, measurement, now) ==
    LET dt    == now - p.last_us
        error == setpoint - measurement
        raw   == RawOutput(p, error, measurement, dt)
    IN  [pid |-> [Sampled(p, measurement, now) EXCEPT
                    !.i_term = IF Commits(p, raw, error)
                               THEN Integral(p, error, dt) ELSE p.i_term],
         out |-> StictionFloor(p, Saturated(p, raw), setpoint, measurement)]

\* Mutants: the commanded stop tracked like any setpoint, and taken without
\* dropping the integral.
ComputeWithoutStop(p, setpoint, measurement, now) ==
    IF NoBaseline(p, now) THEN [pid |-> Sampled(p, measurement, now), out |-> 0]
    ELSE Track(p, setpoint, measurement, now)

ComputeKeepingIntegral(p, setpoint, measurement, now) ==
    IF NoBaseline(p, now) \/ setpoint = 0
    THEN [pid |-> Sampled(p, measurement, now), out |-> 0]
    ELSE Track(p, setpoint, measurement, now)

\* The record pid_compute leaves and the output it returns.
pid_compute(p, setpoint, measurement, now) ==
    CASE NoBaseline(p, now) ->
            [pid |-> Sampled(p, measurement, now), out |-> 0]
      [] ~NoBaseline(p, now) /\ setpoint = 0 ->
            [pid |-> [Sampled(p, measurement, now) EXCEPT !.i_term = 0],
             out |-> 0]
      [] OTHER -> Track(p, setpoint, measurement, now)
=============================================================================
