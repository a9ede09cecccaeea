------------------------------- MODULE Motor -------------------------------
(***************************************************************************)
(* motor.c: the two H-bridge channels.  A channel is the level of its two  *)
(* direction inputs and its PWM duty.                                      *)
(***************************************************************************)
EXTENDS FixedPoint

PWM_MAX == 255

Channel == [in1: {0, 1}, in2: {0, 1}, duty: 0..PWM_MAX]

\* The (int16_t) conversion control_task applies to lrintf(out).
int16(x) == ((x + 32768) % 65536) - 32768

clamp_pwm(v) == clampf(v, -PWM_MAX, PWM_MAX)

set_channel(invert, pwm) ==
    LET p == IF invert THEN -pwm ELSE pwm
    IN  [in1 |-> IF p < 0 THEN 1 ELSE 0,
         in2 |-> IF p > 0 THEN 1 ELSE 0,
         duty |-> fabsf(p)]

\* motor_set_left_pwm and motor_set_right_pwm: the argument is an int16_t.
motor_set_pwm(invert, pwm) == set_channel(invert, clamp_pwm(int16(pwm)))

\* A channel after motor_init or motor_stop_all.
Stopped == [in1 |-> 0, in2 |-> 0, duty |-> 0]
=============================================================================
