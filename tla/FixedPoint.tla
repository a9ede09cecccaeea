----------------------------- MODULE FixedPoint -----------------------------
(***************************************************************************)
(* The scalar helpers the firmware's arithmetic is written with.           *)
(*                                                                         *)
(* Every float of the firmware is an integer here: a speed, a gain or a    *)
(* PWM count in a unit of its own, chosen by the instance.  Sums, products *)
(* and comparisons are then exact; the three divisions of the control loop *)
(* round down (Integers!\div), which is the only place where a value can   *)
(* differ from the real one by less than one unit.                         *)
(***************************************************************************)
EXTENDS Integers

fabsf(x) == IF x < 0 THEN -x ELSE x

\* The magnitude of m with the sign of s (0 counts as positive).
copysignf(m, s) == IF s < 0 THEN -fabsf(m) ELSE fabsf(m)

\* Saturation.  The order of the two tests is the code's: it decides the
\* result when lo > hi, which a negative cmd/pid output_clamp produces.
clampf(v, lo, hi) ==
    IF v < lo THEN lo ELSE IF v > hi THEN hi ELSE v
=============================================================================
