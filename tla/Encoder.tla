------------------------------ MODULE Encoder ------------------------------
(***************************************************************************)
(* encoder.c: one pulse-counter unit per wheel, set up by setup_unit for   *)
(* half-quadrature decoding, whose hardware count is folded into a wide    *)
(* one at the two watch points.  A wheel turns in quarter periods of its   *)
(* encoder; channel A is the edge input, channel B the level input.        *)
(***************************************************************************)
EXTENDS Kinematics

CONSTANTS
    HighLimit,  \* PCNT_HIGH_LIMIT; PCNT_LOW_LIMIT is its negative
    Inverted    \* the wheels built with CONFIG_UGV_ENCODER_x_INVERT, whose
                \* encoders are mounted the other way round

ASSUME EncoderAssumption ==
    /\ HighLimit \in Nat \ {0}
    /\ Inverted \subseteq Side

VARIABLES
    pos,        \* history: how far a wheel has turned forward
    unit        \* the wheel's PCNT unit: hardware count and accumulated count

\* setup_unit: pcnt_unit_clear_count.
EncoderInit ==
    /\ pos = [s \in Side |-> 0]
    /\ unit = [s \in Side |-> [count |-> 0, accum |-> 0]]

\* The two channels at a position of the encoder's shaft.
A(p) == p % 4 \in {1, 2}
B(p) == p % 4 \in {2, 3}
Shaft(s, p) == IF s \in Inverted THEN -p ELSE p

\* setup_unit: rising edges of A DECREASE and falling ones INCREASE the count
\* while B is high (KEEP), the other way round while it is low (INVERSE).
Decoded(p, q) ==
    LET edge == IF A(q) THEN -1 ELSE 1
    IN  IF A(p) = A(q) THEN 0 ELSE IF B(q) THEN edge ELSE -edge

\* Mutant: setup_unit adds the high watch point only.
HighOnly == {HighLimit}

\* setup_unit: pcnt_unit_add_watch_point.
WatchPoints == {HighLimit, -HighLimit}

\* The unit starts again at either limit; a watch point there accumulates.
Counted(u, n) ==
    LET c == u.count + n
    IN  IF c \notin {HighLimit, -HighLimit} THEN [u EXCEPT !.count = c]
        ELSE [count |-> 0,
              accum |-> u.accum + IF c \in WatchPoints THEN c ELSE 0]

\* Each wheel turns by turn[s] quarter periods (-1, 0 or 1).
WheelsTurn(turn) ==
    /\ pos' = [s \in Side |-> pos[s] + turn[s]]
    /\ unit' = [s \in Side |->
           Counted(unit[s], Decoded(Shaft(s, pos[s]), Shaft(s, pos'[s])))]

\* encoder_left_ticks and encoder_right_ticks.
encoder_ticks(s) ==
    LET c == unit[s].count + unit[s].accum
    IN  IF s \in Inverted THEN -c ELSE c

\* A tick is half a period, and no wheel loses or gains one in any sequence
\* of turns, across the limits of the counter and in either mounting.
TicksFollowWheels ==
    \A s \in Side : fabsf(2 * encoder_ticks(s) - pos[s]) <= 1
=============================================================================
