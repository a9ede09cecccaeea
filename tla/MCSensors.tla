----------------------------- MODULE MCSensors -----------------------------
(***************************************************************************)
(* Sensors with angles in eighths of a turn and the sines truncated to -1, *)
(* 0 and 1 (the position is in quarters of a tick straight ahead).         *)
(***************************************************************************)
EXTENDS Sensors

Truncated == <<1, 0, 0, 0, -1, 0, 0, 0>>
CosTruncated(a) == Truncated[(a % 8) + 1]
SinTruncated(a) == Truncated[((a + 6) % 8) + 1]

\* Both limits of the right unit are reached.
Reach == Wheels(1, 4)
=============================================================================
