---------------------------- MODULE MCTelemetry ----------------------------
(***************************************************************************)
(* Telemetry with twelve ticks to the second.                              *)
(***************************************************************************)
EXTENDS Telemetry

Build(c, t, b) == [control |-> c, telemetry |-> t, battery |-> b]

\* Divisions that are exact, that round up and down and that just yield one
\* (twice the rate of the loop that feeds it), a snapshot interval shorter and
\* longer than the receive timeout.
SoundRates == {Build(12, 4, 2), Build(12, 5, 2), Build(6, 4, 4), Build(4, 4, 1),
               Build(2, 4, 2), Build(6, 3, 6)}

\* A telemetry rate of more than twice the control rate, and a battery rate
\* of more than twice the telemetry rate; Kconfig's ranges allow ratios of
\* ten (200 to 20) and fifty (50 to 1).
OfferedRates == SoundRates \cup {Build(2, 12, 4), Build(12, 1, 4)}
=============================================================================
