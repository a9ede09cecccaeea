--------------------------- MODULE DeadManSwitch ---------------------------
(***************************************************************************)
(* The abstract contract of a driven vehicle: its motors run only on the   *)
(* authority of a command, the authority expires Bound after the command   *)
(* was issued, and an older command never replaces a newer one.  Nothing   *)
(* here knows of loops, queues or regulators.  The pose display keeps the  *)
(* same contract: a pose is its command, to show "H" is to drive           *)
(* (Display_proofs).                                                       *)
(***************************************************************************)
EXTENDS Naturals

CONSTANT Bound      \* a natural: how long a command may keep the motors on

VARIABLES
    clock,      \* the present
    fed,        \* when the command in force was issued; 0: there is none
    driving     \* some motor runs

avars == <<clock, fed, driving>>

\* At time t the command issued at f is still an authority to drive.
Authorised(t, f) == f # 0 /\ t - f <= Bound

AInit ==
    /\ clock \in Nat \ {0}
    /\ fed = 0
    /\ driving = FALSE

\* Time passes while the motors stand still or their command is in force.
Pass ==
    /\ clock' = clock + 1
    /\ driving => Authorised(clock + 1, fed)
    /\ UNCHANGED <<fed, driving>>

\* The controller adopts a command issued since the last one, or none, and
\* starts, keeps running or stops the motors.
Act ==
    /\ fed' \in fed..clock
    /\ driving' \in BOOLEAN
    /\ driving' => Authorised(clock, fed')
    /\ UNCHANGED clock

ANext == Pass \/ Act

ASpec == AInit /\ [][ANext]_avars
=============================================================================
