----------------------------- MODULE Telemetry -----------------------------
(***************************************************************************)
(* How wheel and battery telemetry is paced: control_task pushes a         *)
(* snapshot every telem_div passes into a one-slot queue, telemetry_task   *)
(* waits for it with a timeout of its own period, publishes, and sends the *)
(* battery packet every batt_div turns of its loop, however those turns    *)
(* came about.  Time is counted in ticks; the control loop is punctual     *)
(* here (ControlTask has its jitter).                                      *)
(***************************************************************************)
EXTENDS Naturals

CONSTANTS
    Rates,          \* the build's rates: CONFIG_UGV_CONTROL_HZ,
                    \* CONFIG_UGV_TELEMETRY_HZ and CONFIG_UGV_BATTERY_HZ
    Ticks,          \* ticks per second
    WorkMax,        \* bound on the time one turn's publishing takes
    MaxTime         \* bound of the model: the last value of the clock

ASSUME TelemetryAssumption ==
    /\ Rates \subseteq [control: 1..Ticks, telemetry: 1..Ticks, battery: 1..Ticks]
    /\ Ticks \in Nat
    /\ WorkMax \in Nat
    /\ MaxTime \in Nat \ {0}

None == 0       \* an empty queue: the clock is never 0 once a task runs

VARIABLES
    rate,           \* the rates of this build
    now,
    ctl_next,       \* the control loop's next deadline
    loop_count,     \* control_task's, modulo telem_div
    snapQ,          \* s_snapshot_q: None or the time of the snapshot
    pc,             \* telemetry_task: waiting, working, or halted by a fault
    until,          \* waiting: when xQueueReceive gives up; working: when the
                    \* turn ends at the latest
    tick,           \* telemetry_task's, modulo batt_div
    wheel,          \* the last wheel packet: seq and time of its snapshot
    batt_at,        \* when the last battery packet was sent
    pushed,         \* history: the last snapshot pushed
    overwritten     \* history: snapshots nobody received

vars == <<rate, now, ctl_next, loop_count, snapQ, pc, until, tick, wheel,
          batt_at, pushed, overwritten>>

period(hz) == Ticks \div hz
\* Mutant: the division rounds down.
telem_div_truncated == rate.control \div rate.telemetry
telem_div == (rate.control + rate.telemetry \div 2) \div rate.telemetry
batt_div == (rate.telemetry + rate.battery \div 2) \div rate.battery

Init ==
    /\ rate \in Rates
    /\ now = 1
    /\ ctl_next = 1 + period(rate.control)
    /\ loop_count = 0
    /\ snapQ = None
    /\ pc = "waiting"
    /\ until = 1 + period(rate.telemetry)
    /\ tick = 0
    /\ wheel = [seq |-> 0, t |-> None]
    /\ batt_at = 1
    /\ pushed = None
    /\ overwritten = 0

-----------------------------------------------------------------------------
\* The end of a pass of control_task.  loop_count++ % telem_div with a zero
\* divisor raises an exception on this processor.
ControlPass ==
    /\ pc # "halted"
    /\ now = ctl_next
    /\ ctl_next' = ctl_next + period(rate.control)
    /\ IF telem_div = 0
       THEN /\ pc' = "halted"
            /\ UNCHANGED <<loop_count, snapQ, pushed, overwritten>>
       ELSE /\ loop_count' = (loop_count + 1) % telem_div
            /\ IF loop_count = 0
               THEN /\ snapQ' = now
                    /\ pushed' = now
                    /\ overwritten' = IF snapQ = None THEN overwritten
                                      ELSE overwritten + 1
               ELSE UNCHANGED <<snapQ, pushed, overwritten>>
            /\ UNCHANGED pc
    /\ UNCHANGED <<rate, now, until, tick, wheel, batt_at>>

\* Mutants: the counter is not reduced; the turn sleeps its period as well.
BatteryUnreduced ==
    /\ batt_at' = IF tick = 0 THEN now ELSE batt_at
    /\ tick' = tick + 1
    /\ pc' = "working"
    /\ until' = now + WorkMax

BatteryThenSleep ==
    IF batt_div = 0
    THEN /\ pc' = "halted"
         /\ UNCHANGED <<until, tick, batt_at>>
    ELSE /\ batt_at' = IF tick = 0 THEN now ELSE batt_at
         /\ tick' = (tick + 1) % batt_div
         /\ pc' = "working"
         /\ until' = now + WorkMax + period(rate.telemetry)

\* The battery half of a turn, with its own division.
BatteryHalf ==
    IF batt_div = 0
    THEN /\ pc' = "halted"
         /\ UNCHANGED <<until, tick, batt_at>>
    ELSE /\ batt_at' = IF tick = 0 THEN now ELSE batt_at
         /\ tick' = (tick + 1) % batt_div
         /\ pc' = "working"
         /\ until' = now + WorkMax

\* Mutant: the queue is peeked at.
Peeked ==
    /\ pc = "waiting"
    /\ snapQ # None
    /\ wheel' = [seq |-> wheel.seq + 1, t |-> snapQ]
    /\ BatteryHalf
    /\ UNCHANGED <<rate, now, ctl_next, loop_count, snapQ, pushed, overwritten>>

\* xQueueReceive returns a snapshot.
Received ==
    /\ pc = "waiting"
    /\ snapQ # None
    /\ snapQ' = None
    /\ wheel' = [seq |-> wheel.seq + 1, t |-> snapQ]
    /\ BatteryHalf
    /\ UNCHANGED <<rate, now, ctl_next, loop_count, pushed, overwritten>>

\* Mutant: a turn without a snapshot ends at once.
TimedOutContinues ==
    /\ pc = "waiting"
    /\ snapQ = None
    /\ now = until
    /\ until' = now + period(rate.telemetry)
    /\ UNCHANGED <<rate, now, ctl_next, loop_count, snapQ, pc, tick, wheel,
                   batt_at, pushed, overwritten>>

\* xQueueReceive gives up: the turn goes on without a wheel packet.
TimedOut ==
    /\ pc = "waiting"
    /\ snapQ = None
    /\ now = until
    /\ BatteryHalf
    /\ UNCHANGED <<rate, now, ctl_next, loop_count, snapQ, wheel, pushed, overwritten>>

\* The turn's publishing is done and the next wait begins.
TurnEnds ==
    /\ pc = "working"
    /\ pc' = "waiting"
    /\ until' = now + period(rate.telemetry)
    /\ UNCHANGED <<rate, now, ctl_next, loop_count, snapQ, tick, wheel, batt_at,
                   pushed, overwritten>>

\* Time passes up to the next deadline; a snapshot in the queue of a waiting
\* task is received at once.
Advance ==
    /\ pc # "halted"
    /\ now < MaxTime
    /\ now < ctl_next
    /\ now < until
    /\ ~(pc = "waiting" /\ snapQ # None)
    /\ now' = now + 1
    /\ UNCHANGED <<rate, ctl_next, loop_count, snapQ, pc, until, tick, wheel,
                   batt_at, pushed, overwritten>>

Next == ControlPass \/ Received \/ TimedOut \/ TurnEnds \/ Advance

Spec == Init /\ [][Next]_vars

-----------------------------------------------------------------------------
TypeOK ==
    /\ rate \in Rates
    /\ now \in 1..MaxTime
    /\ ctl_next \in Nat
    /\ telem_div > 0 => loop_count \in 0..(telem_div - 1)
    /\ snapQ \in 0..now
    /\ pc \in {"waiting", "working", "halted"}
    /\ until \in Nat
    /\ batt_div > 0 => tick \in 0..(batt_div - 1)
    /\ wheel \in [seq: Nat, t: 0..now]
    /\ batt_at \in 1..now
    /\ pushed \in 0..now
    /\ overwritten \in Nat

(***************************************************************************)
(* app_main.c, on the snapshot queue: every wheel packet carries the       *)
(* newest snapshot there is, and the snapshots published are published     *)
(* once and in order, so that seq and the ticks grow together.             *)
(***************************************************************************)
NewestInOrder ==
    [][ wheel' # wheel => wheel'.t = pushed /\ wheel'.t > wheel.t ]_vars

(***************************************************************************)
(* seq has no gaps, so a host cannot tell when a snapshot was overwritten. *)
(* None is, as long as a turn's publishing is shorter than the distance of *)
(* two snapshots, whatever the rounding of the rates does to it.           *)
(***************************************************************************)
NoSilentLoss ==
    WorkMax < telem_div * period(rate.control) => overwritten = 0

(***************************************************************************)
(* The battery packet keeps coming, snapshots or not: never later than     *)
(* batt_div turns, each no longer than the wait and the work it may take.  *)
(***************************************************************************)
BatteryGap ==
    pc # "halted" /\ batt_div > 0 =>
        now - batt_at <= batt_div * (period(rate.telemetry) + WorkMax)

(***************************************************************************)
(* Kconfig.projbuild offers every CONTROL_HZ of 20..500 with every         *)
(* TELEMETRY_HZ of 1..200 and BATTERY_HZ of 1..50.  The loops run with     *)
(* every combination but those that ask for more than two packets per pass *)
(* of the loop that feeds them.                                            *)
(***************************************************************************)
RatesRun ==
    pc = "halted" => \/ rate.telemetry > 2 * rate.control
                     \/ rate.battery > 2 * rate.telemetry
=============================================================================
