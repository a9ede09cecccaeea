-------------------------- MODULE Telemetry_proofs --------------------------
(***************************************************************************)
(* Proofs about Telemetry, for every set of rates Kconfig may offer: the   *)
(* order of the wheel packets, the loss of snapshots, the distance of the  *)
(* battery packets, and which rates halt the loops.                        *)
(***************************************************************************)
EXTENDS Telemetry, Integers, TLAPS

C == period(rate.control)
T == period(rate.telemetry)

\* The clocks of the two loops: time does not pass beyond their deadlines.
ClockInv ==
    /\ pc # "halted" => now <= ctl_next /\ now <= until
    /\ pc = "working" => until <= now + WorkMax

\* The snapshot in the queue is the newest, and newer than the last packet.
OrderInv ==
    /\ pushed + C <= ctl_next
    /\ wheel.t <= pushed
    /\ snapQ # None => snapQ = pushed /\ wheel.t < snapQ

\* Passes of the control loop to the next snapshot, after the coming one.
PassesLeft == IF loop_count = 0 THEN 0 ELSE telem_div - loop_count

\* Snapshots come at equal distances, and one is in the queue no longer than
\* a turn takes.
LossInv ==
    WorkMax < telem_div * C =>
        /\ overwritten = 0
        /\ pc # "halted" =>
              /\ IF pushed = None THEN loop_count = 0
                 ELSE pushed + telem_div * C = ctl_next + PassesLeft * C
              /\ snapQ # None => /\ now <= snapQ + WorkMax
                                 /\ pc = "working" => until <= snapQ + WorkMax

\* Turns of telemetry_task since the last battery packet, this one included.
Turns == IF tick = 0 THEN batt_div ELSE tick

BatteryInv ==
    pc # "halted" /\ batt_div > 0 =>
        until <= batt_at + IF pc = "waiting" THEN Turns * (T + WorkMax)
                           ELSE (Turns - 1) * (T + WorkMax) + WorkMax

HaltInv == pc = "halted" => telem_div = 0 \/ batt_div = 0

TelemetryInv ==
    TypeOK /\ ClockInv /\ OrderInv /\ LossInv /\ BatteryInv /\ HaltInv

-----------------------------------------------------------------------------
(***************************************************************************)
(* Arithmetic of the divisors and counters.                                *)
(***************************************************************************)

\* Every rate divides the second into periods of at least a tick.
LEMMA PeriodPositive ==
    ASSUME NEW hz \in 1..Ticks PROVE period(hz) \in Nat \ {0}
<1>1. Ticks \in Nat /\ hz \in Nat \ {0} /\ hz <= Ticks
  BY TelemetryAssumption
<1>2. ASSUME NEW a \in Nat, NEW b \in Nat \ {0}, b <= a PROVE a \div b \in Nat \ {0}
  <2>1. a \div b >= 1
    BY <1>2
  <2>. QED
    BY <1>2, <2>1
<1>. QED
  BY <1>1, <1>2 DEF period

\* A rounded division yields zero just for less than a half.
LEMMA RoundedDivision ==
    ASSUME NEW a \in Nat \ {0}, NEW b \in Nat \ {0}
    PROVE  /\ (a + b \div 2) \div b \in Nat
           /\ (a + b \div 2) \div b = 0 => b > 2 * a
<1> DEFINE h == b \div 2
<1>1. h \in Nat /\ b <= 2 * h + 1
  OBVIOUS
<1> HIDE DEF h
<1> DEFINE q == (a + h) \div b
<1>2. q \in Nat /\ a + h < b * q + b
  BY <1>1
<1>3. q = 0 => b > 2 * a
  BY <1>1, <1>2
<1>. QED
  BY <1>2, <1>3 DEF h

\* The rates of a build and its divisors.
LEMMA Divisors ==
    ASSUME rate \in Rates
    PROVE  /\ rate.control \in Nat \ {0} /\ rate.telemetry \in Nat \ {0}
           /\ rate.battery \in Nat \ {0}
           /\ C \in Nat \ {0} /\ T \in Nat \ {0}
           /\ telem_div \in Nat /\ batt_div \in Nat
           /\ telem_div = 0 => rate.telemetry > 2 * rate.control
           /\ batt_div = 0 => rate.battery > 2 * rate.telemetry
<1>1. /\ rate.control \in 1..Ticks /\ rate.telemetry \in 1..Ticks
      /\ rate.battery \in 1..Ticks
  BY TelemetryAssumption
<1>2. C \in Nat \ {0} /\ T \in Nat \ {0}
  BY <1>1, PeriodPositive DEF C, T
<1>3. /\ rate.control \in Nat \ {0} /\ rate.telemetry \in Nat \ {0}
      /\ rate.battery \in Nat \ {0}
  BY <1>1, TelemetryAssumption
<1>. QED
  BY <1>2, <1>3, RoundedDivision DEF telem_div, batt_div

\* A counter that is reduced modulo its divisor.
LEMMA Counter ==
    ASSUME NEW n \in Nat \ {0}, NEW k \in 0..(n - 1)
    PROVE  (k + 1) % n = IF k + 1 = n THEN 0 ELSE k + 1
<1>1. n % n = 0
  OBVIOUS
<1>2. k + 1 < n => (k + 1) % n = k + 1
  OBVIOUS
<1>. QED
  BY <1>1, <1>2

LEMMA Distributes ==
    ASSUME NEW k \in Int, NEW m \in Int
    PROVE  (k + 1) * m = k * m + m /\ k * m \in Int /\ 0 * m = 0 /\ 1 * m = m
OBVIOUS

LEMMA Monotone ==
    ASSUME NEW k \in Nat, NEW n \in Nat, k <= n, NEW m \in Nat
    PROVE  k * m <= n * m
OBVIOUS

\* The build does not change, nor do its divisors.
LEMMA BuildFixed ==
    UNCHANGED rate => UNCHANGED <<C, T, telem_div, batt_div>>
BY DEF C, T, telem_div, batt_div, period

LEMMA TelemetryInit == Init => TelemetryInv
<1> SUFFICES ASSUME Init PROVE TelemetryInv
  OBVIOUS
<1> USE TelemetryAssumption DEF Init, None
<1>1. /\ C \in Nat \ {0} /\ T \in Nat \ {0}
      /\ telem_div \in Nat /\ batt_div \in Nat
  BY Divisors
<1>2. ctl_next = 1 + C /\ until = 1 + T
  BY DEF C, T
<1>3. TypeOK
  BY <1>1, <1>2 DEF TypeOK
<1>4. ClockInv /\ OrderInv /\ HaltInv
  BY <1>1, <1>2 DEF ClockInv, OrderInv, HaltInv
<1>5. LossInv
  BY DEF LossInv
<1>6. BatteryInv
  <2> SUFFICES ASSUME batt_div > 0 PROVE until <= 1 + batt_div * (T + WorkMax)
    BY DEF BatteryInv, Turns
  <2>1. 1 * (T + WorkMax) <= batt_div * (T + WorkMax)
    BY <1>1, Monotone
  <2>. QED
    BY <1>1, <1>2, <2>1
<1>. QED
  BY <1>3, <1>4, <1>5, <1>6 DEF TelemetryInv

-----------------------------------------------------------------------------
\* A pass of the control loop, and the snapshot it may push.
LEMMA ControlPassStep == TelemetryInv /\ ControlPass => TelemetryInv'
<1> SUFFICES ASSUME TelemetryInv, ControlPass PROVE TelemetryInv'
  OBVIOUS
<1> USE TelemetryAssumption DEF TelemetryInv, None
<1>1. /\ C \in Nat \ {0} /\ T \in Nat \ {0} /\ telem_div \in Nat /\ batt_div \in Nat
      /\ UNCHANGED <<C, T, telem_div, batt_div>>
  BY Divisors, BuildFixed DEF TypeOK, ControlPass
<1>2. /\ now = ctl_next /\ ctl_next' = ctl_next + C /\ pc # "halted"
      /\ UNCHANGED <<rate, now, until, tick, wheel, batt_at>>
  BY DEF ControlPass, C
<1>3. CASE telem_div = 0
  <2>1. pc' = "halted" /\ UNCHANGED <<loop_count, snapQ, pushed, overwritten>>
    BY <1>3 DEF ControlPass
  <2>2. TypeOK'
    BY <1>1, <1>2, <1>3, <2>1 DEF TypeOK
  <2>3. OrderInv'
    BY <1>1, <1>2, <2>1 DEF TypeOK, OrderInv
  <2>4. ClockInv' /\ LossInv' /\ BatteryInv' /\ HaltInv'
    BY <1>1, <1>2, <1>3, <2>1 DEF ClockInv, LossInv, BatteryInv, HaltInv
  <2>. QED
    BY <2>2, <2>3, <2>4
<1>4. CASE telem_div # 0
  <2>1. /\ UNCHANGED pc
        /\ loop_count \in 0..(telem_div - 1)
        /\ loop_count' = IF loop_count + 1 = telem_div THEN 0 ELSE loop_count + 1
    BY <1>1, <1>4, Counter DEF ControlPass, TypeOK
  <2>2. IF loop_count = 0
        THEN /\ snapQ' = now /\ pushed' = now
             /\ overwritten' = IF snapQ = 0 THEN overwritten ELSE overwritten + 1
        ELSE UNCHANGED <<snapQ, pushed, overwritten>>
    BY <1>4 DEF ControlPass
  <2>3. TypeOK'
    BY <1>1, <1>2, <2>1, <2>2 DEF TypeOK
  <2>4. ClockInv' /\ HaltInv'
    BY <1>1, <1>2, <2>1 DEF TypeOK, ClockInv, HaltInv
  <2>5. OrderInv'
    BY <1>1, <1>2, <2>2 DEF TypeOK, OrderInv
  <2>6. BatteryInv'
    BY <1>1, <1>2, <2>1 DEF BatteryInv, Turns
  <2>7. LossInv'
    <3> SUFFICES ASSUME WorkMax < telem_div * C
                 PROVE  /\ overwritten' = 0
                        /\ IF pushed' = 0 THEN loop_count' = 0
                           ELSE pushed' + telem_div * C = ctl_next' + PassesLeft' * C
                        /\ snapQ' # 0 => /\ now <= snapQ' + WorkMax
                                         /\ pc = "working" => until <= snapQ' + WorkMax
      BY <1>1, <1>2, <2>1 DEF LossInv
    <3>1. telem_div * C \in Nat /\ PassesLeft \in Nat /\ PassesLeft' \in Nat
      BY <1>1, <2>1 DEF PassesLeft
    <3>2. CASE loop_count = 0
      <4>1. snapQ = 0
        <5>1. ASSUME snapQ # 0 PROVE pushed + telem_div * C = ctl_next
          BY <1>1, <1>2, <3>2, <5>1, Distributes DEF TypeOK, OrderInv, LossInv, PassesLeft
        <5>. QED
          BY <1>1, <1>2, <3>1, <5>1 DEF TypeOK, OrderInv, LossInv
      <4>2. PassesLeft' = telem_div - 1
        BY <1>1, <1>4, <2>1, <3>2 DEF PassesLeft
      <4>3. telem_div * C = (telem_div - 1) * C + C
        BY <1>1, Distributes
      <4>4. now + telem_div * C = ctl_next' + PassesLeft' * C
        BY <1>1, <1>2, <3>1, <4>2, <4>3, Distributes DEF TypeOK
      <4>. QED
        BY <1>2, <2>2, <3>2, <4>1, <4>4 DEF TypeOK, ClockInv, LossInv
    <3>3. CASE loop_count # 0
      <4>1. PassesLeft = PassesLeft' + 1
        BY <1>1, <2>1, <3>3 DEF PassesLeft
      <4>2. PassesLeft * C = PassesLeft' * C + C /\ PassesLeft' * C \in Int
        BY <1>1, <3>1, <4>1, Distributes
      <4>3. ctl_next + PassesLeft * C = ctl_next' + PassesLeft' * C
        BY <1>1, <1>2, <4>2 DEF TypeOK
      <4>. QED
        BY <1>2, <2>2, <3>3, <4>3 DEF LossInv
    <3>. QED
      BY <3>2, <3>3
  <2>. QED
    BY <2>3, <2>4, <2>5, <2>6, <2>7
<1>. QED
  BY <1>3, <1>4

\* The battery half of a turn, whether or not a snapshot came.
LEMMA TurnStep ==
    ASSUME TelemetryInv, pc = "waiting", BatteryHalf, UNCHANGED <<rate, now, ctl_next>>
    PROVE  /\ ClockInv' /\ BatteryInv' /\ HaltInv'
           /\ until' \in Nat /\ batt_at' \in 1..now
           /\ batt_div > 0 => tick' \in 0..(batt_div - 1)
           /\ pc' \in {"working", "halted"}
           /\ pc' = "working" => until' = now + WorkMax
<1> USE TelemetryAssumption DEF TelemetryInv
<1>1. /\ C \in Nat \ {0} /\ T \in Nat \ {0} /\ telem_div \in Nat /\ batt_div \in Nat
      /\ UNCHANGED <<C, T, telem_div, batt_div>>
  BY Divisors, BuildFixed DEF TypeOK
<1>2. CASE batt_div = 0
  BY <1>1, <1>2 DEF BatteryHalf, TypeOK, ClockInv, BatteryInv, HaltInv
<1>3. CASE batt_div # 0
  <2>1. /\ batt_at' = IF tick = 0 THEN now ELSE batt_at
        /\ tick' = (tick + 1) % batt_div
        /\ pc' = "working"
        /\ until' = now + WorkMax
    BY <1>3 DEF BatteryHalf
  <2>2. /\ tick \in 0..(batt_div - 1)
        /\ tick' = IF tick + 1 = batt_div THEN 0 ELSE tick + 1
    BY <1>1, <1>3, <2>1, Counter DEF TypeOK
  <2>3. Turns' - 1 = tick
    BY <1>1, <2>2 DEF Turns
  <2>4. BatteryInv'
    <3> SUFFICES until' <= batt_at' + (tick * (T + WorkMax) + WorkMax)
      <4>1. (Turns' - 1) * (T' + WorkMax) = tick * (T + WorkMax) /\ pc' # "waiting"
        BY <1>1, <2>1, <2>3
      <4>. QED
        BY <4>1 DEF BatteryInv
    <3>1. CASE tick = 0
      <4>1. tick * (T + WorkMax) = 0
        BY <1>1, <3>1, Distributes
      <4>. QED
        BY <2>1, <3>1, <4>1 DEF TypeOK
    <3>2. CASE tick # 0
      <4>1. now <= batt_at + tick * (T + WorkMax)
        BY <1>1, <1>3, <3>2 DEF TypeOK, ClockInv, BatteryInv, Turns
      <4>. QED
        BY <1>1, <2>1, <2>2, <3>2, <4>1 DEF TypeOK
    <3>. QED
      BY <3>1, <3>2
  <2>. QED
    BY <1>1, <2>1, <2>2, <2>4 DEF TypeOK, ClockInv, HaltInv
<1>. QED
  BY <1>2, <1>3

LEMMA ReceivedStep == TelemetryInv /\ Received => TelemetryInv'
<1> SUFFICES ASSUME TelemetryInv, Received PROVE TelemetryInv'
  OBVIOUS
<1> USE TelemetryAssumption DEF TelemetryInv, None
<1>1. /\ UNCHANGED <<rate, now, ctl_next, loop_count, pushed, overwritten>>
      /\ snapQ # 0 /\ snapQ' = 0 /\ wheel' = [seq |-> wheel.seq + 1, t |-> snapQ]
      /\ pc = "waiting"
  BY DEF Received
<1>2. UNCHANGED <<C, T, telem_div, batt_div>>
  BY <1>1, BuildFixed
<1>3. /\ ClockInv' /\ BatteryInv' /\ HaltInv'
      /\ until' \in Nat /\ batt_at' \in 1..now
      /\ batt_div > 0 => tick' \in 0..(batt_div - 1)
      /\ pc' \in {"working", "halted"}
  BY <1>1, TurnStep DEF Received
<1>4. TypeOK'
  BY <1>1, <1>2, <1>3 DEF TypeOK
<1>5. OrderInv'
  BY <1>1, <1>2 DEF TypeOK, OrderInv
<1>6. LossInv'
  BY <1>1, <1>2 DEF LossInv, PassesLeft
<1>. QED
  BY <1>3, <1>4, <1>5, <1>6

LEMMA TimedOutStep == TelemetryInv /\ TimedOut => TelemetryInv'
<1> SUFFICES ASSUME TelemetryInv, TimedOut PROVE TelemetryInv'
  OBVIOUS
<1> USE TelemetryAssumption DEF TelemetryInv, None
<1>1. /\ UNCHANGED <<rate, now, ctl_next, loop_count, snapQ, wheel, pushed, overwritten>>
      /\ snapQ = 0 /\ pc = "waiting"
  BY DEF TimedOut
<1>2. UNCHANGED <<C, T, telem_div, batt_div>>
  BY <1>1, BuildFixed
<1>3. /\ ClockInv' /\ BatteryInv' /\ HaltInv'
      /\ until' \in Nat /\ batt_at' \in 1..now
      /\ batt_div > 0 => tick' \in 0..(batt_div - 1)
      /\ pc' \in {"working", "halted"}
  BY <1>1, TurnStep DEF TimedOut
<1>4. TypeOK'
  BY <1>1, <1>2, <1>3 DEF TypeOK
<1>5. OrderInv' /\ LossInv'
  BY <1>1, <1>2 DEF OrderInv, LossInv, PassesLeft
<1>. QED
  BY <1>3, <1>4, <1>5

LEMMA TurnEndsStep == TelemetryInv /\ TurnEnds => TelemetryInv'
<1> SUFFICES ASSUME TelemetryInv, TurnEnds PROVE TelemetryInv'
  OBVIOUS
<1> USE TelemetryAssumption DEF TelemetryInv
<1>1. /\ UNCHANGED <<rate, now, ctl_next, loop_count, snapQ, tick, wheel, batt_at,
                     pushed, overwritten>>
      /\ pc = "working" /\ pc' = "waiting" /\ until' = now + T
  BY DEF TurnEnds, T
<1>2. /\ C \in Nat \ {0} /\ T \in Nat \ {0} /\ telem_div \in Nat /\ batt_div \in Nat
      /\ UNCHANGED <<C, T, telem_div, batt_div>>
  BY <1>1, Divisors, BuildFixed DEF TypeOK
<1>3. TypeOK' /\ ClockInv' /\ HaltInv'
  BY <1>1, <1>2 DEF TypeOK, ClockInv, HaltInv
<1>4. OrderInv' /\ LossInv'
  BY <1>1, <1>2 DEF OrderInv, LossInv, PassesLeft
<1>5. BatteryInv'
  <2> SUFFICES ASSUME batt_div > 0 PROVE until' <= batt_at + Turns * (T + WorkMax)
    BY <1>1, <1>2 DEF BatteryInv, Turns
  <2>1. Turns \in Nat \ {0}
    BY <1>2 DEF TypeOK, Turns
  <2>2. now <= batt_at + (Turns - 1) * (T + WorkMax) + WorkMax
    BY <1>1, <1>2, <2>1 DEF TypeOK, ClockInv, BatteryInv
  <2>3. Turns * (T + WorkMax) = (Turns - 1) * (T + WorkMax) + (T + WorkMax)
    BY <1>2, <2>1, Distributes
  <2>4. (Turns - 1) * (T + WorkMax) \in Int
    BY <1>2, <2>1
  <2>. QED
    BY <1>1, <1>2, <2>2, <2>3, <2>4 DEF TypeOK
<1>. QED
  BY <1>3, <1>4, <1>5

LEMMA AdvanceStep == TelemetryInv /\ Advance => TelemetryInv'
<1> SUFFICES ASSUME TelemetryInv, Advance PROVE TelemetryInv'
  OBVIOUS
<1> USE TelemetryAssumption DEF TelemetryInv, None
<1>1. /\ UNCHANGED <<rate, ctl_next, loop_count, snapQ, pc, until, tick, wheel,
                     batt_at, pushed, overwritten>>
      /\ now' = now + 1 /\ now < MaxTime /\ now < ctl_next /\ now < until
      /\ pc # "waiting" \/ snapQ = 0
  BY DEF Advance
<1>2. UNCHANGED <<C, T, telem_div, batt_div>>
  BY <1>1, BuildFixed
<1>3. TypeOK'
  BY <1>1, <1>2 DEF TypeOK
<1>4. ClockInv' /\ HaltInv' /\ OrderInv'
  BY <1>1, <1>2 DEF TypeOK, ClockInv, HaltInv, OrderInv
<1>5. LossInv'
  BY <1>1, <1>2 DEF TypeOK, LossInv, PassesLeft
<1>6. BatteryInv'
  BY <1>1, <1>2 DEF BatteryInv, Turns
<1>. QED
  BY <1>3, <1>4, <1>5, <1>6

LEMMA TelemetryNext == TelemetryInv /\ [Next]_vars => TelemetryInv'
<1> SUFFICES ASSUME TelemetryInv, UNCHANGED vars PROVE TelemetryInv'
  BY ControlPassStep, ReceivedStep, TimedOutStep, TurnEndsStep, AdvanceStep DEF Next
<1>1. UNCHANGED <<C, T, telem_div, batt_div>>
  BY BuildFixed DEF vars
<1>. QED
  BY <1>1 DEF vars, TelemetryInv, TypeOK, ClockInv, OrderInv, LossInv, PassesLeft,
     BatteryInv, Turns, HaltInv

\* The inductive invariant holds: the two loops' clocks, counters and queue.
THEOREM TelemetryInvariant == Spec => []TelemetryInv
<1>1. Init => TelemetryInv
  BY TelemetryInit
<1>2. TelemetryInv /\ [Next]_vars => TelemetryInv'
  BY TelemetryNext
<1>. QED
  BY <1>1, <1>2, PTL DEF Spec

-----------------------------------------------------------------------------
\* Type correctness: the counters stay below their divisors.
THEOREM TelemetryTypeCorrect == Spec => []TypeOK
<1>1. TelemetryInv => TypeOK
  BY DEF TelemetryInv
<1>. QED
  BY <1>1, TelemetryInvariant, PTL

(***************************************************************************)
(* No snapshot of control_task is overwritten unread while a turn of       *)
(* telemetry_task is shorter than the distance of two snapshots.           *)
(***************************************************************************)
THEOREM NoSilentLossHolds == Spec => []NoSilentLoss
<1>1. TelemetryInv => NoSilentLoss
  BY DEF TelemetryInv, LossInv, NoSilentLoss, C
<1>. QED
  BY <1>1, TelemetryInvariant, PTL

(***************************************************************************)
(* The battery packet comes at least every batt_div turns of the longest   *)
(* kind, whether they end with a snapshot or with a time-out.              *)
(***************************************************************************)
THEOREM BatteryGapHolds == Spec => []BatteryGap
<1>1. TelemetryInv => BatteryGap
  <2> SUFFICES ASSUME TelemetryInv, pc # "halted", batt_div > 0
               PROVE  now - batt_at <= batt_div * (T + WorkMax)
    BY DEF BatteryGap, T
  <2> USE TelemetryAssumption DEF TelemetryInv
  <2>1. T \in Nat \ {0} /\ batt_div \in Nat
    BY Divisors DEF TypeOK
  <2>2. Turns \in Nat \ {0} /\ Turns <= batt_div
    BY <2>1 DEF TypeOK, Turns
  <2>3. /\ Turns * (T + WorkMax) = (Turns - 1) * (T + WorkMax) + (T + WorkMax)
        /\ (Turns - 1) * (T + WorkMax) \in Int
    BY <2>1, <2>2, Distributes
  <2>4. Turns * (T + WorkMax) <= batt_div * (T + WorkMax)
    BY <2>1, <2>2, Monotone
  <2>5. until <= batt_at + Turns * (T + WorkMax)
    BY <2>1, <2>3 DEF TypeOK, BatteryInv
  <2>6. batt_div * (T + WorkMax) \in Int
    BY <2>1
  <2>. QED
    BY <2>1, <2>3, <2>4, <2>5, <2>6 DEF TypeOK, ClockInv
<1>. QED
  BY <1>1, TelemetryInvariant, PTL

(***************************************************************************)
(* Only rates that ask for more than two packets per pass of the loop that *)
(* feeds them make telem_div or batt_div zero, and a division by it fault. *)
(***************************************************************************)
THEOREM RatesRunHolds == Spec => []RatesRun
<1>1. TelemetryInv => RatesRun
  BY Divisors DEF TelemetryInv, HaltInv, TypeOK, RatesRun
<1>. QED
  BY <1>1, TelemetryInvariant, PTL

(***************************************************************************)
(* Every wheel packet carries the newest snapshot, and a newer one than    *)
(* the packet before.                                                      *)
(***************************************************************************)
THEOREM NewestInOrderHolds == Spec => NewestInOrder
<1> DEFINE InOrder == wheel' # wheel => wheel'.t = pushed /\ wheel'.t > wheel.t
<1>1. TelemetryInv /\ [Next]_vars => [InOrder]_vars
  <2> SUFFICES ASSUME TelemetryInv, [Next]_vars, wheel' # wheel
               PROVE  wheel'.t = pushed /\ wheel'.t > wheel.t
    OBVIOUS
  <2>1. Received
    BY DEF Next, vars, ControlPass, TimedOut, TurnEnds, Advance
  <2>. QED
    BY <2>1 DEF Received, TelemetryInv, TypeOK, OrderInv
<1>. QED
  BY <1>1, TelemetryInvariant, PTL DEF Spec, NewestInOrder
=============================================================================
