------------------------- MODULE ControlTask_proofs -------------------------
(***************************************************************************)
(* Theorems about the control loop, for every period, latency, heartbeat   *)
(* timeout, set of packets and set of encoder readings, and about the two  *)
(* transports in front of it.                                              *)
(***************************************************************************)
EXTENDS CommandPath, FirmwareLemmas

-----------------------------------------------------------------------------
(***************************************************************************)
(* The inductive invariant.                                                *)
(***************************************************************************)

\* Every regulator's limits are symmetric and hold its integral.
LimitsInv == \A s \in Side : Enveloped(pid[s])

\* The loop's own clock: it runs between its deadline and Jitter after it.
ClockInv ==
    /\ now >= 1
    /\ last_us <= now
    /\ up => /\ now <= next_wake + Jitter
             /\ next_wake <= last_us + Period
             /\ last_us + Period <= next_wake + Jitter
    /\ ~up => now <= 1 + BootMax /\ last_us = 0 /\ last_cmd_us = 0

\* The age of a packet in the mailbox and of the one in force.
AgeInv ==
    /\ velQ # NoMsg => /\ 1 <= velQ.at /\ taken <= velQ.at /\ velQ.at <= now
                       /\ last_us <= velQ.at + BootMax
    /\ taken = 0 <=> last_cmd_us = 0
    /\ taken <= last_cmd_us
    /\ last_cmd_us <= last_us
    /\ last_cmd_us <= taken + BootMax + Period + Jitter

\* A pass that found the heartbeat lost left the motors stopped and the
\* regulators without a baseline.
StaleInv ==
    Stale(last_us, last_cmd_us)
      => \A s \in Side : /\ motor[s] = Stopped
                         /\ ~OpenLoop => ~pid[s].initialized

IInv == TypeOK /\ LimitsInv /\ ClockInv /\ AgeInv /\ StaleInv

-----------------------------------------------------------------------------
LEMMA StoppedType == Stopped \in Channel /\ Wheels(Stopped, Stopped) \in [Side -> Channel]
BY DEF Stopped, Channel, PWM_MAX, Wheels

LEMMA WheelsEqual ==
    ASSUME NEW x, NEW s \in Side
    PROVE  Wheels(x, x)[s] = x
BY DEF Wheels

LEMMA TicksType ==
    ASSUME NEW l \in TickDeltas, NEW r \in TickDeltas
    PROVE  Wheels(l, r) \in [Side -> Int]
BY ControlAssumption DEF Wheels

\* The regulator the build starts with.
LEMMA BuildPidFacts ==
    /\ BuildPid \in PidState
    /\ Enveloped(BuildPid)
    /\ ~BuildPid.initialized
    /\ BuildPid.i_term = 0
<1>1. PidDefaults \in PidGains
  BY ControlAssumption
<1>2. /\ PidDefaults.kp \in Int /\ PidDefaults.ki \in Int /\ PidDefaults.kd \in Int
      /\ PidDefaults.clamp \in Int /\ PidDefaults.min_drive \in Int
  BY <1>1 DEF PidGains
<1> QED
  BY <1>2 DEF BuildPid, pid_init, PidState, Enveloped, fabsf

\* Applying a pending cmd/pid packet.
LEMMA TunedFacts ==
    ASSUME TypeOK, NEW p \in PidState, Enveloped(p)
    PROVE  /\ Tuned(p) \in PidState
           /\ Enveloped(Tuned(p))
           /\ Tuned(p).initialized = p.initialized
           /\ Tuned(p).last_us = p.last_us
           /\ (\A c \in PidCmds : c.clamp >= 0) /\ p.i_term = 0
                => Tuned(p).i_term = 0
<1>1. CASE pidQ = NoMsg
  BY <1>1 DEF Tuned
<1>2. CASE pidQ # NoMsg
  <2>1. pidQ \in PidCmds /\ pidQ \in PidGains
    BY <1>2, ControlAssumption DEF TypeOK
  <2>2. /\ pidQ.kp \in Int /\ pidQ.ki \in Int /\ pidQ.kd \in Int
        /\ pidQ.clamp \in Int /\ pidQ.min_drive \in Int
    BY <2>1 DEF PidGains
  <2> DEFINE p1 == pid_set_tunings(p, pidQ.kp, pidQ.ki, pidQ.kd)
             p2 == pid_set_output_limits(p1, -pidQ.clamp, pidQ.clamp)
             p3 == pid_set_min_drive(p2, pidQ.min_drive)
  <2>3. /\ p1 \in PidState /\ p1.initialized = p.initialized
        /\ p1.last_us = p.last_us /\ p1.i_term = p.i_term
    BY <2>2 DEF pid_set_tunings, PidState
  <2> HIDE DEF p1
  <2>4. /\ p2 \in PidState /\ Enveloped(p2)
        /\ p1.i_term = 0 /\ pidQ.clamp >= 0 => p2.i_term = 0
    BY <2>2, <2>3, SetLimitsEnveloped
  <2>5. p2.initialized = p1.initialized /\ p2.last_us = p1.last_us
    BY <2>3 DEF pid_set_output_limits, PidState
  <2> HIDE DEF p2
  <2>6. p3 \in PidState /\ Enveloped(p3) /\ p3.initialized = p2.initialized
    BY <2>2, <2>4 DEF pid_set_min_drive, PidState, Enveloped
  <2>7. p3.last_us = p2.last_us /\ p3.i_term = p2.i_term
    BY <2>4 DEF pid_set_min_drive, PidState
  <2>8. Tuned(p) = IF pidQ.min_drive >= 0 THEN p3 ELSE p2
    BY <1>2 DEF Tuned, p1, p2
  <2> HIDE DEF p3
  <2> QED
    BY <2>1, <2>3, <2>4, <2>5, <2>6, <2>7, <2>8
<1> QED
  BY <1>1, <1>2

\* The open-loop output, within the build's clamp and zero for no setpoint.
LEMMA OpenLoopFacts ==
    ASSUME NEW v \in Int
    PROVE  OpenLoopOut(v) \in Int /\ OpenLoopOut(0) = 0
<1>1. PidDefaults.clamp \in Nat
  <2>1. PidDefaults \in PidGains /\ PidDefaults.clamp >= 0
    BY ControlAssumption
  <2> QED
    BY <2>1 DEF PidGains
<1>2. v * OlScale \in Int /\ 0 * OlScale = 0
  BY ControlAssumption
<1>3. clampf(v * OlScale, -PidDefaults.clamp, PidDefaults.clamp) \in Int
  BY <1>1, <1>2 DEF clampf
<1>4. clampf(0 * OlScale, -PidDefaults.clamp, PidDefaults.clamp) = 0
  BY <1>1, <1>2 DEF clampf
<1> QED
  BY <1>3, <1>4 DEF OpenLoopOut

\* One wheel's regulation, in either build.
LEMMA RegulateFacts ==
    ASSUME TypeOK, NEW p \in PidState, Enveloped(p), NEW sp \in Int,
           NEW m \in Int
    PROVE  LET r == Regulate(p, sp, m)
           IN  /\ r.pid \in PidState
               /\ Enveloped(r.pid)
               /\ r.out \in Int
               /\ sp = 0 => r.out = 0
               /\ ~OpenLoop =>
                    /\ r.pid.initialized /\ r.pid.last_us = now
                    /\ ~p.initialized => r.out = 0
                    /\ \/ fabsf(r.out) <= fabsf(r.pid.out_max)
                       \/ fabsf(r.out) <= r.pid.min_drive
                    /\ sp = 0 /\ ~NoBaseline(Tuned(p), now) => r.pid.i_term = 0
                    /\ NoBaseline(Tuned(p), now)
                         => r.pid.i_term = Tuned(p).i_term
<1> DEFINE q == Tuned(p)
           r == Regulate(p, sp, m)
<1>1. q \in PidState /\ Enveloped(q) /\ q.initialized = p.initialized
  BY TunedFacts
<1>2. now \in Int
  BY DEF TypeOK
<1>3. CASE OpenLoop
  <2>1. r.pid = q /\ r.out = OpenLoopOut(sp)
    BY <1>3 DEF Regulate
  <2> HIDE DEF q, r
  <2> QED
    BY <1>1, <1>3, <2>1, OpenLoopFacts DEF r
<1>4. CASE ~OpenLoop
  <2>1. r = pid_compute(q, sp, m, now)
    BY <1>4 DEF Regulate
  <2> HIDE DEF q, r
  <2> DEFINE c == pid_compute(q, sp, m, now)
  <2>2. /\ ComputeResult(q, sp, m, now, c)
        /\ sp = 0 \/ NoBaseline(q, now) => c.out = 0
        /\ NoBaseline(q, now) => c.pid.i_term = q.i_term
        /\ sp = 0 /\ ~NoBaseline(q, now) => c.pid.i_term = 0
    BY <1>1, <1>2, ComputeFacts
  <2> HIDE DEF c
  <2>3. /\ ComputeResult(q, sp, m, now, r)
        /\ sp = 0 \/ NoBaseline(q, now) => r.out = 0
        /\ NoBaseline(q, now) => r.pid.i_term = q.i_term
        /\ sp = 0 /\ ~NoBaseline(q, now) => r.pid.i_term = 0
    BY <2>1, <2>2 DEF c
  <2>4. ~p.initialized => NoBaseline(q, now)
    BY <1>1 DEF NoBaseline
  <2> QED
    BY <2>3, <2>4 DEF ComputeResult, r, q
<1> QED
  BY <1>3, <1>4

-----------------------------------------------------------------------------
(***************************************************************************)
(* One pass of the loop.                                                   *)
(***************************************************************************)

\* The request a pass pursues, and the wheel setpoints and speeds it uses.
LEMMA StepRequest ==
    ASSUME TypeOK, NEW ticks \in [Side -> Int], ControlStep(ticks)
    PROVE  /\ set' \in [linear_x: -MaxLin..MaxLin, angular_z: -MaxAng..MaxAng]
           /\ WheelSet(set') \in [Side -> Int]
           /\ set' = Standstill => \A s \in Side : WheelSet(set')[s] = 0
           /\ v_filt' \in [Side -> Int]
<1>1. MaxLin \in Nat /\ MaxAng \in Nat /\ Alpha \in 0..100
  BY ControlAssumption
<1>2. Requested \in [linear_x: -MaxLin..MaxLin, angular_z: -MaxAng..MaxAng]
  <2>1. CASE velQ = NoMsg
    BY <2>1 DEF Requested, TypeOK
  <2>2. CASE velQ # NoMsg
    <3>1. velQ.cmd \in [linear_x: Int, angular_z: Int]
      BY <2>2, ControlAssumption DEF TypeOK
    <3>2. /\ clampf(velQ.cmd.linear_x, -MaxLin, MaxLin) \in -MaxLin..MaxLin
          /\ clampf(velQ.cmd.angular_z, -MaxAng, MaxAng) \in -MaxAng..MaxAng
      BY <1>1, <3>1 DEF clampf
    <3> QED
      BY <2>2, <3>2 DEF Requested
  <2> QED
    BY <2>1, <2>2
<1>3. Standstill \in [linear_x: -MaxLin..MaxLin, angular_z: -MaxAng..MaxAng]
  BY <1>1 DEF Standstill
<1>4. set' = Standstill \/ set' = Requested
  BY DEF ControlStep
<1>5. set' \in [linear_x: -MaxLin..MaxLin, angular_z: -MaxAng..MaxAng]
  BY <1>2, <1>3, <1>4
<1>6. set'.linear_x \in Int /\ set'.angular_z \in Int
  BY <1>1, <1>5
<1>7. WheelSet(set') \in [Side -> Int]
  BY <1>6, KinematicsType DEF WheelSet
<1>8. set' = Standstill => \A s \in Side : WheelSet(set')[s] = 0
  <2>1. Standstill.linear_x = 0 /\ Standstill.angular_z = 0
    BY DEF Standstill
  <2> QED
    BY <2>1, KinematicsZero DEF WheelSet
<1>9. v_filt' \in [Side -> Int]
  <2>1. now - last_us \in Int
    BY DEF TypeOK
  <2>2. ASSUME NEW k \in Int, NEW dt \in Int
        PROVE  RawSpeed(k, dt) \in Int
    <3>1. k * MetersPerTick \in Int
      BY KinematicsAssumption
    <3>2. dt > 0 => (k * MetersPerTick) \div dt \in Int
      BY <3>1
    <3> QED
      BY <3>2 DEF RawSpeed, kinematics_ticks_to_meters
  <2>3. ASSUME NEW v \in Int, NEW raw \in Int
        PROVE  Filtered(v, raw) \in Int
    <3>1. Alpha * (raw - v) \in Int
      BY <1>1
    <3>2. (Alpha * (raw - v)) \div 100 \in Int
      BY <3>1
    <3> QED
      BY <3>2 DEF Filtered
  <2>4. v_filt' = [s \in Side |->
                     Filtered(v_filt[s], RawSpeed(ticks[s], now - last_us))]
    BY DEF ControlStep
  <2>5. \A s \in Side : v_filt[s] \in Int /\ ticks[s] \in Int
    BY DEF TypeOK
  <2> QED
    BY <2>1, <2>2, <2>3, <2>4, <2>5
<1> QED
  BY <1>5, <1>7, <1>8, <1>9

\* What a pass leaves in one wheel's regulator and motor channel.
WheelResult(s, r) ==
    /\ r = Regulate(pid[s], WheelSet(set')[s], v_filt'[s])
    /\ Stale(now, last_cmd_us') => /\ motor'[s] = Stopped
                                   /\ pid'[s] = pid_reset(r.pid)
    /\ ~Stale(now, last_cmd_us')
         => /\ motor'[s] = motor_set_pwm(MotorInvert[s], r.out)
            /\ pid'[s] = r.pid

LEMMA StepWheel ==
    ASSUME NEW ticks \in [Side -> Int], ControlStep(ticks), NEW s \in Side
    PROVE  WheelResult(s, Regulate(pid[s], WheelSet(set')[s], v_filt'[s]))
<1> DEFINE r == [x \in Side |-> Regulate(pid[x], WheelSet(set')[x], v_filt'[x])]
<1>1. CASE Stale(now, last_cmd_us')
  <2>1. /\ motor' = Wheels(Stopped, Stopped)
        /\ pid' = [x \in Side |-> pid_reset(r[x].pid)]
    BY <1>1 DEF ControlStep
  <2> QED
    BY <1>1, <2>1, WheelsEqual DEF WheelResult
<1>2. CASE ~Stale(now, last_cmd_us')
  <2>1. /\ motor' = [x \in Side |-> motor_set_pwm(MotorInvert[x], r[x].out)]
        /\ pid' = [x \in Side |-> r[x].pid]
    BY <1>2 DEF ControlStep
  <2> QED
    BY <1>2, <2>1 DEF WheelResult
<1> QED
  BY <1>1, <1>2

\* The same, with what the regulator's lemmas say of it.
LEMMA StepWheelFacts ==
    ASSUME TypeOK, LimitsInv, NEW ticks \in [Side -> Int], ControlStep(ticks),
           NEW s \in Side
    PROVE  /\ pid'[s] \in PidState
           /\ Enveloped(pid'[s])
           /\ motor'[s] \in Channel
           /\ WheelSet(set')[s] = 0 => motor'[s] = Stopped
           /\ Stale(now, last_cmd_us')
                => motor'[s] = Stopped /\ ~pid'[s].initialized
           /\ ~OpenLoop =>
                /\ ~pid[s].initialized => motor'[s] = Stopped
                /\ \/ motor'[s].duty <= fabsf(pid'[s].out_max)
                   \/ motor'[s].duty <= pid'[s].min_drive
                /\ pid'[s].initialized => pid'[s].last_us = now
                /\ ~pid'[s].initialized => pid'[s].i_term = 0
                /\ /\ WheelSet(set')[s] = 0
                   /\ NoBaseline(Tuned(pid[s]), now) => Tuned(pid[s]).i_term = 0
                   => pid'[s].i_term = 0
<1> DEFINE r == Regulate(pid[s], WheelSet(set')[s], v_filt'[s])
<1>1. pid[s] \in PidState /\ Enveloped(pid[s]) /\ MotorInvert[s] \in BOOLEAN
  BY ControlAssumption DEF TypeOK, LimitsInv
<1>2. WheelSet(set')[s] \in Int /\ v_filt'[s] \in Int
  BY StepRequest
<1>3. /\ r.pid \in PidState
      /\ Enveloped(r.pid)
      /\ r.out \in Int
      /\ WheelSet(set')[s] = 0 => r.out = 0
      /\ ~OpenLoop =>
           /\ r.pid.initialized /\ r.pid.last_us = now
           /\ ~pid[s].initialized => r.out = 0
           /\ \/ fabsf(r.out) <= fabsf(r.pid.out_max)
              \/ fabsf(r.out) <= r.pid.min_drive
           /\ WheelSet(set')[s] = 0 /\ ~NoBaseline(Tuned(pid[s]), now)
                => r.pid.i_term = 0
           /\ NoBaseline(Tuned(pid[s]), now)
                => r.pid.i_term = Tuned(pid[s]).i_term
  BY <1>1, <1>2, RegulateFacts
<1>4. WheelResult(s, r)
  BY StepWheel
<1> HIDE DEF r
<1>5. CASE Stale(now, last_cmd_us')
  <2>1. motor'[s] = Stopped /\ pid'[s] = pid_reset(r.pid)
    BY <1>4, <1>5 DEF WheelResult
  <2>2. /\ pid'[s] \in PidState /\ Enveloped(pid'[s])
        /\ ~pid'[s].initialized /\ pid'[s].i_term = 0
    BY <1>3, <2>1, ResetEnveloped
  <2>3. motor'[s].duty = 0 /\ 0 <= fabsf(pid'[s].out_max)
    BY <2>1, <2>2 DEF Stopped, PidState, fabsf
  <2> QED
    BY <2>1, <2>2, <2>3, StoppedType
<1>6. CASE ~Stale(now, last_cmd_us')
  <2>1. /\ motor'[s] = motor_set_pwm(MotorInvert[s], r.out)
        /\ pid'[s] = r.pid
    BY <1>4, <1>6 DEF WheelResult
  <2>2. /\ motor'[s] \in Channel
        /\ motor'[s].duty <= fabsf(r.out)
        /\ r.out = 0 => motor'[s] = Stopped
    BY <1>1, <1>3, <2>1, MotorFacts
  <2>3. /\ motor'[s].duty \in Int /\ fabsf(r.out) \in Int
        /\ fabsf(r.pid.out_max) \in Int /\ r.pid.min_drive \in Int
    BY <1>3, <2>2 DEF Channel, PWM_MAX, fabsf, PidState
  <2>4. ~OpenLoop => \/ motor'[s].duty <= fabsf(r.pid.out_max)
                     \/ motor'[s].duty <= r.pid.min_drive
    BY <1>3, <2>2, <2>3
  <2> QED
    BY <1>3, <1>6, <2>1, <2>2, <2>4
<1> QED
  BY <1>5, <1>6

-----------------------------------------------------------------------------
(***************************************************************************)
(* The invariant is inductive.                                             *)
(***************************************************************************)

LEMMA InitIInv == Init => IInv
<1> SUFFICES ASSUME Init PROVE IInv
  OBVIOUS
<1>1. \A s \in Side : motor[s] = Stopped /\ pid[s] = BuildPid
  BY WheelsEqual DEF Init
<1>2. TypeOK
  <2>1. /\ v_filt \in [Side -> Int]
        /\ pid \in [Side -> PidState]
        /\ motor \in [Side -> Channel]
        /\ odo \in [v: [Side -> Int], dt: Nat]
    BY BuildPidFacts, StoppedType DEF Init, Wheels
  <2>2. set \in [linear_x: -MaxLin..MaxLin, angular_z: -MaxAng..MaxAng]
    BY ControlAssumption DEF Init, Standstill
  <2>3. loop \in 0..(TelemDiv - 1)
    BY ControlAssumption DEF Init
  <2> QED
    BY <2>1, <2>2, <2>3 DEF Init, TypeOK
<1>3. LimitsInv /\ StaleInv
  BY <1>1, BuildPidFacts DEF LimitsInv, StaleInv
<1>4. ClockInv /\ AgeInv
  BY ControlAssumption DEF Init, ClockInv, AgeInv
<1> QED
  BY <1>2, <1>3, <1>4 DEF IInv

\* A pass of the loop.
LEMMA ControlStepIInv ==
    ASSUME IInv, NEW ticks \in [Side -> Int], ControlStep(ticks)
    PROVE  IInv'
<1>1. TypeOK /\ LimitsInv /\ ClockInv /\ AgeInv
  BY DEF IInv
<1>2. /\ now \in Nat /\ last_us \in Nat /\ last_cmd_us \in Nat
      /\ taken \in Nat /\ next_wake \in Nat
      /\ Period \in Nat \ {0} /\ Jitter \in Nat /\ BootMax \in Nat
      /\ TelemDiv \in Nat \ {0}
  BY <1>1, ControlAssumption DEF TypeOK
<1>3. velQ # NoMsg => velQ.at \in Nat
  BY <1>1 DEF TypeOK
<1>4. /\ up /\ now >= next_wake /\ next_wake' = next_wake + Period
      /\ velQ' = NoMsg /\ pidQ' = NoMsg
      /\ last_cmd_us' = (IF velQ = NoMsg THEN last_cmd_us ELSE now)
      /\ taken' = (IF velQ = NoMsg THEN taken ELSE velQ.at)
      /\ last_us' = now /\ now' = now /\ up' = up
      /\ loop' = (loop + 1) % TelemDiv
      /\ snapQ' = IF loop = 0
                  THEN [t_us |-> now, vel |-> v_filt', set |-> WheelSet(set')]
                  ELSE snapQ
  BY DEF ControlStep
<1>5. \A s \in Side :
        /\ pid'[s] \in PidState
        /\ Enveloped(pid'[s])
        /\ motor'[s] \in Channel
        /\ Stale(now, last_cmd_us')
             => motor'[s] = Stopped /\ ~pid'[s].initialized
  BY <1>1, StepWheelFacts
<1>6. TypeOK'
  <2>1. /\ set' \in [linear_x: -MaxLin..MaxLin, angular_z: -MaxAng..MaxAng]
        /\ WheelSet(set') \in [Side -> Int]
        /\ v_filt' \in [Side -> Int]
    BY <1>1, StepRequest
  <2>2. /\ pid' = [s \in Side |-> pid'[s]]
        /\ motor' = [s \in Side |-> motor'[s]]
    BY DEF ControlStep, Wheels
  <2>3. pid' \in [Side -> PidState] /\ motor' \in [Side -> Channel]
    BY <1>5, <2>2
  <2>4. (loop + 1) % TelemDiv \in 0..(TelemDiv - 1)
    BY <1>1, <1>2 DEF TypeOK
  <2>5. snapQ' \in [t_us: Nat, vel: [Side -> Int], set: [Side -> Int]] \cup {NoMsg}
    BY <1>1, <1>2, <1>4, <2>1 DEF TypeOK
  <2>6. odo' \in [v: [Side -> Int], dt: Nat]
    <3>1. odo' = odo \/ (/\ now - last_us > 0
                         /\ odo' = [v |-> [s \in Side |->
                              OdometrySpeed(WheelSet(set')[s], v_filt'[s])],
                                    dt |-> now - last_us])
      BY DEF ControlStep
    <3>2. \A s \in Side : OdometrySpeed(WheelSet(set')[s], v_filt'[s]) \in Int
      BY <2>1 DEF OdometrySpeed
    <3>3. now - last_us > 0 => now - last_us \in Nat
      BY <1>2
    <3> QED
      BY <1>1, <3>1, <3>2, <3>3 DEF TypeOK
  <2>7. /\ now' \in Nat /\ next_wake' \in Nat /\ last_us' \in Nat
        /\ last_cmd_us' \in Nat /\ taken' \in Nat /\ up' \in BOOLEAN
    BY <1>1, <1>2, <1>3, <1>4 DEF TypeOK
  <2> QED
    BY <1>4, <2>1, <2>3, <2>4, <2>5, <2>6, <2>7 DEF TypeOK
<1>7. LimitsInv'
  BY <1>5 DEF LimitsInv
<1>8. ClockInv'
  BY <1>1, <1>2, <1>4 DEF ClockInv
<1>9. AgeInv'
  BY <1>1, <1>2, <1>3, <1>4 DEF ClockInv, AgeInv
<1>10. StaleInv'
  <2>1. Stale(last_us, last_cmd_us)' <=> Stale(now, last_cmd_us')
    BY <1>4 DEF Stale
  <2> QED
    BY <1>5, <2>1 DEF StaleInv
<1> QED
  BY <1>6, <1>7, <1>8, <1>9, <1>10 DEF IInv

\* Every step.
LEMMA NextIInv == IInv /\ [Next]_vars => IInv'
<1> SUFFICES ASSUME IInv, [Next]_vars PROVE IInv'
  OBVIOUS
<1> USE ControlAssumption
<1>1. CASE Advance
  <2>1. TypeOK'
    BY <1>1 DEF IInv, TypeOK, Advance
  <2>2. (LimitsInv /\ StaleInv)'
    BY <1>1 DEF IInv, LimitsInv, StaleInv, Stale, Advance
  <2>3. (ClockInv /\ AgeInv)'
    BY <1>1 DEF IInv, TypeOK, ClockInv, AgeInv, Advance
  <2> QED
    BY <2>1, <2>2, <2>3 DEF IInv
<1>2. CASE StartControl
  <2>1. TypeOK'
    BY <1>2 DEF IInv, TypeOK, StartControl
  <2>2. (LimitsInv /\ StaleInv)'
    BY <1>2 DEF IInv, LimitsInv, StaleInv, Stale, ClockInv, StartControl
  <2>3. (ClockInv /\ AgeInv)'
    BY <1>2 DEF IInv, TypeOK, ClockInv, AgeInv, StartControl
  <2> QED
    BY <2>1, <2>2, <2>3 DEF IInv
<1>3. CASE \E l, r \in TickDeltas : ControlStep(Wheels(l, r))
  BY <1>3, TicksType, ControlStepIInv
<1>4. ASSUME NEW c \in VelCmds, NEW u \in BOOLEAN, PostVel(c, u)
      PROVE  IInv'
  <2>1. TypeOK'
    BY <1>4 DEF IInv, TypeOK, PostVel
  <2>2. (LimitsInv /\ StaleInv)'
    BY <1>4 DEF IInv, LimitsInv, StaleInv, Stale, PostVel
  <2>3. velQ'.at = now /\ now' = now
    BY <1>4 DEF PostVel
  <2>4. (ClockInv /\ AgeInv)'
    BY <1>4, <2>3 DEF IInv, TypeOK, ClockInv, AgeInv, PostVel
  <2> QED
    BY <2>1, <2>2, <2>4 DEF IInv
<1>5. ASSUME NEW c \in PidCmds, comms_push_cmd_pid(c)
      PROVE  IInv'
  <2>1. TypeOK'
    BY <1>5 DEF IInv, TypeOK, comms_push_cmd_pid
  <2>2. (LimitsInv /\ StaleInv /\ ClockInv /\ AgeInv)'
    BY <1>5 DEF IInv, LimitsInv, StaleInv, Stale, ClockInv, AgeInv,
                comms_push_cmd_pid
  <2> QED
    BY <2>1, <2>2 DEF IInv
<1>6. CASE TakeSnapshot
  <2>1. TypeOK'
    BY <1>6 DEF IInv, TypeOK, TakeSnapshot
  <2>2. (LimitsInv /\ StaleInv /\ ClockInv /\ AgeInv)'
    BY <1>6 DEF IInv, LimitsInv, StaleInv, Stale, ClockInv, AgeInv,
                TakeSnapshot
  <2> QED
    BY <2>1, <2>2 DEF IInv
<1>7. CASE UNCHANGED vars
  BY <1>7 DEF IInv, TypeOK, LimitsInv, StaleInv, Stale, ClockInv, AgeInv, vars
<1> QED
  BY <1>1, <1>2, <1>3, <1>4, <1>5, <1>6, <1>7 DEF Next

THEOREM InductiveInvariant == Spec => []IInv
BY InitIInv, NextIInv, PTL DEF Spec

-----------------------------------------------------------------------------
(***************************************************************************)
(* The properties.                                                         *)
(***************************************************************************)

(***************************************************************************)
(* Type correctness of the control loop.                                   *)
(***************************************************************************)
THEOREM TypeCorrect == Spec => []TypeOK
<1>1. IInv => TypeOK
  BY DEF IInv
<1> QED
  BY <1>1, InductiveInvariant, PTL

\* The invariant bounds the age of the command behind a turning motor.
LEMMA IInvDeadMan == IInv => DeadMan
<1> SUFFICES ASSUME IInv, Driving
             PROVE  taken # 0 /\ now - taken <= DeadManBound
  BY DEF DeadMan
<1>1. /\ now \in Nat /\ last_us \in Nat /\ last_cmd_us \in Nat
      /\ taken \in Nat /\ next_wake \in Nat /\ up \in BOOLEAN
      /\ Period \in Nat \ {0} /\ Jitter \in Nat /\ BootMax \in Nat
      /\ HeartbeatTimeout \in Nat
  BY ControlAssumption DEF IInv, TypeOK
<1>2. ~Stale(last_us, last_cmd_us)
  BY DEF IInv, StaleInv, Driving
<1>3. last_cmd_us # 0 /\ last_us - last_cmd_us <= HeartbeatTimeout
  BY <1>1, <1>2 DEF Stale
<1>4. up
  BY <1>3 DEF IInv, ClockInv
<1>5. now <= last_us + Period + Jitter
  BY <1>1, <1>4 DEF IInv, ClockInv
<1>6. taken # 0 /\ last_cmd_us <= taken + BootMax + Period + Jitter
  BY <1>3 DEF IInv, AgeInv
<1> QED
  BY <1>1, <1>3, <1>5, <1>6 DEF DeadManBound

(***************************************************************************)
(* No motor runs longer than the dead-man's bound after the last command   *)
(* taken was written to its queue, for every timing of the loop.           *)
(***************************************************************************)
THEOREM DeadManHolds == Spec => []DeadMan
BY InductiveInvariant, IInvDeadMan, PTL

(***************************************************************************)
(* The integral of each regulator stays inside the limits in force.        *)
(***************************************************************************)
THEOREM IntegratorBounded == Spec => []IntegratorInEnvelope
<1>1. IInv => IntegratorInEnvelope
  BY DEF IInv, LimitsInv, Enveloped, IntegratorInEnvelope
<1> QED
  BY <1>1, InductiveInvariant, PTL

(***************************************************************************)
(* A request of zero leaves both motors stopped, with and without encoders.*)
(***************************************************************************)
THEOREM CommandedStopHolds == Spec => []CommandedStop
<1>1. Init => CommandedStop
  BY WheelsEqual DEF Init, CommandedStop, Driving
<1>2. IInv /\ CommandedStop /\ [Next]_vars => CommandedStop'
  <2> SUFFICES ASSUME IInv, CommandedStop, [Next]_vars PROVE CommandedStop'
    OBVIOUS
  <2>1. ASSUME NEW ticks \in [Side -> Int], ControlStep(ticks)
        PROVE  CommandedStop'
    <3> SUFFICES ASSUME set' = Standstill, NEW s \in Side
                 PROVE  motor'[s] = Stopped
      BY DEF CommandedStop, Driving
    <3>1. WheelSet(set')[s] = 0
      BY <2>1, StepRequest DEF IInv
    <3> QED
      BY <2>1, <3>1, StepWheelFacts DEF IInv
  <2>2. CASE \E l, r \in TickDeltas : ControlStep(Wheels(l, r))
    BY <2>1, <2>2, TicksType
  <2>3. CASE UNCHANGED <<set, motor>>
    BY <2>3 DEF CommandedStop, Driving
  <2>4. Next => \/ \E l, r \in TickDeltas : ControlStep(Wheels(l, r))
                \/ UNCHANGED <<set, motor>>
    BY DEF Next, Advance, StartControl, PostVel, comms_push_cmd_pid,
           TakeSnapshot
  <2> QED
    BY <2>2, <2>3, <2>4 DEF vars
<1> QED
  BY <1>1, <1>2, InductiveInvariant, PTL DEF Spec

(***************************************************************************)
(* Closed loop: the first pass after a lost heartbeat leaves the motors    *)
(* stopped, whatever command it takes.                                     *)
(***************************************************************************)
THEOREM SoftResumeHolds ==
    ASSUME ~OpenLoop
    PROVE  Spec => SoftResume
<1>1. IInv /\ [Next]_vars =>
        [Stale(last_us, last_cmd_us) => \A s \in Side : motor'[s] = Stopped]_vars
  <2> SUFFICES ASSUME IInv, [Next]_vars, Stale(last_us, last_cmd_us),
                      NEW s \in Side, ~UNCHANGED vars
               PROVE  motor'[s] = Stopped
    OBVIOUS
  <2>1. motor[s] = Stopped /\ ~pid[s].initialized
    BY DEF IInv, StaleInv
  <2>2. ASSUME NEW ticks \in [Side -> Int], ControlStep(ticks)
        PROVE  motor'[s] = Stopped
    BY <2>1, <2>2, StepWheelFacts DEF IInv
  <2>3. CASE \E l, r \in TickDeltas : ControlStep(Wheels(l, r))
    BY <2>2, <2>3, TicksType
  <2>4. Next => \/ \E l, r \in TickDeltas : ControlStep(Wheels(l, r))
                \/ UNCHANGED motor
    BY DEF Next, Advance, StartControl, PostVel, comms_push_cmd_pid,
           TakeSnapshot
  <2> QED
    BY <2>1, <2>3, <2>4
<1> QED
  BY <1>1, InductiveInvariant, PTL DEF Spec, SoftResume

(***************************************************************************)
(* Closed loop: no duty exceeds the larger of the regulator's limit and    *)
(* its stiction floor, through every retune.                               *)
(***************************************************************************)
THEOREM PwmBounded == Spec => []PwmInEnvelope
<1>1. Init => PwmInEnvelope
  <2> SUFFICES ASSUME Init, NEW s \in Side
               PROVE  motor[s].duty <= fabsf(pid[s].out_max)
    BY DEF PwmInEnvelope
  <2>1. motor[s].duty = 0 /\ pid[s] = BuildPid
    BY WheelsEqual DEF Init, Stopped
  <2> QED
    BY <2>1, BuildPidFacts DEF PidState, fabsf
<1>2. IInv /\ PwmInEnvelope /\ [Next]_vars => PwmInEnvelope'
  <2> SUFFICES ASSUME IInv, PwmInEnvelope, [Next]_vars PROVE PwmInEnvelope'
    OBVIOUS
  <2>1. ASSUME NEW ticks \in [Side -> Int], ControlStep(ticks)
        PROVE  PwmInEnvelope'
    BY <2>1, StepWheelFacts DEF IInv, PwmInEnvelope
  <2>2. CASE \E l, r \in TickDeltas : ControlStep(Wheels(l, r))
    BY <2>1, <2>2, TicksType
  <2>3. CASE UNCHANGED <<motor, pid>>
    BY <2>3 DEF PwmInEnvelope
  <2>4. Next => \/ \E l, r \in TickDeltas : ControlStep(Wheels(l, r))
                \/ UNCHANGED <<motor, pid>>
    BY DEF Next, Advance, StartControl, PostVel, comms_push_cmd_pid,
           TakeSnapshot
  <2> QED
    BY <2>2, <2>3, <2>4 DEF vars
<1> QED
  BY <1>1, <1>2, InductiveInvariant, PTL DEF Spec

\* The regulators' clocks: a regulator with a baseline took it in the last
\* pass, and one without holds no integral.
BaselineInv ==
    \A s \in Side :
        /\ pid[s].initialized => up /\ pid[s].last_us = last_us
        /\ ~pid[s].initialized => pid[s].i_term = 0

(***************************************************************************)
(* Closed loop, non-negative clamps, and a loop whose latency neither      *)
(* reaches a period nor stretches one beyond pid_compute's pause limit: a  *)
(* wheel with a zero setpoint holds no integral.                           *)
(***************************************************************************)
THEOREM StopDropsIntegralHolds ==
    ASSUME ~OpenLoop, \A c \in PidCmds : c.clamp >= 0,
           Jitter < Period, Period + Jitter <= Second
    PROVE  Spec => []StopDropsIntegral
<1> DEFINE J == BaselineInv /\ StopDropsIntegral
<1>1. Init => J
  BY WheelsEqual, BuildPidFacts DEF Init, BaselineInv, StopDropsIntegral
<1>2. IInv /\ J /\ [Next]_vars => J'
  <2> SUFFICES ASSUME IInv, BaselineInv, StopDropsIntegral, [Next]_vars
               PROVE  J'
    OBVIOUS
  <2>1. ASSUME NEW ticks \in [Side -> Int], ControlStep(ticks)
        PROVE  J'
    <3>1. /\ now \in Nat /\ last_us \in Nat /\ next_wake \in Nat
          /\ Period \in Nat /\ Jitter \in Nat /\ Second \in Nat
      BY ControlAssumption, SecondAssumption DEF IInv, TypeOK
    <3>2. up /\ up' /\ last_us' = now /\ now >= next_wake
      BY <2>1 DEF ControlStep
    <3>3. now - last_us > 0 /\ now - last_us <= Second
      BY <3>1, <3>2 DEF IInv, ClockInv
    <3>4. ASSUME NEW s \in Side
          PROVE  NoBaseline(Tuned(pid[s]), now) => Tuned(pid[s]).i_term = 0
      <4>1. pid[s] \in PidState /\ Enveloped(pid[s])
        BY DEF IInv, TypeOK, LimitsInv
      <4>2. /\ Tuned(pid[s]).initialized = pid[s].initialized
            /\ Tuned(pid[s]).last_us = pid[s].last_us
            /\ pid[s].i_term = 0 => Tuned(pid[s]).i_term = 0
        BY <4>1, TunedFacts DEF IInv
      <4>3. NoBaseline(Tuned(pid[s]), now) => ~pid[s].initialized
        BY <3>1, <3>3, <4>2 DEF NoBaseline, BaselineInv
      <4> QED
        BY <4>2, <4>3 DEF BaselineInv
    <3>5. \A s \in Side :
            /\ pid'[s].initialized => pid'[s].last_us = now
            /\ ~pid'[s].initialized => pid'[s].i_term = 0
            /\ WheelSet(set')[s] = 0 => pid'[s].i_term = 0
      BY <2>1, <3>4, StepWheelFacts DEF IInv
    <3> QED
      BY <3>2, <3>5 DEF BaselineInv, StopDropsIntegral, WheelSet
  <2>2. CASE \E l, r \in TickDeltas : ControlStep(Wheels(l, r))
    BY <2>1, <2>2, TicksType
  <2>3. CASE StartControl
    <3>1. \A s \in Side : ~pid[s].initialized
      BY <2>3 DEF StartControl, BaselineInv
    <3>2. pid' = pid /\ set' = set
      BY <2>3 DEF StartControl
    <3> QED
      BY <3>1, <3>2 DEF BaselineInv, StopDropsIntegral, WheelSet
  <2>4. CASE UNCHANGED <<set, pid, up, last_us>>
    BY <2>4 DEF BaselineInv, StopDropsIntegral, WheelSet
  <2>5. Next => \/ \E l, r \in TickDeltas : ControlStep(Wheels(l, r))
                \/ StartControl
                \/ UNCHANGED <<set, pid, up, last_us>>
    BY DEF Next, Advance, PostVel, comms_push_cmd_pid, TakeSnapshot
  <2> QED
    BY <2>2, <2>3, <2>4, <2>5 DEF vars
<1>3. J => StopDropsIntegral
  OBVIOUS
<1> HIDE DEF J
<1> QED
  BY <1>1, <1>2, <1>3, InductiveInvariant, PTL DEF Spec

\* A clamp and a floor, of the build or of a packet, that int16_t holds.
LimitsFit(g) == 0 <= g.clamp /\ g.clamp <= 32767 /\ g.min_drive <= 32767

\* Every regulator's limits fit the conversion.
FitsInv == \A s \in Side : FitsInt16(pid[s])

\* Tuning keeps the limits within the conversion.
LEMMA TunedFits ==
    ASSUME TypeOK, NEW p \in PidState, FitsInt16(p),
           \A c \in PidCmds : LimitsFit(c)
    PROVE  FitsInt16(Tuned(p))
<1>1. CASE pidQ = NoMsg
  BY <1>1 DEF Tuned
<1>2. CASE pidQ # NoMsg
  <2>1. pidQ \in PidCmds
    BY <1>2 DEF TypeOK
  <2>2. 0 <= pidQ.clamp /\ pidQ.clamp <= 32767 /\ pidQ.min_drive <= 32767
    BY <2>1 DEF LimitsFit
  <2> DEFINE q == pid_set_output_limits(
                      pid_set_tunings(p, pidQ.kp, pidQ.ki, pidQ.kd),
                      -pidQ.clamp, pidQ.clamp)
  <2>3. q.out_max = pidQ.clamp /\ q.min_drive = p.min_drive
    BY DEF pid_set_output_limits, pid_set_tunings, PidState
  <2>4. /\ pid_set_min_drive(q, pidQ.min_drive).out_max = pidQ.clamp
        /\ pid_set_min_drive(q, pidQ.min_drive).min_drive = pidQ.min_drive
    BY DEF pid_set_min_drive, pid_set_output_limits, pid_set_tunings, PidState
  <2>5. Tuned(p) = q \/ Tuned(p) = pid_set_min_drive(q, pidQ.min_drive)
    BY <1>2 DEF Tuned
  <2> HIDE DEF q
  <2> QED
    BY <2>2, <2>3, <2>4, <2>5 DEF FitsInt16
<1> QED
  BY <1>1, <1>2

\* A stopped channel is not driven, however it is wired.
LEMMA StoppedDrive ==
    /\ (Stopped.in2 - Stopped.in1) * Stopped.duty = 0
    /\ -((Stopped.in2 - Stopped.in1) * Stopped.duty) = 0
<1>1. Stopped.in1 = 0 /\ Stopped.in2 = 0 /\ Stopped.duty = 0
  BY DEF Stopped
<1>2. \A d \in Int : d <= 0 /\ d >= 0 => -d = d
  OBVIOUS
<1> DEFINE d == (Stopped.in2 - Stopped.in1) * Stopped.duty
<1>3. d = 0 /\ d \in Int /\ d <= 0 /\ d >= 0
  BY <1>1
<1> HIDE DEF d
<1>4. -d = d
  BY <1>2, <1>3
<1> QED
  BY <1>3, <1>4 DEF d

\* One pass, one wheel.
LEMMA StepWheelPushes ==
    ASSUME TypeOK, LimitsInv, FitsInv, ~OpenLoop,
           \A c \in PidCmds : LimitsFit(c),
           NEW ticks \in [Side -> Int], ControlStep(ticks), NEW s \in Side
    PROVE  /\ FitsInt16(pid'[s])
           /\ ProportionalOnly(pid'[s])
                => Pwm(s)' * (WheelSet(set')[s] - v_filt'[s]) >= 0
<1> DEFINE sp == WheelSet(set')[s]
           m  == v_filt'[s]
           p  == Tuned(pid[s])
           r  == Regulate(pid[s], sp, m)
           c  == pid_compute(p, sp, m, now)
<1>1. pid[s] \in PidState /\ Enveloped(pid[s]) /\ FitsInt16(pid[s])
  BY DEF TypeOK, LimitsInv, FitsInv
<1>2. MotorInvert[s] \in BOOLEAN /\ now \in Int
  BY ControlAssumption DEF TypeOK
<1>3. sp \in Int /\ m \in Int
  BY StepRequest
<1>4. p \in PidState /\ Enveloped(p) /\ FitsInt16(p)
  BY <1>1, TunedFacts, TunedFits
<1>5. r = c
  BY DEF Regulate
<1>6. WheelResult(s, r)
  BY StepWheel
<1>7. Pwm(s)' = Driven(MotorInvert[s], motor'[s])
  BY DEF Pwm, Driven
<1> HIDE DEF sp, m, p, r, c
<1>8. ComputeResult(p, sp, m, now, c)
  BY <1>2, <1>3, <1>4, ComputeFacts DEF c
<1>9. c.pid \in PidState /\ FitsInt16(c.pid)
  BY <1>4, <1>8 DEF ComputeResult, FitsInt16
<1>10. CASE Stale(now, last_cmd_us')
  <2>1. motor'[s] = Stopped /\ pid'[s] = pid_reset(c.pid)
    BY <1>5, <1>6, <1>10 DEF WheelResult
  <2>2. FitsInt16(pid'[s])
    BY <1>9, <2>1 DEF pid_reset, PidState, FitsInt16
  <2>3. Driven(MotorInvert[s], Stopped) = 0
    BY StoppedDrive, <1>2 DEF Driven
  <2>4. 0 * (sp - m) = 0
    BY <1>3
  <2> QED
    BY <1>7, <2>1, <2>2, <2>3, <2>4 DEF sp, m
<1>11. CASE ~Stale(now, last_cmd_us')
  <2>1. motor'[s] = motor_set_pwm(MotorInvert[s], c.out) /\ pid'[s] = c.pid
    BY <1>5, <1>6, <1>11 DEF WheelResult
  <2>2. ASSUME ProportionalOnly(c.pid)
        PROVE  Pwm(s)' * (sp - m) >= 0
    <3>1. /\ c.out \in Int /\ -32767 <= c.out /\ c.out <= 32767
          /\ Agrees(c.out, sp - m)
      BY <1>2, <1>3, <1>4, <2>2, ComputeAgrees DEF c
    <3>2. sp - m \in Int
      BY <1>3
    <3> DEFINE e == sp - m
    <3> HIDE DEF e
    <3>3. /\ Driven(MotorInvert[s], motor_set_pwm(MotorInvert[s], c.out)) \in Int
          /\ Agrees(Driven(MotorInvert[s],
                           motor_set_pwm(MotorInvert[s], c.out)), e)
      BY <1>2, <3>1, <3>2, DrivenAgrees DEF e
    <3>4. Pwm(s)' \in Int /\ Agrees(Pwm(s)', e)
      BY <1>7, <2>1, <3>3
    <3>5. Pwm(s)' * e >= 0
      BY <3>2, <3>4, AgreesProduct DEF e
    <3> QED
      BY <3>5 DEF e
  <2> QED
    BY <1>9, <2>1, <2>2 DEF sp, m
<1> QED
  BY <1>10, <1>11

(***************************************************************************)
(* Closed loop, and a build and hosts whose clamps and floors survive the  *)
(* conversion to int16_t: with the proportional gain alone no wheel is     *)
(* driven away from its setpoint.  Both hypotheses are needed: a negative  *)
(* clamp drives backwards, and one beyond 32767 wraps in the conversion.   *)
(***************************************************************************)
THEOREM PushesTowardHolds ==
    ASSUME ~OpenLoop, LimitsFit(PidDefaults),
           \A c \in PidCmds : LimitsFit(c)
    PROVE  Spec => []PushesTowardSetpoint
<1> DEFINE J == FitsInv /\ PushesTowardSetpoint
<1>1. Init => J
  <2> SUFFICES ASSUME Init, NEW s \in Side
               PROVE  /\ FitsInt16(pid[s])
                      /\ Pwm(s) * (WheelSet(set)[s] - v_filt[s]) >= 0
    BY DEF FitsInv, PushesTowardSetpoint
  <2>1. motor[s] = Stopped /\ pid[s] = BuildPid
    BY WheelsEqual DEF Init
  <2>0. FitsInt16(BuildPid)
    BY DEF LimitsFit, FitsInt16, BuildPid, pid_init
  <2>2. Pwm(s) = 0
    BY <2>1, StoppedDrive DEF Pwm
  <2>3. WheelSet(set)[s] \in Int /\ v_filt[s] \in Int
    <3>1. IInv
      BY InitIInv
    <3>2. MaxLin \in Nat /\ MaxAng \in Nat
      BY ControlAssumption
    <3>3. set.linear_x \in Int /\ set.angular_z \in Int /\ v_filt[s] \in Int
      BY <3>1, <3>2 DEF IInv, TypeOK
    <3> QED
      BY <3>3, KinematicsType DEF WheelSet
  <2>4. 0 * (WheelSet(set)[s] - v_filt[s]) = 0
    BY <2>3
  <2> QED
    BY <2>1, <2>2, <2>4, <2>0
<1>2. IInv /\ J /\ [Next]_vars => J'
  <2> SUFFICES ASSUME IInv, FitsInv, PushesTowardSetpoint, [Next]_vars
               PROVE  J'
    OBVIOUS
  <2>1. ASSUME NEW ticks \in [Side -> Int], ControlStep(ticks)
        PROVE  J'
    <3>1. \A s \in Side :
            /\ FitsInt16(pid'[s])
            /\ ProportionalOnly(pid'[s])
                 => Pwm(s)' * (WheelSet(set')[s] - v_filt'[s]) >= 0
      BY <2>1, StepWheelPushes DEF IInv
    <3>2. \A s \in Side : WheelSet(set)'[s] = WheelSet(set')[s]
      BY DEF WheelSet
    <3> QED
      BY <3>1, <3>2 DEF FitsInv, PushesTowardSetpoint, ProportionalOnly
  <2>2. CASE \E l, r \in TickDeltas : ControlStep(Wheels(l, r))
    BY <2>1, <2>2, TicksType
  <2>3. CASE UNCHANGED <<pid, motor, set, v_filt>>
    BY <2>3 DEF FitsInv, PushesTowardSetpoint, Pwm, WheelSet
  <2>4. Next => \/ \E l, r \in TickDeltas : ControlStep(Wheels(l, r))
                \/ UNCHANGED <<pid, motor, set, v_filt>>
    BY DEF Next, Advance, StartControl, PostVel, comms_push_cmd_pid,
           TakeSnapshot
  <2> QED
    BY <2>2, <2>3, <2>4 DEF vars
<1> QED
  BY <1>1, <1>2, InductiveInvariant, PTL DEF Spec

-----------------------------------------------------------------------------
(***************************************************************************)
(* The control loop implements the dead-man's switch: every initial state  *)
(* is one of the switch, an advance of the clock is a Pass, a pass of the  *)
(* loop is an Act, and everything else is invisible.                       *)
(***************************************************************************)
THEOREM SwitchRefinement == Spec => ImplementsSwitch
<1>1. Init => Switch!AInit
  BY WheelsEqual DEF Init, Switch!AInit, Driving
<1>2. IInv /\ IInv' /\ [Next]_vars => [Switch!ANext]_(Switch!avars)
  <2> SUFFICES ASSUME IInv, IInv', [Next]_vars
               PROVE  Switch!ANext \/ UNCHANGED Switch!avars
    OBVIOUS
  <2>1. DeadMan /\ DeadMan'
    <3>1. DeadMan
      BY IInvDeadMan
    <3>2. DeadMan'
      BY IInvDeadMan, PTL
    <3> QED
      BY <3>1, <3>2
  <2>2. /\ now \in Nat /\ taken \in Nat
        /\ velQ # NoMsg => velQ.at \in Nat /\ taken <= velQ.at /\ velQ.at <= now
        /\ taken <= now
    BY DEF IInv, TypeOK, AgeInv, ClockInv
  <2>3. CASE Advance
    <3>1. now' = now + 1 /\ taken' = taken /\ (Driving' <=> Driving)
      BY <2>3 DEF Advance, Driving
    <3>2. Driving => Switch!Authorised(now + 1, taken)
      BY <2>1, <3>1 DEF DeadMan, Switch!Authorised, DeadManBound
    <3>3. Driving' = Driving
      BY <2>3 DEF Advance, Driving
    <3> QED
      BY <3>1, <3>2, <3>3 DEF Switch!ANext, Switch!Pass
  <2>4. ASSUME NEW ticks \in [Side -> Int], ControlStep(ticks)
        PROVE  Switch!Act
    <3>1. now' = now /\ taken' = (IF velQ = NoMsg THEN taken ELSE velQ.at)
      BY <2>4 DEF ControlStep
    <3>2. taken' \in taken..now
      BY <2>2, <3>1
    <3>3. Driving' => Switch!Authorised(now, taken')
      BY <2>1, <3>1 DEF DeadMan, Switch!Authorised, DeadManBound
    <3>4. Driving' \in BOOLEAN
      BY DEF Driving
    <3> QED
      BY <3>1, <3>2, <3>3, <3>4 DEF Switch!Act
  <2>5. CASE \E l, r \in TickDeltas : ControlStep(Wheels(l, r))
    BY <2>4, <2>5, TicksType DEF Switch!ANext
  <2>6. CASE UNCHANGED <<now, taken, motor>>
    BY <2>6 DEF Switch!avars, Driving
  <2>7. Next => \/ Advance
                \/ \E l, r \in TickDeltas : ControlStep(Wheels(l, r))
                \/ UNCHANGED <<now, taken, motor>>
    BY DEF Next, StartControl, PostVel, comms_push_cmd_pid, TakeSnapshot
  <2> QED
    BY <2>3, <2>5, <2>6, <2>7 DEF vars
<1> QED
  BY <1>1, <1>2, InductiveInvariant, PTL
     DEF Spec, ImplementsSwitch, Switch!ASpec

-----------------------------------------------------------------------------
(***************************************************************************)
(* The two transports in front of the control loop.                        *)
(***************************************************************************)

\* The packet the MQTT task holds is one a host may send.
HeldInv == mqtt # NoMsg => mqtt.cmd \in VelCmds

LEMMA HeldInvariant == PathSpec => []HeldInv
<1>1. PathInit => HeldInv
  BY DEF PathInit, HeldInv
<1>2. HeldInv /\ [PathNext]_<<vars, pathvars>> => HeldInv'
  <2> SUFFICES ASSUME HeldInv, PathNext PROVE HeldInv'
    BY DEF HeldInv, pathvars
  <2>1. CASE UNCHANGED mqtt
    BY <2>1 DEF HeldInv
  <2>2. ASSUME NEW c \in VelCmds, AdmitVel(c) PROVE HeldInv'
    BY <2>2 DEF AdmitVel, HeldInv
  <2>3. CASE WriteVel
    BY <2>3 DEF WriteVel, HeldInv
  <2>4. ASSUME NEW c \in PidCmds, DispatchPid(c) \/ MqttPid(c)
        PROVE  UNCHANGED mqtt
    BY <2>4 DEF DispatchPid, MqttPid, pathvars
  <2>5. ASSUME NEW c \in VelCmds, DispatchVel(c) PROVE UNCHANGED mqtt
    BY <2>5 DEF DispatchVel
  <2>6. ControlSide \/ DispatchDisplay \/ StampRx => UNCHANGED mqtt
    BY DEF ControlSide, DispatchDisplay, StampRx, pathvars
  <2> QED
    BY <2>1, <2>2, <2>3, <2>4, <2>5, <2>6 DEF PathNext
<1> QED
  BY <1>1, <1>2, PTL DEF PathSpec

\* The transports reach the loop through its queues: every step of theirs is
\* one of the loop's environment, so what holds of the loop holds here.
LEMMA PathRefinement == PathSpec => Spec
<1>1. PathInit => Init
  BY DEF PathInit
<1>2. HeldInv /\ [PathNext]_<<vars, pathvars>> => [Next]_vars
  <2> SUFFICES ASSUME HeldInv, PathNext PROVE Next \/ UNCHANGED vars
    BY DEF vars
  <2>1. CASE ControlSide
    BY <2>1 DEF ControlSide, Next
  <2>2. ASSUME NEW c \in VelCmds, DispatchVel(c) \/ AdmitVel(c)
        PROVE  Next \/ UNCHANGED vars
    BY <2>2 DEF DispatchVel, AdmitVel, Next
  <2>3. ASSUME NEW c \in PidCmds, DispatchPid(c) \/ MqttPid(c)
        PROVE  Next \/ UNCHANGED vars
    BY <2>3 DEF DispatchPid, MqttPid, Next
  <2>4. CASE DispatchDisplay \/ StampRx
    BY <2>4 DEF DispatchDisplay, StampRx
  <2>5. CASE WriteVel
    BY <2>5 DEF WriteVel, HeldInv, Next
  <2> QED
    BY <2>1, <2>2, <2>3, <2>4, <2>5 DEF PathNext
<1> QED
  BY <1>1, <1>2, HeldInvariant, PTL DEF PathSpec, Spec

(***************************************************************************)
(* The dead-man's bound of the composed system, whatever the interleaving  *)
(* of the two transports.                                                  *)
(***************************************************************************)
THEOREM PathDeadMan == PathSpec => []DeadMan
BY PathRefinement, DeadManHolds, PTL

-----------------------------------------------------------------------------
\* Once a packet has leaked, no other is held while the window stays open.
LeakInv ==
    /\ now \in Nat
    /\ s_last_good_rx_us \in Nat
    /\ leaked \in {0, 1}
    /\ leaked = 1 /\ mqtt # NoMsg => ~uart_link_recent_rx

LEMMA LeakInvariant == PathSpec => []LeakInv
<1>1. PathInit => LeakInv
  BY DEF PathInit, Init, LeakInv
<1>2. LeakInv /\ [PathNext]_<<vars, pathvars>> => LeakInv'
  <2> SUFFICES ASSUME LeakInv, PathNext PROVE LeakInv'
    BY DEF LeakInv, vars, pathvars, uart_link_recent_rx
  <2>0. PreemptWindow \in Nat
    BY PathAssumption
  <2>1. CASE ControlSide
    <3>1. now' = now \/ now' = now + 1
      BY <2>1 DEF ControlSide, Advance, StartControl, ControlStep, TakeSnapshot
    <3>2. UNCHANGED pathvars
      BY <2>1 DEF ControlSide
    <3> QED
      BY <2>0, <3>1, <3>2 DEF LeakInv, pathvars, uart_link_recent_rx
  <2>2. ASSUME NEW c \in VelCmds, DispatchVel(c) PROVE LeakInv'
    BY <2>2 DEF DispatchVel, PostVel, LeakInv, uart_link_recent_rx
  <2>3. ASSUME NEW c \in VelCmds, AdmitVel(c) PROVE LeakInv'
    BY <2>3 DEF AdmitVel, vars, LeakInv, uart_link_recent_rx
  <2>4. ASSUME NEW c \in PidCmds, DispatchPid(c) \/ MqttPid(c) PROVE LeakInv'
    BY <2>4 DEF DispatchPid, MqttPid, comms_push_cmd_pid, pathvars, LeakInv,
                uart_link_recent_rx
  <2>5. CASE DispatchDisplay
    BY <2>5 DEF DispatchDisplay, vars, LeakInv, uart_link_recent_rx
  <2>6. CASE StampRx
    BY <2>0, <2>6 DEF StampRx, vars, LeakInv, uart_link_recent_rx
  <2>7. CASE WriteVel
    BY <2>7 DEF WriteVel, PostVel, LeakInv, uart_link_recent_rx
  <2> QED
    BY <2>1, <2>2, <2>3, <2>4, <2>5, <2>6, <2>7 DEF PathNext
<1> QED
  BY <1>1, <1>2, PTL DEF PathSpec

(***************************************************************************)
(* While UART frames keep the preempt window open, at most one MQTT        *)
(* velocity packet reaches the queue, for every window length.             *)
(***************************************************************************)
THEOREM OneLeakHolds == PathSpec => []OneLeakPerWindow
<1>1. LeakInv => OneLeakPerWindow
  BY DEF LeakInv, OneLeakPerWindow
<1> QED
  BY <1>1, LeakInvariant, PTL

-----------------------------------------------------------------------------
(***************************************************************************)
(* The types of the two transports' state: the stamp is never in the       *)
(* future, and the packet past the check was checked at a time that has    *)
(* been, never at 0 (which stands for no stamp).                           *)
(***************************************************************************)
PathState ==
    /\ now \in Nat /\ now >= 1
    /\ s_last_good_rx_us \in 0..now
    /\ uart \in {"idle", "dispatched"}
    /\ mqtt \in [cmd: VelCmds, checked: 1..now] \cup {NoMsg}
    /\ leaked \in Nat
    /\ heard \in 0..now

LEMMA PathStateInvariant == PathSpec => []PathState
<1>1. PathInit => PathState
  BY DEF PathInit, Init, PathState
<1>2. PathState /\ [PathNext]_<<vars, pathvars>> => PathState'
  <2> SUFFICES ASSUME PathState, PathNext PROVE PathState'
    BY DEF PathState, vars, pathvars
  <2>1. CASE ControlSide
    <3>1. now' = now \/ now' = now + 1
      BY <2>1 DEF ControlSide, Advance, StartControl, ControlStep, TakeSnapshot
    <3>2. UNCHANGED pathvars
      BY <2>1 DEF ControlSide
    <3>3. 0..now \subseteq 0..now' /\ 1..now \subseteq 1..now'
      BY <3>1 DEF PathState
    <3> QED
      BY <3>1, <3>2, <3>3 DEF PathState, pathvars
  <2>2. ASSUME NEW c \in VelCmds, DispatchVel(c) PROVE PathState'
    BY <2>2 DEF DispatchVel, PostVel, PathState
  <2>3. ASSUME NEW c \in VelCmds, AdmitVel(c) PROVE PathState'
    BY <2>3 DEF AdmitVel, vars, PathState
  <2>4. ASSUME NEW c \in PidCmds, DispatchPid(c) \/ MqttPid(c)
        PROVE  PathState'
    BY <2>4 DEF DispatchPid, MqttPid, comms_push_cmd_pid, pathvars, PathState
  <2>5. CASE DispatchDisplay
    BY <2>5 DEF DispatchDisplay, vars, PathState
  <2>6. CASE StampRx
    BY <2>6 DEF StampRx, vars, PathState
  <2>7. CASE WriteVel
    BY <2>7 DEF WriteVel, PostVel, PathState
  <2> QED
    BY <2>1, <2>2, <2>3, <2>4, <2>5, <2>6, <2>7 DEF PathNext
<1> QED
  BY <1>1, <1>2, PTL DEF PathSpec

\* Every variable of the composed system keeps its type.
THEOREM PathTypeCorrect == PathSpec => []PathTypeOK
<1>1. TypeOK /\ PathState => PathTypeOK
  BY DEF PathState, PathTypeOK
<1> QED
  BY <1>1, PathStateInvariant, PathRefinement, TypeCorrect, PTL

-----------------------------------------------------------------------------
\* Neither task is away for long; the stamp follows its frame, and the packet
\* the MQTT task holds was checked before the last frame's stamp was written
\* or when the window had run out.
PrecInv ==
    /\ uart = "dispatched" => heard # 0 /\ now <= heard + HandleMax
    /\ mqtt # NoMsg => now <= mqtt.checked + HandleMax
    /\ uart = "idle" /\ heard # 0 =>
           /\ s_last_good_rx_us >= heard
           /\ s_last_good_rx_us <= heard + HandleMax
           /\ mqtt # NoMsg => \/ mqtt.checked <= s_last_good_rx_us
                              \/ mqtt.checked - s_last_good_rx_us >= PreemptWindow

LEMMA PrecInit == PathInit => PrecInv
BY DEF PathInit, PrecInv

\* The control loop, a retune and a frame's dispatch.
LEMMA PrecOthers ==
    ASSUME PathState, PrecInv,
           \/ ControlSide
           \/ DispatchDisplay
           \/ \E c \in VelCmds : DispatchVel(c)
           \/ \E c \in PidCmds : DispatchPid(c) \/ MqttPid(c)
    PROVE  PrecInv'
<1>0. HandleMax \in Nat /\ now \in Nat /\ now >= 1
  BY PathAssumption DEF PathState
<1>1. CASE ControlSide
  <2>1. UNCHANGED pathvars
    BY <1>1 DEF ControlSide
  <2>2. CASE Advance /\ HandlersOnTime
    <3>1. now' = now + 1
      BY <2>2 DEF Advance
    <3>2. uart = "dispatched" => now' <= heard + HandleMax
      BY <1>0, <2>2, <3>1 DEF HandlersOnTime, PathState
    <3>3. mqtt # NoMsg => now' <= mqtt.checked + HandleMax
      BY <1>0, <2>2, <3>1 DEF HandlersOnTime, PathState
    <3>. QED
      BY <2>1, <3>2, <3>3 DEF PrecInv, pathvars
  <2>3. CASE now' = now
    BY <2>1, <2>3 DEF PrecInv, pathvars
  <2>. QED
    BY <1>1, <2>2, <2>3 DEF ControlSide, StartControl, ControlStep, TakeSnapshot
<1>2. ASSUME heard' = now, now' = now, uart' = "dispatched", mqtt' = mqtt
      PROVE  PrecInv'
  BY <1>0, <1>2 DEF PrecInv
<1>3. CASE DispatchDisplay
  BY <1>2, <1>3 DEF DispatchDisplay, vars
<1>4. ASSUME NEW c \in VelCmds, DispatchVel(c) PROVE PrecInv'
  BY <1>2, <1>4 DEF DispatchVel, PostVel
<1>5. ASSUME NEW c \in PidCmds, DispatchPid(c) PROVE PrecInv'
  BY <1>2, <1>5 DEF DispatchPid, comms_push_cmd_pid
<1>6. ASSUME NEW c \in PidCmds, MqttPid(c) PROVE PrecInv'
  BY <1>6 DEF MqttPid, comms_push_cmd_pid, pathvars, PrecInv
<1>. QED
  BY <1>1, <1>3, <1>4, <1>5, <1>6

\* The stamp, the check and the write.
LEMMA PrecSteps ==
    ASSUME PathState, PrecInv,
           \/ StampRx
           \/ \E c \in VelCmds : AdmitVel(c)
           \/ WriteVel
    PROVE  PrecInv'
<1>0. /\ HandleMax \in Nat /\ PreemptWindow \in Nat
      /\ now \in Nat /\ now >= 1 /\ heard \in Nat /\ heard <= now
      /\ s_last_good_rx_us \in Nat
      /\ mqtt # NoMsg => mqtt.checked \in Nat /\ mqtt.checked <= now
  BY PathAssumption DEF PathState
<1>1. CASE StampRx
  <2>1. /\ uart = "dispatched" /\ uart' = "idle" /\ s_last_good_rx_us' = now
        /\ now' = now /\ heard' = heard /\ mqtt' = mqtt
    BY <1>1 DEF StampRx, vars
  <2>. QED
    BY <1>0, <2>1 DEF PrecInv
<1>2. ASSUME NEW c \in VelCmds, AdmitVel(c) PROVE PrecInv'
  <2>1. /\ mqtt' = [cmd |-> c, checked |-> now] /\ now' = now
        /\ uart' = uart /\ heard' = heard /\ s_last_good_rx_us' = s_last_good_rx_us
        /\ ~uart_link_recent_rx
    BY <1>2 DEF AdmitVel, vars
  <2>2. mqtt'.checked = now
    BY <2>1
  <2>3. uart = "idle" /\ heard # 0 => now - s_last_good_rx_us >= PreemptWindow
    BY <1>0, <2>1 DEF PrecInv, uart_link_recent_rx
  <2>. QED
    BY <1>0, <2>1, <2>2, <2>3 DEF PrecInv
<1>3. CASE WriteVel
  BY <1>3 DEF WriteVel, PostVel, PrecInv
<1>. QED
  BY <1>1, <1>2, <1>3

LEMMA PrecInvariant == PathSpec => []PrecInv
<1>1. PathState /\ PrecInv /\ [PathNext]_<<vars, pathvars>> => PrecInv'
  <2> SUFFICES ASSUME PathState, PrecInv, [PathNext]_<<vars, pathvars>>
               PROVE  PrecInv'
    OBVIOUS
  <2>1. CASE UNCHANGED <<vars, pathvars>>
    BY <2>1 DEF vars, pathvars, PrecInv
  <2>. QED
    BY <2>1, PrecOthers, PrecSteps DEF PathNext
<1>. QED
  BY <1>1, PrecInit, PathStateInvariant, PTL DEF PathSpec

(***************************************************************************)
(* A recent UART frame masks the MQTT velocity packets                     *)
(* (comms_push_cmd_vel's check of uart_link_recent_rx) for the whole       *)
(* window, but for its first 2 * HandleMax, for every window and latency.  *)
(***************************************************************************)
THEOREM UartPrecedenceHolds == PathSpec => UartPrecedence
<1> DEFINE Precedes ==
        velQ' # velQ /\ velQ' # NoMsg /\ heard # 0 =>
            \/ velQ'.from_uart
            \/ now - heard <= 2 * HandleMax
            \/ now - heard >= PreemptWindow
<1>1. PathState /\ PrecInv /\ [PathNext]_<<vars, pathvars>> => [Precedes]_velQ
  <2> SUFFICES ASSUME PathState, PrecInv, PathNext, velQ' # velQ,
                      velQ' # NoMsg, heard # 0, ~velQ'.from_uart
               PROVE  \/ now - heard <= 2 * HandleMax
                      \/ now - heard >= PreemptWindow
    BY DEF vars, pathvars
  <2>0. /\ HandleMax \in Nat /\ PreemptWindow \in Nat
        /\ now \in Nat /\ heard \in Nat /\ s_last_good_rx_us \in Nat
    BY PathAssumption DEF PathState
  <2>1. CASE WriteVel
    <3>1. mqtt # NoMsg /\ mqtt.checked \in Nat /\ mqtt.checked <= now
      BY <2>1 DEF WriteVel, PathState
    <3>2. now <= mqtt.checked + HandleMax
      BY <3>1 DEF PrecInv
    <3>3. CASE uart = "dispatched"
      BY <2>0, <3>3 DEF PrecInv
    <3>4. CASE uart = "idle"
      <4>1. /\ s_last_good_rx_us >= heard
            /\ s_last_good_rx_us <= heard + HandleMax
            /\ \/ mqtt.checked <= s_last_good_rx_us
               \/ mqtt.checked - s_last_good_rx_us >= PreemptWindow
        BY <3>1, <3>4 DEF PrecInv
      <4>. QED
        BY <2>0, <3>1, <3>2, <4>1
    <3>. QED
      BY <3>3, <3>4 DEF PathState
  <2>2. ASSUME NEW c \in VelCmds, DispatchVel(c) PROVE FALSE
    BY <2>2 DEF DispatchVel, PostVel
  <2>3. ASSUME NEW c \in VelCmds, AdmitVel(c) PROVE FALSE
    BY <2>3 DEF AdmitVel, vars
  <2>4. ASSUME NEW c \in PidCmds, DispatchPid(c) \/ MqttPid(c) PROVE FALSE
    BY <2>4 DEF DispatchPid, MqttPid, comms_push_cmd_pid
  <2>5. CASE DispatchDisplay \/ StampRx
    BY <2>5 DEF DispatchDisplay, StampRx, vars
  <2>6. CASE ControlSide
    BY <2>6 DEF ControlSide, Advance, StartControl, ControlStep, TakeSnapshot
  <2>. QED
    BY <2>1, <2>2, <2>3, <2>4, <2>5, <2>6 DEF PathNext
<1>. QED
  BY <1>1, PathStateInvariant, PrecInvariant, PTL DEF PathSpec, UartPrecedence
=============================================================================
