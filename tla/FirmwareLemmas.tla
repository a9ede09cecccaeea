--------------------------- MODULE FirmwareLemmas ---------------------------
(***************************************************************************)
(* What the pure functions of the firmware return, for all arguments: the  *)
(* helpers of FixedPoint, the kinematics, the regulator and the motor      *)
(* driver.  The proofs about the control loop cite these facts and never   *)
(* expand the functions again.                                             *)
(***************************************************************************)
EXTENDS Kinematics, Pid, Motor, TLAPS

-----------------------------------------------------------------------------
(***************************************************************************)
(* clampf returns an integer, and one of the interval when it is not empty.*)
(***************************************************************************)
LEMMA ClampRange ==
    ASSUME NEW v \in Int, NEW lo \in Int, NEW hi \in Int
    PROVE  /\ clampf(v, lo, hi) \in Int
           /\ lo <= hi => clampf(v, lo, hi) \in lo..hi
BY DEF clampf

(***************************************************************************)
(* Clamping to a symmetric envelope bounds the magnitude, even when the    *)
(* envelope is written the wrong way round (a negative output_clamp).      *)
(***************************************************************************)
LEMMA ClampMagnitude ==
    ASSUME NEW v \in Int, NEW m \in Int
    PROVE  fabsf(clampf(v, -m, m)) <= fabsf(m)
BY DEF clampf, fabsf

-----------------------------------------------------------------------------
(***************************************************************************)
(* kinematics.c: the wheel speeds are integers, and a request of zero asks *)
(* both wheels to stand still.                                             *)
(***************************************************************************)
LEMMA KinematicsType ==
    ASSUME NEW x \in Int, NEW z \in Int
    PROVE  kinematics_cmd_vel_to_wheels(x, z) \in [Side -> Int]
<1> DEFINE vl == x - z * HalfTrack
           vr == x + z * HalfTrack
<1>1. vl \in Int /\ vr \in Int
  BY KinematicsAssumption
<1>2. ASSUME NEW c \in Int, NEW t \in Int
      PROVE  Saturate(c, t) \in [Side -> Int]
  <2>1. fabsf(t) \in Int /\ copysignf(MaxWheel, t) \in Int
    BY <1>2, KinematicsAssumption DEF fabsf, copysignf
  <2> DEFINE diff == IF fabsf(t) > MaxWheel THEN copysignf(MaxWheel, t) ELSE t
  <2>2. diff \in Int
    BY <1>2, <2>1
  <2> DEFINE room == MaxWheel - fabsf(diff)
  <2>3. room \in Int
    BY <2>2, KinematicsAssumption DEF fabsf
  <2> DEFINE cc == IF fabsf(c) > room THEN copysignf(room, c) ELSE c
  <2>4. cc \in Int
    BY <1>2, <2>3 DEF fabsf, copysignf
  <2>5. Saturate(c, t) = Wheels(cc - diff, cc + diff)
    BY DEF Saturate
  <2>6. cc - diff \in Int /\ cc + diff \in Int
    BY <2>2, <2>4
  <2> QED
    BY <2>5, <2>6 DEF Wheels
<1>3. (vl + vr) \div 2 \in Int /\ (vr - vl) \div 2 \in Int
  BY <1>1
<1>4. Wheels(vl, vr) \in [Side -> Int]
  BY <1>1 DEF Wheels
<1> QED
  BY <1>2, <1>3, <1>4 DEF kinematics_cmd_vel_to_wheels

LEMMA KinematicsZero ==
    ASSUME NEW s \in Side
    PROVE  kinematics_cmd_vel_to_wheels(0, 0)[s] = 0
<1>1. 0 - 0 * HalfTrack = 0 /\ 0 + 0 * HalfTrack = 0
  BY KinematicsAssumption
<1>2. (0 + 0) \div 2 = 0 /\ (0 - 0) \div 2 = 0
  OBVIOUS
<1>3. Wheels(0, 0)[s] = 0
  BY DEF Wheels
<1>4. CASE MaxWheel > 0
  <2>1. Saturate(0, 0) = Wheels(0, 0)
    BY <1>4, KinematicsAssumption DEF Saturate, fabsf, copysignf
  <2> QED
    BY <1>1, <1>2, <1>3, <1>4, <2>1 DEF kinematics_cmd_vel_to_wheels
<1> QED
  BY <1>1, <1>3, <1>4 DEF kinematics_cmd_vel_to_wheels

(***************************************************************************)
(* The angular-priority saturation: when it is enabled no wheel is asked   *)
(* for more than the ceiling, and a turn that fits under the ceiling keeps *)
(* its whole differential.  Stated on the saturation itself, whose common  *)
(* and differential parts are the half-sum and half-difference.            *)
(***************************************************************************)
THEOREM SaturationKeepsTurn ==
    ASSUME NEW c \in Int, NEW t \in Int, MaxWheel > 0
    PROVE  /\ \A s \in Side : fabsf(Saturate(c, t)[s]) <= MaxWheel
           /\ fabsf(t) <= MaxWheel
                => Saturate(c, t)["right"] - Saturate(c, t)["left"] = 2 * t
<1> DEFINE diff == IF fabsf(t) > MaxWheel THEN copysignf(MaxWheel, t) ELSE t
           room == MaxWheel - fabsf(diff)
           cc   == IF fabsf(c) > room THEN copysignf(room, c) ELSE c
<1>1. diff \in Int /\ fabsf(diff) <= MaxWheel /\ (fabsf(t) <= MaxWheel => diff = t)
  BY KinematicsAssumption DEF fabsf, copysignf
<1>2. room \in Nat
  BY <1>1, KinematicsAssumption DEF fabsf
<1>3. cc \in Int /\ fabsf(cc) <= room
  BY <1>2 DEF fabsf, copysignf
<1>4. fabsf(cc - diff) <= MaxWheel /\ fabsf(cc + diff) <= MaxWheel
  BY <1>1, <1>2, <1>3, KinematicsAssumption DEF fabsf
<1>5. Saturate(c, t) = Wheels(cc - diff, cc + diff)
  BY DEF Saturate
<1>6. /\ Saturate(c, t)["left"] = cc - diff
      /\ Saturate(c, t)["right"] = cc + diff
  BY <1>5 DEF Wheels, Side
<1>7. \A s \in Side : s = "left" \/ s = "right"
  BY DEF Side
<1>8. (cc + diff) - (cc - diff) = 2 * diff
  BY <1>1, <1>3
<1> QED
  BY <1>1, <1>4, <1>6, <1>7, <1>8

-----------------------------------------------------------------------------
(***************************************************************************)
(* pid.c.                                                                  *)
(***************************************************************************)

\* The limits of a regulator are symmetric and its integral is inside them.
Enveloped(p) ==
    /\ p.out_min = -p.out_max
    /\ fabsf(p.i_term) <= fabsf(p.out_max)

(***************************************************************************)
(* Changing the limits re-clamps the integral, so the envelope holds for   *)
(* the new limits as well.                                                 *)
(***************************************************************************)
LEMMA SetLimitsEnveloped ==
    ASSUME NEW p \in PidState, NEW m \in Int
    PROVE  /\ pid_set_output_limits(p, -m, m) \in PidState
           /\ Enveloped(pid_set_output_limits(p, -m, m))
           /\ p.i_term = 0 /\ m >= 0 => pid_set_output_limits(p, -m, m).i_term = 0
<1> DEFINE q == pid_set_output_limits(p, -m, m)
<1>1. /\ q.out_min = -m /\ q.out_max = m
      /\ q.i_term = clampf(p.i_term, -m, m)
  BY DEF pid_set_output_limits, PidState
<1>2. clampf(p.i_term, -m, m) \in Int
  BY ClampRange DEF PidState
<1> DEFINE q1 == [p EXCEPT !.out_min = -m]
           q2 == [q1 EXCEPT !.out_max = m]
<1>3. q \in PidState
  <2>1. q1 \in PidState
    BY DEF PidState
  <2>2. q2 \in PidState
    BY <2>1 DEF PidState
  <2>3. [q2 EXCEPT !.i_term = clampf(p.i_term, -m, m)] \in PidState
    BY <1>2, <2>2 DEF PidState
  <2> QED
    BY <2>3 DEF pid_set_output_limits
<1>4. fabsf(q.i_term) <= fabsf(m)
  BY <1>1, ClampMagnitude DEF PidState
<1>5. m >= 0 => clampf(0, -m, m) = 0
  BY DEF clampf
<1> QED
  BY <1>1, <1>3, <1>4, <1>5 DEF Enveloped

LEMMA ResetEnveloped ==
    ASSUME NEW p \in PidState, Enveloped(p)
    PROVE  /\ pid_reset(p) \in PidState
           /\ Enveloped(pid_reset(p))
           /\ ~pid_reset(p).initialized
           /\ pid_reset(p).i_term = 0
<1>1. /\ pid_reset(p).out_min = p.out_min /\ pid_reset(p).out_max = p.out_max
      /\ pid_reset(p).i_term = 0 /\ pid_reset(p).initialized = FALSE
  BY DEF pid_reset, PidState
<1>2. fabsf(0) <= fabsf(p.out_max)
  BY DEF fabsf, PidState
<1> DEFINE q1 == [p EXCEPT !.i_term = 0]
           q2 == [q1 EXCEPT !.last_meas = 0]
           q3 == [q2 EXCEPT !.last_us = 0]
<1>3. pid_reset(p) \in PidState
  <2>1. q1 \in PidState
    BY DEF PidState
  <2>2. q2 \in PidState
    BY <2>1 DEF PidState
  <2>3. q3 \in PidState
    BY <2>2 DEF PidState
  <2>4. [q3 EXCEPT !.initialized = FALSE] \in PidState
    BY <2>3 DEF PidState
  <2> QED
    BY <2>4 DEF pid_reset
<1> QED
  BY <1>1, <1>2, <1>3 DEF Enveloped

LEMMA SampledType ==
    ASSUME NEW p \in PidState, NEW m \in Int, NEW t \in Int
    PROVE  /\ Sampled(p, m, t) \in PidState
           /\ Sampled(p, m, t).out_min = p.out_min
           /\ Sampled(p, m, t).out_max = p.out_max
           /\ Sampled(p, m, t).min_drive = p.min_drive
           /\ Sampled(p, m, t).i_term = p.i_term
           /\ Sampled(p, m, t).last_us = t
           /\ Sampled(p, m, t).initialized
BY DEF Sampled, PidState

\* The same with the integral replaced.
LEMMA SampledIntegral ==
    ASSUME NEW p \in PidState, NEW m \in Int, NEW t \in Int, NEW i \in Int
    PROVE  LET q == [Sampled(p, m, t) EXCEPT !.i_term = i]
           IN  /\ q \in PidState
               /\ q.out_min = p.out_min
               /\ q.out_max = p.out_max
               /\ q.min_drive = p.min_drive
               /\ q.i_term = i
               /\ q.last_us = t
               /\ q.initialized
BY DEF Sampled, PidState

\* The arithmetic of a tracking sample stays in the integers.
LEMMA TrackNumbers ==
    ASSUME NEW p \in PidState, NEW e \in Int, NEW m \in Int,
           NEW dt \in Nat \ {0}
    PROVE  /\ Integral(p, e, dt) \in Int
           /\ RawOutput(p, e, m, dt) \in Int
           /\ p.out_min = -p.out_max
                => fabsf(Integral(p, e, dt)) <= fabsf(p.out_max)
<1>1. /\ p.kp \in Int /\ p.ki \in Int /\ p.kd \in Int /\ p.i_term \in Int
      /\ p.out_min \in Int /\ p.out_max \in Int /\ p.last_meas \in Int
  BY DEF PidState
<1>2. p.ki * e \in Int
  BY <1>1
<1>3. p.ki * e * dt \in Int
  BY <1>2
<1>4. p.i_term + p.ki * e * dt \in Int
  BY <1>1, <1>3
<1>5. Integral(p, e, dt) \in Int
  BY <1>1, <1>4, ClampRange DEF Integral
<1>6. p.kd * (m - p.last_meas) \in Int
  BY <1>1
<1>7. (p.kd * (m - p.last_meas)) \div dt \in Int
  BY <1>6
<1>8. p.kp * e \in Int
  BY <1>1
<1>9. RawOutput(p, e, m, dt) \in Int
  BY <1>5, <1>7, <1>8 DEF RawOutput
<1>10. p.out_min = -p.out_max => fabsf(Integral(p, e, dt)) <= fabsf(p.out_max)
  BY <1>1, <1>4, ClampMagnitude DEF Integral
<1> QED
  BY <1>5, <1>9, <1>10

LEMMA SaturatedMagnitude ==
    ASSUME NEW p \in PidState, p.out_min = -p.out_max, NEW raw \in Int
    PROVE  /\ Saturated(p, raw) \in Int
           /\ fabsf(Saturated(p, raw)) <= fabsf(p.out_max)
<1>1. p.out_max \in Int
  BY DEF PidState
<1> QED
  BY <1>1 DEF Saturated, fabsf

\* The stiction floor raises an output to min_drive and no further.
LEMMA FloorMagnitude ==
    ASSUME NEW p \in PidState, NEW out \in Int, NEW sp \in Int, NEW m \in Int
    PROVE  /\ StictionFloor(p, out, sp, m) \in Int
           /\ \/ StictionFloor(p, out, sp, m) = out
              \/ fabsf(StictionFloor(p, out, sp, m)) = p.min_drive
<1>1. p.min_drive \in Int
  BY DEF PidState
<1> QED
  BY <1>1 DEF StictionFloor, fabsf, copysignf

\* What the three ways through pid_compute have in common.
ComputeResult(p, sp, m, t, r) ==
    /\ r.pid \in PidState
    /\ Enveloped(r.pid)
    /\ r.pid.out_max = p.out_max
    /\ r.pid.min_drive = p.min_drive
    /\ r.pid.last_us = t
    /\ r.pid.initialized
    /\ r.out \in Int
    /\ \/ fabsf(r.out) <= fabsf(p.out_max)
       \/ fabsf(r.out) <= p.min_drive

LEMMA TrackResult ==
    ASSUME NEW p \in PidState, Enveloped(p), NEW sp \in Int, NEW m \in Int,
           NEW t \in Int, ~NoBaseline(p, t)
    PROVE  ComputeResult(p, sp, m, t, Track(p, sp, m, t))
<1> DEFINE dt  == t - p.last_us
           e   == sp - m
           raw == RawOutput(p, e, m, dt)
           i   == IF Commits(p, raw, e) THEN Integral(p, e, dt) ELSE p.i_term
           q   == [Sampled(p, m, t) EXCEPT !.i_term = i]
           out == StictionFloor(p, Saturated(p, raw), sp, m)
<1>1. dt \in Nat \ {0} /\ e \in Int
  BY DEF NoBaseline, PidState
<1>2. /\ Integral(p, e, dt) \in Int /\ raw \in Int
      /\ fabsf(Integral(p, e, dt)) <= fabsf(p.out_max)
  BY <1>1, TrackNumbers DEF Enveloped
<1>3. i \in Int /\ fabsf(i) <= fabsf(p.out_max)
  BY <1>2 DEF Enveloped, PidState
<1>4. /\ q \in PidState /\ q.out_min = p.out_min /\ q.out_max = p.out_max
      /\ q.min_drive = p.min_drive /\ q.i_term = i /\ q.last_us = t
      /\ q.initialized
  <2> HIDE DEF i
  <2> QED
    BY <1>3, SampledIntegral
<1>5. Saturated(p, raw) \in Int /\ fabsf(Saturated(p, raw)) <= fabsf(p.out_max)
  <2> HIDE DEF raw
  <2> QED
    BY <1>2, SaturatedMagnitude DEF Enveloped
<1>6. /\ out \in Int
      /\ fabsf(out) <= fabsf(p.out_max) \/ fabsf(out) <= p.min_drive
  <2> DEFINE sat == Saturated(p, raw)
  <2> HIDE DEF sat
  <2>1. /\ StictionFloor(p, sat, sp, m) \in Int
        /\ \/ StictionFloor(p, sat, sp, m) = sat
           \/ fabsf(StictionFloor(p, sat, sp, m)) = p.min_drive
    BY <1>5, FloorMagnitude DEF sat
  <2> QED
    BY <1>5, <2>1 DEF sat, PidState
<1>7. Track(p, sp, m, t).pid = q /\ Track(p, sp, m, t).out = out
  BY DEF Track
<1> HIDE DEF q, out
<1> QED
  BY <1>3, <1>4, <1>6, <1>7 DEF ComputeResult, Enveloped

(***************************************************************************)
(* pid_compute on every path: the record stays typed and enveloped and the *)
(* output is within the clamp or the stiction floor; a zero setpoint or a  *)
(* missing baseline gives no output; a zero setpoint drops the integral    *)
(* whenever there is a baseline.                                           *)
(***************************************************************************)
THEOREM ComputeFacts ==
    ASSUME NEW p \in PidState, Enveloped(p), NEW sp \in Int, NEW m \in Int,
           NEW t \in Int
    PROVE  LET r == pid_compute(p, sp, m, t)
           IN  /\ ComputeResult(p, sp, m, t, r)
               /\ sp = 0 \/ NoBaseline(p, t) => r.out = 0
               /\ NoBaseline(p, t) => r.pid.i_term = p.i_term
               /\ sp = 0 /\ ~NoBaseline(p, t) => r.pid.i_term = 0
<1> DEFINE r == pid_compute(p, sp, m, t)
<1>0. /\ p.out_max \in Int /\ p.i_term \in Int
  BY DEF PidState
<1>1. CASE NoBaseline(p, t)
  <2>1. r = [pid |-> Sampled(p, m, t), out |-> 0]
    BY <1>1 DEF pid_compute
  <2>2. r.pid = Sampled(p, m, t) /\ r.out = 0
    BY <2>1
  <2>3. fabsf(0) <= fabsf(p.out_max)
    BY <1>0 DEF fabsf
  <2> DEFINE q == Sampled(p, m, t)
  <2>5. /\ q \in PidState /\ q.out_min = p.out_min /\ q.out_max = p.out_max
        /\ q.min_drive = p.min_drive /\ q.i_term = p.i_term
        /\ q.last_us = t /\ q.initialized
    BY <1>0, SampledType
  <2> HIDE DEF r, q
  <2>4. ComputeResult(p, sp, m, t, r) /\ r.pid.i_term = p.i_term
    BY <1>0, <2>2, <2>3, <2>5 DEF ComputeResult, Enveloped, q
  <2> QED
    BY <1>1, <2>2, <2>4 DEF r
<1>2. CASE ~NoBaseline(p, t) /\ sp = 0
  <2> DEFINE q == [Sampled(p, m, t) EXCEPT !.i_term = 0]
  <2>1. r = [pid |-> q, out |-> 0]
    BY <1>2 DEF pid_compute
  <2>2. r.pid = q /\ r.out = 0
    BY <2>1
  <2>3. fabsf(0) <= fabsf(p.out_max)
    BY <1>0 DEF fabsf
  <2>4. /\ q \in PidState /\ q.out_min = p.out_min /\ q.out_max = p.out_max
        /\ q.min_drive = p.min_drive /\ q.i_term = 0 /\ q.last_us = t
        /\ q.initialized
    BY SampledIntegral
  <2> HIDE DEF r, q
  <2>5. ComputeResult(p, sp, m, t, r) /\ r.pid.i_term = 0
    BY <2>2, <2>3, <2>4 DEF ComputeResult, Enveloped
  <2> QED
    BY <1>2, <2>2, <2>5 DEF r
<1>3. CASE ~NoBaseline(p, t) /\ sp # 0
  <2>1. r = Track(p, sp, m, t)
    BY <1>3 DEF pid_compute
  <2> HIDE DEF r
  <2>2. ComputeResult(p, sp, m, t, r)
    BY <1>3, <2>1, TrackResult
  <2> QED
    BY <1>3, <2>2 DEF r
<1> QED
  BY <1>1, <1>2, <1>3

-----------------------------------------------------------------------------
\* The wrap of the int16_t conversion never enlarges a magnitude.
LEMMA WrapMagnitude ==
    ASSUME NEW x \in Int
    PROVE  int16(x) \in Int /\ fabsf(int16(x)) <= fabsf(x)
<1>1. ASSUME NEW z \in Int
      PROVE  z % 65536 \in Int /\ 0 <= z % 65536 /\ z % 65536 < 65536
  OBVIOUS
<1>2. ASSUME NEW z \in Int, 0 <= z, z < 65536 PROVE z % 65536 = z
  BY <1>2
<1> DEFINE y == (x + 32768) % 65536
<1>3. y \in Int /\ 0 <= y /\ y < 65536
  BY <1>1
<1>4. 0 <= x + 32768 /\ x + 32768 < 65536 => y = x + 32768
  BY <1>2
<1>5. int16(x) = y - 32768
  BY DEF int16
<1> HIDE DEF y
<1> QED
  BY <1>3, <1>4, <1>5 DEF fabsf

(***************************************************************************)
(* motor.c: every argument leaves the channel in a legal state with a duty *)
(* no larger than it, and zero is the stopped state.                       *)
(***************************************************************************)
LEMMA MotorFacts ==
    ASSUME NEW inv \in BOOLEAN, NEW x \in Int
    PROVE  /\ motor_set_pwm(inv, x) \in Channel
           /\ motor_set_pwm(inv, x).duty <= fabsf(x)
           /\ motor_set_pwm(inv, 0) = Stopped
<1> DEFINE w == int16(x)
           p == clamp_pwm(w)
<1>1. w \in Int /\ fabsf(w) <= fabsf(x)
  BY WrapMagnitude
<1>2. p \in Int /\ -255 <= p /\ p <= 255 /\ fabsf(p) <= fabsf(w)
  <2> HIDE DEF w
  <2> QED
    BY <1>1 DEF clamp_pwm, clampf, PWM_MAX, fabsf
<1>3. motor_set_pwm(inv, x) = set_channel(inv, p)
  BY DEF motor_set_pwm
<1> HIDE DEF p, w
<1>4. set_channel(inv, p) \in Channel /\ set_channel(inv, p).duty = fabsf(p)
  BY <1>2 DEF set_channel, Channel, PWM_MAX, fabsf
<1>5. clamp_pwm(int16(0)) = 0
  BY DEF clamp_pwm, clampf, PWM_MAX, int16
<1>6. motor_set_pwm(inv, 0) = Stopped
  BY <1>5 DEF motor_set_pwm, set_channel, Stopped, fabsf
<1>7. fabsf(p) \in Int /\ fabsf(w) \in Int /\ fabsf(x) \in Int
  BY <1>1, <1>2 DEF fabsf
<1> QED
  BY <1>1, <1>2, <1>3, <1>4, <1>6, <1>7

-----------------------------------------------------------------------------
(***************************************************************************)
(* The sign of an output, from pid_compute to the H-bridge.                *)
(***************************************************************************)

\* An output that does not point away from the error.
Agrees(out, error) ==
    /\ out > 0 => error >= 0
    /\ out < 0 => error <= 0

\* A clamp and a floor that survive the conversion to int16_t.
FitsInt16(p) ==
    /\ 0 <= p.out_max /\ p.out_max <= 32767
    /\ p.min_drive <= 32767

ProportionalOnly(p) == p.ki = 0 /\ p.kd = 0 /\ p.kp >= 0 /\ p.i_term = 0

LEMMA AgreesProduct ==
    ASSUME NEW out \in Int, NEW error \in Int, Agrees(out, error)
    PROVE  out * error >= 0
<1>1. CASE out = 0
  BY <1>1
<1>2. CASE out > 0
  BY <1>2 DEF Agrees
<1>3. CASE out < 0
  <2>1. error <= 0
    BY <1>3 DEF Agrees
  <2>2. -out >= 0 /\ -error >= 0
    BY <1>3, <2>1
  <2>3. (-out) * (-error) >= 0
    BY <2>2
  <2>4. (-out) * (-error) = out * error
    OBVIOUS
  <2> QED
    BY <2>3, <2>4
<1> QED
  BY <1>1, <1>2, <1>3

LEMMA GainAgrees ==
    ASSUME NEW k \in Nat, NEW error \in Int
    PROVE  k * error \in Int /\ Agrees(k * error, error)
<1>1. error >= 0 => k * error >= 0
  OBVIOUS
<1>2. error <= 0 => k * error <= 0
  <2> SUFFICES ASSUME error <= 0 PROVE k * error <= 0
    OBVIOUS
  <2>1. -error \in Nat
    OBVIOUS
  <2>2. k * (-error) >= 0
    BY <2>1
  <2>3. k * (-error) = -(k * error)
    OBVIOUS
  <2> QED
    BY <2>2, <2>3
<1> QED
  BY <1>1, <1>2 DEF Agrees

\* The floor takes the sign of the output, or of the setpoint of a stalled
\* wheel, which is then the sign of the error.
LEMMA FloorAgrees ==
    ASSUME NEW p \in PidState, NEW out \in Int, NEW sp \in Int, NEW m \in Int,
           Agrees(out, sp - m)
    PROVE  Agrees(StictionFloor(p, out, sp, m), sp - m)
<1>1. p.min_drive \in Int
  BY DEF PidState
<1> QED
  BY <1>1 DEF StictionFloor, Agrees, fabsf, copysignf

\* Saturation to an envelope around zero keeps the sign.
LEMMA SaturatedAgrees ==
    ASSUME NEW p \in PidState, p.out_min = -p.out_max, p.out_max >= 0,
           NEW raw \in Int, NEW error \in Int, Agrees(raw, error)
    PROVE  Agrees(Saturated(p, raw), error)
<1>1. p.out_max \in Int /\ p.out_min \in Int
  BY DEF PidState
<1> QED
  BY <1>1 DEF Saturated, Agrees

(***************************************************************************)
(* With the proportional gain alone the tracked output agrees with the     *)
(* error and fits an int16_t.                                              *)
(***************************************************************************)
LEMMA TrackAgrees ==
    ASSUME NEW p \in PidState, Enveloped(p), FitsInt16(p), NEW sp \in Int,
           NEW m \in Int, NEW t \in Int, ~NoBaseline(p, t),
           ProportionalOnly(Track(p, sp, m, t).pid)
    PROVE  /\ Track(p, sp, m, t).out \in Int
           /\ -32767 <= Track(p, sp, m, t).out
           /\ Track(p, sp, m, t).out <= 32767
           /\ Agrees(Track(p, sp, m, t).out, sp - m)
<1> DEFINE dt  == t - p.last_us
           e   == sp - m
           raw == RawOutput(p, e, m, dt)
           i   == IF Commits(p, raw, e) THEN Integral(p, e, dt) ELSE p.i_term
           q   == [Sampled(p, m, t) EXCEPT !.i_term = i]
           sat == Saturated(p, raw)
           out == StictionFloor(p, sat, sp, m)
<1>0. /\ p.out_min = -p.out_max /\ p.out_max >= 0 /\ p.out_max <= 32767
      /\ p.min_drive <= 32767
  BY DEF Enveloped, FitsInt16
<1>1. dt \in Nat \ {0} /\ e \in Int
  BY DEF NoBaseline, PidState
<1>2. /\ p.kp \in Int /\ p.ki \in Int /\ p.kd \in Int /\ p.i_term \in Int
      /\ p.out_min \in Int /\ p.out_max \in Int /\ p.last_meas \in Int
      /\ p.min_drive \in Int
  BY DEF PidState
<1>3. Track(p, sp, m, t).pid = q /\ Track(p, sp, m, t).out = out
  BY DEF Track
<1>4. p.ki = 0 /\ p.kd = 0 /\ p.kp \in Nat /\ i = 0
  <2>1. q.ki = p.ki /\ q.kd = p.kd /\ q.kp = p.kp /\ q.i_term = i
    <3> HIDE DEF i
    <3> QED
      BY DEF Sampled, PidState
  <2> HIDE DEF q, i
  <2> QED
    BY <1>2, <1>3, <2>1 DEF ProportionalOnly
<1>5. Integral(p, e, dt) = 0
  <2>1. p.ki * e * dt = 0
    BY <1>1, <1>4
  <2>2. p.i_term = 0 => Integral(p, e, dt) = 0
    <3>1. p.i_term = 0 => Integral(p, e, dt) = clampf(0, p.out_min, p.out_max)
      <4> HIDE DEF e, dt
      <4>1. p.i_term = 0 => p.i_term + p.ki * e * dt = 0
        BY <2>1
      <4> QED
        BY <4>1 DEF Integral
    <3>2. clampf(0, p.out_min, p.out_max) = 0
      BY <1>0, <1>2 DEF clampf
    <3> QED
      BY <3>1, <3>2
  <2> QED
    BY <1>4, <2>2
<1>6. raw = p.kp * e
  <2>1. p.kd * (m - p.last_meas) = 0
    BY <1>2, <1>4
  <2>2. 0 \div dt = 0
    BY <1>1
  <2>3. p.kp * e \in Int
    BY <1>1, <1>2
  <2> QED
    BY <1>5, <2>1, <2>2, <2>3 DEF RawOutput
<1>7. raw \in Int /\ Agrees(raw, e)
  BY <1>1, <1>4, <1>6, GainAgrees
<1> HIDE DEF raw, i, q
<1>8. /\ sat \in Int /\ Agrees(sat, e) /\ fabsf(sat) <= fabsf(p.out_max)
  <2>1. sat \in Int /\ fabsf(sat) <= fabsf(p.out_max)
    BY <1>7, SaturatedMagnitude DEF Enveloped
  <2>2. Agrees(sat, e)
    BY <1>0, <1>1, <1>7, SaturatedAgrees
  <2> QED
    BY <2>1, <2>2
<1> HIDE DEF sat
<1>9. /\ Agrees(out, sp - m)
      /\ out \in Int
      /\ out = sat \/ fabsf(out) = p.min_drive
  BY <1>8, FloorAgrees, FloorMagnitude
<1> HIDE DEF e, dt, out
<1>10. -32767 <= out /\ out <= 32767
  BY <1>0, <1>2, <1>8, <1>9 DEF fabsf
<1>11. Track(p, sp, m, t).out = out
  BY <1>3
<1> QED
  BY <1>9, <1>10, <1>11

\* pid_compute on every path.
LEMMA ComputeAgrees ==
    ASSUME NEW p \in PidState, Enveloped(p), FitsInt16(p), NEW sp \in Int,
           NEW m \in Int, NEW t \in Int,
           ProportionalOnly(pid_compute(p, sp, m, t).pid)
    PROVE  /\ pid_compute(p, sp, m, t).out \in Int
           /\ -32767 <= pid_compute(p, sp, m, t).out
           /\ pid_compute(p, sp, m, t).out <= 32767
           /\ Agrees(pid_compute(p, sp, m, t).out, sp - m)
<1>1. CASE sp = 0 \/ NoBaseline(p, t)
  <2>1. pid_compute(p, sp, m, t).out = 0
    BY <1>1, ComputeFacts
  <2> QED
    BY <2>1 DEF Agrees
<1>2. CASE ~(sp = 0 \/ NoBaseline(p, t))
  <2>1. pid_compute(p, sp, m, t) = Track(p, sp, m, t)
    BY <1>2 DEF pid_compute
  <2> QED
    BY <1>2, <2>1, TrackAgrees
<1> QED
  BY <1>1, <1>2

\* The PWM a channel is driven with, its wiring undone.
Driven(inv, c) ==
    LET d == (c.in2 - c.in1) * c.duty
    IN  IF inv THEN -d ELSE d

\* A value that fits an int16_t reaches the bridge with its sign.
LEMMA DrivenAgrees ==
    ASSUME NEW inv \in BOOLEAN, NEW x \in Int, -32767 <= x, x <= 32767,
           NEW error \in Int,
           Agrees(x, error)
    PROVE  /\ Driven(inv, motor_set_pwm(inv, x)) \in Int
           /\ Agrees(Driven(inv, motor_set_pwm(inv, x)), error)
<1> DEFINE w == clamp_pwm(int16(x))
           p == IF inv THEN -w ELSE w
           c == set_channel(inv, w)
<1>1. int16(x) = x
  BY DEF int16
<1>2. w \in Int /\ Agrees(w, error)
  BY <1>1 DEF clamp_pwm, clampf, PWM_MAX, Agrees
<1> HIDE DEF w
<1>3. p \in Int
  BY <1>2
<1>4. /\ c.in1 = (IF p < 0 THEN 1 ELSE 0)
      /\ c.in2 = (IF p > 0 THEN 1 ELSE 0)
      /\ c.duty = fabsf(p)
  BY DEF set_channel
<1>5. (c.in2 - c.in1) * c.duty = p
  <2> HIDE DEF c, p
  <2>1. CASE p > 0
    BY <1>3, <1>4, <2>1 DEF fabsf
  <2>2. CASE p < 0
    BY <1>3, <1>4, <2>2 DEF fabsf
  <2>3. CASE p = 0
    BY <1>3, <1>4, <2>3 DEF fabsf
  <2> QED
    BY <1>3, <2>1, <2>2, <2>3
<1>6. Driven(inv, c) = w
  <2> HIDE DEF c
  <2> QED
    BY <1>2, <1>5 DEF Driven
<1>7. motor_set_pwm(inv, x) = c
  BY DEF motor_set_pwm, w
<1> HIDE DEF c
<1> QED
  BY <1>2, <1>6, <1>7
=============================================================================
