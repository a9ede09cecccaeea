-------------------------- MODULE Sensors_proofs --------------------------
(***************************************************************************)
(* Proofs about Sensors: that no edge of an encoder is lost, that the yaw  *)
(* accounts for every turn the sources saw, that no angle winds up and     *)
(* that mag_fresh is honest, for every wheel size, filter gain, travel and *)
(* number of failed transactions.                                          *)
(***************************************************************************)
EXTENDS Sensors, TLAPS
-----------------------------------------------------------------------------
(***************************************************************************)
(* encoder.c.                                                              *)
(***************************************************************************)

\* What setup_unit's edge and level actions decode of a shaft's position: a
\* tick for every second quarter period.
LEMMA Decoding ==
    ASSUME NEW p \in Int, NEW q \in Int, q \in {p - 1, p, p + 1}
    PROVE  Decoded(p, q) = (q + 1) \div 2 - (p + 1) \div 2
BY DEF Decoded, A, B

\* Starting again at a limit loses no count, as both limits are watched.
LEMMA Counting ==
    ASSUME NEW u \in [count: Int, accum: Int], fabsf(u.count) < HighLimit, NEW n \in -1..1
    PROVE  /\ Counted(u, n) \in [count: Int, accum: Int]
           /\ Counted(u, n).count + Counted(u, n).accum = u.count + u.accum + n
           /\ fabsf(Counted(u, n).count) < HighLimit
BY EncoderAssumption DEF Counted, WatchPoints, fabsf

EncoderInv ==
    /\ pos \in [Side -> Int]
    /\ unit \in [Side -> [count: Int, accum: Int]]
    /\ \A s \in Side :
          /\ unit[s].count + unit[s].accum = (Shaft(s, pos[s]) + 1) \div 2
          /\ fabsf(unit[s].count) < HighLimit

LEMMA EncoderStart == EncoderInit => EncoderInv
BY EncoderAssumption DEF EncoderInit, EncoderInv, Shaft, fabsf

LEMMA WheelsTurnStep ==
    ASSUME EncoderInv, NEW turn \in [Side -> -1..1], WheelsTurn(turn)
    PROVE  EncoderInv'
<1>1. pos' \in [Side -> Int] /\ \A s \in Side : pos'[s] = pos[s] + turn[s]
  BY DEF WheelsTurn, EncoderInv
<1>2. ASSUME NEW s \in Side
      PROVE  /\ unit'[s] \in [count: Int, accum: Int]
             /\ unit'[s].count + unit'[s].accum = (Shaft(s, pos'[s]) + 1) \div 2
             /\ fabsf(unit'[s].count) < HighLimit
  <2> DEFINE p == Shaft(s, pos[s])
             q == Shaft(s, pos'[s])
  <2>1. p \in Int /\ q \in {p - 1, p, p + 1}
    BY <1>1, <1>2 DEF EncoderInv, Shaft
  <2>2. unit'[s] = Counted(unit[s], Decoded(p, q))
    BY <1>2 DEF WheelsTurn
  <2> HIDE DEF p, q
  <2>3. /\ Decoded(p, q) = (q + 1) \div 2 - (p + 1) \div 2
        /\ Decoded(p, q) \in -1..1
    <3>1. Decoded(p, q) = (q + 1) \div 2 - (p + 1) \div 2
      BY <2>1, Decoding
    <3>. QED
      BY <2>1, <3>1
  <2>4. /\ unit[s] \in [count: Int, accum: Int] /\ fabsf(unit[s].count) < HighLimit
        /\ unit[s].count + unit[s].accum = (p + 1) \div 2
    BY <1>2 DEF EncoderInv, p
  <2>5. /\ unit'[s] \in [count: Int, accum: Int] /\ fabsf(unit'[s].count) < HighLimit
        /\ unit'[s].count + unit'[s].accum = unit[s].count + unit[s].accum + Decoded(p, q)
    BY <2>2, <2>3, <2>4, Counting
  <2>6. unit'[s].count + unit'[s].accum = (q + 1) \div 2
    BY <2>1, <2>3, <2>4, <2>5
  <2>. QED
    BY <2>5, <2>6 DEF q
<1>3. DOMAIN unit' = Side /\ unit' = [s \in Side |-> unit'[s]]
  BY DEF WheelsTurn
<1>4. unit' \in [Side -> [count: Int, accum: Int]]
  BY <1>2, <1>3
<1>. QED
  BY <1>1, <1>2, <1>4 DEF EncoderInv

\* The count read is half of the wheel's position, whichever way its encoder
\* is mounted.
LEMMA TicksAreHalves ==
    ASSUME EncoderInv, NEW s \in Side
    PROVE  /\ encoder_ticks(s) \in Int
           /\ encoder_ticks(s) = IF s \in Inverted THEN -((1 - pos[s]) \div 2)
                                                   ELSE (pos[s] + 1) \div 2
BY DEF EncoderInv, encoder_ticks, Shaft

LEMMA TicksFollow == EncoderInv => TicksFollowWheels
<1> SUFFICES ASSUME EncoderInv, NEW s \in Side
             PROVE  fabsf(2 * encoder_ticks(s) - pos[s]) <= 1
  BY DEF TicksFollowWheels
<1>1. pos[s] \in Int
  BY DEF EncoderInv
<1>2. CASE s \in Inverted
  BY <1>1, <1>2, TicksAreHalves DEF fabsf
<1>3. CASE s \notin Inverted
  BY <1>1, <1>3, TicksAreHalves DEF fabsf
<1>. QED
  BY <1>2, <1>3

\* A quarter period is one tick or none.
LEMMA OneTick ==
    ASSUME EncoderInv, NEW turn \in [Side -> -1..1], WheelsTurn(turn), NEW s \in Side
    PROVE  encoder_ticks(s)' - encoder_ticks(s) \in -1..1
<1>1. EncoderInv'
  BY WheelsTurnStep
<1>2. pos[s] \in Int /\ turn[s] \in -1..1 /\ pos'[s] = pos[s] + turn[s]
  BY DEF EncoderInv, WheelsTurn
<1>3. encoder_ticks(s)' = IF s \in Inverted THEN -((1 - pos'[s]) \div 2)
                                            ELSE (pos'[s] + 1) \div 2
  BY <1>1 DEF EncoderInv, encoder_ticks, Shaft
<1>4. CASE s \in Inverted
  BY <1>2, <1>3, <1>4, TicksAreHalves
<1>5. CASE s \notin Inverted
  BY <1>2, <1>3, <1>5, TicksAreHalves
<1>. QED
  BY <1>4, <1>5
-----------------------------------------------------------------------------
(***************************************************************************)
(* Angles that differ by whole turns.                                      *)
(***************************************************************************)
Same(a, b) == \E k \in Int : a = b + (2 * Pi) * k

LEMMA SameRefl == ASSUME NEW a \in Int PROVE Same(a, a)
<1>1. a = a + (2 * Pi) * 0
  BY OdometryAssumption
<1>. QED
  BY <1>1 DEF Same

LEMMA SameSum ==
    ASSUME NEW a \in Int, NEW b \in Int, NEW c \in Int, NEW d \in Int,
           Same(a, b), Same(c, d)
    PROVE  Same(a + c, b + d) /\ Same(a - c, b - d)
<1>1. PICK k \in Int : a = b + (2 * Pi) * k
  BY DEF Same
<1>2. PICK n \in Int : c = d + (2 * Pi) * n
  BY DEF Same
<1>3. /\ (2 * Pi) * (k + n) = (2 * Pi) * k + (2 * Pi) * n
      /\ (2 * Pi) * (k - n) = (2 * Pi) * k - (2 * Pi) * n
      /\ (2 * Pi) * k \in Int /\ (2 * Pi) * n \in Int
  BY OdometryAssumption
<1>4. a + c = b + d + (2 * Pi) * (k + n) /\ a - c = b - d + (2 * Pi) * (k - n)
  BY <1>1, <1>2, <1>3
<1>. QED
  BY <1>4 DEF Same

\* Division with remainder.
LEMMA Division ==
    ASSUME NEW a \in Int, NEW b \in Nat \ {0}
    PROVE  /\ a % b \in 0..(b - 1)
           /\ \E k \in Int : a % b = a + b * k
<1>1. a % b \in 0..(b - 1)
  OBVIOUS
<1>2. a % b = a + b * (-(a \div b)) /\ -(a \div b) \in Int
  <2>1. a % b = a - b * (a \div b) /\ a \div b \in Int
    OBVIOUS
  <2>2. b * (-(a \div b)) = -(b * (a \div b)) /\ b * (a \div b) \in Int
    BY <2>1
  <2>. QED
    BY <2>1, <2>2
<1>. QED
  BY <1>1, <1>2

LEMMA SameModulo ==
    ASSUME NEW a \in Int PROVE Same(a % (2 * Pi), a) /\ a % (2 * Pi) \in 0..(2 * Pi - 1)
<1>1. 2 * Pi \in Nat \ {0}
  BY OdometryAssumption
<1>. QED
  BY <1>1, Division DEF Same

LEMMA SameIsModulo ==
    ASSUME NEW a \in Int, NEW b \in Int, Same(a, b) PROVE (a - b) % (2 * Pi) = 0
<1> DEFINE m == 2 * Pi
<1>1. m \in Nat \ {0}
  BY OdometryAssumption
<1>2. PICK k \in Int : a = b + m * k
  BY DEF Same
<1> HIDE DEF m
<1>3. m * k \in Int /\ a - b = m * k
  BY <1>1, <1>2
<1>4. (a - b) % m = 0
  BY <1>1, <1>3
<1>. QED
  BY <1>4 DEF m

\* The single subtraction of odometry.c is enough for a change of one turn.
LEMMA WrapFacts ==
    ASSUME NEW y \in Int
    PROVE  /\ Wrap(y) \in Int
           /\ Same(Wrap(y), y)
           /\ y \in (1 - 3 * Pi)..(3 * Pi) => Wrap(y) \in (1 - Pi)..Pi
<1>1. Wrap(y) \in {y, y + (2 * Pi) * 1, y + (2 * Pi) * (-1)}
  BY OdometryAssumption DEF Wrap
<1>2. y = y + (2 * Pi) * 0
  BY OdometryAssumption
<1>3. Same(Wrap(y), y)
  BY <1>1, <1>2 DEF Same
<1>. QED
  BY <1>1, <1>3, OdometryAssumption DEF Wrap

LEMMA ExactDivision ==
    ASSUME NEW k \in Int, NEW b \in Nat \ {0} PROVE (k * b) \div b = k
OBVIOUS

(***************************************************************************)
(* What the speeds control_task computes from the ticks of a pass turn the *)
(* odometry's yaw by.                                                      *)
(***************************************************************************)
LEMMA WheelYaw ==
    ASSUME NEW l \in Int, NEW r \in Int, NEW dt \in Dts, dt <= Second
    PROVE  /\ kinematics_ticks_to_meters(l) \div dt \in Int
           /\ kinematics_ticks_to_meters(r) \div dt \in Int
           /\ QuarterTurn \in Nat
           /\ ((kinematics_ticks_to_meters(r) \div dt
                 - kinematics_ticks_to_meters(l) \div dt) * dt) \div TrackW
                = 2 * QuarterTurn * (r - l)
<1>1. /\ dt \in Nat \ {0} /\ TrackW \in Nat \ {0}
      /\ MetersPerTick \in Nat /\ MetersPerTick % dt = 0
  BY SensorsAssumption, UnitsAssumption, KinematicsAssumption, OdometryAssumption
<1>2. PICK a \in Int : MetersPerTick = dt * a
  BY <1>1
<1> DEFINE b == 2 * TrackW
<1>3. b \in Nat \ {0} /\ MetersPerTick % b = 0
  BY <1>1, UnitsAssumption
<1> HIDE DEF b
<1>4. PICK q \in Int : MetersPerTick = b * q
  BY <1>1, <1>3
<1>5. QuarterTurn = q
  <2>1. MetersPerTick = q * b
    BY <1>3, <1>4
  <2>2. MetersPerTick \div b = q
    BY <1>3, <2>1, ExactDivision
  <2>. QED
    BY <2>2 DEF QuarterTurn, b
<1>6. QuarterTurn \in Nat
  BY <1>1, <1>3 DEF QuarterTurn, b
<1>7. ASSUME NEW t \in Int PROVE kinematics_ticks_to_meters(t) \div dt = t * a
  <2>1. kinematics_ticks_to_meters(t) = (t * a) * dt /\ t * a \in Int
    BY <1>1, <1>2 DEF kinematics_ticks_to_meters
  <2>. QED
    BY <1>1, <2>1, ExactDivision
<1>8. (r * a - l * a) * dt = (2 * q * (r - l)) * TrackW
  <2>1. (r * a - l * a) * dt = (r - l) * (dt * a)
    BY <1>1
  <2>2. (r - l) * (b * q) = (2 * q * (r - l)) * TrackW
    BY <1>1 DEF b
  <2>. QED
    BY <1>2, <1>4, <2>1, <2>2
<1>9. 2 * q * (r - l) \in Int
  OBVIOUS
<1>10. ((r * a - l * a) * dt) \div TrackW = 2 * q * (r - l)
  BY <1>1, <1>8, <1>9, ExactDivision
<1>. QED
  BY <1>5, <1>6, <1>7, <1>10

\* The complementary filter keeps an angle within its inputs' bound.
LEMMA FusedBound ==
    ASSUME NEW a \in Int, NEW g \in Int, NEW acc \in Int, NEW G \in Nat, NEW R \in Nat,
           fabsf(g) <= R, fabsf(acc) <= G,
           (One - AlphaNum) * (fabsf(a) - 1) <= (One - AlphaNum) * G + AlphaNum * R
    PROVE  /\ Fused(a, g, acc) \in Int
           /\ (One - AlphaNum) * (fabsf(Fused(a, g, acc)) - 1)
                 <= (One - AlphaNum) * G + AlphaNum * R
<1> DEFINE D == One - AlphaNum
           x == AlphaNum * (a + g) + D * acc
           f == Fused(a, g, acc)
           Bd == D * G + AlphaNum * R
<1>1. D \in Nat \ {0} /\ AlphaNum \in Nat /\ One \in Nat \ {0} /\ One = D + AlphaNum
  BY OdometryAssumption
<1>2. x \in Int /\ f = x \div One
  BY <1>1 DEF Fused
<1>3. f \in Int /\ One * f <= x /\ x < One * f + One
  BY <1>1, <1>2
<1>4. fabsf(x) <= AlphaNum * fabsf(a) + Bd
  <2>1. fabsf(AlphaNum * (a + g)) <= AlphaNum * fabsf(a) + AlphaNum * R
    BY <1>1 DEF fabsf
  <2>2. fabsf(D * acc) <= D * G
    BY <1>1 DEF fabsf
  <2>. QED
    BY <1>1, <2>1, <2>2 DEF fabsf
<1>5. One * (fabsf(f) - 1) < AlphaNum * fabsf(a) + Bd
  <2>1. One * fabsf(f) < fabsf(x) + One
    BY <1>1, <1>2, <1>3 DEF fabsf
  <2>. QED
    BY <1>1, <1>2, <1>3, <1>4, <2>1 DEF fabsf
<1> DEFINE F == fabsf(f)
           A0 == fabsf(a)
<1>6. F \in Nat /\ A0 \in Nat /\ Bd \in Nat
  BY <1>1, <1>3 DEF fabsf
<1>7. One * (F - 1) < AlphaNum * A0 + Bd
  BY <1>5
<1>8. D * (A0 - 1) <= Bd
  OBVIOUS
<1> HIDE DEF x, f, D, F, A0, Bd
<1>9. D * (F - 1) <= Bd
  <2>1. CASE F <= A0
    <3>1. D * (F - 1) <= D * (A0 - 1)
      BY <1>1, <1>6, <2>1
    <3>. QED
      BY <1>1, <1>6, <1>8, <3>1
  <2>2. CASE F >= A0 + 1
    <3>1. AlphaNum * A0 <= AlphaNum * (F - 1)
      BY <1>1, <1>6, <2>2
    <3>2. One * (F - 1) = D * (F - 1) + AlphaNum * (F - 1)
      BY <1>1, <1>6
    <3>3. AlphaNum * A0 \in Int /\ AlphaNum * (F - 1) \in Int /\ D * (F - 1) \in Int
      BY <1>1, <1>6
    <3>. QED
      BY <1>6, <1>7, <3>1, <3>2, <3>3
  <2>. QED
    BY <1>6, <2>1, <2>2
<1>. QED
  BY <1>3, <1>9 DEF f, D, F, Bd
LEMMA SameTrans ==
    ASSUME NEW a \in Int, NEW b \in Int, NEW c \in Int, Same(a, b), Same(b, c)
    PROVE  Same(a, c)
<1>1. PICK k \in Int : a = b + (2 * Pi) * k
  BY DEF Same
<1>2. PICK n \in Int : b = c + (2 * Pi) * n
  BY DEF Same
<1>3. (2 * Pi) * (k + n) = (2 * Pi) * k + (2 * Pi) * n /\ k + n \in Int
      /\ (2 * Pi) * k \in Int /\ (2 * Pi) * n \in Int
  BY OdometryAssumption
<1>4. a = c + (2 * Pi) * (k + n)
  BY <1>1, <1>2, <1>3
<1>. QED
  BY <1>3, <1>4 DEF Same

LEMMA LargestFacts ==
    ASSUME NEW S, S \in {Tilts, TiltRates}
    PROVE  Largest(S) \in Nat /\ \A x \in S \cup {0} : fabsf(x) <= Largest(S)
<1>1. S \subseteq Int
  BY SensorsAssumption
<1>2. /\ Largest(S) \in {fabsf(x) : x \in S \cup {0}}
      /\ \A x \in S : fabsf(x) <= Largest(S)
  BY SensorsAssumption DEF Largest
<1>. QED
  BY <1>1, <1>2 DEF fabsf

-----------------------------------------------------------------------------
(***************************************************************************)
(* The inductive invariant.  A turn is in the yaw once for the encoders    *)
(* and, with an IMU, once for the gyro up to the reading imu_task holds;   *)
(* what neither reported is owed.                                          *)
(***************************************************************************)
Gyro == IF imu_on THEN felt - gz ELSE 0

YawInv ==
    /\ gz \in Int /\ felt \in Int
    /\ owed \in 0..(2 * Pi - 1)
    /\ Same(s_yaw, TickTurn + Gyro - owed)
    /\ imu_on => fabsf(Heading - felt) <= MaxUnfelt /\ fabsf(gz) <= MaxUnfelt
    /\ pc \in {"init", "sleep"} => gz = 0

BuildInv ==
    /\ imu_on \in Builds
    /\ ~imu_on => pc = "init" /\ s_pitch = 0 /\ s_roll = 0 /\ felt = 0

\* The newest sample is untaken while the latch is set; a packet that was sent
\* carried it.
ImuInv ==
    /\ ImuTypeOK
    /\ chips.drdy => ~chips.taken
    /\ IF pc = "publish" THEN fresh <=> ~sent ELSE sent /\ ~fresh

SensorsInv == EncoderInv /\ PoseTypeOK /\ TiltBounded /\ YawInv /\ BuildInv /\ ImuInv

\* Turns are integers.
LEMMA Turns ==
    ASSUME EncoderInv
    PROVE  QuarterTurn \in Nat /\ Heading \in Int /\ TickTurn \in Int
<1>1. QuarterTurn \in Nat
  BY KinematicsAssumption, OdometryAssumption DEF QuarterTurn
<1>2. pos["left"] \in Int /\ pos["right"] \in Int
  BY DEF EncoderInv, Side
<1>3. encoder_ticks("left") \in Int /\ encoder_ticks("right") \in Int
  BY TicksAreHalves DEF Side
<1>. QED
  BY <1>1, <1>2, <1>3 DEF Heading, TickTurn

\* A turn that is owed keeps the account.
LEMMA Owing ==
    ASSUME NEW yaw \in Int, NEW a \in Int, NEW t \in Int, owed \in Int,
           Same(yaw, a - owed), Owe(t)
    PROVE  owed' \in 0..(2 * Pi - 1) /\ Same(yaw, a + t - owed')
<1>1. owed' \in 0..(2 * Pi - 1) /\ Same(owed', owed + t)
  BY SameModulo DEF Owe
<1>2. PICK k \in Int : yaw = a - owed + (2 * Pi) * k
  BY DEF Same
<1>3. PICK n \in Int : owed' = owed + t + (2 * Pi) * n
  BY <1>1 DEF Same
<1>4. /\ (2 * Pi) * (k + n) = (2 * Pi) * k + (2 * Pi) * n
      /\ (2 * Pi) * k \in Int /\ (2 * Pi) * n \in Int /\ k + n \in Int
  BY OdometryAssumption
<1>5. yaw = a + t - owed' + (2 * Pi) * (k + n)
  BY <1>1, <1>2, <1>3, <1>4
<1>. QED
  BY <1>1, <1>4, <1>5 DEF Same

\* Writing a turn into the yaw keeps it in range and keeps the account.
LEMMA Turning ==
    ASSUME NEW yaw \in (1 - Pi)..Pi, NEW a \in Int, NEW t \in (-2 * Pi)..(2 * Pi),
           Same(yaw, a)
    PROVE  Wrap(yaw + t) \in (1 - Pi)..Pi /\ Same(Wrap(yaw + t), a + t)
<1>1. /\ yaw + t \in Int /\ t \in Int /\ yaw \in Int
      /\ yaw + t \in (1 - 3 * Pi)..(3 * Pi)
  BY OdometryAssumption
<1>2. Wrap(yaw + t) \in (1 - Pi)..Pi /\ Same(Wrap(yaw + t), yaw + t)
  BY <1>1, WrapFacts
<1>3. Same(yaw + t, a + t)
  BY <1>1, SameRefl, SameSum
<1>. QED
  BY <1>1, <1>2, <1>3, SameTrans, OdometryAssumption

LEMMA TicksTurn ==
    ASSUME EncoderInv, NEW turn \in [Side -> -1..1], WheelsTurn(turn),
           NEW l, l = encoder_ticks("left")' - encoder_ticks("left"),
           NEW r, r = encoder_ticks("right")' - encoder_ticks("right")
    PROVE  /\ l \in Int /\ r \in Int
           /\ TickTurn' = TickTurn + 2 * QuarterTurn * (r - l)
           /\ 2 * QuarterTurn * (r - l) \in (-2 * Pi)..(2 * Pi)
           /\ TickTurn' \in Int
<1>1. PICK tl, tr, nl, nr \in Int :
         /\ tl = encoder_ticks("left") /\ nl = encoder_ticks("left")'
         /\ tr = encoder_ticks("right") /\ nr = encoder_ticks("right")'
  <2>1. encoder_ticks("left")' \in Int /\ encoder_ticks("right")' \in Int
    BY WheelsTurnStep DEF EncoderInv, encoder_ticks, Side
  <2>. QED
    BY <2>1, TicksAreHalves DEF Side
<1>2. l \in -1..1 /\ r \in -1..1
  BY OneTick DEF Side
<1>3. PICK q \in Nat : q = QuarterTurn /\ 2 * q <= Pi
  BY Turns, TurnAssumption DEF QuarterTurn
<1>4. TickTurn' = 2 * q * (nr - nl) /\ TickTurn = 2 * q * (tr - tl)
  BY <1>1, <1>3 DEF TickTurn, QuarterTurn
<1>5. l = nl - tl /\ r = nr - tr
  BY <1>1
<1>6. 2 * q * (nr - nl) = 2 * q * (tr - tl) + 2 * q * ((nr - tr) - (nl - tl))
  BY <1>1, <1>3
<1>7. TickTurn' = TickTurn + 2 * q * (r - l)
  BY <1>4, <1>5, <1>6
<1>8. 2 * q * (r - l) \in (-(4 * q))..(4 * q)
  BY <1>2, <1>3
<1>9. 2 * q * (r - l) \in (-2 * Pi)..(2 * Pi)
  BY <1>3, <1>8, OdometryAssumption
<1>10. TickTurn' \in Int
  BY <1>1, <1>3, <1>4
<1>. QED
  BY <1>2, <1>3, <1>7, <1>9, <1>10

-----------------------------------------------------------------------------
(***************************************************************************)
(* One lemma for each action.                                              *)
(***************************************************************************)
LEMMA InvStart == Init => SensorsInv
<1> SUFFICES ASSUME Init PROVE SensorsInv
  OBVIOUS
<1>1. EncoderInv
  BY EncoderStart DEF Init
<1>2. PoseTypeOK /\ BuildInv
  BY OdometryAssumption DEF Init, odometry_init, ImuInit, PoseTypeOK, BuildInv
<1>3. TiltBounded
  <2>1. Largest(Tilts) \in Nat /\ Largest(TiltRates) \in Nat
    BY LargestFacts
  <2>2. One - AlphaNum \in Nat \ {0} /\ AlphaNum \in Nat
    BY OdometryAssumption
  <2>3. (One - AlphaNum) * Largest(Tilts) \in Nat /\ AlphaNum * Largest(TiltRates) \in Nat
    BY <2>1, <2>2
  <2>4. (One - AlphaNum) * (fabsf(0) - 1) <= 0
    BY <2>2 DEF fabsf
  <2>. QED
    BY <2>2, <2>3, <2>4 DEF Init, odometry_init, TiltBounded, fabsf
<1>4. YawInv
  <2>1. Heading = 0 /\ TickTurn = 0
    <3>1. /\ encoder_ticks("left") = 0 /\ encoder_ticks("right") = 0
          /\ pos["left"] = 0 /\ pos["right"] = 0
      BY DEF Init, EncoderInit, encoder_ticks, Side
    <3>2. QuarterTurn \in Nat
      BY <1>1, Turns
    <3>. QED
      BY <3>1, <3>2 DEF Heading, TickTurn
  <2>2. s_yaw = 0 /\ gz = 0 /\ felt = 0 /\ owed = 0 /\ Gyro = 0
    BY DEF Init, odometry_init, Gyro
  <2>. QED
    BY <2>1, <2>2, SameRefl, OdometryAssumption, TurnAssumption DEF YawInv, fabsf
<1>5. ImuInv
  <2>1. /\ chips \in Chips /\ (chips.drdy => chips.mag) /\ chips.taken = ~chips.drdy
        /\ pc = "init" /\ sent = TRUE /\ fresh = FALSE /\ faults = 0
    BY DEF Init, ImuInit
  <2>2. ImuTypeOK
    <3>1. faults \in 0..MaxFaults
      BY <2>1, ImuAssumption
    <3>2. sent \in BOOLEAN /\ fresh \in BOOLEAN
      BY <2>1
    <3>3. /\ pc \in {"init", "sleep", "st1", "mag", "publish"}
          /\ pc # "mag" /\ ~fresh
      BY <2>1
    <3>. QED
      BY <2>1, <3>1, <3>2, <3>3, Zenon DEF ImuTypeOK
  <2>3. chips.drdy => ~chips.taken
    BY <2>1
  <2>. QED
    BY <2>1, <2>2, <2>3 DEF ImuInv
<1>. QED
  BY <1>1, <1>2, <1>3, <1>4, <1>5 DEF SensorsInv

LEMMA ControlPassStep ==
    ASSUME SensorsInv, NEW turn \in [Side -> -1..1], NEW dt \in Dts, ControlPass(turn, dt)
    PROVE  SensorsInv'
<1> USE DEF SensorsInv
<1> DEFINE l == encoder_ticks("left")' - encoder_ticks("left")
           r == encoder_ticks("right")' - encoder_ticks("right")
           t == 2 * QuarterTurn * (r - l)
           wl == kinematics_ticks_to_meters(l) \div dt
           wr == kinematics_ticks_to_meters(r) \div dt
<1>1. EncoderInv'
  BY WheelsTurnStep DEF ControlPass
<1>2. /\ l \in Int /\ r \in Int
      /\ TickTurn' = TickTurn + t /\ TickTurn \in Int /\ TickTurn' \in Int
      /\ t \in (-2 * Pi)..(2 * Pi) /\ t \in Int
  <2>1. WheelsTurn(turn)
    BY DEF ControlPass
  <2>2. /\ l \in Int /\ r \in Int
        /\ TickTurn' = TickTurn + t /\ TickTurn' \in Int
        /\ t \in (-2 * Pi)..(2 * Pi)
    BY <2>1, TicksTurn
  <2>. QED
    BY <2>2, Turns, OdometryAssumption
<1>3. /\ odometry_update_wheels(wl, wr, dt)
      /\ imu_on => fabsf(Heading' - felt) <= MaxUnfelt
      /\ IF Dropped(dt) THEN Fails /\ Owe(TickTurn' - TickTurn)
                        ELSE Succeeds /\ UNCHANGED owed
      /\ UNCHANGED <<s_pitch, s_roll, chips, pc, sent, fresh, imu_on, gz, felt>>
  BY DEF ControlPass
<1> HIDE DEF l, r, t, wl, wr
<1>4. /\ s_yaw \in (1 - Pi)..Pi /\ s_yaw \in Int
      /\ Gyro \in Int /\ Gyro' = Gyro /\ owed \in Int
      /\ Same(s_yaw, TickTurn + Gyro - owed)
  BY <1>3, OdometryAssumption DEF PoseTypeOK, YawInv, Gyro
<1>5. /\ PoseTypeOK'
      /\ owed' \in 0..(2 * Pi - 1)
      /\ Same(s_yaw', TickTurn' + Gyro' - owed')
  <2>1. CASE Dropped(dt)
    <3>1. UNCHANGED <<s_x, s_y, s_yaw>> /\ Owe(t)
      BY <1>2, <1>3, <2>1 DEF odometry_update_wheels
    <3>2. owed' \in 0..(2 * Pi - 1) /\ Same(s_yaw, TickTurn + Gyro + t - owed')
      BY <1>2, <1>4, <3>1, Owing
    <3>3. TickTurn + Gyro + t - owed' = TickTurn' + Gyro' - owed'
      BY <1>2, <1>4, <3>2
    <3>. QED
      BY <1>3, <3>1, <3>2, <3>3 DEF PoseTypeOK
  <2>2. CASE ~Dropped(dt)
    <3>1. dt \in Nat /\ dt <= Second
      <4>1. dt \in Nat \ {0} /\ Second \in Nat
        BY SensorsAssumption, OdometryAssumption
      <4>. QED
        BY <2>2, <4>1 DEF Dropped
    <3>2. wl \in Int /\ wr \in Int /\ ((wr - wl) * dt) \div TrackW = t
      BY <1>2, <3>1, WheelYaw DEF wl, wr, t
    <3>3. /\ s_x' = s_x + ((wl + wr) \div 2) * Cos(s_yaw + t \div 2) * dt
          /\ s_y' = s_y + ((wl + wr) \div 2) * Sin(s_yaw + t \div 2) * dt
          /\ s_yaw' = Wrap(s_yaw + t)
          /\ UNCHANGED owed
      BY <1>3, <2>2, <3>2 DEF odometry_update_wheels
    <3>4. s_yaw + t \div 2 \in (-2 * Pi)..(2 * Pi)
      BY <1>2, <1>4, OdometryAssumption
    <3>5. s_x' \in Int /\ s_y' \in Int
      <4>1. Cos(s_yaw + t \div 2) \in Int /\ Sin(s_yaw + t \div 2) \in Int
        BY <3>4, OdometryAssumption
      <4>2. (wl + wr) \div 2 \in Int /\ s_x \in Int /\ s_y \in Int
        BY <3>2 DEF PoseTypeOK
      <4>. QED
        BY <3>1, <3>3, <4>1, <4>2
    <3>6. /\ s_yaw' \in (1 - Pi)..Pi
          /\ Same(s_yaw', TickTurn + Gyro - owed + t)
      <4>1. TickTurn + Gyro - owed \in Int
        BY <1>2, <1>4
      <4>2. /\ Wrap(s_yaw + t) \in (1 - Pi)..Pi
            /\ Same(Wrap(s_yaw + t), TickTurn + Gyro - owed + t)
        BY <1>2, <1>4, <4>1, Turning
      <4>. QED
        BY <3>3, <4>2
    <3>7. TickTurn + Gyro - owed + t = TickTurn' + Gyro' - owed'
      BY <1>2, <1>4, <3>3
    <3>. QED
      BY <1>3, <3>3, <3>5, <3>6, <3>7 DEF PoseTypeOK, YawInv
  <2>. QED
    BY <2>1, <2>2
<1>6. YawInv'
  BY <1>3, <1>5 DEF YawInv
<1>7. TiltBounded' /\ BuildInv'
  BY <1>3 DEF TiltBounded, BuildInv
<1>8. ImuInv'
  <2>1. faults' \in 0..MaxFaults
    BY <1>3, ImuAssumption DEF ImuInv, ImuTypeOK, Fails, Succeeds
  <2>. QED
    BY <1>3, <2>1 DEF ImuInv, ImuTypeOK
<1>. QED
  BY <1>1, <1>5, <1>6, <1>7, <1>8

LEMMA MotionReadStep == SensorsInv /\ MotionRead => SensorsInv'
<1> SUFFICES ASSUME SensorsInv, MotionRead PROVE SensorsInv'
  OBVIOUS
<1> USE DEF SensorsInv
<1> DEFINE turned == Heading - felt
<1>1. /\ imu_on /\ pc = "sleep" /\ gz = 0
      /\ felt' = Heading /\ Heading \in Int /\ Heading' = Heading
      /\ felt \in Int /\ owed \in Int /\ turned \in Int
      /\ TickTurn' = TickTurn /\ TickTurn \in Int
      /\ s_yaw' = s_yaw /\ s_yaw \in Int
      /\ fabsf(turned) <= MaxUnfelt
  <2>1. Heading' = Heading /\ TickTurn' = TickTurn
    BY DEF MotionRead, Heading, TickTurn, encoder_ticks, QuarterTurn
  <2>. QED
    BY <2>1, Turns, OdometryAssumption
       DEF MotionRead, ReadMotion, YawInv, pose, PoseTypeOK
<1>2. EncoderInv' /\ PoseTypeOK' /\ TiltBounded'
  BY DEF MotionRead, pose, EncoderInv, Shaft, PoseTypeOK, TiltBounded
<1>3. BuildInv'
  BY DEF MotionRead, pose, BuildInv
<1>4. ImuInv'
  BY ImuAssumption DEF MotionRead, ReadMotion, Fails, Succeeds, ImuInv, ImuTypeOK
<1>5. YawInv'
  <2>1. imu_on' /\ MaxUnfelt \in Nat
    BY <1>1, TurnAssumption, OdometryAssumption DEF MotionRead
  <2>2. fabsf(Heading' - felt') <= MaxUnfelt
    BY <1>1, <2>1 DEF fabsf
  <2>3. CASE pc' = "st1" /\ chips.motion
    <3>1. gz' = turned /\ owed' = owed
      BY <2>3 DEF MotionRead
    <3>2. TickTurn' + Gyro' - owed' = TickTurn + Gyro - owed
      BY <1>1, <2>1, <3>1 DEF Gyro
    <3>. QED
      BY <1>1, <2>1, <2>2, <2>3, <3>1, <3>2 DEF YawInv
  <2>4. CASE ~(pc' = "st1" /\ chips.motion)
    <3>1. gz' = 0 /\ Owe(turned)
      BY <2>4 DEF MotionRead
    <3>2. TickTurn + Gyro \in Int /\ TickTurn + Gyro + turned = TickTurn' + Gyro'
      BY <1>1, <2>1, <3>1 DEF Gyro
    <3>3. Same(s_yaw, TickTurn + Gyro - owed)
      BY DEF YawInv
    <3>4. owed' \in 0..(2 * Pi - 1) /\ Same(s_yaw, TickTurn + Gyro + turned - owed')
      <4>1. PICK a \in Int : a = TickTurn + Gyro
        BY <3>2
      <4>2. Same(s_yaw, a - owed)
        <5>1. Gyro \in Int
          BY <1>1, <2>1 DEF Gyro, YawInv
        <5>. QED
          BY <1>1, <3>3, <4>1, <5>1
      <4> HIDE DEF turned
      <4>3. owed' \in 0..(2 * Pi - 1) /\ Same(s_yaw, a + turned - owed')
        BY <1>1, <3>1, <4>2, Owing
      <4>. QED
        BY <4>1, <4>3
    <3>5. TickTurn + Gyro + turned - owed' = TickTurn' + Gyro' - owed'
      <4>1. Gyro' \in Int /\ Gyro \in Int /\ Gyro' = Gyro + turned
        BY <1>1, <2>1, <3>1 DEF Gyro, YawInv
      <4>. QED
        BY <1>1, <3>4, <4>1
    <3>6. gz' \in Int /\ felt' \in Int /\ fabsf(gz') <= MaxUnfelt
      BY <1>1, <2>1, <3>1 DEF fabsf
    <3>. QED
      BY <1>1, <2>2, <3>1, <3>4, <3>5, <3>6 DEF YawInv
  <2>. QED
    BY <2>3, <2>4
<1>. QED
  BY <1>2, <1>3, <1>4, <1>5

LEMMA ImuUpdateStep ==
    ASSUME SensorsInv,
           NEW pa \in Tilts \cup {0}, NEW ra \in Tilts \cup {0},
           NEW gx \in TiltRates \cup {0}, NEW gy \in TiltRates \cup {0},
           ImuUpdate(pa, ra, gx, gy)
    PROVE  SensorsInv'
<1> USE DEF SensorsInv
<1>1. /\ imu_on /\ UNCHANGED <<pos, unit, s_x, s_y, imu_on, felt, owed>>
      /\ gz' = 0
      /\ s_pitch' = Fused(s_pitch, gy, pa)
      /\ s_roll' = Fused(s_roll, gx, ra)
      /\ s_yaw' = Wrap(s_yaw + gz)
  <2>1. ~Dropped(ImuDt)
    BY SensorsAssumption, OdometryAssumption DEF Dropped
  <2>. QED
    BY <2>1 DEF ImuUpdate, odometry_update_imu
<1>2. /\ EncoderInv'
      /\ Heading' = Heading /\ TickTurn' = TickTurn /\ Heading \in Int /\ TickTurn \in Int
  <2>1. Heading' = Heading /\ TickTurn' = TickTurn
    BY <1>1 DEF Heading, TickTurn, encoder_ticks, QuarterTurn
  <2>. QED
    BY <1>1, <2>1, Turns DEF EncoderInv, Shaft
<1>3. s_pitch' \in Int /\ s_roll' \in Int /\ TiltBounded'
  <2> DEFINE G == Largest(Tilts)
             R == Largest(TiltRates)
  <2>1. G \in Nat /\ R \in Nat
    BY LargestFacts
  <2>2. /\ pa \in Int /\ ra \in Int /\ gx \in Int /\ gy \in Int
        /\ fabsf(pa) <= G /\ fabsf(ra) <= G /\ fabsf(gx) <= R /\ fabsf(gy) <= R
    BY LargestFacts, SensorsAssumption
  <2>3. ASSUME NEW a \in Int, a \in {s_pitch, s_roll}
        PROVE  (One - AlphaNum) * (fabsf(a) - 1) <= (One - AlphaNum) * G + AlphaNum * R
    BY <2>3 DEF TiltBounded
  <2>4. s_pitch \in Int /\ s_roll \in Int
    BY DEF PoseTypeOK
  <2> HIDE DEF G, R
  <2>5. /\ s_pitch' \in Int
        /\ (One - AlphaNum) * (fabsf(s_pitch') - 1) <= (One - AlphaNum) * G + AlphaNum * R
    BY <1>1, <2>1, <2>2, <2>3, <2>4, FusedBound
  <2>6. /\ s_roll' \in Int
        /\ (One - AlphaNum) * (fabsf(s_roll') - 1) <= (One - AlphaNum) * G + AlphaNum * R
    BY <1>1, <2>1, <2>2, <2>3, <2>4, FusedBound
  <2>. QED
    BY <2>5, <2>6 DEF TiltBounded, G, R
<1>4. PoseTypeOK' /\ YawInv'
  <2>1. /\ gz \in (-2 * Pi)..(2 * Pi) /\ gz \in Int /\ felt \in Int /\ owed \in Int
        /\ s_yaw \in (1 - Pi)..Pi /\ Same(s_yaw, TickTurn + Gyro - owed)
        /\ TickTurn + Gyro - owed \in Int
    BY <1>1, <1>2, TurnAssumption, OdometryAssumption DEF YawInv, PoseTypeOK, fabsf, Gyro
  <2>2. /\ Wrap(s_yaw + gz) \in (1 - Pi)..Pi
        /\ Same(Wrap(s_yaw + gz), TickTurn + Gyro - owed + gz)
    BY <2>1, Turning
  <2>3. TickTurn + Gyro - owed + gz = TickTurn' + Gyro' - owed'
    BY <1>1, <1>2, <2>1 DEF Gyro
  <2>4. fabsf(gz') <= MaxUnfelt /\ gz' \in Int
    BY <1>1, TurnAssumption, OdometryAssumption DEF fabsf
  <2>. QED
    BY <1>1, <1>2, <1>3, <2>2, <2>3, <2>4 DEF PoseTypeOK, YawInv
<1>5. BuildInv'
  BY <1>1 DEF BuildInv
<1>6. ImuInv'
  BY DEF ImuUpdate, Publish, ImuInv, ImuTypeOK
<1>. QED
  BY <1>2, <1>3, <1>4, <1>5, <1>6

\* The transactions that the pose does not see.
LEMMA ImuStep ==
    ASSUME ImuInv, imu_init \/ ReadStatus \/ ReadMag \/ Sample
    PROVE  ImuInv' /\ (pc' \in {"init", "sleep"} => pc \in {"init", "sleep"})
<1> USE DEF ImuInv, ImuTypeOK, Chips
<1>1. CASE imu_init
  <2>1. SetUp \in Chips /\ ~SetUp.drdy
    BY DEF SetUp
  <2>2. ASSUME NEW c \in MagFaulty \cup {SetUp}
        PROVE  c \in Chips /\ (c.drdy => c.mag) /\ (c.drdy => ~c.taken)
    <3>1. CASE c = [chips EXCEPT !.motion = TRUE, !.mag = TRUE]
      BY <3>1
    <3>2. CASE c = [SetUp EXCEPT !.mag = FALSE]
      BY <3>2 DEF SetUp
    <3>3. CASE c = [chips EXCEPT !.motion = TRUE]
      BY <3>3
    <3>4. CASE c = SetUp
      BY <3>4 DEF SetUp
    <3>. QED
      BY <3>1, <3>2, <3>3, <3>4 DEF MagFaulty
  <2>5. ASSUME NEW c \in MagFaulty \cup {SetUp}, NEW d, d = [c EXCEPT !.motion = chips.motion]
        PROVE  d \in Chips /\ (d.drdy => d.mag) /\ (d.drdy => ~d.taken)
    BY <2>2, <2>5
  <2>3. chips' \in Chips /\ (chips'.drdy => chips'.mag) /\ (chips'.drdy => ~chips'.taken)
    BY <1>1, <2>1, <2>2, <2>5 DEF imu_init
  <2>4. faults' \in 0..MaxFaults
    BY <1>1, ImuAssumption DEF imu_init, Fails, Succeeds
  <2>. QED
    BY <1>1, <2>3, <2>4 DEF imu_init
<1>2. CASE ReadStatus
  BY <1>2, ImuAssumption DEF ReadStatus, Fails, Succeeds
<1>3. CASE ReadMag
  <2>1. /\ Released \in Chips /\ ~Released.drdy
        /\ chips.drdy /\ ~chips.taken /\ sent /\ ~fresh
    BY <1>3 DEF ReadMag, Released
  <2>2. chips' \in {chips, Released} /\ pc' = "publish" /\ faults' \in 0..MaxFaults
    <3>1. chips' \in {chips, Released} /\ pc' = "publish"
      BY <1>3 DEF ReadMag
    <3>2. Succeeds \/ Fails
      BY <1>3 DEF ReadMag
    <3>3. faults' \in 0..MaxFaults
      BY <3>2, ImuAssumption DEF Fails, Succeeds
    <3>. QED
      BY <3>1, <3>3
  <2>3. (fresh' = TRUE /\ sent' = chips.taken) \/ (fresh' = fresh /\ sent' = sent)
    BY <1>3 DEF ReadMag
  <2>. QED
    BY <2>1, <2>2, <2>3
<1>4. CASE Sample
  BY <1>4 DEF Sample
<1>. QED
  BY <1>1, <1>2, <1>3, <1>4

LEMMA UnseenStep ==
    ASSUME SensorsInv, ImuInv', pc' \in {"init", "sleep"} => pc \in {"init", "sleep"},
           ~imu_on => pc' = pc,
           UNCHANGED <<pos, unit, pose, imu_on, gz, felt, owed>>
    PROVE  SensorsInv'
<1>1. Heading' = Heading /\ TickTurn' = TickTurn /\ Gyro' = Gyro
  BY DEF Heading, TickTurn, encoder_ticks, QuarterTurn, Gyro
<1>2. EncoderInv' /\ PoseTypeOK' /\ TiltBounded'
  BY DEF SensorsInv, pose, EncoderInv, Shaft, PoseTypeOK, TiltBounded
<1>3. YawInv'
  BY <1>1 DEF SensorsInv, pose, YawInv
<1>4. BuildInv'
  BY DEF SensorsInv, pose, BuildInv
<1>. QED
  BY <1>2, <1>3, <1>4 DEF SensorsInv

LEMMA InvStep == SensorsInv /\ [Next]_svars => SensorsInv'
<1> SUFFICES ASSUME SensorsInv, [Next]_svars PROVE SensorsInv'
  OBVIOUS
<1>1. ASSUME NEW turn \in [Side -> -1..1], NEW dt \in Dts, ControlPass(turn, dt)
      PROVE  SensorsInv'
  BY <1>1, ControlPassStep
<1>2. CASE Unseen(Sample)
  BY <1>2, ImuStep, UnseenStep DEF Unseen, SensorsInv
<1>3. CASE Unseen(imu_init)
  BY <1>3, ImuStep, UnseenStep DEF Unseen, SensorsInv
<1>4. CASE MotionRead
  BY <1>4, MotionReadStep
<1>5. CASE Unseen(ReadStatus)
  BY <1>5, ImuStep, UnseenStep DEF Unseen, SensorsInv
<1>6. CASE Unseen(ReadMag)
  BY <1>6, ImuStep, UnseenStep DEF Unseen, SensorsInv
<1>7. CASE ImuUpdates
  BY <1>7, ImuUpdateStep DEF ImuUpdates
<1>8. CASE UNCHANGED svars
  <2>1. ImuInv'
    BY <1>8 DEF svars, imuvars, SensorsInv, ImuInv, ImuTypeOK
  <2>. QED
    BY <1>8, <2>1, UnseenStep DEF svars, imuvars
<1>. QED
  BY <1>1, <1>2, <1>3, <1>4, <1>5, <1>6, <1>7, <1>8 DEF Next, ImuTask

-----------------------------------------------------------------------------
\* The invariant holds in every state the sensors and their tasks reach
\* (encoder.c, odometry.c, imu.c).
THEOREM SensorsInvariant == Spec => []SensorsInv
<1>. QED
  BY InvStart, InvStep, PTL DEF Spec

\* No angle winds up, however long it is integrated: the yaw is wrapped, the
\* filter keeps the tilt within gravity's bound, and no unit counts past its
\* limit (odometry.c, encoder.c).
THEOREM SensorsTypeCorrect == Spec => []TypeOK
<1>1. SensorsInv => TypeOK
  BY DEF SensorsInv, EncoderInv, YawInv, BuildInv, ImuInv, TypeOK
<1>. QED
  BY <1>1, SensorsInvariant, PTL

\* Every turn is in the yaw once for each source that saw it, and no edge of
\* an encoder is lost or counted twice (encoder_ticks, odometry_update_wheels,
\* odometry_update_imu).
THEOREM YawAccountHolds == Spec => []YawAccount
<1>1. SensorsInv => YawAccount
  <2> SUFFICES ASSUME SensorsInv PROVE YawAccount
    OBVIOUS
  <2>1. /\ EncoderInv /\ TickTurn \in Int /\ s_yaw \in Int /\ owed \in Int /\ Gyro \in Int
        /\ Same(s_yaw, TickTurn + Gyro - owed)
    BY Turns, OdometryAssumption DEF SensorsInv, PoseTypeOK, YawInv, Gyro
  <2>2. TicksFollowWheels
    BY <2>1, TicksFollow
  <2>3. (s_yaw - (TickTurn + Gyro - owed)) % (2 * Pi) = 0
    BY <2>1, SameIsModulo
  <2>. QED
    BY <2>2, <2>3 DEF YawAccount, Gyro
<1>. QED
  BY <1>1, SensorsInvariant, PTL

\* A packet flagged mag_fresh carries a reading that no packet carried, an
\* unflagged one what the last carried, whichever transactions fail
\* (imu_read, ak09918_read).
THEOREM FlagIsHonestHolds == Spec => []FlagIsHonest
<1>1. SensorsInv => FlagIsHonest
  BY DEF SensorsInv, ImuInv, FlagIsHonest
<1>. QED
  BY <1>1, SensorsInvariant, PTL

\* Without an IMU the yaw is the heading, in whole turns, but for half a tick
\* of each wheel, unless a pass came too late: what YawFollowsHeading says,
\* and what the gyro's second count of each turn refutes for builds with one
\* (odometry_update_wheels and odometry_update_imu add to the same s_yaw).
THEOREM WheelsAloneFollow == Builds = {FALSE} => (Spec => []YawFollowsHeading)
<1> SUFFICES ASSUME Builds = {FALSE} PROVE Spec => []YawFollowsHeading
  OBVIOUS
<1>1. SensorsInv => YawFollowsHeading
  <2> SUFFICES ASSUME SensorsInv, owed = 0 PROVE YawFollowsHeading
    BY DEF YawFollowsHeading
  <2>1. PICK tl, tr, pl, pr, q \in Int :
           /\ tl = encoder_ticks("left") /\ tr = encoder_ticks("right")
           /\ pl = pos["left"] /\ pr = pos["right"] /\ q = QuarterTurn
           /\ fabsf(2 * tl - pl) <= 1 /\ fabsf(2 * tr - pr) <= 1 /\ q >= 0
    <3>1. EncoderInv /\ TicksFollowWheels /\ QuarterTurn \in Nat
      BY TicksFollow, Turns DEF SensorsInv
    <3>2. pos["left"] \in Int /\ pos["right"] \in Int
      BY <3>1 DEF EncoderInv, Side
    <3>. QED
      BY <3>1, <3>2, TicksAreHalves DEF TicksFollowWheels, Side
  <2> DEFINE slack == 2 * q * (tr - tl) - (pr - pl) * q
  <2>2. slack \in (-(2 * QuarterTurn))..(2 * QuarterTurn)
    <3>1. slack = q * ((2 * tr - pr) - (2 * tl - pl))
      OBVIOUS
    <3>2. (2 * tr - pr) - (2 * tl - pl) \in -2..2
      BY <2>1 DEF fabsf
    <3>3. q * ((2 * tr - pr) - (2 * tl - pl)) \in (-(2 * q))..(2 * q)
      BY <2>1, <3>2
    <3>. QED
      BY <2>1, <3>1, <3>3
  <2>3. Same(s_yaw, 2 * q * (tr - tl)) /\ s_yaw \in Int
    <3>1. imu_on = FALSE
      BY DEF SensorsInv, BuildInv
    <3>2. Gyro = 0 /\ TickTurn = 2 * q * (tr - tl)
      BY <2>1, <3>1 DEF Gyro, TickTurn
    <3>3. TickTurn + Gyro - owed = 2 * q * (tr - tl)
      BY <2>1, <3>2
    <3>4. Same(s_yaw, TickTurn + Gyro - owed) /\ s_yaw \in Int
      BY OdometryAssumption DEF SensorsInv, YawInv, PoseTypeOK
    <3>. QED
      BY <3>3, <3>4, Zenon
  <2>4. s_yaw - Heading - slack = s_yaw - 2 * q * (tr - tl)
    BY <2>1, <2>3 DEF Heading
  <2>5. (s_yaw - Heading - slack) % (2 * Pi) = 0
    BY <2>1, <2>3, <2>4, SameIsModulo
  <2>. QED
    BY <2>2, <2>5 DEF YawFollowsHeading
<1>. QED
  BY <1>1, SensorsInvariant, PTL

=============================================================================
