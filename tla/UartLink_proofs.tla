-------------------------- MODULE UartLink_proofs --------------------------
(***************************************************************************)
(* Proofs about crc8 and UartLink: that the check byte is the documented   *)
(* remainder and shows every single changed byte, that the receivers'      *)
(* automaton never collects more than it announced, that after a           *)
(* disturbance it loses no more frames than a false header can touch, that *)
(* on an undisturbed line every frame is accepted, and that one damaged    *)
(* byte is never believed, for every set of frame types.                   *)
(***************************************************************************)
EXTENDS UartLink, SequenceTheorems, FiniteSetTheorems, TLAPS

-----------------------------------------------------------------------------
(***************************************************************************)
(* Bytes, bit by bit: the exclusive or of two bytes.                       *)
(***************************************************************************)
Weights == {1, 2, 4, 8, 16, 32, 64, 128}

LEMMA BitRange == ASSUME NEW a \in Byte, NEW w \in Weights PROVE Bit(a, w) \in 0..1
<1>1. w \in Nat \ {0}
  BY DEF Weights
<1>2. a \div w \in Nat
  BY <1>1 DEF Byte
<1>. QED
  BY <1>2 DEF Bit

LEMMA ByteOfBits ==
    ASSUME NEW a \in Byte
    PROVE  a = Bit(a, 1) + 2 * Bit(a, 2) + 4 * Bit(a, 4) + 8 * Bit(a, 8)
               + 16 * Bit(a, 16) + 32 * Bit(a, 32) + 64 * Bit(a, 64) + 128 * Bit(a, 128)
BY DEF Byte, Bit

LEMMA BitsOfSum ==
    ASSUME NEW a0 \in 0..1, NEW a1 \in 0..1, NEW a2 \in 0..1, NEW a3 \in 0..1,
           NEW a4 \in 0..1, NEW a5 \in 0..1, NEW a6 \in 0..1, NEW a7 \in 0..1
    PROVE  LET a == 1 * a0 + 2 * a1 + 4 * a2 + 8 * a3 + 16 * a4 + 32 * a5 + 64 * a6 + 128 * a7
           IN  /\ a \in Byte
               /\ Bit(a, 1) = a0 /\ Bit(a, 2) = a1 /\ Bit(a, 4) = a2 /\ Bit(a, 8) = a3
               /\ Bit(a, 16) = a4 /\ Bit(a, 32) = a5 /\ Bit(a, 64) = a6 /\ Bit(a, 128) = a7
BY DEF Byte, Bit

LEMMA XorBits ==
    ASSUME NEW a \in Byte, NEW b \in Byte
    PROVE  /\ Xor8(a, b) \in Byte
           /\ \A w \in Weights : Bit(Xor8(a, b), w) = (Bit(a, w) + Bit(b, w)) % 2
<1> DEFINE x(w) == (Bit(a, w) + Bit(b, w)) % 2
<1>1. ASSUME NEW w \in Weights PROVE x(w) \in 0..1
  <2>1. Bit(a, w) \in 0..1 /\ Bit(b, w) \in 0..1
    BY BitRange
  <2>. QED
    BY <2>1
<1>2. /\ x(1) \in 0..1 /\ x(2) \in 0..1 /\ x(4) \in 0..1 /\ x(8) \in 0..1
      /\ x(16) \in 0..1 /\ x(32) \in 0..1 /\ x(64) \in 0..1 /\ x(128) \in 0..1
  <2> HIDE DEF x
  <2>. QED
    BY <1>1 DEF Weights
<1>3. Xor8(a, b) = 1 * x(1) + 2 * x(2) + 4 * x(4) + 8 * x(8)
                  + 16 * x(16) + 32 * x(32) + 64 * x(64) + 128 * x(128)
  BY DEF Xor8
<1> HIDE DEF x
<1>4. /\ Xor8(a, b) \in Byte
      /\ Bit(Xor8(a, b), 1) = x(1) /\ Bit(Xor8(a, b), 2) = x(2)
      /\ Bit(Xor8(a, b), 4) = x(4) /\ Bit(Xor8(a, b), 8) = x(8)
      /\ Bit(Xor8(a, b), 16) = x(16) /\ Bit(Xor8(a, b), 32) = x(32)
      /\ Bit(Xor8(a, b), 64) = x(64) /\ Bit(Xor8(a, b), 128) = x(128)
  BY <1>2, <1>3, BitsOfSum
<1>5. \A w \in Weights : Bit(Xor8(a, b), w) = x(w)
  BY <1>4 DEF Weights
<1>. QED
  BY <1>4, <1>5 DEF x

LEMMA ByteEqual ==
    ASSUME NEW a \in Byte, NEW b \in Byte, \A w \in Weights : Bit(a, w) = Bit(b, w)
    PROVE  a = b
<1>1. /\ Bit(a, 1) = Bit(b, 1) /\ Bit(a, 2) = Bit(b, 2) /\ Bit(a, 4) = Bit(b, 4)
      /\ Bit(a, 8) = Bit(b, 8) /\ Bit(a, 16) = Bit(b, 16) /\ Bit(a, 32) = Bit(b, 32)
      /\ Bit(a, 64) = Bit(b, 64) /\ Bit(a, 128) = Bit(b, 128)
  BY DEF Weights
<1>. QED
  BY <1>1, ByteOfBits

LEMMA XorCommutes ==
    ASSUME NEW a \in Byte, NEW b \in Byte PROVE Xor8(a, b) = Xor8(b, a)
<1>1. Xor8(a, b) \in Byte /\ Xor8(b, a) \in Byte
  BY XorBits
<1>2. ASSUME NEW w \in Weights PROVE Bit(Xor8(a, b), w) = Bit(Xor8(b, a), w)
  <2>1. Bit(a, w) \in 0..1 /\ Bit(b, w) \in 0..1
    BY BitRange
  <2>2. /\ Bit(Xor8(a, b), w) = (Bit(a, w) + Bit(b, w)) % 2
        /\ Bit(Xor8(b, a), w) = (Bit(b, w) + Bit(a, w)) % 2
    BY XorBits
  <2>. QED
    BY <2>1, <2>2
<1>. QED
  BY <1>1, <1>2, ByteEqual

LEMMA XorSwaps ==
    ASSUME NEW a \in Byte, NEW b \in Byte, NEW c \in Byte
    PROVE  Xor8(Xor8(a, b), c) = Xor8(Xor8(a, c), b)
<1> DEFINE ab == Xor8(a, b)
           ac == Xor8(a, c)
<1>1. ab \in Byte /\ ac \in Byte
  BY XorBits
<1>2. ASSUME NEW w \in Weights
      PROVE  /\ Bit(ab, w) = (Bit(a, w) + Bit(b, w)) % 2
             /\ Bit(ac, w) = (Bit(a, w) + Bit(c, w)) % 2
             /\ Bit(a, w) \in 0..1 /\ Bit(b, w) \in 0..1 /\ Bit(c, w) \in 0..1
  BY XorBits, BitRange
<1> HIDE DEF ab, ac
<1>3. Xor8(ab, c) \in Byte /\ Xor8(ac, b) \in Byte
  BY <1>1, XorBits
<1>4. ASSUME NEW w \in Weights PROVE Bit(Xor8(ab, c), w) = Bit(Xor8(ac, b), w)
  <2>1. /\ Bit(Xor8(ab, c), w) = (Bit(ab, w) + Bit(c, w)) % 2
        /\ Bit(Xor8(ac, b), w) = (Bit(ac, w) + Bit(b, w)) % 2
    BY <1>1, XorBits
  <2>2. \A i, j, k \in 0..1 : (((i + j) % 2) + k) % 2 = (((i + k) % 2) + j) % 2
    OBVIOUS
  <2>. QED
    BY <1>2, <2>1, <2>2
<1>5. Xor8(ab, c) = Xor8(ac, b)
  BY <1>3, <1>4, ByteEqual
<1>. QED
  BY <1>5 DEF ab, ac

LEMMA XorCancels ==
    ASSUME NEW a \in Byte, NEW b \in Byte PROVE Xor8(Xor8(a, b), b) = a
<1> DEFINE ab == Xor8(a, b)
<1>1. ab \in Byte
  BY XorBits
<1>2. ASSUME NEW w \in Weights
      PROVE  /\ Bit(ab, w) = (Bit(a, w) + Bit(b, w)) % 2
             /\ Bit(a, w) \in 0..1 /\ Bit(b, w) \in 0..1
  BY XorBits, BitRange
<1> HIDE DEF ab
<1>3. ASSUME NEW w \in Weights PROVE Bit(Xor8(ab, b), w) = Bit(a, w)
  <2>1. Bit(Xor8(ab, b), w) = (Bit(ab, w) + Bit(b, w)) % 2
    BY <1>1, XorBits
  <2>2. \A i, j \in 0..1 : (((i + j) % 2) + j) % 2 = i
    OBVIOUS
  <2>. QED
    BY <1>2, <2>1, <2>2
<1>4. Xor8(ab, b) = a
  BY <1>1, <1>3, XorBits, ByteEqual
<1>. QED
  BY <1>4 DEF ab

LEMMA XorZero == ASSUME NEW r \in Byte PROVE 0 \in Byte /\ Xor8(r, 0) = r
<1>1. 0 \in Byte /\ \A w \in Weights : Bit(0, w) = 0
  BY DEF Byte, Weights, Bit
<1>2. ASSUME NEW w \in Weights PROVE Bit(Xor8(r, 0), w) = Bit(r, w)
  BY <1>1, XorBits, BitRange
<1>. QED
  BY <1>1, <1>2, XorBits, ByteEqual

\* Different bytes stay different, on either side.
LEMMA XorInjective ==
    ASSUME NEW a \in Byte, NEW b \in Byte, NEW c \in Byte, a # b
    PROVE  Xor8(a, c) # Xor8(b, c) /\ Xor8(c, a) # Xor8(c, b)
<1>1. Xor8(a, c) # Xor8(b, c)
  BY XorCancels
<1>2. Xor8(c, a) = Xor8(a, c) /\ Xor8(c, b) = Xor8(b, c)
  BY XorCommutes
<1>. QED
  BY <1>1, <1>2

-----------------------------------------------------------------------------
LEMMA Doubled ==
    ASSUME NEW a \in Byte, NEW bit \in {0, 1}
    PROVE  LET d == ((2 * a) % 256) + bit
           IN  /\ d \in Byte
               /\ Bit(d, 1) = bit /\ Bit(d, 2) = Bit(a, 1) /\ Bit(d, 4) = Bit(a, 2)
               /\ Bit(d, 8) = Bit(a, 4) /\ Bit(d, 16) = Bit(a, 8) /\ Bit(d, 32) = Bit(a, 16)
               /\ Bit(d, 64) = Bit(a, 32) /\ Bit(d, 128) = Bit(a, 64)
<1> DEFINE d == ((2 * a) % 256) + bit
           a0 == Bit(a, 1)
           a1 == Bit(a, 2)
           a2 == Bit(a, 4)
           a3 == Bit(a, 8)
           a4 == Bit(a, 16)
           a5 == Bit(a, 32)
           a6 == Bit(a, 64)
           a7 == Bit(a, 128)
<1>1. /\ a0 \in 0..1 /\ a1 \in 0..1 /\ a2 \in 0..1 /\ a3 \in 0..1
      /\ a4 \in 0..1 /\ a5 \in 0..1 /\ a6 \in 0..1 /\ a7 \in 0..1
  BY BitRange DEF Weights
<1>2. a = a0 + 2 * a1 + 4 * a2 + 8 * a3 + 16 * a4 + 32 * a5 + 64 * a6 + 128 * a7
  BY ByteOfBits
<1> HIDE DEF a0, a1, a2, a3, a4, a5, a6, a7
<1>3. d = 1 * bit + 2 * a0 + 4 * a1 + 8 * a2 + 16 * a3 + 32 * a4 + 64 * a5 + 128 * a6
  BY <1>1, <1>2
<1> HIDE DEF d
<1>4. /\ d \in Byte
      /\ Bit(d, 1) = bit /\ Bit(d, 2) = a0 /\ Bit(d, 4) = a1 /\ Bit(d, 8) = a2
      /\ Bit(d, 16) = a3 /\ Bit(d, 32) = a4 /\ Bit(d, 64) = a5 /\ Bit(d, 128) = a6
  BY <1>1, <1>3, BitsOfSum
<1>. QED
  BY <1>4 DEF d, a0, a1, a2, a3, a4, a5, a6

LEMMA TopBit == ASSUME NEW a \in Byte PROVE a >= 128 <=> Bit(a, 128) = 1
BY DEF Byte, Bit

\* q is p with a bit brought down, and nothing is shifted out of p.
Joins(p, bit, q) ==
    p \in Byte /\ p < 128 /\ bit \in {0, 1} /\ q = 2 * p + bit

\* Doubling goes through the exclusive or.
LEMMA DoubledXor ==
    ASSUME NEW s \in Byte, NEW p, NEW bit, NEW q, Joins(p, bit, q)
    PROVE  /\ q \in Byte
           /\ ((2 * Xor8(s, p)) % 256) + bit = Xor8((2 * s) % 256, q)
           /\ Xor8(s, p) >= 128 <=> s >= 128
<1> DEFINE u == Xor8(s, p)
           du == ((2 * u) % 256) + bit
           ds == (2 * s) % 256
<1>0. p \in Byte /\ p < 128 /\ bit \in {0, 1} /\ q = 2 * p + bit
  BY DEF Joins
<1>1. q \in Byte /\ q = ((2 * p) % 256) + bit /\ Bit(p, 128) = 0
  BY <1>0 DEF Byte, Bit
<1>2. /\ u \in Byte
      /\ \A w \in Weights : Bit(u, w) = (Bit(s, w) + Bit(p, w)) % 2
  BY <1>0, <1>1, XorBits
<1> HIDE DEF u
<1>3. /\ ds \in Byte
      /\ Bit(ds, 1) = 0 /\ Bit(ds, 2) = Bit(s, 1) /\ Bit(ds, 4) = Bit(s, 2)
      /\ Bit(ds, 8) = Bit(s, 4) /\ Bit(ds, 16) = Bit(s, 8) /\ Bit(ds, 32) = Bit(s, 16)
      /\ Bit(ds, 64) = Bit(s, 32) /\ Bit(ds, 128) = Bit(s, 64)
  <2>1. 0 \in {0, 1} /\ ds + 0 = ds
    BY DEF Byte
  <2>. QED
    BY <2>1, Doubled
<1>4. /\ Bit(q, 1) = bit /\ Bit(q, 2) = Bit(p, 1) /\ Bit(q, 4) = Bit(p, 2)
      /\ Bit(q, 8) = Bit(p, 4) /\ Bit(q, 16) = Bit(p, 8) /\ Bit(q, 32) = Bit(p, 16)
      /\ Bit(q, 64) = Bit(p, 32) /\ Bit(q, 128) = Bit(p, 64)
  <2> DEFINE e == ((2 * p) % 256) + bit
  <2>1. /\ Bit(e, 1) = bit /\ Bit(e, 2) = Bit(p, 1) /\ Bit(e, 4) = Bit(p, 2)
        /\ Bit(e, 8) = Bit(p, 4) /\ Bit(e, 16) = Bit(p, 8) /\ Bit(e, 32) = Bit(p, 16)
        /\ Bit(e, 64) = Bit(p, 32) /\ Bit(e, 128) = Bit(p, 64)
    BY <1>0, Doubled
  <2>2. q = e
    BY <1>1
  <2> HIDE DEF e
  <2>. QED
    BY <2>1, <2>2
<1>5. /\ du \in Byte
      /\ Bit(du, 1) = bit /\ Bit(du, 2) = Bit(u, 1) /\ Bit(du, 4) = Bit(u, 2)
      /\ Bit(du, 8) = Bit(u, 4) /\ Bit(du, 16) = Bit(u, 8) /\ Bit(du, 32) = Bit(u, 16)
      /\ Bit(du, 64) = Bit(u, 32) /\ Bit(du, 128) = Bit(u, 64)
  BY <1>0, <1>2, Doubled
<1> HIDE DEF du, ds
<1>6. /\ Xor8(ds, q) \in Byte
      /\ \A w \in Weights : Bit(Xor8(ds, q), w) = (Bit(ds, w) + Bit(q, w)) % 2
  BY <1>1, <1>3, XorBits
<1>7. ASSUME NEW w \in Weights PROVE Bit(du, w) = Bit(Xor8(ds, q), w)
  <2>1. CASE w = 1
    <3>1. Bit(Xor8(ds, q), 1) = (0 + bit) % 2
      BY <1>3, <1>4, <1>6 DEF Weights
    <3>. QED
      BY <1>0, <1>5, <2>1, <3>1
  <2>2. \A v \in Weights : Bit(u, v) = (Bit(s, v) + Bit(p, v)) % 2
    BY <1>2
  <2>3. CASE w # 1
    BY <1>3, <1>4, <1>5, <1>6, <2>2, <2>3 DEF Weights
  <2>. QED
    BY <2>1, <2>3
<1>8. du = Xor8(ds, q)
  BY <1>5, <1>6, <1>7, ByteEqual
<1>9. u >= 128 <=> s >= 128
  <2>1. Bit(u, 128) = (Bit(s, 128) + 0) % 2 /\ Bit(s, 128) \in 0..1
    BY <1>1, <1>2, BitRange DEF Weights
  <2>2. Bit(u, 128) = Bit(s, 128)
    BY <2>1
  <2>. QED
    BY <1>2, <2>2, TopBit
<1>. QED
  BY <1>1, <1>8, <1>9 DEF u, du, ds

LEMMA ShiftFacts ==
    ASSUME NEW r \in Byte
    PROVE  /\ Shift(r) \in Byte
           /\ Shift(r) = IF r >= 128 THEN Xor8((2 * r) % 256, 7) ELSE (2 * r) % 256
           /\ Bit(Shift(r), 1) = IF r >= 128 THEN 1 ELSE 0
<1> DEFINE d == (2 * r) % 256
<1>1. d \in Byte /\ 7 \in Byte /\ Bit(d, 1) = 0 /\ Bit(7, 1) = 1
  BY DEF Byte, Bit
<1> HIDE DEF d
<1>2. Xor8(d, 7) \in Byte /\ Bit(Xor8(d, 7), 1) = 1
  <2>1. Xor8(d, 7) \in Byte /\ Bit(Xor8(d, 7), 1) = (Bit(d, 1) + Bit(7, 1)) % 2
    BY <1>1, XorBits DEF Weights
  <2>. QED
    BY <1>1, <2>1
<1>3. Shift(r) = IF r >= 128 THEN Xor8(d, 7) ELSE d
  BY DEF Shift, d
<1>. QED
  BY <1>1, <1>2, <1>3 DEF d

LEMMA ShiftInjective ==
    ASSUME NEW r \in Byte, NEW s \in Byte, Shift(r) = Shift(s) PROVE r = s
<1> DEFINE d(x) == (2 * x) % 256
<1>1. /\ Bit(Shift(r), 1) = IF r >= 128 THEN 1 ELSE 0
      /\ Bit(Shift(s), 1) = IF s >= 128 THEN 1 ELSE 0
      /\ Shift(r) = IF r >= 128 THEN Xor8(d(r), 7) ELSE d(r)
      /\ Shift(s) = IF s >= 128 THEN Xor8(d(s), 7) ELSE d(s)
  BY ShiftFacts
<1>2. d(r) \in Byte /\ d(s) \in Byte /\ 7 \in Byte
  BY DEF Byte
<1>3. (r >= 128 <=> s >= 128) /\ d(r) = d(s) => r = s
  BY DEF Byte
<1>4. r >= 128 <=> s >= 128
  BY <1>1
<1> HIDE DEF d
<1>5. d(r) = d(s)
  BY <1>1, <1>2, <1>4, XorInjective
<1>. QED
  BY <1>3, <1>4, <1>5

LEMMA Shift8Facts ==
    /\ Shift8 \in [Byte -> Byte] /\ Shift8[0] = 0
    /\ \A r, s \in Byte : Shift8[r] = Shift8[s] => r = s
<1>1. \A r \in Byte : Shift(r) \in Byte
  BY ShiftFacts
<1>2. \A r, s \in Byte : Shift(r) = Shift(s) => r = s
  BY ShiftInjective
<1>3. Shift(0) = 0 /\ 0 \in Byte
  BY DEF Shift, Byte
<1>4. Shift8 = [r \in Byte |-> Shift(Shift(Shift(Shift(Shift(Shift(Shift(Shift(r))))))))]
  BY DEF Shift8
<1>5. \A r \in Byte : Shift8[r] \in Byte
  BY <1>1, <1>4
<1>. QED
  BY <1>1, <1>2, <1>3, <1>4, <1>5

\* Bringing down a bit is a turn of the loop on what the bits before left.
LEMMA BringDownXor ==
    ASSUME NEW s \in Byte, NEW p, NEW bit, NEW q, Joins(p, bit, q)
    PROVE  /\ q \in Byte /\ Shift(s) \in Byte
           /\ BringDown(Xor8(s, p), bit) = Xor8(Shift(s), q)
<1> DEFINE u == Xor8(s, p)
           ds == (2 * s) % 256
<1>0. p \in Byte /\ p < 128 /\ bit \in {0, 1}
  BY DEF Joins
<1>1. /\ q \in Byte /\ ((2 * u) % 256) + bit = Xor8(ds, q)
      /\ u >= 128 <=> s >= 128
  BY DoubledXor
<1>2. u \in Byte
  BY <1>0, XorBits
<1>3. ds \in Byte /\ 7 \in Byte
  BY DEF Byte
<1>4. /\ Shift(s) \in Byte
      /\ Shift(s) = IF s >= 128 THEN Xor8(ds, 7) ELSE ds
  BY ShiftFacts
<1> HIDE DEF u, ds
<1>5. BringDown(u, bit) = IF u >= 128 THEN Xor8(((2 * u) % 256) + bit, 7) ELSE ((2 * u) % 256) + bit
  <2>1. u >= 128 => 2 * u + bit - 256 = ((2 * u) % 256) + bit
    BY <1>0, <1>2 DEF Byte
  <2>2. ~(u >= 128) => 2 * u + bit = ((2 * u) % 256) + bit
    BY <1>0, <1>2 DEF Byte
  <2>. QED
    BY <2>1, <2>2 DEF BringDown
<1>6. Xor8(Xor8(ds, q), 7) = Xor8(Xor8(ds, 7), q)
  BY <1>1, <1>3, XorSwaps
<1>7. BringDown(u, bit) = Xor8(Shift(s), q)
  BY <1>1, <1>4, <1>5, <1>6
<1>. QED
  BY <1>1, <1>4, <1>7 DEF u

\* Dividing on through the bits of a byte.
BringDownByte(r, y) ==
    BringDown(BringDown(BringDown(BringDown(BringDown(BringDown(BringDown(BringDown(
        r, Bit(y, 128)), Bit(y, 64)), Bit(y, 32)), Bit(y, 16)),
        Bit(y, 8)), Bit(y, 4)), Bit(y, 2)), Bit(y, 1))

LEMMA BringDownByteXor ==
    ASSUME NEW r \in Byte, NEW y \in Byte
    PROVE  BringDownByte(r, y) = Xor8(Shift8[r], y)
<1> DEFINE s1 == Shift(r)
           s2 == Shift(s1)
           s3 == Shift(s2)
           s4 == Shift(s3)
           s5 == Shift(s4)
           s6 == Shift(s5)
           s7 == Shift(s6)
           s8 == Shift(s7)
           p1 == 2 * 0 + Bit(y, 128)
           p2 == 2 * p1 + Bit(y, 64)
           p3 == 2 * p2 + Bit(y, 32)
           p4 == 2 * p3 + Bit(y, 16)
           p5 == 2 * p4 + Bit(y, 8)
           p6 == 2 * p5 + Bit(y, 4)
           p7 == 2 * p6 + Bit(y, 2)
           p8 == 2 * p7 + Bit(y, 1)
<1>1. \A w \in Weights : Bit(y, w) \in {0, 1}
  BY BitRange
<1>2. /\ Bit(y, 1) \in {0, 1} /\ Bit(y, 2) \in {0, 1} /\ Bit(y, 4) \in {0, 1}
      /\ Bit(y, 8) \in {0, 1} /\ Bit(y, 16) \in {0, 1} /\ Bit(y, 32) \in {0, 1}
      /\ Bit(y, 64) \in {0, 1} /\ Bit(y, 128) \in {0, 1}
  BY <1>1 DEF Weights
<1>3. 0 \in Byte /\ Xor8(r, 0) = r
  BY XorZero
<1>4. /\ p1 < 128 /\ p2 < 128 /\ p3 < 128 /\ p4 < 128 /\ p5 < 128 /\ p6 < 128
      /\ p7 < 128
  BY <1>2
<1>5. p8 = y
  BY <1>2, ByteOfBits
<1>6. Shift8[r] = s8
  BY DEF Shift8
<1>7. /\ p1 = 2 * 0 + Bit(y, 128) /\ p2 = 2 * p1 + Bit(y, 64) /\ p3 = 2 * p2 + Bit(y, 32)
      /\ p4 = 2 * p3 + Bit(y, 16) /\ p5 = 2 * p4 + Bit(y, 8) /\ p6 = 2 * p5 + Bit(y, 4)
      /\ p7 = 2 * p6 + Bit(y, 2) /\ p8 = 2 * p7 + Bit(y, 1)
  OBVIOUS
<1>8. /\ s1 = Shift(r) /\ s2 = Shift(s1) /\ s3 = Shift(s2) /\ s4 = Shift(s3)
      /\ s5 = Shift(s4) /\ s6 = Shift(s5) /\ s7 = Shift(s6) /\ s8 = Shift(s7)
  OBVIOUS
<1> HIDE DEF s1, s2, s3, s4, s5, s6, s7, s8, p1, p2, p3, p4, p5, p6, p7, p8
<1>9. p1 \in Byte /\ s1 \in Byte /\ BringDown(r, Bit(y, 128)) = Xor8(s1, p1)
  <2>1. Joins(0, Bit(y, 128), p1)
    BY <1>2, <1>3, <1>7 DEF Joins
  <2>. QED
    BY <1>3, <1>8, <2>1, BringDownXor
<1>10. p2 \in Byte /\ s2 \in Byte /\ BringDown(Xor8(s1, p1), Bit(y, 64)) = Xor8(s2, p2)
  <2>1. Joins(p1, Bit(y, 64), p2)
    BY <1>2, <1>4, <1>7, <1>9 DEF Joins
  <2>. QED
    BY <1>8, <1>9, <2>1, BringDownXor
<1>11. p3 \in Byte /\ s3 \in Byte /\ BringDown(Xor8(s2, p2), Bit(y, 32)) = Xor8(s3, p3)
  <2>1. Joins(p2, Bit(y, 32), p3)
    BY <1>2, <1>4, <1>7, <1>10 DEF Joins
  <2>. QED
    BY <1>8, <1>10, <2>1, BringDownXor
<1>12. p4 \in Byte /\ s4 \in Byte /\ BringDown(Xor8(s3, p3), Bit(y, 16)) = Xor8(s4, p4)
  <2>1. Joins(p3, Bit(y, 16), p4)
    BY <1>2, <1>4, <1>7, <1>11 DEF Joins
  <2>. QED
    BY <1>8, <1>11, <2>1, BringDownXor
<1>13. p5 \in Byte /\ s5 \in Byte /\ BringDown(Xor8(s4, p4), Bit(y, 8)) = Xor8(s5, p5)
  <2>1. Joins(p4, Bit(y, 8), p5)
    BY <1>2, <1>4, <1>7, <1>12 DEF Joins
  <2>. QED
    BY <1>8, <1>12, <2>1, BringDownXor
<1>14. p6 \in Byte /\ s6 \in Byte /\ BringDown(Xor8(s5, p5), Bit(y, 4)) = Xor8(s6, p6)
  <2>1. Joins(p5, Bit(y, 4), p6)
    BY <1>2, <1>4, <1>7, <1>13 DEF Joins
  <2>. QED
    BY <1>8, <1>13, <2>1, BringDownXor
<1>15. p7 \in Byte /\ s7 \in Byte /\ BringDown(Xor8(s6, p6), Bit(y, 2)) = Xor8(s7, p7)
  <2>1. Joins(p6, Bit(y, 2), p7)
    BY <1>2, <1>4, <1>7, <1>14 DEF Joins
  <2>. QED
    BY <1>8, <1>14, <2>1, BringDownXor
<1>16. p8 \in Byte /\ s8 \in Byte /\ BringDown(Xor8(s7, p7), Bit(y, 1)) = Xor8(s8, p8)
  <2>1. Joins(p7, Bit(y, 1), p8)
    BY <1>2, <1>4, <1>7, <1>15 DEF Joins
  <2>. QED
    BY <1>8, <1>15, <2>1, BringDownXor
<1>. QED
  BY <1>5, <1>6, <1>9, <1>10, <1>11, <1>12, <1>13, <1>14, <1>15, <1>16 DEF BringDownByte
LEMMA LeastNatural ==
    ASSUME NEW T, T \subseteq Nat, T # {} PROVE \E m \in T : \A k \in T : m <= k
<1> DEFINE Upto(x) == {k \in T : k <= x}
           F == {Upto(x) : x \in T}
<1>1. F \subseteq FiniteSubsetsOf(Nat) /\ F # {}
  <2>1. ASSUME NEW x \in T PROVE Upto(x) \in SUBSET Nat /\ IsFiniteSet(Upto(x))
    <3>1. Upto(x) \in SUBSET Nat /\ x \in Nat /\ \A k \in Upto(x) : k <= x
      OBVIOUS
    <3> HIDE DEF Upto
    <3>. QED
      BY <3>1, FS_BoundedSetOfNaturals
  <2> HIDE DEF Upto
  <2>. QED
    BY <2>1 DEF FiniteSubsetsOf
<1>2. PICK s \in F : \A t \in F : <<t, s>> \notin StrictSubsetOrdering(Nat)
  <2>1. IsWellFoundedOn(StrictSubsetOrdering(Nat), FiniteSubsetsOf(Nat))
    BY FS_StrictSubsetOrderingWellFounded
  <2> HIDE DEF F
  <2>. QED
    BY <1>1, <2>1, WFMin, Zenon
<1>3. PICK m \in T : s = Upto(m)
  BY <1>2
<1>4. ASSUME NEW k \in T, k < m PROVE FALSE
  <2>1. Upto(k) \in F /\ Upto(k) \subseteq Nat /\ Upto(m) \subseteq Nat
    OBVIOUS
  <2>3. Upto(k) \subseteq Upto(m)
    <3>1. \A x \in T : x <= k => x <= m
      BY <1>4
    <3>. QED
      BY <3>1
  <2>4. m \in Upto(m) /\ m \notin Upto(k)
    BY <1>4
  <2> HIDE DEF Upto
  <2>2. <<Upto(k), Upto(m)>> \in StrictSubsetOrdering(Nat)
    BY <2>1, <2>3, <2>4 DEF StrictSubsetOrdering
  <2>. QED
    BY <1>2, <1>3, <2>1, <2>2
<1>. QED
  BY <1>4


\* Counting up reaches every number.
LEMMA CountingUp ==
    ASSUME NEW N \in Nat, NEW T, 0 \in T, \A i \in 1..N : i - 1 \in T => i \in T
    PROVE  0..N \subseteq T
<1> DEFINE R == {i \in 0..N : i \notin T}
<1> SUFFICES ASSUME R # {} PROVE FALSE
  OBVIOUS
<1>1. R \subseteq Nat
  OBVIOUS
<1>2. PICK i \in R : \A k \in R : i <= k
  BY <1>1, LeastNatural
<1>3. i \in 1..N /\ i - 1 \in 0..N /\ ~(i <= i - 1)
  OBVIOUS
<1>4. i - 1 \in T
  BY <1>2, <1>3
<1>. QED
  BY <1>2, <1>3, <1>4

\* g goes from z by the table of steps F, as long as it is defined.
RunsFrom(g, z, S, N, F) ==
    g[0] = z /\ \A i \in 1..N : g[i - 1] \in S => g[i] = F[g[i - 1]][i]

\* c is that run, and there is no other.
IsRun(c, z, S, N, F) ==
    /\ c \in [0..N -> S] /\ RunsFrom(c, z, S, N, F)
    /\ \A g : RunsFrom(g, z, S, N, F) => \A i \in 0..N : g[i] = c[i]

LEMMA Recursion ==
    ASSUME NEW S, NEW z \in S, NEW N \in Nat, NEW F \in [S -> [1..N -> S]]
    PROVE  \E c : IsRun(c, z, S, N, F)
<1> DEFINE Run(c, n) == /\ c \in [0..n -> S] /\ c[0] = z
                        /\ \A i \in 1..n : c[i] = F[c[i - 1]][i]
           T == {n \in 0..N : \E c : Run(c, n)}
<1>1. 0 \in T
  <2>1. Run([i \in 0..0 |-> z], 0)
    OBVIOUS
  <2> HIDE DEF Run
  <2>. QED
    BY <2>1
<1>2. ASSUME NEW n \in 1..N, n - 1 \in T PROVE n \in T
  <2>1. PICK c : Run(c, n - 1)
    BY <1>2
  <2> DEFINE d == [i \in 0..n |-> IF i < n THEN c[i] ELSE F[c[n - 1]][n]]
  <2>2. /\ n - 1 \in 0..(n - 1) /\ 0 \in 0..n /\ 0 < n
        /\ \A i \in 0..n : i < n => i \in 0..(n - 1)
        /\ \A i \in 1..n : i - 1 \in 0..n /\ i \in 0..n /\ i - 1 < n
        /\ \A i \in 1..n : i < n => i \in 1..(n - 1)
        /\ \A i \in 1..n : ~(i < n) => i = n
    OBVIOUS
  <2>3. F[c[n - 1]][n] \in S
    BY <2>1, <2>2
  <2>4. d \in [0..n -> S] /\ d[0] = z
    BY <2>1, <2>2, <2>3
  <2>5. ASSUME NEW i \in 1..n PROVE d[i] = F[d[i - 1]][i]
    <3>1. d[i - 1] = c[i - 1]
      BY <2>2
    <3>2. CASE i < n
      BY <2>1, <2>2, <3>1, <3>2
    <3>3. CASE ~(i < n)
      BY <2>2, <3>1, <3>3
    <3>. QED
      BY <3>2, <3>3
  <2>6. Run(d, n)
    BY <2>4, <2>5
  <2> HIDE DEF Run, d
  <2>. QED
    BY <2>6
<1>3. N \in T
  <2> HIDE DEF T
  <2>1. 0..N \subseteq T
    BY <1>1, <1>2, CountingUp
  <2>. QED
    BY <2>1
<1>4. PICK c : Run(c, N)
  BY <1>3
<1>5. ASSUME NEW g, RunsFrom(g, z, S, N, F)
      PROVE  \A i \in 0..N : g[i] = c[i]
  <2> DEFINE U == {i \in 0..N : g[i] = c[i]}
  <2>1. 0 \in U
    BY <1>4, <1>5 DEF RunsFrom
  <2>2. ASSUME NEW i \in 1..N, i - 1 \in U PROVE i \in U
    <3>1. g[i - 1] = c[i - 1] /\ i - 1 \in 0..N /\ i \in 0..N
      BY <2>2
    <3>. QED
      BY <1>4, <1>5, <3>1 DEF RunsFrom
  <2> HIDE DEF U
  <2>3. 0..N \subseteq U
    BY <2>1, <2>2, CountingUp
  <2>. QED
    BY <2>3 DEF U
<1>6. RunsFrom(c, z, S, N, F)
  BY <1>4 DEF RunsFrom
<1>7. IsRun(c, z, S, N, F)
  BY <1>4, <1>5, <1>6 DEF IsRun
<1>. QED
  BY <1>7

\* The check byte is the end of a run over the message.
LEMMA CrcRun ==
    ASSUME NEW m \in Seq(Byte)
    PROVE  \E c \in [0..Len(m) -> Byte] :
              /\ c[0] = 0 /\ crc8(m) = c[Len(m)]
              /\ \A i \in 1..Len(m) : c[i] = Shift8[Xor8(c[i - 1], m[i])]
<1> DEFINE N == Len(m)
           F == [r \in Byte |-> [i \in 1..N |-> Shift8[Xor8(r, m[i])]]]
           Eq(g) == g = [i \in 0..N |-> IF i = 0 THEN 0 ELSE Shift8[Xor8(g[i - 1], m[i])]]
<1>1. N \in Nat /\ \A i \in 1..N : m[i] \in Byte
  BY LenProperties, ElementOfSeq
<1>2. 0 \in Byte
  BY DEF Byte
<1>3. \A r, y \in Byte : Shift8[Xor8(r, y)] \in Byte
  BY XorBits, Shift8Facts
<1>5. crc8(m) = (CHOOSE g : Eq(g))[N]
  BY DEF crc8
<1> HIDE DEF N
<1>4. F \in [Byte -> [1..N -> Byte]] /\ \A r \in Byte, i \in 1..N : F[r][i] = Shift8[Xor8(r, m[i])]
  BY <1>1, <1>3
<1> HIDE DEF F
<1>12. PICK c : IsRun(c, 0, Byte, N, F)
  <2>1. N \in Nat /\ F \in [Byte -> [1..N -> Byte]]
    BY <1>1, <1>4
  <2>. QED
    BY <1>2, <2>1, Recursion
<1>6. /\ c \in [0..N -> Byte] /\ RunsFrom(c, 0, Byte, N, F)
      /\ \A g : RunsFrom(g, 0, Byte, N, F) => \A i \in 0..N : g[i] = c[i]
  BY <1>12 DEF IsRun
<1>7. c[0] = 0 /\ \A i \in 1..N : c[i] = Shift8[Xor8(c[i - 1], m[i])]
  <2>1. \A i \in 1..N : i - 1 \in 0..N
    BY <1>1
  <2>. QED
    BY <1>4, <1>6, <2>1 DEF RunsFrom
<1>8. Eq(c)
  <2>1. \A i \in 0..N : i # 0 => i \in 1..N
    BY <1>1
  <2>2. \A i \in 0..N : c[i] = IF i = 0 THEN 0 ELSE Shift8[Xor8(c[i - 1], m[i])]
    BY <1>6, <1>7, <2>1
  <2>. QED
    BY <1>6, <2>2
<1>9. PICK g : Eq(g) /\ crc8(m) = g[N]
  <2> HIDE DEF Eq
  <2>1. Eq(CHOOSE g : Eq(g))
    BY <1>8
  <2>. QED
    BY <1>5, <2>1
<1>10. RunsFrom(g, 0, Byte, N, F)
  <2>1. 0 \in 0..N /\ \A i \in 1..N : i \in 0..N /\ i # 0
    BY <1>1
  <2>2. g[0] = 0 /\ \A i \in 1..N : g[i] = Shift8[Xor8(g[i - 1], m[i])]
    BY <1>9, <2>1
  <2>. QED
    BY <1>4, <2>2 DEF RunsFrom
<1>11. g[N] = c[N]
  BY <1>1, <1>6, <1>10
<1>. QED
  BY <1>6, <1>7, <1>9, <1>11 DEF N

\* The remainder is the end of a run over the bits.
LEMMA RemainderRun ==
    ASSUME NEW m \in Seq({0, 1})
    PROVE  \E c \in [0..Len(m) -> Byte] :
              /\ c[0] = 0 /\ Remainder(m) = c[Len(m)]
              /\ \A i \in 1..Len(m) : c[i] = BringDown(c[i - 1], m[i])
<1> DEFINE N == Len(m)
           F == [r \in Byte |-> [i \in 1..N |-> BringDown(r, m[i])]]
           Eq(g) == g = [i \in 0..N |-> IF i = 0 THEN 0 ELSE BringDown(g[i - 1], m[i])]
<1>1. N \in Nat /\ \A i \in 1..N : m[i] \in {0, 1}
  BY LenProperties, ElementOfSeq
<1>2. 0 \in Byte
  BY DEF Byte
<1>3. ASSUME NEW r \in Byte, NEW bit \in {0, 1} PROVE BringDown(r, bit) \in Byte
  <2>1. CASE r >= 128
    <3> DEFINE d == 2 * r + bit - 256
    <3>1. d \in Byte /\ 7 \in Byte
      BY <2>1 DEF Byte
    <3>2. BringDown(r, bit) = Xor8(d, 7)
      BY <2>1 DEF BringDown
    <3> HIDE DEF d
    <3>. QED
      BY <3>1, <3>2, XorBits
  <2>2. CASE ~(r >= 128)
    BY <2>2 DEF BringDown, Byte
  <2>. QED
    BY <2>1, <2>2
<1>5. Remainder(m) = (CHOOSE g : Eq(g))[N]
  BY DEF Remainder
<1> HIDE DEF N
<1>4. F \in [Byte -> [1..N -> Byte]] /\ \A r \in Byte, i \in 1..N : F[r][i] = BringDown(r, m[i])
  BY <1>1, <1>3
<1> HIDE DEF F
<1>12. PICK c : IsRun(c, 0, Byte, N, F)
  <2>1. N \in Nat /\ F \in [Byte -> [1..N -> Byte]]
    BY <1>1, <1>4
  <2>. QED
    BY <1>2, <2>1, Recursion
<1>6. /\ c \in [0..N -> Byte] /\ RunsFrom(c, 0, Byte, N, F)
      /\ \A g : RunsFrom(g, 0, Byte, N, F) => \A i \in 0..N : g[i] = c[i]
  BY <1>12 DEF IsRun
<1>7. c[0] = 0 /\ \A i \in 1..N : c[i] = BringDown(c[i - 1], m[i])
  <2>1. \A i \in 1..N : i - 1 \in 0..N
    BY <1>1
  <2>. QED
    BY <1>4, <1>6, <2>1 DEF RunsFrom
<1>8. Eq(c)
  <2>1. \A i \in 0..N : i # 0 => i \in 1..N
    BY <1>1
  <2>2. \A i \in 0..N : c[i] = IF i = 0 THEN 0 ELSE BringDown(c[i - 1], m[i])
    BY <1>6, <1>7, <2>1
  <2>. QED
    BY <1>6, <2>2
<1>9. PICK g : Eq(g) /\ Remainder(m) = g[N]
  <2> HIDE DEF Eq
  <2>1. Eq(CHOOSE g : Eq(g))
    BY <1>8
  <2>. QED
    BY <1>5, <2>1
<1>10. RunsFrom(g, 0, Byte, N, F)
  <2>1. 0 \in 0..N /\ \A i \in 1..N : i \in 0..N /\ i # 0
    BY <1>1
  <2>2. g[0] = 0 /\ \A i \in 1..N : g[i] = BringDown(g[i - 1], m[i])
    BY <1>9, <2>1
  <2>. QED
    BY <1>4, <2>2 DEF RunsFrom
<1>11. g[N] = c[N]
  BY <1>1, <1>6, <1>10
<1>. QED
  BY <1>6, <1>7, <1>9, <1>11 DEF N

LEMMA DividendBits ==
    ASSUME NEW m \in Seq(Byte)
    PROVE  /\ Dividend(m) \in Seq({0, 1}) /\ Len(Dividend(m)) = 8 * Len(m) + 8
           /\ \A j \in 0..Len(m), k \in 1..8 :
                 Dividend(m)[8 * j + k]
                    = IF j < Len(m) THEN Bit(m[j + 1], Weight[k]) ELSE 0
<1> DEFINE N == Len(m)
           L == 8 * N + 8
           D == Dividend(m)
<1>1. N \in Nat /\ L \in Nat /\ \A i \in 1..N : m[i] \in Byte
  BY LenProperties, ElementOfSeq
<1>2. D = [i \in 1..L |-> IF i <= 8 * N
                          THEN Bit(m[((i - 1) \div 8) + 1], Weight[((i - 1) % 8) + 1])
                          ELSE 0]
  BY DEF Dividend
<1>3. \A k \in 1..8 : Weight[k] \in Weights
  BY DEF Weight, Weights
<1> HIDE DEF N, D
<1>4. ASSUME NEW i \in 1..L PROVE D[i] \in {0, 1}
  <2>1. CASE i <= 8 * N
    <3> DEFINE j == ((i - 1) \div 8) + 1
               k == ((i - 1) % 8) + 1
    <3>1. j \in 1..N /\ k \in 1..8
      BY <1>1, <2>1
    <3>2. D[i] = Bit(m[j], Weight[k])
      BY <1>2, <2>1
    <3> HIDE DEF j, k
    <3>. QED
      BY <1>1, <1>3, <3>1, <3>2, BitRange
  <2>2. CASE ~(i <= 8 * N)
    BY <1>2, <2>2
  <2>. QED
    BY <2>1, <2>2
<1>5. D \in Seq({0, 1}) /\ Len(D) = L
  <2>1. D \in [1..L -> {0, 1}]
    BY <1>2, <1>4
  <2> HIDE DEF L
  <2>. QED
    BY <1>1, <2>1, SeqDef, LenProperties
<1>6. ASSUME NEW j \in 0..N, NEW k \in 1..8
      PROVE  D[8 * j + k] = IF j < N THEN Bit(m[j + 1], Weight[k]) ELSE 0
  <2> DEFINE i == 8 * j + k
  <2>1. /\ i \in 1..L /\ (i <= 8 * N <=> j < N)
        /\ (i - 1) \div 8 = j /\ (i - 1) % 8 = k - 1 /\ (k - 1) + 1 = k
    BY <1>1
  <2> HIDE DEF i, L
  <2>2. D[i] = IF i <= 8 * N THEN Bit(m[((i - 1) \div 8) + 1], Weight[((i - 1) % 8) + 1])
                             ELSE 0
    BY <1>2, <2>1
  <2>3. D[i] = IF j < N THEN Bit(m[j + 1], Weight[k]) ELSE 0
    BY <2>1, <2>2
  <2>. QED
    BY <2>3 DEF i
<1>. QED
  BY <1>5, <1>6 DEF N, L, D

LEMMA CrcByte == ASSUME NEW m \in Seq(Byte) PROVE crc8(m) \in Byte
<1>1. PICK c \in [0..Len(m) -> Byte] : crc8(m) = c[Len(m)]
  BY CrcRun
<1>2. Len(m) \in 0..Len(m)
  BY LenProperties
<1>. QED
  BY <1>1, <1>2

(***************************************************************************)
(* crc8 computes the remainder of the message, shifted by eight bits, by   *)
(* the polynomial 0x07, for messages of every length.                      *)
(***************************************************************************)
THEOREM CrcIsRemainder ==
    ASSUME NEW m \in Seq(Byte) PROVE crc8(m) = Remainder(Dividend(m))
<1> DEFINE N == Len(m)
           D == Dividend(m)
           y(j) == IF j < N THEN m[j + 1] ELSE 0
<1>1. N \in Nat /\ \A i \in 1..N : m[i] \in Byte
  BY LenProperties, ElementOfSeq
<1>2. /\ D \in Seq({0, 1}) /\ Len(D) = 8 * N + 8
      /\ \A j \in 0..N, k \in 1..8 :
            D[8 * j + k] = IF j < N THEN Bit(m[j + 1], Weight[k]) ELSE 0
  BY DividendBits
<1>3. PICK c \in [0..N -> Byte] :
         /\ c[0] = 0 /\ crc8(m) = c[N]
         /\ \A i \in 1..N : c[i] = Shift8[Xor8(c[i - 1], m[i])]
  BY CrcRun
<1> HIDE DEF N, D
<1>4. PICK r \in [0..Len(D) -> Byte] :
         /\ r[0] = 0 /\ Remainder(D) = r[Len(D)]
         /\ \A i \in 1..Len(D) : r[i] = BringDown(r[i - 1], D[i])
  BY <1>2, RemainderRun
<1>5. ASSUME NEW j \in 0..N
      PROVE  /\ y(j) \in Byte /\ r[8 * j] \in Byte
             /\ r[8 * j + 8] = Xor8(Shift8[r[8 * j]], y(j))
  <2>1. y(j) \in Byte
    BY <1>1 DEF Byte
  <2>2. ASSUME NEW k \in 1..8 PROVE D[8 * j + k] = Bit(y(j), Weight[k])
    <3>1. Bit(0, Weight[k]) = 0
      BY DEF Bit, Weight
    <3>. QED
      BY <1>2, <3>1
  <2> DEFINE b == 8 * j
  <2>3. b \in 0..Len(D) /\ b + 0 = b /\ b + 8 \in 0..Len(D)
        /\ \A k \in 1..8 : b + k \in 1..Len(D) /\ (b + k) - 1 = b + (k - 1)
    BY <1>1, <1>2
  <2>4. \A k \in 1..8 : D[b + k] = Bit(y(j), Weight[k])
    BY <2>2
  <2> HIDE DEF b, y
  <2>5. ASSUME NEW k \in 1..8 PROVE r[b + k] = BringDown(r[b + (k - 1)], Bit(y(j), Weight[k]))
    BY <1>4, <2>3, <2>4
  <2>6. /\ r[b + 1] = BringDown(r[b], Bit(y(j), 128))
        /\ r[b + 2] = BringDown(r[b + 1], Bit(y(j), 64))
        /\ r[b + 3] = BringDown(r[b + 2], Bit(y(j), 32))
        /\ r[b + 4] = BringDown(r[b + 3], Bit(y(j), 16))
        /\ r[b + 5] = BringDown(r[b + 4], Bit(y(j), 8))
        /\ r[b + 6] = BringDown(r[b + 5], Bit(y(j), 4))
        /\ r[b + 7] = BringDown(r[b + 6], Bit(y(j), 2))
        /\ r[b + 8] = BringDown(r[b + 7], Bit(y(j), 1))
    BY <2>3, <2>5 DEF Weight
  <2>7. r[b + 8] = BringDownByte(r[b], y(j))
    BY <2>6 DEF BringDownByte
  <2>8. r[b] \in Byte
    BY <1>4, <2>3
  <2>9. r[b + 8] = Xor8(Shift8[r[b]], y(j))
    BY <2>1, <2>7, <2>8, BringDownByteXor
  <2>. QED
    BY <2>1, <2>8, <2>9 DEF b
<1> DEFINE T == {j \in 0..N : Shift8[r[8 * j]] = c[j]}
<1>6. 0 \in T
  BY <1>1, <1>3, <1>4, Shift8Facts
<1>7. ASSUME NEW j \in 1..N, j - 1 \in T PROVE j \in T
  <2>1. j - 1 \in 0..N /\ 8 * (j - 1) + 8 = 8 * j /\ (j - 1) + 1 = j /\ j - 1 < N
    BY <1>1
  <2>2. r[8 * j] = Xor8(Shift8[r[8 * (j - 1)]], y(j - 1))
    BY <1>5, <2>1
  <2>3. y(j - 1) = m[j]
    BY <2>1
  <2>4. Shift8[r[8 * j]] = c[j]
    BY <1>3, <1>7, <2>2, <2>3
  <2>. QED
    BY <2>4
<1>8. N \in T
  <2> HIDE DEF T
  <2>1. 0..N \subseteq T
    BY <1>1, <1>6, <1>7, CountingUp
  <2>. QED
    BY <1>1, <2>1
<1>9. r[8 * N + 8] = Shift8[r[8 * N]]
  <2>1. N \in 0..N /\ y(N) = 0
    BY <1>1
  <2>2. r[8 * N + 8] = Xor8(Shift8[r[8 * N]], 0) /\ Shift8[r[8 * N]] \in Byte
    BY <1>5, <2>1, Shift8Facts
  <2>. QED
    BY <2>2, XorZero
<1>. QED
  BY <1>2, <1>3, <1>4, <1>8, <1>9 DEF N, D

(***************************************************************************)
(* One changed byte always shows: two messages of the same length that     *)
(* differ in exactly one byte have different check bytes.                  *)
(***************************************************************************)
THEOREM CrcDetectsOneByte ==
    ASSUME NEW m \in Seq(Byte), NEW s \in Seq(Byte), Len(m) = Len(s),
           NEW k \in 1..Len(m), m[k] # s[k],
           \A i \in 1..Len(m) : i # k => m[i] = s[i]
    PROVE  crc8(m) # crc8(s)
<1> DEFINE N == Len(m)
<1>1. N \in Nat /\ \A i \in 1..N : m[i] \in Byte /\ s[i] \in Byte
  BY LenProperties, ElementOfSeq
<1>2. PICK c \in [0..N -> Byte] :
         /\ c[0] = 0 /\ crc8(m) = c[N]
         /\ \A i \in 1..N : c[i] = Shift8[Xor8(c[i - 1], m[i])]
  BY CrcRun
<1>3. PICK d \in [0..N -> Byte] :
         /\ d[0] = 0 /\ crc8(s) = d[N]
         /\ \A i \in 1..N : d[i] = Shift8[Xor8(d[i - 1], s[i])]
  <2>1. PICK d \in [0..Len(s) -> Byte] :
           /\ d[0] = 0 /\ crc8(s) = d[Len(s)]
           /\ \A i \in 1..Len(s) : d[i] = Shift8[Xor8(d[i - 1], s[i])]
    BY CrcRun
  <2>2. N = Len(s)
    OBVIOUS
  <2> HIDE DEF N
  <2>. QED
    BY <2>1, <2>2
<1> HIDE DEF N
\* A step keeps apart what is apart.
<1>4. ASSUME NEW x \in Byte, NEW y \in Byte, NEW p \in Byte, x # y
      PROVE  /\ Shift8[Xor8(x, p)] # Shift8[Xor8(y, p)]
             /\ Shift8[Xor8(p, x)] # Shift8[Xor8(p, y)]
  <2>1. Xor8(x, p) # Xor8(y, p) /\ Xor8(p, x) # Xor8(p, y)
    BY <1>4, XorInjective
  <2>2. Xor8(x, p) \in Byte /\ Xor8(y, p) \in Byte /\ Xor8(p, x) \in Byte /\ Xor8(p, y) \in Byte
    BY XorBits
  <2>. QED
    BY <2>1, <2>2, Shift8Facts
<1> DEFINE T == {i \in 0..N : c[i] = d[i] <=> i < k}
<1>5. 0 \in T
  BY <1>1, <1>2, <1>3
<1>6. ASSUME NEW i \in 1..N, i - 1 \in T PROVE i \in T
  <2>1. /\ i \in 0..N /\ i - 1 \in 0..N /\ k \in Int
        /\ c[i - 1] \in Byte /\ d[i - 1] \in Byte /\ m[i] \in Byte /\ s[i] \in Byte
        /\ c[i] = Shift8[Xor8(c[i - 1], m[i])] /\ d[i] = Shift8[Xor8(d[i - 1], s[i])]
        /\ c[i - 1] = d[i - 1] <=> i - 1 < k
    BY <1>1, <1>2, <1>3, <1>6
  <2>2. i # k => m[i] = s[i]
    BY DEF N
  <2>3. CASE i < k
    <3>1. i - 1 < k /\ i # k
      BY <2>1, <2>3
    <3>2. c[i] = d[i]
      BY <2>1, <2>2, <3>1
    <3>. QED
      BY <2>1, <2>3, <3>2
  <2>4. CASE i = k
    <3>1. i - 1 < k /\ ~(i < k)
      BY <2>1, <2>4
    <3>2. c[i - 1] = d[i - 1] /\ m[i] # s[i]
      BY <2>1, <2>4, <3>1
    <3>3. Shift8[Xor8(c[i - 1], m[i])] # Shift8[Xor8(d[i - 1], s[i])]
      BY <1>4, <2>1, <3>2
    <3>. QED
      BY <2>1, <3>1, <3>3
  <2>5. CASE i > k
    <3>1. ~(i - 1 < k) /\ ~(i < k) /\ i # k
      BY <2>1, <2>5
    <3>2. c[i - 1] # d[i - 1] /\ m[i] = s[i]
      BY <2>1, <2>2, <3>1
    <3>3. Shift8[Xor8(c[i - 1], m[i])] # Shift8[Xor8(d[i - 1], s[i])]
      BY <1>4, <2>1, <3>2
    <3>. QED
      BY <2>1, <3>1, <3>3
  <2>. QED
    BY <2>1, <2>3, <2>4, <2>5
<1>7. N \in T
  <2> HIDE DEF T
  <2>1. 0..N \subseteq T
    BY <1>1, <1>5, <1>6, CountingUp
  <2>. QED
    BY <1>1, <2>1
<1>8. ~(N < k)
  BY <1>1 DEF N
<1>. QED
  BY <1>2, <1>3, <1>7, <1>8

-----------------------------------------------------------------------------
(***************************************************************************)
(* The longest payload and the shortest frame exist.                       *)
(***************************************************************************)
LEMMA Extremes ==
    ASSUME end \in Ends
    PROVE  /\ Longest \in Nat /\ \A n \in Sizes(end) : n <= Longest
           /\ Shortest \in Nat \ {0} /\ \A f \in Frames[end] : Shortest <= Len(f.payload) + 4
           /\ Sync \in Sizes(end) => Sync + 1 <= Longest
<1> DEFINE S == Sizes(end)
           T == {n \in Nat : \A k \in S : k <= n}
           M == {Len(f.payload) + 4 : f \in Frames[end]}
<1>1. S \subseteq 0..255 /\ S # {}
  <2>1. PICK f \in Frames[end] : Len(f.payload) \in PayloadLen[end][f.type]
                                 /\ f.type \in DOMAIN PayloadLen[end]
    BY FramesAssumption
  <2>2. Len(f.payload) \in S
    BY <2>1 DEF Sizes
  <2>. QED
    BY <2>2, SizesAssumption DEF Byte
<1> HIDE DEF S
<1>2. T \subseteq Nat /\ 255 \in T
  BY <1>1
<1>3. PICK m \in T : \A k \in T : m <= k
  BY <1>2, LeastNatural
<1>4. m \in S
  <2> SUFFICES ASSUME m \notin S PROVE FALSE
    OBVIOUS
  <2>1. PICK k \in S : TRUE
    BY <1>1
  <2>2. k \in Nat /\ k <= m /\ k # m
    BY <1>1, <2>1
  <2>3. m - 1 \in Nat /\ \A j \in S : j <= m - 1
    BY <1>1, <2>2
  <2>. QED
    BY <1>3, <2>3
<1>5. Longest \in S /\ \A n \in S : n <= Longest
  <2>1. \E x \in S : \A y \in S : x >= y
    BY <1>1, <1>4
  <2>. QED
    BY <1>1, <2>1 DEF Longest, Max, S
<1>6. M \subseteq Nat \ {0} /\ M # {}
  <2>1. \A f \in Frames[end] : Len(f.payload) \in Nat
    BY FramesAssumption, LenProperties
  <2>. QED
    BY <2>1, FramesAssumption
<1>7. Shortest \in M /\ \A n \in M : Shortest <= n
  <2>1. PICK x \in M : \A y \in M : x <= y
    BY <1>6, LeastNatural
  <2>. QED
    BY <2>1 DEF Shortest, Min
<1>8. Sync \in S => Sync + 1 <= Longest
  <2>1. ASSUME Sync \in S PROVE \E n \in S : Sync < n
    BY <2>1, SizesAssumption DEF S
  <2>. QED
    BY <1>1, <1>5, <2>1
<1>9. \A f \in Frames[end] : Len(f.payload) + 4 \in M
  OBVIOUS
<1> HIDE DEF M
<1>10. Longest \in Nat
  BY <1>1, <1>5
<1>11. Shortest \in Nat \ {0} /\ \A f \in Frames[end] : Shortest <= Len(f.payload) + 4
  BY <1>6, <1>7, <1>9
<1>. QED
  BY <1>5, <1>8, <1>10, <1>11 DEF S

-----------------------------------------------------------------------------
(***************************************************************************)
(* The bytes of a frame.                                                   *)
(***************************************************************************)
LEMMA ConcatElements ==
    ASSUME NEW S, NEW s \in Seq(S), NEW t \in Seq(S)
    PROVE  /\ s \o t \in Seq(S) /\ Len(s \o t) = Len(s) + Len(t)
           /\ \A i \in 1..Len(s) : (s \o t)[i] = s[i]
           /\ \A i \in 1..Len(t) : (s \o t)[i + Len(s)] = t[i]
<1> DEFINE m == Len(s)
           n == Len(t)
           u == s \o t
<1>1. /\ u \in Seq(S) /\ Len(u) = m + n /\ m \in Nat /\ n \in Nat
      /\ \A i \in 1..(m + n) : u[i] = IF i <= m THEN s[i] ELSE t[i - m]
  BY ConcatProperties, LenProperties
<1> HIDE DEF u, m, n
<1>2. ASSUME NEW i \in 1..n PROVE u[i + m] = t[i]
  <2>1. i + m \in 1..(m + n) /\ ~(i + m <= m) /\ (i + m) - m = i
    BY <1>1
  <2>2. u[i + m] = IF i + m <= m THEN s[i + m] ELSE t[(i + m) - m]
    BY <1>1, <2>1
  <2>. QED
    BY <2>1, <2>2
<1>3. \A i \in 1..m : u[i] = s[i]
  BY <1>1
<1>. QED
  BY <1>1, <1>2, <1>3 DEF u, m, n

\* What the check byte covers: the type, the length and the payload.
LEMMA BodyFacts ==
    ASSUME NEW t \in Byte, NEW n \in Byte, NEW p \in Seq(Byte), Len(p) = n
    PROVE  LET body == <<t, n>> \o p
           IN  /\ body \in Seq(Byte) /\ Len(body) = n + 2
               /\ body[1] = t /\ body[2] = n
               /\ \A i \in 1..n : body[i + 2] = p[i]
<1> DEFINE h == <<t, n>>
           body == h \o p
<1>1. h \in Seq(Byte) /\ Len(h) = 2 /\ h[1] = t /\ h[2] = n /\ n \in Nat
  BY DEF Byte
<1> HIDE DEF h
<1>2. /\ body \in Seq(Byte) /\ Len(body) = Len(h) + Len(p)
      /\ \A i \in 1..Len(h) : body[i] = h[i]
      /\ \A i \in 1..Len(p) : body[i + Len(h)] = p[i]
  <2>1. /\ h \o p \in Seq(Byte) /\ Len(h \o p) = Len(h) + Len(p)
        /\ \A i \in 1..Len(h) : (h \o p)[i] = h[i]
        /\ \A i \in 1..Len(p) : (h \o p)[i + Len(h)] = p[i]
    <3>1. h \in Seq(Byte) /\ p \in Seq(Byte)
      BY <1>1
    <3>. QED
      BY ONLY <3>1, ConcatElements
  <2>. QED
    BY <2>1
<1> HIDE DEF body
<1>3. Len(body) = n + 2 /\ body[1] = t /\ body[2] = n
  BY <1>1, <1>2
<1>4. \A i \in 1..n : body[i + 2] = p[i]
  BY <1>1, <1>2
<1>. QED
  BY <1>2, <1>3, <1>4 DEF body, h

LEMMA EncodeFacts ==
    ASSUME NEW e \in Ends, NEW f \in Frames[e]
    PROVE  LET n == Len(f.payload)
           IN  /\ n \in Nat /\ n \in Byte /\ f.type \in Byte /\ f.payload \in Seq(Byte)
               /\ Encode(f) \in Seq(Byte) /\ Len(Encode(f)) = n + 4
               /\ Encode(f)[1] = Sync /\ Encode(f)[2] = f.type /\ Encode(f)[3] = n
               /\ \A i \in 1..n : Encode(f)[i + 3] = f.payload[i]
               /\ Encode(f)[n + 4] = crc8(<<f.type, n>> \o f.payload)
<1> DEFINE n == Len(f.payload)
           body == <<f.type, n>> \o f.payload
           c == crc8(body)
           p == <<Sync>> \o body
           w == p \o <<c>>
<1>1. n \in Nat /\ f.payload \in Seq(Byte) /\ f.type \in Byte /\ n \in Byte
  <2>1. /\ f.payload \in Seq(Byte) /\ f.type \in DOMAIN PayloadLen[e]
        /\ n \in PayloadLen[e][f.type]
    BY FramesAssumption
  <2>2. n \in Sizes(e)
    BY <2>1 DEF Sizes
  <2>. QED
    BY <2>1, <2>2, SizesAssumption, LenProperties
<1>2. Encode(f) = w
  BY DEF Encode
<1>4. /\ body \in Seq(Byte) /\ Len(body) = 2 + n
      /\ body[1] = f.type /\ body[2] = n
      /\ \A i \in 1..n : body[i + 2] = f.payload[i]
  <2> HIDE DEF body
  <2>1. /\ body \in Seq(Byte) /\ Len(body) = n + 2
        /\ body[1] = f.type /\ body[2] = n
        /\ \A i \in 1..n : body[i + 2] = f.payload[i]
    BY <1>1, BodyFacts DEF body
  <2>. QED
    BY <1>1, <2>1
<1>5. /\ <<Sync>> \in Seq(Byte) /\ Len(<<Sync>>) = 1 /\ <<Sync>>[1] = Sync
      /\ <<c>> \in Seq(Byte) /\ Len(<<c>>) = 1 /\ <<c>>[1] = c
  <2>1. c \in Byte
    BY <1>4, CrcByte
  <2> HIDE DEF c
  <2>. QED
    BY <2>1, SizesAssumption
<1> HIDE DEF n, c
<1> HIDE DEF body
<1>6. /\ p \in Seq(Byte) /\ Len(p) = 1 + (2 + n)
      /\ \A i \in 1..1 : p[i] = <<Sync>>[i]
      /\ \A i \in 1..(2 + n) : p[i + 1] = body[i]
  <2>1. 2 + n \in Nat
    BY <1>1
  <2>. QED
    BY <1>5, <1>4, <2>1, ConcatElements
<1> HIDE DEF p
<1>7. /\ w \in Seq(Byte) /\ Len(w) = (3 + n) + 1
      /\ \A i \in 1..(3 + n) : w[i] = p[i]
      /\ \A i \in 1..1 : w[i + (3 + n)] = <<c>>[i]
  <2>1. 3 + n \in Nat /\ Len(p) = 3 + n
    BY <1>1, <1>6
  <2>. QED
    BY <1>5, <1>6, <2>1, ConcatElements
<1> HIDE DEF w
<1>8. w[1] = Sync /\ w[2] = f.type /\ w[3] = n
  <2>1. p[1] = Sync /\ p[1 + 1] = body[1] /\ p[2 + 1] = body[2]
    BY <1>1, <1>5, <1>6
  <2>2. w[1] = p[1] /\ w[2] = p[2] /\ w[3] = p[3]
    BY <1>1, <1>7
  <2>3. body[1] = f.type /\ body[2] = n
    BY <1>5, <1>4
  <2>. QED
    BY <2>1, <2>2, <2>3
<1>9. ASSUME NEW i \in 1..n PROVE w[i + 3] = f.payload[i]
  <2>1. i + 2 \in 1..(2 + n) /\ i + 3 \in 1..(3 + n) /\ (i + 2) + 1 = i + 3
    BY <1>1
  <2>2. w[i + 3] = p[i + 3]
    BY <1>7, <2>1
  <2>3. p[(i + 2) + 1] = body[i + 2]
    BY <1>6, <2>1
  <2>4. body[i + 2] = f.payload[i]
    BY <1>4
  <2>. QED
    BY <2>1, <2>2, <2>3, <2>4
<1>10. w[n + 4] = c /\ Len(w) = n + 4 /\ w \in Seq(Byte)
  <2>1. 1 + (3 + n) = n + 4 /\ (3 + n) + 1 = n + 4 /\ 1 \in 1..1
    BY <1>1
  <2>2. w[1 + (3 + n)] = <<c>>[1]
    BY <1>7, <2>1
  <2>. QED
    BY <1>5, <1>7, <2>1, <2>2
<1>. QED
  BY <1>1, <1>2, <1>8, <1>9, <1>10 DEF c, body, n

-----------------------------------------------------------------------------
(***************************************************************************)
(* The inductive invariant.                                                *)
(***************************************************************************)
States == {"ST_WAIT_SYNC", "ST_READ_TYPE", "ST_READ_LEN", "ST_READ_PAYLOAD", "ST_READ_CRC"}

\* The automaton: what it remembers was accepted, the payload is within it.
RxOK ==
    /\ end \in Ends
    /\ rx \in [st: States, type: Nat, len: Nat, payload: Seq(Byte)]
    /\ rx.st \in {"ST_READ_LEN", "ST_READ_PAYLOAD", "ST_READ_CRC"}
          => rx.type \in DOMAIN Lengths
    /\ rx.st \in {"ST_READ_PAYLOAD", "ST_READ_CRC"} => rx.len \in Lengths[rx.type]
    /\ rx.st = "ST_READ_PAYLOAD" => Len(rx.payload) < rx.len
    /\ rx.st = "ST_READ_CRC" => Len(rx.payload) = rx.len
    /\ end = "bot" => Len(rx.payload) <= MaxPayload

Whole == Encode(sent)
Passed == Len(Whole) - Len(wire)

\* The line holds the rest of the frame being sent.
LineInv ==
    /\ wire \in Seq(Byte)
    /\ got \in Frame \cup {NoFrame}
    /\ intact \in BOOLEAN
    /\ lost \in Nat
    /\ faults \in 0..MaxFaults
    /\ IF sent = NoFrame THEN wire = <<>> /\ ~intact
       ELSE /\ sent \in Frames[end]
            /\ Len(wire) <= Len(Whole)
            /\ \A i \in 1..Len(wire) : wire[i] = Whole[i + Passed]

\* Where the automaton is when it follows a frame of payload length n of which
\* c bytes have passed.
Stage(n, c) ==
    CASE c = 0 \/ c = n + 4 -> "ST_WAIT_SYNC"
      [] c = 1              -> "ST_READ_TYPE"
      [] c = 2              -> "ST_READ_LEN"
      [] c = n + 3          -> "ST_READ_CRC"
      [] OTHER              -> "ST_READ_PAYLOAD"

InStep ==
    LET n == Len(sent.payload)
    IN  /\ rx.st = Stage(n, Passed)
        /\ Passed \in 2..(n + 3) => rx.type = sent.type
        /\ Passed \in 3..(n + 3) =>
              /\ rx.len = n
              /\ Len(rx.payload) = Passed - 3
              /\ \A i \in 1..(Passed - 3) : rx.payload[i] = sent.payload[i]
        /\ got = IF Passed = n + 4 THEN sent ELSE NoFrame

\* How many bytes the false header that is being read will swallow.
Left ==
    CASE rx.st = "ST_READ_PAYLOAD" -> rx.len - Len(rx.payload) + 1
      [] rx.st = "ST_READ_CRC"     -> 1
      [] OTHER                     -> 0

\* The receiver looks for a frame inside the one that passes: it waits, or is
\* one or two bytes behind a Sync.
Scans ==
    /\ Passed >= 1
    /\ \/ rx.st = "ST_WAIT_SYNC"
       \/ rx.st = "ST_READ_TYPE" /\ Passed >= 2 /\ Whole[Passed] = Sync
       \/ /\ rx.st = "ST_READ_LEN" /\ Passed >= 3
          /\ Whole[Passed - 1] = Sync /\ Whole[Passed] = rx.type

\* A false header that began before the frame: with what it has swallowed, the
\* lost frames included, it swallows Longest + 1 bytes at most, and then none
\* begins in a harmless frame.
OutOfStep ==
    /\ lost * Shortest <= Longest
    /\ Left > 0 => lost * Shortest + Passed + Left <= Longest + 1
    /\ rx.st \in {"ST_READ_TYPE", "ST_READ_LEN"} => (Passed = 0 /\ lost = 0) \/ Scans
    /\ Passed = 0 => rx.st # "ST_WAIT_SYNC"

LossInv ==
    /\ lost <= LossBound
    /\ intact /\ sent \in Harmless[end] => InStep \/ OutOfStep
    /\ ~intact => lost = 0
    /\ faults = 0 =>
          /\ lost = 0
          /\ IF sent = NoFrame THEN rx.st = "ST_WAIT_SYNC" /\ got = NoFrame
                               ELSE intact /\ InStep

LinkInv == RxOK /\ LineInv /\ LossInv

-----------------------------------------------------------------------------
(***************************************************************************)
(* One byte.                                                               *)
(***************************************************************************)
LEMMA RxByteFacts ==
    ASSUME RxOK, NEW b \in Byte, Receive(b), end' = end
    PROVE  /\ RxOK'
           /\ rx.st = "ST_WAIT_SYNC" =>
                 IF b = Sync THEN rx'.st = "ST_READ_TYPE" ELSE rx' = rx
           /\ rx.st = "ST_READ_TYPE" =>
                 IF b \in DOMAIN Lengths THEN rx'.st = "ST_READ_LEN" /\ rx'.type = b
                                         ELSE rx'.st = "ST_WAIT_SYNC"
           /\ rx.st = "ST_READ_LEN" =>
                 IF b \in Lengths[rx.type]
                 THEN /\ rx'.st = IF b > 0 THEN "ST_READ_PAYLOAD" ELSE "ST_READ_CRC"
                      /\ rx'.type = rx.type /\ rx'.len = b /\ rx'.payload = <<>>
                 ELSE rx'.st = "ST_WAIT_SYNC"
           /\ rx.st = "ST_READ_PAYLOAD" =>
                 /\ rx'.st = IF Len(rx.payload) + 1 >= rx.len THEN "ST_READ_CRC"
                                                              ELSE "ST_READ_PAYLOAD"
                 /\ rx'.type = rx.type /\ rx'.len = rx.len
                 /\ rx'.payload = Append(rx.payload, b)
           /\ rx.st = "ST_READ_CRC" => rx'.st = "ST_WAIT_SYNC"
<1>1. rx' = RxByte(rx, b) /\ Lengths' = Lengths /\ end' \in Ends
  BY DEF Receive, Lengths, RxOK
<1>2. /\ rx \in [st: States, type: Nat, len: Nat, payload: Seq(Byte)]
      /\ rx.payload \in Seq(Byte) /\ Len(rx.payload) \in Nat /\ rx.len \in Nat
  BY LenProperties DEF RxOK
<1>3. CASE rx.st = "ST_WAIT_SYNC"
  <2>1. rx' = WaitSync(rx, b)
    BY <1>1, <1>3 DEF RxByte
  <2>. QED
    BY <1>1, <1>2, <1>3, <2>1 DEF WaitSync, Goto, RxOK, States
<1>4. CASE rx.st = "ST_READ_TYPE"
  <2>1. rx' = ReadType(rx, b)
    BY <1>1, <1>4 DEF RxByte
  <2>2. b \in Nat
    BY DEF Byte
  <2>. QED
    BY <1>1, <1>2, <1>4, <2>1, <2>2 DEF ReadType, Goto, RxOK, States
<1>5. CASE rx.st = "ST_READ_LEN"
  <2>1. rx' = ReadLen(rx, b)
    BY <1>1, <1>5 DEF RxByte
  <2>2. Len(<<>>) = 0 /\ <<>> \in Seq(Byte)
    OBVIOUS
  <2>3. MaxPayload >= 0
    BY SizesAssumption
  <2>4. CASE b \in Lengths[rx.type]
    <3> DEFINE next == IF b > 0 THEN "ST_READ_PAYLOAD" ELSE "ST_READ_CRC"
    <3>1. rx' = [[[rx EXCEPT !.st = next] EXCEPT !.len = b] EXCEPT !.payload = <<>>]
      BY <2>1, <2>4 DEF ReadLen, Collect, Goto
    <3>2. next \in States
      BY DEF States
    <3> HIDE DEF next
    <3>3. /\ rx'.st = next /\ rx'.type = rx.type /\ rx'.len = b /\ rx'.payload = <<>>
          /\ rx' \in [st: States, type: Nat, len: Nat, payload: Seq(Byte)]
      <4>1. b \in Nat
        BY DEF Byte
      <4>. QED
        BY <1>2, <2>2, <3>1, <3>2, <4>1
    <3>4. RxOK'
      BY <1>1, <1>5, <2>2, <2>3, <2>4, <3>3 DEF RxOK, next
    <3>. QED
      BY <1>5, <2>4, <3>3, <3>4 DEF next
  <2>5. CASE b \notin Lengths[rx.type]
    <3>1. rx' = [rx EXCEPT !.st = "ST_WAIT_SYNC"]
      BY <2>1, <2>5 DEF ReadLen, Goto
    <3>2. /\ rx'.st = "ST_WAIT_SYNC" /\ rx'.payload = rx.payload
          /\ rx' \in [st: States, type: Nat, len: Nat, payload: Seq(Byte)]
      BY <1>2, <3>1 DEF States
    <3>. QED
      BY <1>1, <1>5, <2>5, <3>2 DEF RxOK
  <2>. QED
    BY <2>4, <2>5
<1>6. CASE rx.st = "ST_READ_PAYLOAD"
  <2>1. rx' = ReadPayload(rx, b)
    BY <1>1, <1>6 DEF RxByte
  <2>2. /\ Append(rx.payload, b) \in Seq(Byte)
        /\ Len(Append(rx.payload, b)) = Len(rx.payload) + 1
    BY <1>2, AppendProperties
  <2>3. end = "bot" => rx.len <= MaxPayload
    <3>1. rx.len \in Sizes(end)
      BY <1>6 DEF RxOK, Sizes, Lengths
    <3>. QED
      BY <1>2, <3>1, SizesAssumption DEF RxOK
  <2> DEFINE p == Append(rx.payload, b)
  <2> HIDE DEF p
  <2>4. /\ rx'.payload = p /\ rx'.type = rx.type /\ rx'.len = rx.len
        /\ rx'.st = IF Len(p) >= rx.len THEN "ST_READ_CRC" ELSE "ST_READ_PAYLOAD"
        /\ rx' \in [st: States, type: Nat, len: Nat, payload: Seq(Byte)]
    BY <1>2, <1>6, <2>1, <2>2 DEF ReadPayload, States, p
  <2>5. p \in Seq(Byte) /\ Len(p) = Len(rx.payload) + 1
    BY <2>2 DEF p
  <2>6. Len(rx.payload) < rx.len /\ rx.type \in DOMAIN Lengths /\ rx.len \in Lengths[rx.type]
    BY <1>6 DEF RxOK
  <2>7. RxOK'
    <3>1. /\ Lengths' = Lengths /\ end' = end /\ rx'.type \in DOMAIN Lengths
          /\ rx'.len \in Lengths[rx'.type]
      BY <1>1, <2>4, <2>6
    <3>2. /\ rx'.st = "ST_READ_PAYLOAD" => Len(p) < rx.len
          /\ rx'.st = "ST_READ_CRC" => Len(p) = rx.len
          /\ end = "bot" => Len(p) <= MaxPayload
      BY <1>2, <2>3, <2>4, <2>5, <2>6, SizesAssumption
    <3>. QED
      BY <1>1, <2>4, <3>1, <3>2 DEF RxOK
  <2>. QED
    BY <1>6, <2>4, <2>5, <2>7 DEF p
<1>7. CASE rx.st = "ST_READ_CRC"
  <2>1. rx' = ReadCrc(rx)
    BY <1>1, <1>7 DEF RxByte
  <2>. QED
    BY <1>1, <1>2, <1>7, <2>1 DEF ReadCrc, Goto, RxOK, States
<1>. QED
  BY <1>2, <1>3, <1>4, <1>5, <1>6, <1>7 DEF States

LEMMA GotFacts ==
    ASSUME RxOK, got \in Frame \cup {NoFrame}, NEW b \in Byte, Receive(b), end' = end
    PROVE  /\ got' \in (Frame \cup {NoFrame})'
           /\ rx.st # "ST_READ_CRC" => got' = got
<1>1. Frame' = Frame
  BY DEF Frame, Lengths
<1>2. rx.st # "ST_READ_CRC" => got' = got
  BY DEF Receive, Accepts
<1>3. rx.st = "ST_READ_CRC" => [type |-> rx.type, payload |-> rx.payload] \in Frame
  BY DEF RxOK, Frame
<1>. QED
  BY <1>1, <1>2, <1>3 DEF Receive, Accepts

-----------------------------------------------------------------------------
(***************************************************************************)
(* What is on its way.                                                     *)
(***************************************************************************)
LEMMA Coming ==
    ASSUME RxOK, LineInv, sent # NoFrame
    PROVE  /\ sent \in Frames[end] /\ end \in Ends
           /\ Len(sent.payload) \in Nat
           /\ Len(wire) \in Nat /\ Passed \in 0..(Len(sent.payload) + 4)
           /\ wire = <<>> <=> Passed = Len(sent.payload) + 4
           /\ wire # <<>> => Head(wire) = Whole[Passed + 1] /\ Head(wire) \in Byte
<1>1. sent \in Frames[end] /\ end \in Ends
  BY DEF LineInv, RxOK
<1>2. Len(sent.payload) \in Nat /\ Len(Whole) = Len(sent.payload) + 4
  BY <1>1, EncodeFacts DEF Whole
<1>3. Len(wire) \in Nat /\ Len(wire) <= Len(Whole) /\ (wire = <<>> <=> Len(wire) = 0)
  BY EmptySeq, LenProperties DEF LineInv
<1>4. wire # <<>> => Head(wire) = wire[1] /\ wire[1] \in Byte /\ 1 \in 1..Len(wire)
  BY <1>3 DEF LineInv
<1>5. wire # <<>> => wire[1] = Whole[1 + Passed] /\ 1 + Passed = Passed + 1
  BY <1>2, <1>3, <1>4 DEF LineInv, Passed
<1>. QED
  BY <1>1, <1>2, <1>3, <1>4, <1>5 DEF Passed

LEMMA Going ==
    ASSUME RxOK, LineInv, sent # NoFrame, wire # <<>>, wire' = Tail(wire),
           UNCHANGED <<end, sent>>
    PROVE  /\ wire' \in Seq(Byte) /\ Passed' = Passed + 1
           /\ Len(wire') <= Len(Whole')
           /\ \A i \in 1..Len(wire') : wire'[i] = Whole'[i + Passed']
<1>1. /\ wire' \in Seq(Byte) /\ Len(wire') = Len(wire) - 1
      /\ \A i \in 1..Len(wire') : wire'[i] = wire[i + 1]
  BY HeadTailProperties DEF LineInv
<1>2. Len(wire) \in Nat /\ Len(wire) <= Len(Whole) /\ Len(Whole) \in Nat
      /\ \A i \in 1..Len(wire) : wire[i] = Whole[i + Passed]
  <2>1. sent \in Frames[end] /\ end \in Ends
    BY DEF LineInv, RxOK
  <2>2. Len(Whole) \in Nat
    BY <2>1, EncodeFacts DEF Whole
  <2>. QED
    BY <2>2, LenProperties DEF LineInv
<1>3. Whole' = Whole
  BY DEF Whole
<1>4. Passed' = Passed + 1 /\ Passed \in Nat
  BY <1>1, <1>2, <1>3 DEF Passed
<1>5. ASSUME NEW i \in 1..Len(wire') PROVE wire'[i] = Whole'[i + Passed']
  <2>1. i + 1 \in 1..Len(wire) /\ (i + 1) + Passed = i + Passed'
    BY <1>1, <1>2, <1>4
  <2>2. wire[i + 1] = Whole[(i + 1) + Passed]
    BY <1>2, <2>1
  <2>. QED
    BY <1>1, <1>3, <2>1, <2>2
<1>. QED
  BY <1>1, <1>2, <1>3, <1>4, <1>5

-----------------------------------------------------------------------------
(***************************************************************************)
(* A receiver in step with a frame stays so, and accepts it.               *)
(***************************************************************************)
LEMMA InStepByte ==
    ASSUME RxOK, LineInv, InStep, sent # NoFrame, wire # <<>>,
           Receive(Head(wire)), wire' = Tail(wire), UNCHANGED <<end, sent>>
    PROVE  InStep'
<1> DEFINE n == Len(sent.payload)
           b == Head(wire)
           c == Passed
<1>1. /\ sent \in Frames[end] /\ end \in Ends
      /\ n \in Nat /\ c \in 0..(n + 3) /\ c' = c + 1 /\ n' = n
      /\ b = Whole[c + 1] /\ b \in Byte
  <2>1. c' = c + 1
    BY Going
  <2>. QED
    BY <2>1, Coming
<1>2. /\ Whole[1] = Sync /\ Whole[2] = sent.type /\ Whole[3] = n
      /\ \A i \in 1..n : Whole[i + 3] = sent.payload[i]
      /\ Whole[n + 4] = crc8(<<sent.type, n>> \o sent.payload)
      /\ sent.payload \in Seq(Byte)
  BY <1>1, EncodeFacts DEF Whole
<1>3. /\ sent \in [type: DOMAIN Lengths, payload: Seq(Byte)]
      /\ n \in Lengths[sent.type]
  BY <1>1, FramesAssumption DEF Lengths
<1>4. /\ rx.st = Stage(n, c)
      /\ c \in 2..(n + 3) => rx.type = sent.type
      /\ c \in 3..(n + 3) => /\ rx.len = n
                             /\ Len(rx.payload) = c - 3
                             /\ \A i \in 1..(c - 3) : rx.payload[i] = sent.payload[i]
      /\ got = NoFrame
  BY <1>1 DEF InStep
<1>5. /\ rx.payload \in Seq(Byte)
      /\ rx.st # "ST_READ_CRC" => got' = NoFrame
  BY <1>1, <1>4, GotFacts DEF RxOK, LineInv
<1> HIDE DEF c, n, b
<1>6. CASE c = 0
  <2>1. rx'.st = "ST_READ_TYPE" /\ c' = 1 /\ got' = NoFrame
    BY <1>1, <1>2, <1>4, <1>5, <1>6, RxByteFacts DEF Stage, b
  <2>. QED
    BY <1>1, <2>1 DEF InStep, Stage, c, n
<1>7. CASE c = 1
  <2>1. rx'.st = "ST_READ_LEN" /\ rx'.type = sent.type /\ c' = 2 /\ got' = NoFrame
    BY <1>1, <1>2, <1>3, <1>4, <1>5, <1>7, RxByteFacts DEF Stage, b
  <2>. QED
    BY <1>1, <2>1 DEF InStep, Stage, c, n
<1>8. CASE c = 2
  <2>1. rx.st = "ST_READ_LEN" /\ b = n /\ rx.type = sent.type
    BY <1>1, <1>2, <1>4, <1>8 DEF Stage
  <2>2. /\ rx'.st = IF n > 0 THEN "ST_READ_PAYLOAD" ELSE "ST_READ_CRC"
        /\ rx'.type = sent.type /\ rx'.len = n /\ rx'.payload = <<>>
        /\ c' = 3 /\ got' = NoFrame
    BY <1>1, <1>3, <1>5, <1>8, <2>1, RxByteFacts DEF b
  <2>3. Len(rx'.payload) = 0
    BY <2>2
  <2>. QED
    BY <1>1, <2>2, <2>3 DEF InStep, Stage, c, n
<1>9. CASE c \in 3..(n + 2)
  <2>1. rx.st = "ST_READ_PAYLOAD" /\ rx.len = n /\ Len(rx.payload) = c - 3
    BY <1>1, <1>4, <1>9 DEF Stage
  <2>2. /\ rx'.st = IF (c - 3) + 1 >= n THEN "ST_READ_CRC" ELSE "ST_READ_PAYLOAD"
        /\ rx'.type = sent.type /\ rx'.len = n /\ rx'.payload = Append(rx.payload, b)
        /\ c' = c + 1 /\ got' = NoFrame
    BY <1>1, <1>4, <1>5, <1>9, <2>1, RxByteFacts DEF b
  <2>3. /\ Len(rx'.payload) = (c - 3) + 1
        /\ \A i \in 1..(c - 3) : rx'.payload[i] = rx.payload[i]
        /\ rx'.payload[(c - 3) + 1] = b
    BY <1>1, <1>5, <2>1, <2>2, AppendProperties
  <2>4. b = sent.payload[(c - 3) + 1]
    <3>1. (c - 3) + 1 \in 1..n /\ ((c - 3) + 1) + 3 = c + 1
      BY <1>1, <1>9
    <3>. QED
      BY <1>1, <1>2, <3>1
  <2>5. ASSUME NEW i \in 1..(c' - 3) PROVE rx'.payload[i] = sent.payload[i]
    <3>1. i \in 1..(c - 3) \/ i = (c - 3) + 1
      BY <1>1, <1>9
    <3>2. CASE i \in 1..(c - 3)
      <4>1. rx'.payload[i] = rx.payload[i]
        BY <2>3, <3>2
      <4>2. c \in 3..(n + 3)
        BY <1>1, <1>9
      <4>. QED
        BY <1>4, <3>2, <4>1, <4>2
    <3>3. CASE i = (c - 3) + 1
      BY <2>3, <2>4, <3>3
    <3>. QED
      BY <3>1, <3>2, <3>3
  <2>6. c' - 3 = (c - 3) + 1 /\ c' \in 4..(n + 3) /\ c' # n + 4
    BY <1>1, <1>9
  <2>7. rx'.st = Stage(n, c')
    BY <1>1, <1>9, <2>2, <2>6 DEF Stage
  <2>8. sent' = sent /\ n' = n
    BY <1>1
  <2>9. InStep' =
           /\ rx'.st = Stage(n', c')
           /\ c' \in 2..(n' + 3) => rx'.type = sent'.type
           /\ c' \in 3..(n' + 3) =>
                 /\ rx'.len = n'
                 /\ Len(rx'.payload) = c' - 3
                 /\ \A i \in 1..(c' - 3) : rx'.payload[i] = sent'.payload[i]
           /\ got' = IF c' = n' + 4 THEN sent' ELSE NoFrame
    BY DEF InStep, Stage, c, n
  <2>. QED
    BY <1>1, <2>2, <2>3, <2>5, <2>6, <2>7, <2>8, <2>9
<1>10. CASE c = n + 3
  <2>1. /\ rx.st = "ST_READ_CRC" /\ rx.len = n /\ Len(rx.payload) = n
        /\ rx.type = sent.type
        /\ \A i \in 1..n : rx.payload[i] = sent.payload[i]
    BY <1>1, <1>4, <1>10 DEF Stage
  <2>2. rx.payload = sent.payload
    BY <1>2, <1>5, <2>1, SeqEqual DEF n
  <2>3. b = crc8(<<rx.type, rx.len>> \o rx.payload)
    BY <1>1, <1>2, <1>10, <2>1, <2>2
  <2>4. got' = [type |-> rx.type, payload |-> rx.payload]
    BY <2>1, <2>3 DEF Receive, Accepts, b
  <2>5. got' = sent
    BY <1>3, <2>1, <2>2, <2>4
  <2>6. rx'.st = "ST_WAIT_SYNC" /\ c' = n + 4
    BY <1>1, <1>10, <2>1, RxByteFacts DEF b
  <2>. QED
    BY <1>1, <2>5, <2>6 DEF InStep, Stage, c, n
<1>. QED
  BY <1>1, <1>6, <1>7, <1>8, <1>9, <1>10

(***************************************************************************)
(* A receiver that looks for a frame inside a harmless one finds no false  *)
(* header, and waits at its end.                                           *)
(***************************************************************************)
LEMMA HarmlessFacts ==
    ASSUME RxOK, LineInv, sent # NoFrame, sent \in Harmless[end],
           NEW i \in 2..(Len(sent.payload) + 4), Whole[i] = Sync
    PROVE  \/ /\ i + 1 <= Len(sent.payload) + 4
              /\ Whole[i + 1] \notin DOMAIN Lengths
           \/ /\ i + 2 <= Len(sent.payload) + 4
              /\ Whole[i + 1] \in DOMAIN Lengths
              /\ Whole[i + 2] \notin Lengths[Whole[i + 1]]
<1>1. end \in Ends /\ sent \in Frames[end]
  BY Coming
<1>2. Len(Whole) = Len(sent.payload) + 4
  BY <1>1, EncodeFacts DEF Whole
<1>3. \A j \in 2..Len(Whole) : Whole[j] = Sync =>
         \/ j + 1 <= Len(Whole) /\ Whole[j + 1] \notin DOMAIN PayloadLen[end]
         \/ /\ j + 2 <= Len(Whole)
            /\ Whole[j + 1] \in DOMAIN PayloadLen[end]
            /\ Whole[j + 2] \notin PayloadLen[end][Whole[j + 1]]
  BY <1>1 DEF Harmless, Whole
<1>. QED
  BY <1>2, <1>3 DEF Lengths

LEMMA ScanByte ==
    ASSUME RxOK, LineInv, Scans, sent # NoFrame, sent \in Harmless[end], wire # <<>>,
           Receive(Head(wire)), wire' = Tail(wire), UNCHANGED <<end, sent>>
    PROVE  Scans' /\ got' = got
<1> DEFINE n == Len(sent.payload)
           b == Head(wire)
           c == Passed
<1>1. /\ n \in Nat /\ c \in 1..(n + 3) /\ c' = c + 1 /\ b = Whole[c + 1] /\ b \in Byte
      /\ Whole' = Whole
  <2>1. c' = c + 1 /\ Whole' = Whole
    BY Going DEF Whole
  <2>2. c >= 1
    BY DEF Scans
  <2>. QED
    BY <2>1, <2>2, Coming
<1>2. got' = got
  BY <1>1, GotFacts DEF Scans, LineInv
<1>3. Scans' =
         /\ c' >= 1
         /\ \/ rx'.st = "ST_WAIT_SYNC"
            \/ rx'.st = "ST_READ_TYPE" /\ c' >= 2 /\ Whole'[c'] = Sync
            \/ /\ rx'.st = "ST_READ_LEN" /\ c' >= 3
               /\ Whole'[c' - 1] = Sync /\ Whole'[c'] = rx'.type
  BY DEF Scans
<1>4. CASE rx.st = "ST_WAIT_SYNC"
  <2>1. CASE b = Sync
    <3>1. rx'.st = "ST_READ_TYPE"
      BY <1>1, <1>4, <2>1, RxByteFacts
    <3>. QED
      BY <1>1, <1>2, <1>3, <2>1, <3>1
  <2>2. CASE b # Sync
    <3>1. rx' = rx
      BY <1>1, <1>4, <2>2, RxByteFacts
    <3>. QED
      BY <1>1, <1>2, <1>3, <1>4, <3>1
  <2>. QED
    BY <2>1, <2>2
<1>5. CASE rx.st = "ST_READ_TYPE"
  <2>1. c >= 2 /\ Whole[c] = Sync
    BY <1>5 DEF Scans
  <2>2. CASE b \in DOMAIN Lengths
    <3>1. rx'.st = "ST_READ_LEN" /\ rx'.type = b
      BY <1>1, <1>5, <2>2, RxByteFacts
    <3>2. c' - 1 = c /\ c' >= 3
      BY <1>1, <2>1
    <3>. QED
      BY <1>1, <1>2, <1>3, <2>1, <3>1, <3>2
  <2>3. CASE b \notin DOMAIN Lengths
    <3>1. rx'.st = "ST_WAIT_SYNC"
      BY <1>1, <1>5, <2>3, RxByteFacts
    <3>. QED
      BY <1>1, <1>2, <1>3, <3>1
  <2>. QED
    BY <2>2, <2>3
<1>6. CASE rx.st = "ST_READ_LEN"
  <2>1. c >= 3 /\ Whole[c - 1] = Sync /\ Whole[c] = rx.type /\ rx.type \in DOMAIN Lengths
    BY <1>6 DEF Scans, RxOK
  <2>2. PICK i \in 2..(n + 4) : i = c - 1
    <3>1. c - 1 \in 2..(n + 4)
      BY <1>1, <2>1
    <3>. QED
      BY <3>1
  <2>3. i + 1 = c /\ i + 2 = c + 1
    <3> HIDE DEF c, n, b
    <3>1. c \in Int
      BY <1>1
    <3>. QED
      BY <2>2, <3>1
  <2>4. b \notin Lengths[rx.type]
    BY <1>1, <2>1, <2>2, <2>3, HarmlessFacts
  <2>5. rx'.st = "ST_WAIT_SYNC"
    BY <1>1, <1>6, <2>4, RxByteFacts
  <2>. QED
    BY <1>1, <1>2, <1>3, <2>5
<1>. QED
  BY <1>4, <1>5, <1>6 DEF Scans

LEMMA ScanEnd ==
    ASSUME RxOK, LineInv, Scans, sent # NoFrame, sent \in Harmless[end],
           Passed = Len(sent.payload) + 4
    PROVE  rx.st = "ST_WAIT_SYNC"
<1> DEFINE n == Len(sent.payload)
<1>1. n \in Nat /\ Passed = n + 4
  BY Coming
<1>2. CASE rx.st = "ST_READ_TYPE"
  <2>1. PICK i \in 2..(n + 4) : i = Passed
    BY <1>1
  <2>2. Whole[i] = Sync
    BY <1>2, <2>1 DEF Scans
  <2>. QED
    BY <1>1, <2>1, <2>2, HarmlessFacts
<1>3. CASE rx.st = "ST_READ_LEN"
  <2>1. PICK i \in 2..(n + 4) : i = Passed - 1
    <3>1. Passed - 1 \in 2..(n + 4)
      BY <1>1
    <3>. QED
      BY <3>1
  <2>2. i + 1 = Passed /\ i + 2 > n + 4
    BY <1>1, <2>1
  <2>3. Whole[i] = Sync /\ Whole[i + 1] \in DOMAIN Lengths
    BY <1>3, <2>1, <2>2 DEF Scans, RxOK
  <2>. QED
    BY <1>1, <2>2, <2>3, HarmlessFacts
<1>. QED
  BY <1>2, <1>3 DEF Scans

(***************************************************************************)
(* A receiver that swallows the frame swallows no more than it announced.  *)
(***************************************************************************)
LEMMA OutOfStepByte ==
    ASSUME RxOK, LineInv, OutOfStep, sent # NoFrame, sent \in Harmless[end],
           wire # <<>>, Receive(Head(wire)), wire' = Tail(wire),
           UNCHANGED <<end, sent, lost>>
    PROVE  OutOfStep'
<1> DEFINE n == Len(sent.payload)
           b == Head(wire)
           c == Passed
           k == lost * Shortest
<1>1. /\ sent \in Frames[end] /\ end \in Ends
      /\ n \in Nat /\ c \in 0..(n + 3) /\ c' = c + 1
      /\ b = Whole[c + 1] /\ b \in Byte
  <2>1. c' = c + 1
    BY Going
  <2>. QED
    BY <2>1, Coming
<1>2. /\ k \in Nat /\ k' = k /\ lost' = lost /\ Longest \in Nat /\ Longest' = Longest
      /\ lost = 0 => k = 0
      /\ Sync \in Sizes(end) => Sync + 1 <= Longest
  <2>1. /\ Longest \in Nat /\ Shortest \in Nat
        /\ Sync \in Sizes(end) => Sync + 1 <= Longest
    BY <1>1, Extremes
  <2>2. Longest' = Longest /\ Shortest' = Shortest
    BY DEF Longest, Shortest
  <2>3. lost \in Nat
    BY DEF LineInv
  <2>4. k \in Nat /\ (lost = 0 => k = 0)
    BY <2>1, <2>3
  <2>. QED
    BY <2>1, <2>2, <2>4
<1>3. c = 0 => b = Sync
  <2>1. Whole[1] = Sync
    BY <1>1, EncodeFacts DEF Whole
  <2>2. c = 0 => c + 1 = 1
    BY <1>1
  <2>. QED
    BY <1>1, <2>1, <2>2
<1>4. /\ rx.st \in States /\ rx.len \in Nat /\ Len(rx.payload) \in Nat
      /\ rx.st = "ST_READ_PAYLOAD" => Len(rx.payload) < rx.len
      /\ rx.payload \in Seq(Byte)
  BY LenProperties DEF RxOK
<1>5. /\ k <= Longest
      /\ Left > 0 => k + c + Left <= Longest + 1
      /\ rx.st \in {"ST_READ_TYPE", "ST_READ_LEN"} => (c = 0 /\ lost = 0) \/ Scans
      /\ c = 0 => rx.st # "ST_WAIT_SYNC"
  BY DEF OutOfStep
<1>6. OutOfStep' =
         /\ k' <= Longest'
         /\ Left' > 0 => k' + c' + Left' <= Longest' + 1
         /\ rx'.st \in {"ST_READ_TYPE", "ST_READ_LEN"} => (c' = 0 /\ lost' = 0) \/ Scans'
         /\ c' = 0 => rx'.st # "ST_WAIT_SYNC"
  BY DEF OutOfStep
<1>7. CASE Scans
  <2>1. Scans'
    BY <1>7, ScanByte
  <2>2. rx'.st \in {"ST_WAIT_SYNC", "ST_READ_TYPE", "ST_READ_LEN"} /\ Left' = 0
    BY <2>1 DEF Scans, Left
  <2>. QED
    BY <1>1, <1>2, <1>5, <1>6, <2>1, <2>2
<1>8. ASSUME ~Scans,
             Left' > 0 => k + c' + Left' <= Longest + 1,
             rx'.st \notin {"ST_READ_TYPE", "ST_READ_LEN"}
      PROVE  OutOfStep'
  BY <1>1, <1>2, <1>5, <1>6, <1>8
<1>. SUFFICES ASSUME ~Scans
              PROVE  /\ Left' > 0 => k + c' + Left' <= Longest + 1
                     /\ rx'.st \notin {"ST_READ_TYPE", "ST_READ_LEN"}
  BY <1>7, <1>8
<1> HIDE DEF c, k, n, b
<1>0. rx.st # "ST_WAIT_SYNC"
  BY <1>1, <1>5 DEF Scans, c
<1>9. CASE rx.st = "ST_READ_TYPE"
  <2>1. b \notin DOMAIN Lengths
    BY <1>1, <1>3, <1>5, <1>9, SizesAssumption DEF Lengths
  <2>2. rx'.st = "ST_WAIT_SYNC"
    BY <1>1, <1>9, <2>1, RxByteFacts DEF b
  <2>. QED
    BY <2>2 DEF Left
<1>10. CASE rx.st = "ST_READ_LEN"
  <2>1. c = 0 /\ k = 0 /\ b = Sync /\ c' = 1
    BY <1>1, <1>2, <1>3, <1>5, <1>10
  <2>2. CASE b \in Lengths[rx.type]
    <3>1. /\ rx'.st = IF b > 0 THEN "ST_READ_PAYLOAD" ELSE "ST_READ_CRC"
          /\ rx'.len = b /\ rx'.payload = <<>>
      BY <1>1, <1>10, <2>2, RxByteFacts DEF b
    <3>2. Len(rx'.payload) = 0
      BY <3>1
    <3>3. b \in Sizes(end)
      BY <1>10, <2>2 DEF RxOK, Sizes, Lengths
    <3>4. b + 1 <= Longest
      BY <1>2, <2>1, <3>3
    <3>5. Left' = b + 1
      <4>1. \A x \in Byte : x \in Nat
        BY DEF Byte
      <4>2. b \in Nat
        BY <1>1, <4>1
      <4>. QED
        BY <3>1, <3>2, <4>2 DEF Left
    <3>. QED
      BY <1>1, <1>2, <2>1, <3>1, <3>4, <3>5
  <2>3. CASE b \notin Lengths[rx.type]
    <3>1. rx'.st = "ST_WAIT_SYNC"
      BY <1>1, <1>10, <2>3, RxByteFacts DEF b
    <3>. QED
      BY <3>1 DEF Left
  <2>. QED
    BY <2>2, <2>3
<1>11. CASE rx.st = "ST_READ_PAYLOAD"
  <2>1. /\ rx'.st = IF Len(rx.payload) + 1 >= rx.len THEN "ST_READ_CRC"
                                                     ELSE "ST_READ_PAYLOAD"
        /\ rx'.len = rx.len /\ rx'.payload = Append(rx.payload, b)
    BY <1>1, <1>11, RxByteFacts DEF b
  <2>2. Len(rx'.payload) = Len(rx.payload) + 1
    BY <1>1, <1>4, <2>1, AppendProperties
  <2>3. Left = rx.len - Len(rx.payload) + 1
    BY <1>11 DEF Left
  <2>4. Left' = Left - 1
    BY <1>4, <1>11, <2>1, <2>2, <2>3 DEF Left
  <2>5. Left \in Int /\ Left > 0
    BY <1>4, <1>11, <2>3
  <2>. QED
    BY <1>1, <1>2, <1>5, <2>1, <2>4, <2>5
<1>12. CASE rx.st = "ST_READ_CRC"
  <2>1. rx'.st = "ST_WAIT_SYNC"
    BY <1>1, <1>12, RxByteFacts DEF b
  <2>. QED
    BY <2>1 DEF Left
<1>. QED
  BY <1>0, <1>4, <1>9, <1>10, <1>11, <1>12 DEF States

-----------------------------------------------------------------------------
(***************************************************************************)
(* The bound.                                                              *)
(***************************************************************************)
LEMMA LossMath ==
    ASSUME NEW L \in Nat, NEW S \in Nat \ {0}, NEW l \in Nat, l * S <= L
    PROVE  l + 1 <= (L + S) \div S
<1> DEFINE q == (L + S) \div S
           r == (L + S) % S
           k == l * S
<1>1. q \in Int /\ r \in 0..(S - 1) /\ L + S = S * q + r /\ k \in Int /\ k <= L
  OBVIOUS
<1> HIDE DEF q, r
<1>2. SUFFICES ASSUME q <= l PROVE FALSE
  BY <1>1
<1>3. S * q <= S * l
  BY <1>1, <1>2
<1>4. S * l = k
  OBVIOUS
<1> HIDE DEF k
<1>. QED
  BY <1>1, <1>3, <1>4

LEMMA LossBoundFacts ==
    ASSUME end \in Ends
    PROVE  /\ LossBound \in Nat
           /\ \A l \in Nat : l * Shortest <= Longest => l + 1 <= LossBound
<1>1. Longest \in Nat /\ Shortest \in Nat \ {0}
  BY Extremes
<1>2. \A l \in Nat : l * Shortest <= Longest => l + 1 <= LossBound
  BY <1>1, LossMath DEF LossBound
<1>3. LossBound \in Int
  BY <1>1 DEF LossBound
<1>4. 0 * Shortest <= Longest
  BY <1>1
<1>. QED
  BY <1>2, <1>3, <1>4

-----------------------------------------------------------------------------
(***************************************************************************)
(* The steps.                                                              *)
(***************************************************************************)
LEMMA InitInvariant == Init => LinkInv
<1> SUFFICES ASSUME Init PROVE LinkInv
  OBVIOUS
<1>1. <<>> \in Seq(Byte) /\ Len(<<>>) = 0 /\ MaxPayload \in Nat /\ MaxFaults \in Nat
  BY SizesAssumption, FramesAssumption
<1>2. end \in Ends /\ rx = [st |-> "ST_WAIT_SYNC", type |-> 0, len |-> 0, payload |-> <<>>]
  BY DEF Init
<1>3. RxOK
  BY <1>1, <1>2 DEF RxOK, States
<1>4. LineInv
  <2>1. /\ wire = <<>> /\ sent = NoFrame /\ got = NoFrame /\ intact = FALSE
        /\ lost = 0 /\ faults = 0
    BY DEF Init
  <2>2. 0 \in 0..MaxFaults /\ 0 \in Nat
    BY <1>1
  <2>. QED
    BY <1>1, <2>1, <2>2 DEF LineInv
<1>5. LossBound \in Nat
  BY <1>2, LossBoundFacts
<1>6. LossInv
  BY <1>2, <1>5 DEF Init, LossInv
<1>. QED
  BY <1>3, <1>4, <1>6 DEF LinkInv

\* A frame that meets a waiting receiver is followed from its first byte.
LEMMA Begins ==
    ASSUME NEW f \in Frames[end], LinkInv, SendFrame(f)
    PROVE  /\ Passed' = 0 /\ RxOK' /\ LineInv'
           /\ rx.st = "ST_WAIT_SYNC" => InStep'
<1>1. end \in Ends /\ end' = end /\ sent' = f /\ wire' = Encode(f) /\ rx' = rx /\ got' = NoFrame
      /\ intact' = TRUE /\ faults' = faults /\ lost' \in {0, lost + 1}
  BY DEF SendFrame, LinkInv, RxOK
<1>2. /\ Len(f.payload) \in Nat /\ Encode(f) \in Seq(Byte) /\ f # NoFrame
      /\ Len(Encode(f)) = Len(f.payload) + 4
  BY <1>1, EncodeFacts, FramesAssumption
<1>3. Whole' = wire' /\ Passed' = 0
  BY <1>1, <1>2 DEF Whole, Passed
<1>4. RxOK'
  BY <1>1 DEF LinkInv, RxOK, Lengths
<1>5. LineInv'
  <2>1. lost' \in Nat /\ faults' \in 0..MaxFaults /\ got' \in (Frame \cup {NoFrame})'
    BY <1>1 DEF LinkInv, LineInv
  <2>2. \A i \in 1..Len(wire') : wire'[i] = Whole'[i + Passed']
    BY <1>1, <1>2, <1>3
  <2>3. Len(wire') <= Len(Whole')
    BY <1>1, <1>2, <1>3
  <2>. QED
    BY <1>1, <1>2, <2>1, <2>2, <2>3 DEF LineInv
<1>6. ASSUME rx.st = "ST_WAIT_SYNC" PROVE InStep'
  <2>1. rx'.st = Stage(Len(sent'.payload), Passed')
    BY <1>1, <1>3, <1>6 DEF Stage
  <2>2. Passed' \notin 2..(Len(sent'.payload) + 3) /\ Passed' \notin 3..(Len(sent'.payload) + 3)
        /\ Passed' # Len(sent'.payload) + 4
    BY <1>1, <1>2, <1>3
  <2>. QED
    BY <1>1, <2>1, <2>2 DEF InStep
<1>. QED
  BY <1>3, <1>4, <1>5, <1>6

LEMMA SendFrameInvariant ==
    ASSUME NEW f \in Frames[end], LinkInv, SendFrame(f)
    PROVE  LinkInv'
<1> DEFINE k == lost * Shortest
<1>1. /\ end \in Ends /\ end' = end /\ rx' = rx /\ sent' = f /\ f # NoFrame
      /\ intact' = TRUE /\ faults' = faults /\ wire = <<>>
      /\ lost' = IF Missed THEN lost + 1 ELSE 0
  BY FramesAssumption DEF SendFrame, LinkInv, RxOK
<1>2. /\ Passed' = 0 /\ RxOK' /\ LineInv'
      /\ rx.st = "ST_WAIT_SYNC" => InStep'
  BY Begins
<1>3. /\ LossBound \in Nat /\ LossBound' = LossBound
      /\ \A l \in Nat : l * Shortest <= Longest => l + 1 <= LossBound
  BY <1>1, LossBoundFacts DEF LossBound, Longest, Shortest
<1>4. /\ Longest \in Nat /\ Longest' = Longest /\ Shortest \in Nat \ {0} /\ Shortest' = Shortest
      /\ \A n \in Sizes(end) : n <= Longest
  BY <1>1, Extremes DEF Longest, Shortest
<1>5. /\ rx.st \in States /\ rx.len \in Nat /\ Len(rx.payload) \in Nat
      /\ rx.st = "ST_READ_PAYLOAD" => Len(rx.payload) < rx.len
      /\ rx.st \in {"ST_READ_PAYLOAD", "ST_READ_CRC"} => rx.len <= Longest
      /\ lost \in Nat /\ lost <= LossBound
  <2>1. rx.st \in {"ST_READ_PAYLOAD", "ST_READ_CRC"} => rx.len \in Sizes(end)
    BY DEF LinkInv, RxOK, Lengths, Sizes
  <2>. QED
    BY <1>4, <2>1, LenProperties DEF LinkInv, RxOK, LineInv, LossInv
<1>6. Left' = Left /\ Left \in Nat
      /\ (rx.st \in {"ST_READ_PAYLOAD", "ST_READ_CRC"} <=> Left > 0) /\ Left <= Longest + 1
  <2>1. CASE rx.st = "ST_READ_PAYLOAD"
    <3>1. Left = rx.len - Len(rx.payload) + 1
      BY <2>1 DEF Left
    <3>2. Left' = Left
      BY <1>1 DEF Left
    <3>. QED
      BY <1>4, <1>5, <2>1, <3>1, <3>2
  <2>2. CASE rx.st = "ST_READ_CRC"
    BY <1>1, <1>4, <2>2 DEF Left
  <2>3. CASE rx.st \notin {"ST_READ_PAYLOAD", "ST_READ_CRC"}
    BY <1>1, <1>4, <2>3 DEF Left
  <2>. QED
    BY <2>1, <2>2, <2>3
\* Nothing was lost: the receiver waits, or what it reads began before.
<1>7. ASSUME lost' = 0 PROVE lost' <= LossBound' /\ (InStep' \/ OutOfStep')
  <2>1. lost' * Shortest' = 0
    BY <1>4, <1>7
  <2>2. rx.st # "ST_WAIT_SYNC" => OutOfStep'
    BY <1>1, <1>2, <1>4, <1>6, <1>7, <2>1 DEF OutOfStep
  <2>. QED
    BY <1>2, <1>3, <1>7, <2>2
<1>8. ASSUME faults # 0, lost' <= LossBound',
             sent' \in Harmless[end'] => InStep' \/ OutOfStep'
      PROVE  LossInv'
  <2>1. intact' /\ faults' # 0
    BY <1>1, <1>8
  <2>. QED
    BY <1>8, <2>1 DEF LossInv
<1>9. CASE faults = 0
  <2>1. rx.st = "ST_WAIT_SYNC" /\ ~Missed
    <3>1. CASE sent = NoFrame
      BY <1>9, <3>1 DEF LinkInv, LineInv, LossInv, Missed
    <3>2. CASE sent # NoFrame
      <4>1. InStep /\ Passed = Len(sent.payload) + 4 /\ Len(sent.payload) \in Nat
        BY <1>1, <1>9, <3>2, Coming DEF LinkInv, LossInv
      <4>. QED
        BY <3>2, <4>1 DEF InStep, Stage, Missed
    <3>. QED
      BY <3>1, <3>2
  <2>2. lost' = 0 /\ InStep'
    BY <1>1, <1>2, <2>1
  <2>. QED
    BY <1>1, <1>2, <1>7, <2>2 DEF LinkInv, LossInv
<1>10. CASE faults # 0 /\ ~Missed
  <2>1. lost' = 0
    BY <1>1, <1>10
  <2>. QED
    BY <1>2, <1>7, <1>8, <1>10, <2>1 DEF LinkInv
<1>11. CASE faults # 0 /\ Missed
  <2>1. /\ sent # NoFrame /\ Passed = Len(sent.payload) + 4 /\ Len(sent.payload) \in Nat
        /\ sent \in Frames[end] /\ sent \in Harmless[end] /\ intact /\ got = NoFrame
    <3>1. sent # NoFrame
      BY <1>11 DEF LinkInv, LineInv, Missed
    <3>. QED
      BY <1>1, <1>11, <3>1, Coming DEF LinkInv, Missed
  <2>2. ~InStep
    BY <2>1 DEF InStep
  <2>3. LinkInv'
    <3>1. faults # 0 /\ OutOfStep
      BY <1>11, <2>1, <2>2 DEF LinkInv, LossInv
    <3>2. k \in Nat /\ k <= Longest /\ Passed >= Shortest /\ Passed \in Nat
      <4>1. k \in Nat
        BY <1>4, <1>5
      <4>2. k <= Longest
        BY <3>1 DEF OutOfStep
      <4>3. Shortest <= Len(sent.payload) + 4
        BY <1>1, <2>1, Extremes
      <4>4. Passed \in Nat /\ Shortest <= Passed
        BY <2>1, <4>3
      <4>. QED
        BY <1>4, <4>1, <4>2, <4>4
    <3>3. /\ Left > 0 => k + Passed + Left <= Longest + 1
          /\ rx.st \notin {"ST_READ_TYPE", "ST_READ_LEN"}
      <4>1. rx.st \in {"ST_READ_TYPE", "ST_READ_LEN"} => Scans
        BY <2>1, <3>1 DEF OutOfStep
      <4>2. Scans => rx.st = "ST_WAIT_SYNC"
        BY <2>1, ScanEnd DEF LinkInv
      <4>3. Left > 0 => k + Passed + Left <= Longest + 1
        BY <3>1 DEF OutOfStep
      <4>. QED
        BY <4>1, <4>2, <4>3
    <3>4. lost' \in Nat /\ lost' <= lost + 1 /\ lost' <= LossBound'
      <4>1. lost + 1 <= LossBound
        BY <1>3, <1>5, <3>2
      <4>. QED
        BY <1>1, <1>3, <1>5, <4>1
    <3>5. CASE rx.st = "ST_WAIT_SYNC"
      BY <1>2, <1>8, <3>1, <3>4, <3>5 DEF LinkInv
    <3>6. CASE rx.st # "ST_WAIT_SYNC"
      <4>1. lost' * Shortest <= k + Shortest /\ lost' * Shortest \in Nat
        <5>1. lost' \in {0, lost + 1}
          BY <1>1
        <5>2. 0 * Shortest = 0 /\ (lost + 1) * Shortest = k + Shortest
          BY <1>4, <1>5
        <5>. QED
          <6>1. CASE lost' = 0
            BY <1>4, <3>2, <5>2, <6>1
          <6>2. CASE lost' = lost + 1
            BY <1>4, <3>2, <5>2, <6>2
          <6>. QED
            BY <5>1, <6>1, <6>2
      <4>2. PICK j \in Nat : j = lost' * Shortest
        BY <4>1
      <4>3. Left > 0
        BY <1>5, <1>6, <3>3, <3>6 DEF States
      <4> HIDE DEF k
      <4>4. j + Left <= Longest + 1 /\ j <= Longest
        BY <1>4, <1>6, <3>2, <3>3, <4>1, <4>2, <4>3
      <4>5. OutOfStep'
        <5>1. lost' * Shortest' = j
          BY <1>4, <4>2
        <5>2. /\ lost' * Shortest' <= Longest'
              /\ Left' > 0 => lost' * Shortest' + Passed' + Left' <= Longest' + 1
          BY <1>2, <1>4, <1>6, <4>4, <5>1
        <5>. QED
          BY <1>1, <3>3, <3>6, <5>2 DEF OutOfStep
      <4>. QED
        BY <1>2, <1>8, <3>1, <3>4, <4>5 DEF LinkInv
    <3>. QED
      BY <1>2, <3>5, <3>6 DEF LinkInv
  <2>. QED
    BY <2>3
<1>. QED
  BY <1>9, <1>10, <1>11

LEMMA DeliverInvariant == LinkInv /\ Deliver => LinkInv'
<1> SUFFICES ASSUME LinkInv, Deliver PROVE LinkInv'
  OBVIOUS
<1>1. /\ RxOK /\ LineInv /\ LossInv /\ end \in Ends
      /\ wire # <<>> /\ Receive(Head(wire)) /\ wire' = Tail(wire)
      /\ end' = end /\ sent' = sent /\ intact' = intact /\ lost' = lost /\ faults' = faults
  BY DEF LinkInv, Deliver, RxOK
<1>2. sent # NoFrame
  BY <1>1 DEF LineInv
<1>3. Head(wire) \in Byte
  BY <1>1, <1>2, Coming
<1>4. RxOK' /\ got' \in (Frame \cup {NoFrame})'
  BY <1>1, <1>3, RxByteFacts, GotFacts DEF LineInv
<1>5. LineInv'
  BY <1>1, <1>2, <1>4, Going DEF LineInv
<1>6. LossInv'
  <2>1. InStep => InStep'
    BY <1>1, <1>2, InStepByte
  <2>2. sent \in Harmless[end] /\ OutOfStep => OutOfStep'
    BY <1>1, <1>2, OutOfStepByte
  <2>3. LossBound' = LossBound
    BY <1>1 DEF LossBound, Longest, Shortest
  <2>. QED
    BY <1>1, <1>2, <2>1, <2>2, <2>3 DEF LossInv
<1>. QED
  BY <1>4, <1>5, <1>6 DEF LinkInv

\* A disturbance ends what was promised of the frame and of those before it.
LEMMA DisturbedLoss ==
    ASSUME LinkInv, NEW kind, Disturbed(kind)
    PROVE  /\ end' = end /\ sent' = sent /\ end \in Ends
           /\ intact' \in BOOLEAN /\ ~intact' /\ lost' \in Nat /\ faults' \in 0..MaxFaults
           /\ LossInv'
<1>1. /\ end' = end /\ sent' = sent /\ end \in Ends /\ intact' = FALSE /\ lost' = 0
      /\ faults' = faults + 1 /\ faults < MaxFaults /\ faults \in 0..MaxFaults
      /\ MaxFaults \in Nat
  BY FramesAssumption DEF Disturbed, LinkInv, RxOK, LineInv
<1>2. LossBound \in Nat /\ LossBound' = LossBound
  BY <1>1, LossBoundFacts DEF LossBound, Longest, Shortest
<1>3. LossInv'
  <2>1. ~intact' /\ lost' = 0 /\ faults' # 0 /\ lost' <= LossBound'
    BY <1>1, <1>2
  <2>. QED
    BY <2>1 DEF LossInv
<1>4. faults' \in 0..MaxFaults /\ lost' \in Nat
  BY <1>1
<1>. QED
  BY <1>1, <1>3, <1>4

LEMMA LoseInvariant == LinkInv /\ Lose => LinkInv'
<1> SUFFICES ASSUME LinkInv, Lose PROVE LinkInv'
  OBVIOUS
<1>1. /\ RxOK /\ LineInv /\ wire # <<>> /\ wire' = Tail(wire) /\ rx' = rx /\ got' = got
      /\ Disturbed("lose")
  BY DEF LinkInv, Lose
<1>2. /\ end' = end /\ sent' = sent /\ intact' \in BOOLEAN /\ ~intact' /\ lost' \in Nat
      /\ faults' \in 0..MaxFaults /\ LossInv'
  BY <1>1, DisturbedLoss
<1>3. RxOK'
  BY <1>1, <1>2 DEF RxOK, Lengths
<1>4. LineInv'
  <2>1. sent # NoFrame
    BY <1>1 DEF LineInv
  <2>2. got' \in (Frame \cup {NoFrame})'
    BY <1>1, <1>2 DEF LineInv, Frame, Lengths
  <2>. QED
    BY <1>1, <1>2, <2>1, <2>2, Going DEF LineInv
<1>. QED
  BY <1>2, <1>3, <1>4 DEF LinkInv

LEMMA DamageInvariant == ASSUME LinkInv, NEW b \in Bytes, Damage(b) PROVE LinkInv'
<1>1. /\ RxOK /\ LineInv /\ wire # <<>> /\ wire' = Tail(wire) /\ Receive(b)
      /\ Disturbed("damage") /\ b \in Byte
  BY FramesAssumption DEF LinkInv, Damage
<1>2. /\ end' = end /\ sent' = sent /\ intact' \in BOOLEAN /\ ~intact' /\ lost' \in Nat
      /\ faults' \in 0..MaxFaults /\ LossInv'
  BY <1>1, DisturbedLoss
<1>3. RxOK' /\ got' \in (Frame \cup {NoFrame})'
  BY <1>1, <1>2, RxByteFacts, GotFacts DEF LineInv
<1>4. LineInv'
  <2>1. sent # NoFrame
    BY <1>1 DEF LineInv
  <2>. QED
    BY <1>1, <1>2, <1>3, <2>1, Going DEF LineInv
<1>. QED
  BY <1>2, <1>3, <1>4 DEF LinkInv

LEMMA InventInvariant == ASSUME LinkInv, NEW b \in Bytes, Invent(b) PROVE LinkInv'
<1>1. RxOK /\ LineInv /\ wire' = wire /\ Receive(b) /\ Disturbed("invent") /\ b \in Byte
  BY FramesAssumption DEF LinkInv, Invent
<1>2. /\ end' = end /\ sent' = sent /\ intact' \in BOOLEAN /\ ~intact' /\ lost' \in Nat
      /\ faults' \in 0..MaxFaults /\ LossInv'
  BY <1>1, DisturbedLoss
<1>3. RxOK' /\ got' \in (Frame \cup {NoFrame})'
  BY <1>1, <1>2, RxByteFacts, GotFacts DEF LineInv
<1>4. Whole' = Whole /\ Passed' = Passed
  BY <1>1, <1>2 DEF Whole, Passed
<1>5. LineInv'
  BY <1>1, <1>2, <1>3, <1>4 DEF LineInv
<1>. QED
  BY <1>2, <1>3, <1>5 DEF LinkInv

LEMMA StutterInvariant == LinkInv /\ UNCHANGED vars => LinkInv'
BY DEF LinkInv, vars, RxOK, LineInv, LossInv, InStep, OutOfStep, Scans, Left, Passed, Whole,
       LossBound, Longest, Shortest, Lengths, Frame

-----------------------------------------------------------------------------
(***************************************************************************)
(* Every reachable state has the invariant.                                *)
(***************************************************************************)
THEOREM LinkInvariant == Spec => []LinkInv
<1>1. ASSUME LinkInv, [Next]_vars PROVE LinkInv'
  <2>1. ASSUME NEW f \in Frames[end], SendFrame(f) PROVE LinkInv'
    BY <1>1, <2>1, SendFrameInvariant
  <2>2. CASE Deliver
    BY <1>1, <2>2, DeliverInvariant
  <2>3. CASE Lose
    BY <1>1, <2>3, LoseInvariant
  <2>4. ASSUME NEW b \in Bytes, Damage(b) PROVE LinkInv'
    BY <1>1, <2>4, DamageInvariant
  <2>5. ASSUME NEW b \in Bytes, Invent(b) PROVE LinkInv'
    BY <1>1, <2>5, InventInvariant
  <2>6. CASE UNCHANGED vars
    BY <1>1, <2>6, StutterInvariant
  <2>. QED
    BY <1>1, <2>1, <2>2, <2>3, <2>4, <2>5, <2>6 DEF Next
<1>. QED
  BY <1>1, InitInvariant, PTL DEF Spec

(***************************************************************************)
(* Type correctness of the link: whatever bytes arrive, the payload        *)
(* collected stays within the length announced and, at the vehicle, within *)
(* the buffer of UART_MAX_PAYLOAD bytes.                                   *)
(***************************************************************************)
THEOREM LinkTypeCorrect == Spec => []TypeOK
<1>1. LinkInv => TypeOK
  <2> SUFFICES ASSUME LinkInv PROVE TypeOK
    OBVIOUS
  <2>1. /\ RxOK /\ LineInv /\ end \in Ends
        /\ rx \in [st: States, type: Nat, len: Nat, payload: Seq(Byte)]
    BY DEF LinkInv, RxOK
  <2>2. sent \in Frame \cup {NoFrame}
    <3>1. sent \in Frames[end] => sent \in Frame
      BY <2>1, FramesAssumption DEF Frame, Lengths
    <3>. QED
      BY <2>1, <3>1 DEF LineInv
  <2>. QED
    BY <2>1, <2>2 DEF TypeOK, RxOK, LineInv, States
<1>. QED
  BY <1>1, LinkInvariant, PTL

(***************************************************************************)
(* However the line was disturbed, and whatever else is sent, a receiver   *)
(* of uart_link.c or uart_sniff.py loses at most LossBound undisturbed     *)
(* frames without a false header in a row.                                 *)
(***************************************************************************)
THEOREM LossBoundedHolds == Spec => []LossBounded
<1>1. LinkInv => LossBounded
  <2> SUFFICES ASSUME LinkInv PROVE LossBounded
    OBVIOUS
  <2>1. /\ LossBound \in Nat
        /\ \A l \in Nat : l * Shortest <= Longest => l + 1 <= LossBound
    BY LossBoundFacts DEF LinkInv, RxOK
  <2>2. lost \in Nat /\ lost <= LossBound
    BY DEF LinkInv, LineInv, LossInv
  <2>3. CASE Missed /\ wire = <<>>
    <3>1. sent # NoFrame
      BY <2>3 DEF Missed, LinkInv, LineInv
    <3>2. Passed = Len(sent.payload) + 4
      BY <2>3, <3>1, Coming DEF LinkInv
    <3>3. ~InStep
      BY <2>3, <3>1, <3>2 DEF InStep, Missed
    <3>4. lost * Shortest <= Longest
      BY <2>3, <3>3 DEF LinkInv, LossInv, OutOfStep, Missed
    <3>. QED
      BY <2>1, <2>2, <2>3, <3>4 DEF LossBounded
  <2>4. CASE ~(Missed /\ wire = <<>>)
    BY <2>1, <2>2, <2>4 DEF LossBounded
  <2>. QED
    BY <2>3, <2>4
<1>. QED
  BY <1>1, LinkInvariant, PTL

\* On a line that was never disturbed a receiver accepts every frame, as it was
\* sent and when its last byte has arrived, and accepts nothing else.
CleanLine ==
    faults = 0 =>
        /\ got # NoFrame => got = sent /\ wire = <<>>
        /\ sent # NoFrame /\ wire = <<>> => got = sent

(***************************************************************************)
(* send_frame and the receivers agree: the framing by itself loses,        *)
(* invents and changes nothing.                                            *)
(***************************************************************************)
THEOREM CleanLineHolds == Spec => []CleanLine
<1>1. LinkInv => CleanLine
  <2> SUFFICES ASSUME LinkInv, faults = 0 PROVE CleanLine
    BY DEF CleanLine
  <2>1. CASE sent = NoFrame
    BY <2>1 DEF LinkInv, LossInv, CleanLine
  <2>2. CASE sent # NoFrame
    <3>1. got = IF Passed = Len(sent.payload) + 4 THEN sent ELSE NoFrame
      BY <2>2 DEF LinkInv, LossInv, InStep
    <3>2. wire = <<>> <=> Passed = Len(sent.payload) + 4
      BY <2>2, Coming DEF LinkInv
    <3>. QED
      BY <3>1, <3>2 DEF CleanLine
  <2>. QED
    BY <2>1, <2>2
<1>. QED
  BY <1>1, LinkInvariant, PTL
-----------------------------------------------------------------------------
(***************************************************************************)
(* One damaged byte.                                                       *)
(***************************************************************************)
\* The frames sent to e are of types that have one size, as every command has
\* and, at the host, everything but the status string.
OneSize(e) == \A f \in Frames[e] : PayloadLen[e][f.type] = {Len(f.payload)}

\* The receiver follows the frame, of which it has read byte d wrongly.
Misread(d) ==
    LET n == Len(sent.payload)
    IN  /\ rx.type = sent.type <=> d # 2
        /\ Passed >= 3 =>
              /\ rx.len = n
              /\ Len(rx.payload) = Passed - 3
              /\ \A i \in 1..(Passed - 3) :
                    rx.payload[i] = sent.payload[i] <=> i + 3 # d

\* The damaged byte is one of the bytes from least on.
Follows(least) ==
    LET n == Len(sent.payload)
    IN  /\ Passed \in 2..(n + 3)
        /\ rx.st = Stage(n, Passed)
        /\ \E d \in least..Passed : d # 3 /\ Misread(d)

\* The receiver does not follow it: if the header may have been damaged, what
\* is left of the frame is searched; else only the end of the frame is left.
Rests(least) ==
    IF least = 2 THEN Scans
    ELSE rx.st = "ST_WAIT_SYNC" /\ Passed = Len(sent.payload) + 4

DamageInv(least) ==
    faults = 1 =>
        /\ sent # NoFrame
        /\ IF intact THEN InStep
           ELSE got = NoFrame /\ (Rests(least) \/ Follows(least))

\* A byte that arrives in place of the next one, damaged or not.
Arrives(b) ==
    /\ b \in Byte /\ Receive(b)
    /\ wire # <<>> /\ wire' = Tail(wire)
    /\ end' = end /\ sent' = sent

LEMMA ArrivesFacts ==
    ASSUME RxOK, LineInv, sent # NoFrame, NEW b, Arrives(b)
    PROVE  LET n == Len(sent.payload)
           IN  /\ sent \in Frames[end] /\ end \in Ends /\ n \in Nat
               /\ Passed \in 0..(n + 3) /\ Passed' = Passed + 1
               /\ Head(wire) = Whole[Passed + 1]
               /\ Whole[1] = Sync /\ Whole[2] = sent.type /\ Whole[3] = n
               /\ \A i \in 1..n : Whole[i + 3] = sent.payload[i]
               /\ Whole[n + 4] = crc8(<<sent.type, n>> \o sent.payload)
<1> DEFINE n == Len(sent.payload)
<1>1. /\ sent \in Frames[end] /\ end \in Ends /\ n \in Nat
      /\ Passed \in 0..(n + 4) /\ Passed # n + 4 /\ Head(wire) = Whole[Passed + 1]
  BY Coming DEF Arrives
<1>2. Passed' = Passed + 1
  BY Going DEF Arrives
<1>3. /\ Whole[1] = Sync /\ Whole[2] = sent.type /\ Whole[3] = n
      /\ \A i \in 1..n : Whole[i + 3] = sent.payload[i]
      /\ Whole[n + 4] = crc8(<<sent.type, n>> \o sent.payload)
  BY <1>1, EncodeFacts DEF Whole
<1> HIDE DEF n
<1>4. Passed \in 0..(n + 3)
  BY <1>1
<1>. QED
  BY <1>1, <1>2, <1>3, <1>4 DEF n

\* The next byte of the payload.
LEMMA PayloadByte ==
    ASSUME RxOK, LineInv, sent # NoFrame, NEW b, Arrives(b), got = NoFrame,
           Passed \in 3..(Len(sent.payload) + 2),
           rx.st = "ST_READ_PAYLOAD", rx.len = Len(sent.payload),
           Len(rx.payload) = Passed - 3
    PROVE  /\ rx'.st = Stage(Len(sent.payload), Passed')
           /\ rx'.type = rx.type /\ rx'.len = rx.len
           /\ Len(rx'.payload) = Passed' - 3
           /\ \A i \in 1..(Passed - 3) : rx'.payload[i] = rx.payload[i]
           /\ rx'.payload[Passed - 2] = b
           /\ got' = NoFrame
<1> DEFINE n == Len(sent.payload)
           c == Passed
<1>1. n \in Nat /\ c \in Nat /\ c' = c + 1 /\ c \in 3..(n + 2)
  BY ArrivesFacts
<1>2. b \in Byte /\ Receive(b) /\ end' = end /\ sent' = sent /\ rx.payload \in Seq(Byte)
  BY DEF Arrives, RxOK
<1>3. /\ rx'.st = IF Len(rx.payload) + 1 >= rx.len THEN "ST_READ_CRC" ELSE "ST_READ_PAYLOAD"
      /\ rx'.type = rx.type /\ rx'.len = rx.len /\ rx'.payload = Append(rx.payload, b)
  BY <1>2, RxByteFacts
<1>4. got' = NoFrame
  BY <1>2, GotFacts DEF LineInv
<1>5. rx.len = n /\ Len(rx.payload) = c - 3
  OBVIOUS
<1> HIDE DEF n, c
<1>6. /\ Len(rx'.payload) = (c - 3) + 1
      /\ \A i \in 1..(c - 3) : rx'.payload[i] = rx.payload[i]
      /\ rx'.payload[(c - 3) + 1] = b
  BY <1>1, <1>2, <1>3, <1>5, AppendProperties
<1>7. (c - 3) + 1 = c - 2 /\ (c - 3) + 1 = c' - 3
  BY <1>1
<1>8. rx'.st = Stage(n, c')
  BY <1>1, <1>3, <1>5 DEF Stage
<1>. QED
  BY <1>3, <1>4, <1>6, <1>7, <1>8 DEF n, c

\* The frame goes on after its damaged byte, and its check byte does not fit.
LEMMA MisreadByte ==
    ASSUME RxOK, LineInv, sent # NoFrame, NEW b, Arrives(b), b = Head(wire),
           got = NoFrame, NEW least \in {2, 4}, Follows(least)
    PROVE  got' = NoFrame /\ (Rests(least)' \/ Follows(least)')
<1> DEFINE n == Len(sent.payload)
           c == Passed
<1>1. /\ n \in Nat /\ c' = c + 1 /\ n' = n /\ c \in 2..(n + 3) /\ rx.st = Stage(n, c)
      /\ b = Whole[c + 1] /\ Whole[3] = n
      /\ \A i \in 1..n : Whole[i + 3] = sent.payload[i]
      /\ Whole[n + 4] = crc8(<<sent.type, n>> \o sent.payload)
  <2>1. n' = n
    BY DEF Arrives
  <2>. QED
    BY <2>1, ArrivesFacts DEF Follows
<1>2. /\ b \in Byte /\ Receive(b) /\ end' = end /\ sent' = sent
      /\ sent \in Frames[end] /\ end \in Ends
      /\ rx.payload \in Seq(Byte) /\ sent.payload \in Seq(Byte)
  <2>1. sent \in Frames[end] /\ end \in Ends
    BY ArrivesFacts
  <2>. QED
    BY <2>1, FramesAssumption DEF Arrives, RxOK
<1>3. PICK d \in least..c : d # 3 /\ Misread(d)
  BY DEF Follows
<1>4. /\ rx.type = sent.type <=> d # 2
      /\ c >= 3 => /\ rx.len = n /\ Len(rx.payload) = c - 3
                   /\ \A i \in 1..(c - 3) : rx.payload[i] = sent.payload[i] <=> i + 3 # d
  BY <1>3 DEF Misread
<1>5. rx.st # "ST_READ_CRC" => got' = NoFrame
  BY <1>2, GotFacts DEF LineInv
<1>6. ASSUME c' \in 2..(n + 3), rx'.st = Stage(n, c'), Misread(d)' PROVE Follows(least)'
  <2>1. d \in least..c' /\ d # 3
    BY <1>1, <1>3
  <2>. QED
    BY <1>1, <1>6, <2>1 DEF Follows
<1>7. Misread(d)' =
         /\ rx'.type = sent'.type <=> d # 2
         /\ c' >= 3 =>
               /\ rx'.len = n'
               /\ Len(rx'.payload) = c' - 3
               /\ \A i \in 1..(c' - 3) : rx'.payload[i] = sent'.payload[i] <=> i + 3 # d
  BY DEF Misread
<1>8. ASSUME rx'.st = "ST_WAIT_SYNC", least = 2 \/ c = n + 3 PROVE Rests(least)'
  <2>1. c' >= 1 /\ (c = n + 3 => c' = n' + 4)
    BY <1>1
  <2>. QED
    BY <1>8, <2>1 DEF Rests, Scans
<1> HIDE DEF n, c
<1>0. d \in 2..c
  BY <1>1, <1>3
<1>9. CASE c = 2
  <2>1. rx.st = "ST_READ_LEN" /\ b = n /\ got' = NoFrame
    BY <1>1, <1>5, <1>9 DEF Stage
  <2>2. CASE b \in Lengths[rx.type]
    <3>1. /\ rx'.st = IF n > 0 THEN "ST_READ_PAYLOAD" ELSE "ST_READ_CRC"
          /\ rx'.type = rx.type /\ rx'.len = n /\ rx'.payload = <<>>
      BY <1>2, <2>1, <2>2, RxByteFacts
    <3>2. Len(rx'.payload) = 0 /\ c' = 3
      BY <1>1, <1>9, <3>1
    <3>3. rx'.st = Stage(n, c')
      BY <1>1, <3>1, <3>2 DEF Stage
    <3>4. Misread(d)'
      BY <1>1, <1>2, <1>4, <1>7, <3>1, <3>2
    <3>. QED
      BY <1>1, <1>6, <2>1, <3>2, <3>3, <3>4
  <2>3. CASE b \notin Lengths[rx.type]
    <3>1. least = 2
      BY <1>3, <1>9
    <3>. QED
      BY <1>2, <1>8, <2>1, <2>3, <3>1, RxByteFacts
  <2>. QED
    BY <2>2, <2>3
<1>10. CASE c \in 3..(n + 2)
  <2>1. rx.st = "ST_READ_PAYLOAD" /\ rx.len = n /\ Len(rx.payload) = c - 3
    BY <1>1, <1>4, <1>10 DEF Stage
  <2>2. /\ rx'.st = Stage(n, c') /\ rx'.type = rx.type /\ rx'.len = n
        /\ Len(rx'.payload) = c' - 3 /\ got' = NoFrame
        /\ \A i \in 1..(c - 3) : rx'.payload[i] = rx.payload[i]
        /\ rx'.payload[c - 2] = b
    BY <1>10, <2>1, PayloadByte DEF c, n
  <2>3. b = sent.payload[c - 2]
    <3>1. c - 2 \in 1..n /\ (c - 2) + 3 = c + 1
      BY <1>1, <1>10
    <3>. QED
      BY <1>1, <3>1
  <2>4. ASSUME NEW i \in 1..(c' - 3) PROVE rx'.payload[i] = sent.payload[i] <=> i + 3 # d
    <3>1. CASE i \in 1..(c - 3)
      <4>1. rx'.payload[i] = rx.payload[i] /\ c >= 3
        BY <1>10, <2>2, <3>1
      <4>. QED
        BY <1>4, <3>1, <4>1
    <3>2. CASE i = c - 2
      <4>1. i + 3 # d
        BY <1>0, <1>1, <1>3, <3>2
      <4>. QED
        BY <2>2, <2>3, <3>2, <4>1
    <3>. QED
      BY <1>1, <3>1, <3>2
  <2>5. Misread(d)'
    BY <1>1, <1>2, <1>4, <1>7, <2>2, <2>4
  <2>6. c' \in 2..(n + 3)
    BY <1>1, <1>10
  <2>. QED
    BY <1>6, <2>2, <2>5, <2>6
<1>11. CASE c = n + 3
  <2>1. /\ rx.st = "ST_READ_CRC" /\ rx.len = n /\ Len(rx.payload) = n
        /\ \A i \in 1..n : rx.payload[i] = sent.payload[i] <=> i + 3 # d
    BY <1>1, <1>4, <1>11 DEF Stage
  <2>2. rx.type \in Byte /\ sent.type \in Byte /\ n \in Byte /\ Len(sent.payload) = n
    <3>1. rx.type \in DOMAIN PayloadLen[end]
      BY <2>1 DEF RxOK, Lengths
    <3>2. sent.type \in Byte /\ n \in Byte
      BY <1>2, EncodeFacts DEF n
    <3>. QED
      BY <1>2, <3>1, <3>2, SizesAssumption DEF n
  <2> DEFINE m == <<rx.type, n>> \o rx.payload
             s == <<sent.type, n>> \o sent.payload
  <2>3. /\ m \in Seq(Byte) /\ Len(m) = n + 2 /\ m[1] = rx.type /\ m[2] = n
        /\ \A i \in 1..n : m[i + 2] = rx.payload[i]
    <3> HIDE DEF m
    <3>. QED
      BY <1>2, <2>1, <2>2, BodyFacts DEF m
  <2>4. /\ s \in Seq(Byte) /\ Len(s) = n + 2 /\ s[1] = sent.type /\ s[2] = n
        /\ \A i \in 1..n : s[i + 2] = sent.payload[i]
    <3> HIDE DEF s
    <3>. QED
      BY <1>2, <2>1, <2>2, BodyFacts DEF s
  <2> HIDE DEF m, s
  <2>5. ASSUME NEW i \in 1..(n + 2) PROVE m[i] = s[i] <=> i # d - 1
    <3>1. CASE i = 1
      BY <1>0, <1>1, <1>3, <1>4, <2>3, <2>4, <3>1
    <3>2. CASE i = 2
      BY <1>0, <1>1, <1>3, <2>3, <2>4, <3>2
    <3>3. CASE i \in 3..(n + 2)
      <4>1. i - 2 \in 1..n /\ (i - 2) + 2 = i /\ (i - 2) + 3 = i + 1
        BY <1>1, <3>3
      <4>2. m[i] = rx.payload[i - 2] /\ s[i] = sent.payload[i - 2]
        BY <2>3, <2>4, <4>1
      <4>3. rx.payload[i - 2] = sent.payload[i - 2] <=> i + 1 # d
        BY <2>1, <4>1
      <4>. QED
        BY <1>0, <1>1, <1>3, <3>3, <4>2, <4>3
    <3>. QED
      BY <1>1, <3>1, <3>2, <3>3
  <2>6. PICK k \in 1..(n + 2) : k = d - 1
    BY <1>0, <1>1, <1>3, <1>11
  <2>7. m[k] # s[k] /\ \A i \in 1..(n + 2) : i # k => m[i] = s[i]
    BY <2>5, <2>6
  <2>8. crc8(m) # crc8(s)
    <3>1. k \in 1..Len(m) /\ Len(m) = Len(s)
      BY <2>3, <2>4
    <3>2. \A i \in 1..Len(m) : i # k => m[i] = s[i]
      BY <2>3, <2>7
    <3>. QED
      BY <2>3, <2>4, <2>7, <3>1, <3>2, CrcDetectsOneByte
  <2>9. b = crc8(s)
    BY <1>1, <1>11 DEF s
  <2>10. ~Accepts(rx, b)
    BY <2>1, <2>8, <2>9 DEF Accepts, m
  <2>11. got' = NoFrame
    BY <1>2, <2>10 DEF Receive
  <2>12. rx'.st = "ST_WAIT_SYNC"
    BY <1>2, <2>1, RxByteFacts
  <2>. QED
    BY <1>8, <1>11, <2>11, <2>12
<1>. QED
  BY <1>1, <1>9, <1>10, <1>11

\* The damaged byte itself.
LEMMA DamagedByte ==
    ASSUME RxOK, LineInv, sent # NoFrame, InStep,
           NEW b, Arrives(b), b # Head(wire), NEW least \in {2, 4},
           least = 2 => OneSize(end), least = 4 => Passed >= 3
    PROVE  got' = NoFrame /\ (Rests(least)' \/ Follows(least)')
<1> DEFINE n == Len(sent.payload)
           c == Passed
<1>1. /\ n \in Nat /\ c \in 0..(n + 3) /\ c' = c + 1 /\ n' = n /\ rx.st = Stage(n, c)
      /\ b # Whole[c + 1] /\ Whole[1] = Sync /\ Whole[2] = sent.type /\ Whole[3] = n
      /\ \A i \in 1..n : Whole[i + 3] = sent.payload[i]
      /\ Whole[n + 4] = crc8(<<sent.type, n>> \o sent.payload)
  <2>1. n' = n
    BY DEF Arrives
  <2>. QED
    BY <2>1, ArrivesFacts DEF InStep
<1>2. /\ b \in Byte /\ Receive(b) /\ end' = end /\ sent' = sent
      /\ sent \in Frames[end] /\ end \in Ends
      /\ rx.payload \in Seq(Byte) /\ sent.payload \in Seq(Byte)
  <2>1. sent \in Frames[end] /\ end \in Ends
    BY ArrivesFacts
  <2>. QED
    BY <2>1, FramesAssumption DEF Arrives, RxOK
<1>3. /\ c \in 2..(n + 3) => rx.type = sent.type
      /\ c \in 3..(n + 3) => /\ rx.len = n /\ Len(rx.payload) = c - 3
                             /\ \A i \in 1..(c - 3) : rx.payload[i] = sent.payload[i]
      /\ got = NoFrame
  BY <1>1 DEF InStep
<1>4. rx.st # "ST_READ_CRC" => got' = NoFrame
  BY <1>2, <1>3, GotFacts DEF LineInv
<1>. PICK d \in Nat : d = c + 1
  BY <1>1
<1>5. ASSUME d \in least..(n + 3), d # 3, rx'.st = Stage(n, d), Misread(d)'
      PROVE  Follows(least)'
  <2>1. c' = d /\ d \in 2..(n + 3) /\ d \in least..c'
    BY <1>1, <1>5
  <2>. QED
    BY <1>1, <1>5, <2>1 DEF Follows
<1>6. ASSUME rx'.st = "ST_WAIT_SYNC", least = 2 \/ c = n + 3 PROVE Rests(least)'
  <2>1. c' >= 1 /\ (c = n + 3 => c' = n' + 4)
    BY <1>1
  <2>. QED
    BY <1>6, <2>1 DEF Rests, Scans
<1>0. least = 2 => OneSize(end)
  OBVIOUS
<1>13. c < 3 => least = 2
  BY <1>1
<1>7. Misread(d)' =
         /\ rx'.type = sent'.type <=> d # 2
         /\ c' >= 3 =>
               /\ rx'.len = n'
               /\ Len(rx'.payload) = c' - 3
               /\ \A i \in 1..(c' - 3) : rx'.payload[i] = sent'.payload[i] <=> i + 3 # d
  BY DEF Misread
<1> HIDE DEF n, c
<1>8. CASE c = 0
  <2>1. b # Sync /\ rx.st = "ST_WAIT_SYNC"
    BY <1>1, <1>8 DEF Stage
  <2>. QED
    BY <1>2, <1>4, <1>6, <1>8, <1>13, <2>1, RxByteFacts
<1>9. CASE c = 1
  <2>1. b # sent.type /\ rx.st = "ST_READ_TYPE" /\ got' = NoFrame
    BY <1>1, <1>4, <1>9 DEF Stage
  <2>2. CASE b \in DOMAIN Lengths
    <3>1. rx'.st = "ST_READ_LEN" /\ rx'.type = b /\ c' = 2 /\ d = 2
      BY <1>1, <1>2, <1>9, <2>1, <2>2, RxByteFacts
    <3>2. rx'.st = Stage(n, d)
      BY <1>1, <3>1 DEF Stage
    <3>3. Misread(d)'
      <4>1. rx'.type # sent'.type /\ ~(d # 2) /\ ~(c' >= 3)
        BY <1>2, <2>1, <3>1
      <4>. QED
        BY <1>7, <4>1
    <3>. QED
      BY <1>1, <1>5, <1>9, <1>13, <2>1, <3>1, <3>2, <3>3
  <2>3. CASE b \notin DOMAIN Lengths
    BY <1>2, <1>6, <1>9, <1>13, <2>1, <2>3, RxByteFacts
  <2>. QED
    BY <2>2, <2>3
<1>10. CASE c = 2
  <2>1. b # n /\ rx.st = "ST_READ_LEN" /\ rx.type = sent.type /\ got' = NoFrame
    BY <1>1, <1>3, <1>4, <1>10 DEF Stage
  <2>2. b \notin Lengths[rx.type]
    BY <1>0, <1>2, <1>10, <1>13, <2>1 DEF OneSize, Lengths, n
  <2>. QED
    BY <1>2, <1>6, <1>10, <1>13, <2>1, <2>2, RxByteFacts
<1>11. CASE c \in 3..(n + 2)
  <2>1. rx.st = "ST_READ_PAYLOAD" /\ rx.len = n /\ Len(rx.payload) = c - 3
    BY <1>1, <1>3, <1>11 DEF Stage
  <2>2. /\ rx'.st = Stage(n, c') /\ rx'.type = rx.type /\ rx'.len = n
        /\ Len(rx'.payload) = c' - 3 /\ got' = NoFrame
        /\ \A i \in 1..(c - 3) : rx'.payload[i] = rx.payload[i]
        /\ rx'.payload[c - 2] = b
    <3>1. got = NoFrame
      BY <1>3
    <3>. QED
      BY <1>11, <2>1, <3>1, PayloadByte DEF c, n
  <2>3. b # sent.payload[c - 2]
    <3>1. c - 2 \in 1..n /\ (c - 2) + 3 = c + 1
      BY <1>1, <1>11
    <3>. QED
      BY <1>1, <3>1
  <2>4. ASSUME NEW i \in 1..(c' - 3) PROVE rx'.payload[i] = sent.payload[i] <=> i + 3 # d
    <3>1. CASE i \in 1..(c - 3)
      <4>1. rx'.payload[i] = rx.payload[i] /\ c \in 3..(n + 3) /\ i + 3 # d
        BY <1>1, <1>11, <2>2, <3>1
      <4>. QED
        BY <1>3, <3>1, <4>1
    <3>2. CASE i = c - 2
      <4>1. i + 3 = d
        BY <1>1, <3>2
      <4>. QED
        BY <2>2, <2>3, <3>2, <4>1
    <3>. QED
      BY <1>1, <3>1, <3>2
  <2>5. rx'.type = sent'.type /\ d # 2 /\ d # 3 /\ d \in least..(n + 3)
    BY <1>1, <1>2, <1>3, <1>11, <2>2
  <2>6. Misread(d)'
    BY <1>1, <1>2, <1>7, <2>2, <2>4, <2>5
  <2>7. rx'.st = Stage(n, d)
    BY <1>1, <2>2
  <2>. QED
    BY <1>5, <2>2, <2>5, <2>6, <2>7
<1>12. CASE c = n + 3
  <2>1. /\ rx.st = "ST_READ_CRC" /\ rx.len = n /\ Len(rx.payload) = n
        /\ rx.type = sent.type
        /\ \A i \in 1..n : rx.payload[i] = sent.payload[i]
    BY <1>1, <1>3, <1>12 DEF Stage
  <2>2. rx.payload = sent.payload
    BY <1>2, <2>1, SeqEqual DEF n
  <2>3. b # crc8(<<rx.type, rx.len>> \o rx.payload)
    BY <1>1, <1>12, <2>1, <2>2
  <2>4. got' = NoFrame
    BY <1>2, <1>3, <2>3 DEF Receive, Accepts
  <2>5. rx'.st = "ST_WAIT_SYNC"
    BY <1>2, <2>1, RxByteFacts
  <2>. QED
    BY <1>6, <1>12, <2>4, <2>5
<1>. QED
  BY <1>1, <1>8, <1>9, <1>10, <1>11, <1>12

\* A receiver whose frames have one size per type and hold no false header.
Plain(e) == OneSize(e) /\ Frames[e] = Harmless[e]

\* No byte of a header (Sync, type, length) is damaged.
BehindHeader == faults' # faults => Passed >= 3

LEMMA InitDamage == ASSUME NEW least PROVE Init => DamageInv(least)
BY DEF Init, DamageInv

LEMMA SendFrameDamage ==
    ASSUME NEW f \in Frames[end], LinkInv, SendFrame(f),
           NEW least \in {2, 4}, least = 2 => Plain(end), DamageInv(least)
    PROVE  DamageInv(least)'
<1>1. /\ faults' = faults /\ sent' = f /\ f # NoFrame /\ intact' /\ wire = <<>> /\ end \in Ends
      /\ rx.st = "ST_WAIT_SYNC" => InStep'
  BY Begins, FramesAssumption DEF SendFrame, LinkInv, RxOK
<1>2. ASSUME faults = 1 PROVE rx.st = "ST_WAIT_SYNC"
  <2>1. sent # NoFrame /\ (InStep \/ Rests(least) \/ Follows(least))
    BY <1>2 DEF DamageInv
  <2>2. /\ Passed = Len(sent.payload) + 4 /\ Len(sent.payload) \in Nat
        /\ sent \in Frames[end]
    BY <1>1, <2>1, Coming DEF LinkInv
  <2>3. ~Follows(least)
    BY <2>2 DEF Follows
  <2>4. Rests(least) => rx.st = "ST_WAIT_SYNC"
    <3>1. CASE least = 2
      BY <2>1, <2>2, <3>1, ScanEnd DEF Rests, Plain, LinkInv
    <3>2. CASE least = 4
      BY <3>2 DEF Rests
    <3>. QED
      BY <3>1, <3>2
  <2>. QED
    BY <2>1, <2>2, <2>3, <2>4 DEF InStep, Stage
<1>. QED
  BY <1>1, <1>2 DEF DamageInv

LEMMA DeliverDamage ==
    ASSUME LinkInv, Deliver, NEW least \in {2, 4}, least = 2 => Plain(end), DamageInv(least)
    PROVE  DamageInv(least)'
<1> SUFFICES ASSUME faults' = 1 PROVE DamageInv(least)'
  BY DEF DamageInv
<1>1. /\ RxOK /\ LineInv /\ wire # <<>> /\ Receive(Head(wire)) /\ wire' = Tail(wire)
      /\ end' = end /\ sent' = sent /\ intact' = intact /\ faults = 1
  BY DEF LinkInv, Deliver
<1>2. sent # NoFrame /\ sent' # NoFrame /\ Head(wire) \in Byte
  <2>1. sent # NoFrame
    BY <1>1 DEF DamageInv
  <2>. QED
    BY <1>1, <2>1, Coming
<1>3. Arrives(Head(wire))
  BY <1>1, <1>2 DEF Arrives
<1>4. CASE intact
  <2>1. InStep'
    BY <1>1, <1>2, <1>4, InStepByte DEF DamageInv
  <2>. QED
    BY <1>1, <1>2, <1>4, <2>1 DEF DamageInv
<1>5. CASE ~intact
  <2>1. got = NoFrame /\ (Rests(least) \/ Follows(least))
    BY <1>1, <1>5 DEF DamageInv
  <2>2. CASE Rests(least)
    <3>1. /\ Len(sent.payload) \in Nat /\ Passed \in 0..(Len(sent.payload) + 3)
          /\ sent \in Frames[end]
      BY <1>1, <1>2, <1>3, ArrivesFacts
    <3>2. least = 2 /\ Scans /\ sent \in Harmless[end]
      <4>1. Passed # Len(sent.payload) + 4
        BY <3>1
      <4>2. least = 2
        BY <2>2, <4>1 DEF Rests
      <4>. QED
        BY <2>2, <3>1, <4>2 DEF Rests, Plain
    <3>3. Scans' /\ got' = got
      BY <1>1, <1>2, <3>2, ScanByte
    <3>4. got' = NoFrame /\ Rests(least)'
      BY <2>1, <3>2, <3>3 DEF Rests
    <3>. QED
      BY <1>1, <1>2, <1>5, <3>4 DEF DamageInv
  <2>3. CASE Follows(least)
    <3>1. got' = NoFrame /\ (Rests(least)' \/ Follows(least)')
      BY <1>1, <1>2, <1>3, <2>1, <2>3, MisreadByte
    <3>. QED
      BY <1>1, <1>2, <1>5, <3>1 DEF DamageInv
  <2>. QED
    BY <2>1, <2>2, <2>3
<1>. QED
  BY <1>4, <1>5

LEMMA DamageDamage ==
    ASSUME LinkInv, NEW b \in Bytes, Damage(b), NEW least \in {2, 4},
           least = 2 => Plain(end), least = 4 => BehindHeader
    PROVE  DamageInv(least)'
<1> SUFFICES ASSUME faults' = 1 PROVE DamageInv(least)'
  BY DEF DamageInv
<1>1. /\ RxOK /\ LineInv /\ wire # <<>> /\ Receive(b) /\ wire' = Tail(wire)
      /\ end' = end /\ sent' = sent /\ ~intact' /\ faults' = faults + 1 /\ faults \in Nat
      /\ b # Head(wire) /\ b \in Byte
  BY FramesAssumption DEF LinkInv, Damage, Disturbed, LineInv
<1>2. sent # NoFrame
  BY <1>1 DEF LineInv
<1>3. InStep
  BY <1>1, <1>2 DEF LinkInv, LossInv
<1>4. Arrives(b)
  BY <1>1 DEF Arrives
<1>5. least = 2 => OneSize(end)
  BY DEF Plain
<1>6. least = 4 => Passed >= 3
  BY <1>1 DEF BehindHeader
<1>7. got' = NoFrame /\ (Rests(least)' \/ Follows(least)')
  BY <1>1, <1>2, <1>3, <1>4, <1>5, <1>6, DamagedByte
<1>. QED
  BY <1>1, <1>2, <1>7 DEF DamageInv

LEMMA NextDamage ==
    ASSUME Faults \subseteq {"damage"}, LinkInv, [Next]_vars, NEW least \in {2, 4},
           least = 2 => Plain(end), least = 4 => [BehindHeader]_vars, DamageInv(least)
    PROVE  DamageInv(least)'
<1>1. ASSUME NEW f \in Frames[end], SendFrame(f) PROVE DamageInv(least)'
  BY <1>1, SendFrameDamage
<1>2. CASE Deliver
  BY <1>2, DeliverDamage
<1>3. ASSUME NEW b \in Bytes, Damage(b) PROVE DamageInv(least)'
  <2>1. faults' # faults
    BY <1>3 DEF Damage, Disturbed, LinkInv, LineInv
  <2>2. least = 4 => BehindHeader
    BY <2>1 DEF vars
  <2>. QED
    BY <1>3, <2>2, DamageDamage
<1>4. ~Lose /\ \A b \in Bytes : ~Invent(b)
  BY DEF Lose, Invent, Disturbed
<1>5. CASE UNCHANGED vars
  BY <1>5 DEF vars, DamageInv, InStep, Rests, Scans, Follows, Misread, Passed, Whole
<1>. QED
  BY <1>1, <1>2, <1>3, <1>4, <1>5 DEF Next

LEMMA DamageNoForgery ==
    ASSUME LinkInv, NEW least \in {2, 4}, DamageInv(least)
    PROVE  NoForgery
<1> SUFFICES ASSUME faults <= 1, got # NoFrame PROVE got = sent /\ wire = <<>>
  <2>1. wire = <<>> => Len(wire) = 0
    OBVIOUS
  <2>. QED
    BY <2>1 DEF NoForgery
<1>1. faults = 0 \/ faults = 1
  BY DEF LinkInv, LineInv
<1>2. sent # NoFrame /\ InStep
  BY <1>1 DEF LinkInv, LossInv, DamageInv
<1>3. Passed = Len(sent.payload) + 4 /\ got = sent
  BY <1>2 DEF InStep
<1>. QED
  BY <1>2, <1>3, Coming DEF LinkInv

(***************************************************************************)
(* When one byte is damaged, wherever it is, a receiver whose frames have  *)
(* one size per type and no false header in them accepts nothing but what  *)
(* is sent, and that only when its last byte has arrived: the header is    *)
(* rejected, or the frame is read to its end and the check byte of         *)
(* uart_link.c differs.                                                    *)
(***************************************************************************)
THEOREM OneDamagedByte ==
    ASSUME Faults \subseteq {"damage"}
    PROVE  Spec => [](Plain(end) => NoForgery)
<1> DEFINE D == Plain(end) => DamageInv(2)
<1>1. Init => D
  BY InitDamage
<1>2. ASSUME LinkInv, D, [Next]_vars PROVE D'
  <2>1. UNCHANGED end
    BY <1>2 DEF Next, SendFrame, Deliver, Disturbed, Lose, Damage, Invent, vars
  <2>2. CASE Plain(end)
    BY <1>2, <2>2, NextDamage
  <2>3. CASE ~Plain(end)
    BY <2>1, <2>3 DEF Plain, OneSize
  <2>. QED
    BY <2>2, <2>3
<1>3. LinkInv /\ D => (Plain(end) => NoForgery)
  BY DamageNoForgery
<1>. QED
  BY <1>1, <1>2, <1>3, LinkInvariant, PTL DEF Spec

(***************************************************************************)
(* When one byte behind a header is damaged, every receiver, whatever its  *)
(* frames hold (a Sync, a whole false frame), accepts nothing but what is  *)
(* sent, and that only when its last byte has arrived: it is still in step *)
(* when the damaged frame ends, and its check byte differs.                *)
(***************************************************************************)
THEOREM OneDamagedBodyByte ==
    ASSUME Faults \subseteq {"damage"}
    PROVE  Init /\ [][Next /\ BehindHeader]_vars => []NoForgery
<1>1. Init => DamageInv(4)
  BY InitDamage
<1>2. ASSUME LinkInv, DamageInv(4), [Next /\ BehindHeader]_vars PROVE DamageInv(4)'
  BY <1>2, NextDamage
<1>3. LinkInv /\ DamageInv(4) => NoForgery
  BY DamageNoForgery
<1>4. [Next /\ BehindHeader]_vars => [Next]_vars
  OBVIOUS
<1>5. Init /\ [][Next /\ BehindHeader]_vars => Spec
  BY <1>4, PTL DEF Spec
<1>. QED
  BY <1>1, <1>2, <1>3, <1>5, LinkInvariant, PTL

(***************************************************************************)
(* crc8, for every payload a receiver can have collected, is the remainder *)
(* modulo the documented polynomial.                                       *)
(***************************************************************************)
THEOREM CheckByteCorrect == Spec => []IsPolynomialRemainder
<1>1. LinkInv => IsPolynomialRemainder
  BY CrcIsRemainder DEF LinkInv, RxOK, IsPolynomialRemainder
<1>. QED
  BY <1>1, LinkInvariant, PTL
=============================================================================
