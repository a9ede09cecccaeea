-------------------------------- MODULE Crc8 --------------------------------
(***************************************************************************)
(* crc8 of uart_link.c, which tools/ugv_packets.py repeats for the host,   *)
(* and what it is documented to compute.                                   *)
(***************************************************************************)
EXTENDS Naturals, Sequences

Byte == 0..255      \* uint8_t

\* The bit of weight w, and the operator ^ on two bytes.
Bit(byte, w) == (byte \div w) % 2

Xor8(a, b) ==
    LET x(w) == w * ((Bit(a, w) + Bit(b, w)) % 2)
    IN  x(1) + x(2) + x(4) + x(8) + x(16) + x(32) + x(64) + x(128)

\* Mutant: the polynomial without its constant term.
ShiftOtherPolynomial(crc) ==
    IF crc >= 128 THEN Xor8((2 * crc) % 256, 6) ELSE (2 * crc) % 256

\* One turn of the inner loop: shift out the top bit, fold the polynomial.
Shift(crc) ==
    IF crc >= 128 THEN Xor8((2 * crc) % 256, 7) ELSE (2 * crc) % 256

\* The inner loop, tabulated.
Shift8 == [crc \in Byte |-> Shift(Shift(Shift(Shift(
                              Shift(Shift(Shift(Shift(crc))))))))]

crc8(data) ==
    LET crc[i \in 0..Len(data)] ==
          IF i = 0 THEN 0 ELSE Shift8[Xor8(crc[i - 1], data[i])]
    IN  crc[Len(data)]

-----------------------------------------------------------------------------
\* The bits of a message, the most significant first, then eight zeros.
Weight == <<128, 64, 32, 16, 8, 4, 2, 1>>

Dividend(m) ==
    [i \in 1..(8 * Len(m) + 8) |->
        IF i <= 8 * Len(m)
        THEN Bit(m[((i - 1) \div 8) + 1], Weight[((i - 1) % 8) + 1])
        ELSE 0]

\* Long division by x^8 + x^2 + x + 1: bring down a bit, subtract the divisor
\* when it fits; the remainder after the last bit.
BringDown(r, bit) ==
    IF r >= 128 THEN Xor8(2 * r + bit - 256, 7) ELSE 2 * r + bit

Remainder(bits) ==
    LET r[i \in 0..Len(bits)] ==
          IF i = 0 THEN 0 ELSE BringDown(r[i - 1], bits[i])
    IN  r[Len(bits)]
=============================================================================
