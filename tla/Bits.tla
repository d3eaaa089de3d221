-------------------------------- MODULE Bits ---------------------------------
(***************************************************************************)
(* The bit reader that every decoder uses: getBit of m2tlib/util.c.  A     *)
(* buffer is a function from addresses to bytes.  A uint64_t is the        *)
(* function of its 64 bits, bit 0 the most significant one, because its    *)
(* values are beyond TLC's integers.                                       *)
(***************************************************************************)
EXTENDS Integers, Sequences

Bit  == {0, 1}
Byte == 0 .. 255

Places == 0 .. 63
Word   == [Places -> Bit]

Weight == <<128, 64, 32, 16, 8, 4, 2, 1>>

BitOf(byte, k) == (byte \div Weight[k + 1]) % 2

(* Eight bytes from fbyte on, put side by side.                            *)
Loaded(buf, fbyte) ==
  [k \in Places |-> BitOf(buf[fbyte + k \div 8], k % 8)]

ShiftLeft(w, n)  == [k \in Places |-> IF k + n \in Places THEN w[k + n] ELSE 0]
ShiftRight(w, n) == [k \in Places |-> IF k - n \in Places THEN w[k - n] ELSE 0]

(* gbit bits from bit boff on, at the right of the word.  Eight bytes are  *)
(* read whatever gbit is.                                                  *)
getBit(buf, boff, gbit) ==
  LET pbyte   == boff \div 8
      fcutbit == boff - pbyte * 8
      tnum    == Loaded(buf, pbyte)
      cut     == ShiftRight(ShiftLeft(tnum, fcutbit), fcutbit)
  IN ShiftRight(cut, 64 - fcutbit - gbit)

(* What is right of the shifts: the bits must be in the eight bytes, and a *)
(* shift by 64 is undefined.                                               *)
InReach(boff, gbit) == gbit >= 1 /\ (boff % 8) + gbit <= 64

(* The value of a word.  No field is longer than 24 bits.                  *)
Octet(w, k) ==
    Weight[1] * w[8 * k]     + Weight[2] * w[8 * k + 1]
  + Weight[3] * w[8 * k + 2] + Weight[4] * w[8 * k + 3]
  + Weight[5] * w[8 * k + 4] + Weight[6] * w[8 * k + 5]
  + Weight[7] * w[8 * k + 6] + Weight[8] * w[8 * k + 7]

Value(w) == 65536 * Octet(w, 5) + 256 * Octet(w, 6) + Octet(w, 7)

bits(buf, boff, gbit) == Value(getBit(buf, boff, gbit))

-----------------------------------------------------------------------------
(* The reference: the bits of the buffer, one after the other.             *)

BitAt(buf, k) == BitOf(buf[k \div 8], k % 8)

Slice(buf, boff, gbit) ==
  [k \in Places |-> IF k >= 64 - gbit THEN BitAt(buf, boff + k - (64 - gbit)) ELSE 0]

=============================================================================
