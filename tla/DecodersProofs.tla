--------------------------- MODULE DecodersProofs ---------------------------
(***************************************************************************)
(* What the bit reader and the decoders of PMT, EIT and TOT do with any    *)
(* section.                                                                *)
(*                                                                         *)
(* Fields gives the value of every kind of field as arithmetic on bytes.   *)
(* It rests on GetBitIsSlice: the word that getBit returns is the sequence *)
(* of bits asked for.  PmtStep, EitTypeStep, EitPlaceStep and              *)
(* AllocatedStep are the parts of the invariant IInv, one decoder or one   *)
(* account at a time; TimeOfBytes bounds the date that the formula of      *)
(* mjd_to_tm can give, and KeepsCalendar says that it is the calendar's.   *)
(*                                                                         *)
(* What is read of an undamaged table is compared with the table.  PmtLaid *)
(* and EitLaid say where its parts lie in the block; PmtRead and EitRead   *)
(* show it of the bytes that the table is laid out to.  PmtRightStep and   *)
(* EitRightStep follow the decoder from part to part.                      *)
(***************************************************************************)
EXTENDS Decoders, Totals, ListLemmas, FunctionTheorems

(***************************************************************************)
(* getBit returns exactly the bits asked for, at every bit offset and for  *)
(* every length that its eight bytes hold: nothing of what stands before,  *)
(* behind or beside them comes through.                                    *)
(***************************************************************************)
THEOREM GetBitIsSlice ==
  ASSUME NEW block, NEW at \in Nat, NEW gbit \in Nat, InReach(at, gbit)
  PROVE  getBit(block, at, gbit) = Slice(block, at, gbit)
<1> DEFINE p == at \div 8
           f == at - p * 8
           w == Loaded(block, p)
           left == ShiftLeft(w, f)
           cut == ShiftRight(left, f)
           out == ShiftRight(cut, 64 - f - gbit)
<1>1. p \in Nat /\ f \in 0 .. 7 /\ f = at % 8
  OBVIOUS
<1>2. gbit >= 1 /\ f + gbit <= 64
  BY <1>1 DEF InReach
<1>3. ASSUME NEW k \in Places
      PROVE  out[k] = Slice(block, at, gbit)[k]
  <2> DEFINE j == k - (64 - f - gbit)
  <2>0. k \in 0 .. 63
    BY <1>3 DEF Places
  <2>1. j \in Int /\ (j \in Places <=> k >= 64 - f - gbit)
    BY <1>1, <1>2, <2>0 DEF Places
  <2>2. out[k] = IF j \in Places THEN cut[j] ELSE 0
    BY DEF ShiftRight
  <2>3. CASE k < 64 - gbit
    <3>1. j < f
      BY <1>1, <1>2, <2>0, <2>3
    <3>2. out[k] = 0
      <4>1. CASE j \notin Places
        BY <4>1, <2>2
      <4>2. CASE j \in Places
        <5>1. j - f \notin Places
          BY <3>1, <1>1, <2>1 DEF Places
        <5>2. cut[j] = 0
          BY <4>2, <5>1 DEF ShiftRight
        <5> QED
          BY <5>2, <4>2, <2>2
      <4> QED
        BY <4>1, <4>2
    <3> QED
      BY <3>2, <2>3, <2>0 DEF Slice
  <2>4. CASE k >= 64 - gbit
    <3>1. j \in Places /\ j - f \in Places /\ (j - f) + f \in Places
      BY <1>1, <1>2, <2>0, <2>4 DEF Places
    <3>2. out[k] = cut[j]
      BY <2>2, <3>1
    <3>3. cut[j] = left[j - f]
      BY <3>1 DEF ShiftRight
    <3>4. left[j - f] = w[(j - f) + f]
      BY <3>1 DEF ShiftLeft
    <3>5. (j - f) + f = j
      BY <1>1, <2>1
    <3>6. w[j] = BitOf(block[p + j \div 8], j % 8)
      BY <3>1 DEF Loaded
    <3>7. at + k - (64 - gbit) = 8 * p + j
      BY <1>1, <2>0
    <3>8. (8 * p + j) \div 8 = p + j \div 8 /\ (8 * p + j) % 8 = j % 8
      BY <1>1, <2>1
    <3>9. Slice(block, at, gbit)[k] = BitOf(block[(8 * p + j) \div 8], (8 * p + j) % 8)
      BY <2>4, <2>0, <3>7 DEF Slice, BitAt, Places
    <3> QED
      BY <3>2, <3>3, <3>4, <3>5, <3>6, <3>8, <3>9
  <2> QED
    BY <2>3, <2>4, <2>0
<1>4. getBit(block, at, gbit) = out
  BY DEF getBit
<1>5. out = [k \in Places |-> out[k]]
  BY DEF ShiftRight
<1>6. Slice(block, at, gbit) = [k \in Places |-> Slice(block, at, gbit)[k]]
  BY DEF Slice
<1> QED
  BY <1>3, <1>4, <1>5, <1>6

(* The bits of a byte.                                                     *)
LEMMA BitsOfByte ==
  ASSUME NEW b \in Byte
  PROVE  /\ BitOf(b, 0) = (b \div 128) % 2
         /\ BitOf(b, 1) = (b \div 64) % 2
         /\ BitOf(b, 2) = (b \div 32) % 2
         /\ BitOf(b, 3) = (b \div 16) % 2
         /\ BitOf(b, 4) = (b \div 8) % 2
         /\ BitOf(b, 5) = (b \div 4) % 2
         /\ BitOf(b, 6) = (b \div 2) % 2
         /\ BitOf(b, 7) = b % 2
BY DEF BitOf, Weight, Byte

(* A byte is the sum of its bits.                                          *)
LEMMA ByteOfBits ==
  ASSUME NEW b \in Byte
  PROVE  /\ 8 * BitOf(b, 4) + 4 * BitOf(b, 5) + 2 * BitOf(b, 6) + BitOf(b, 7) = b % 16
         /\ 128 * BitOf(b, 0) + 64 * BitOf(b, 1) + 32 * BitOf(b, 2) + 16 * BitOf(b, 3)
            = 16 * (b \div 16)
         /\ 16 * BitOf(b, 3) + 8 * BitOf(b, 4) + 4 * BitOf(b, 5) + 2 * BitOf(b, 6)
            + BitOf(b, 7) = b % 32
         /\ BitOf(b, 0) = b \div 128
<1>1. b \in 0 .. 255
  BY DEF Byte
<1> DEFINE b1 == b \div 2
           b2 == b \div 4
           b3 == b \div 8
           b4 == b \div 16
           b5 == b \div 32
           b6 == b \div 64
           b7 == b \div 128
<1>3. /\ b1 \in Nat /\ b = 2 * b1 + (b % 2)
      /\ b2 \in Nat /\ b1 = 2 * b2 + (b1 % 2)
      /\ b3 \in Nat /\ b2 = 2 * b3 + (b2 % 2)
      /\ b4 \in Nat /\ b3 = 2 * b4 + (b3 % 2)
  BY <1>1
<1>4. /\ b5 \in Nat /\ b4 = 2 * b5 + (b4 % 2)
      /\ b6 \in Nat /\ b5 = 2 * b6 + (b5 % 2)
      /\ b7 \in Nat /\ b6 = 2 * b7 + (b6 % 2)
      /\ b7 \in {0, 1} /\ b7 % 2 = b7
  BY <1>1
<1>5. b % 16 = b - 16 * b4 /\ b % 32 = b - 32 * b5
  BY <1>1
<1>6. /\ 8 * (b3 % 2) + 4 * (b2 % 2) + 2 * (b1 % 2) + (b % 2) = b - 16 * b4
      /\ 128 * (b7 % 2) + 64 * (b6 % 2) + 32 * (b5 % 2) + 16 * (b4 % 2) = 16 * b4
      /\ 16 * (b4 % 2) + 8 * (b3 % 2) + 4 * (b2 % 2) + 2 * (b1 % 2) + (b % 2) = b - 32 * b5
  <2>. HIDE DEF b1, b2, b3, b4, b5, b6, b7
  <2>. QED
    BY <1>1, <1>3, <1>4
<1>. QED
  BY <1>4, <1>5, <1>6, BitsOfByte

(* What an octet of a word is worth: a byte, its right half, the five bits *)
(* at its right, its leftmost bit, or nothing.                             *)
LEMMA OctetOfByte ==
  ASSUME NEW w, NEW k \in 5 .. 7, NEW x \in Byte
  PROVE  /\ (\A j \in 0 .. 7 : w[8 * k + j] = BitOf(x, j)) => Octet(w, k) = x
         /\ (\A j \in 0 .. 7 : w[8 * k + j] = IF j >= 4 THEN BitOf(x, j) ELSE 0)
              => Octet(w, k) = x % 16
         /\ (\A j \in 0 .. 7 : w[8 * k + j] = IF j >= 3 THEN BitOf(x, j) ELSE 0)
              => Octet(w, k) = x % 32
         /\ (\A j \in 0 .. 7 : w[8 * k + j] = IF j = 7 THEN BitOf(x, 0) ELSE 0)
              => Octet(w, k) = x \div 128
         /\ (\A j \in 0 .. 7 : w[8 * k + j] = 0) => Octet(w, k) = 0
<1>. DEFINE v(j) == w[8 * k + j]
            bit(j) == BitOf(x, j)
<1>1. Octet(w, k) = 128 * v(0) + 64 * v(1) + 32 * v(2) + 16 * v(3)
                    + 8 * v(4) + 4 * v(5) + 2 * v(6) + 1 * v(7)
  <2>1. 8 * k + 0 = 8 * k
    OBVIOUS
  <2>2. /\ Weight[1] = 128 /\ Weight[2] = 64 /\ Weight[3] = 32 /\ Weight[4] = 16
        /\ Weight[5] = 8 /\ Weight[6] = 4 /\ Weight[7] = 2 /\ Weight[8] = 1
    BY DEF Weight
  <2>. QED
    BY <2>1, <2>2 DEF Octet
<1>2. /\ 128 * bit(0) + 64 * bit(1) + 32 * bit(2) + 16 * bit(3) = 16 * (x \div 16)
      /\ 8 * bit(4) + 4 * bit(5) + 2 * bit(6) + bit(7) = x % 16
      /\ 16 * bit(3) + 8 * bit(4) + 4 * bit(5) + 2 * bit(6) + bit(7) = x % 32
      /\ bit(0) = x \div 128
  BY ByteOfBits
<1>3. x = 16 * (x \div 16) + (x % 16) /\ x % 16 \in Nat
      /\ x % 32 \in Nat /\ x \div 128 \in Nat
  BY DEF Byte
<1>4. /\ bit(0) \in Nat /\ bit(1) \in Nat /\ bit(2) \in Nat /\ bit(3) \in Nat
      /\ bit(4) \in Nat /\ bit(5) \in Nat /\ bit(6) \in Nat /\ bit(7) \in Nat
  BY BitsOfByte DEF Byte
<1>5. ASSUME \A j \in 0 .. 7 : w[8 * k + j] = BitOf(x, j) PROVE Octet(w, k) = x
  <2>1. /\ v(0) = bit(0) /\ v(1) = bit(1) /\ v(2) = bit(2) /\ v(3) = bit(3)
        /\ v(4) = bit(4) /\ v(5) = bit(5) /\ v(6) = bit(6) /\ v(7) = bit(7)
    BY <1>5
  <2>. HIDE DEF v, bit
  <2>. QED
    BY <1>1, <1>2, <1>3, <1>4, <2>1
<1>6. ASSUME \A j \in 0 .. 7 : w[8 * k + j] = IF j >= 4 THEN BitOf(x, j) ELSE 0
      PROVE  Octet(w, k) = x % 16
  <2>1. /\ v(0) = 0 /\ v(1) = 0 /\ v(2) = 0 /\ v(3) = 0
        /\ v(4) = bit(4) /\ v(5) = bit(5) /\ v(6) = bit(6) /\ v(7) = bit(7)
    BY <1>6
  <2>. HIDE DEF v, bit
  <2>. QED
    BY <1>1, <1>2, <1>3, <1>4, <2>1
<1>9. ASSUME \A j \in 0 .. 7 : w[8 * k + j] = IF j >= 3 THEN BitOf(x, j) ELSE 0
      PROVE  Octet(w, k) = x % 32
  <2>1. /\ v(0) = 0 /\ v(1) = 0 /\ v(2) = 0 /\ v(3) = bit(3)
        /\ v(4) = bit(4) /\ v(5) = bit(5) /\ v(6) = bit(6) /\ v(7) = bit(7)
    BY <1>9
  <2>. HIDE DEF v, bit
  <2>. QED
    BY <1>1, <1>2, <1>3, <1>4, <2>1
<1>7. ASSUME \A j \in 0 .. 7 : w[8 * k + j] = IF j = 7 THEN BitOf(x, 0) ELSE 0
      PROVE  Octet(w, k) = x \div 128
  <2>1. /\ v(0) = 0 /\ v(1) = 0 /\ v(2) = 0 /\ v(3) = 0
        /\ v(4) = 0 /\ v(5) = 0 /\ v(6) = 0 /\ v(7) = bit(0)
    BY <1>7
  <2>. HIDE DEF v, bit
  <2>. QED
    BY <1>1, <1>2, <1>3, <1>4, <2>1
<1>8. ASSUME \A j \in 0 .. 7 : w[8 * k + j] = 0 PROVE Octet(w, k) = 0
  <2>1. /\ v(0) = 0 /\ v(1) = 0 /\ v(2) = 0 /\ v(3) = 0
        /\ v(4) = 0 /\ v(5) = 0 /\ v(6) = 0 /\ v(7) = 0
    BY <1>8
  <2>. HIDE DEF v
  <2>. QED
    BY <1>1, <2>1
<1>. QED
  BY <1>5, <1>6, <1>7, <1>8, <1>9

(* The bits of the word for a field that starts f bits into byte p.        *)
LEMMA BitOfField ==
  ASSUME NEW b, NEW p \in Nat, NEW f \in 0 .. 7, NEW g \in 1 .. 24,
         NEW k \in Places
  PROVE  getBit(b, 8 * p + f, g)[k] =
           IF k >= 64 - g
           THEN BitOf(b[p + (f + k - (64 - g)) \div 8], (f + k - (64 - g)) % 8)
           ELSE 0
<1>. DEFINE o == 8 * p + f
            j == f + k - (64 - g)
<1>1. o \in Nat /\ o % 8 = f /\ k \in 0 .. 63
  BY DEF Places
<1>2. getBit(b, o, g) = Slice(b, o, g)
  BY <1>1, GetBitIsSlice DEF InReach
<1>3. CASE k >= 64 - g
  <2>1. o + k - (64 - g) = 8 * p + j /\ j \in Nat
    BY <1>1, <1>3
  <2>2. (8 * p + j) \div 8 = p + j \div 8 /\ (8 * p + j) % 8 = j % 8
    BY <2>1
  <2>. QED
    BY <1>2, <1>3, <2>1, <2>2 DEF Slice, BitAt
<1>4. CASE ~(k >= 64 - g)
  BY <1>2, <1>4 DEF Slice
<1>. QED
  BY <1>3, <1>4

(* The same octet by octet.  Bit j of octet k is nothing, bit i of byte p, *)
(* or bit i of the next one.                                               *)
FieldBit(b, p, f, g, k, j) == getBit(b, 8 * p + f, g)[8 * k + j]

(* It is a bit of the byte that stands there, or 0.                        *)
LEMMA BitOfOctet ==
  ASSUME NEW b, NEW p \in Nat, NEW f \in 0 .. 7, NEW g \in 1 .. 24,
         NEW k \in 5 .. 7, NEW j \in 0 .. 7
  PROVE  /\ g + 8 * (k - 8) + j < 0 => FieldBit(b, p, f, g, k, j) = 0
         /\ \A i \in f .. 7 : f + g + 8 * (k - 8) + j = i =>
              FieldBit(b, p, f, g, k, j) = BitOf(b[p], i)
         /\ \A i \in 0 .. 7 : f + g + 8 * (k - 8) + j = i + 8 =>
              FieldBit(b, p, f, g, k, j) = BitOf(b[p + 1], i)
<1>. DEFINE n == 8 * k + j
            s == f + g + 8 * (k - 8) + j
            x == FieldBit(b, p, f, g, k, j)
<1>1. n \in Places /\ n \in Int /\ s \in Int
  BY DEF Places
<1>2. f + n - (64 - g) = s /\ (n >= 64 - g <=> s >= f)
  OBVIOUS
<1>3. x = IF n >= 64 - g
          THEN BitOf(b[p + (f + n - (64 - g)) \div 8], (f + n - (64 - g)) % 8)
          ELSE 0
  BY <1>1, BitOfField DEF FieldBit
<1>4. g + 8 * (k - 8) + j < 0 <=> s < f
  OBVIOUS
<1>. HIDE DEF x, n, s
<1>5. ASSUME NEW i \in 0 .. 7
      PROVE  /\ s = i => p + s \div 8 = p /\ s % 8 = i
             /\ s = i + 8 => p + s \div 8 = p + 1 /\ s % 8 = i /\ s >= f
  BY <1>1
<1>6. /\ s < f => x = 0
      /\ s >= f => x = BitOf(b[p + s \div 8], s % 8)
  BY <1>1, <1>2, <1>3
<1>7. ASSUME NEW i \in f .. 7, s = i PROVE x = BitOf(b[p], i)
  BY <1>5, <1>6, <1>7
<1>8. ASSUME NEW i \in 0 .. 7, s = i + 8 PROVE x = BitOf(b[p + 1], i)
  BY <1>5, <1>6, <1>8
<1>9. /\ g + 8 * (k - 8) + j < 0 => x = 0
      /\ \A i \in f .. 7 : s = i => x = BitOf(b[p], i)
      /\ \A i \in 0 .. 7 : s = i + 8 => x = BitOf(b[p + 1], i)
  BY <1>4, <1>6, <1>7, <1>8
<1>. QED
  BY <1>9 DEF x, s

(* The fields that the decoders are built from.                            *)
LEMMA Fields ==
  ASSUME NEW b, NEW p \in Nat, b[p] \in Byte
  PROVE  /\ bits(b, 8 * p, 8) = b[p]
         /\ bits(b, 8 * p, 1) = b[p] \div 128
         /\ b[p + 1] \in Byte =>
              /\ bits(b, 8 * p, 16) = 256 * b[p] + b[p + 1]
              /\ bits(b, 8 * p + 4, 12) = 256 * (b[p] % 16) + b[p + 1]
              /\ bits(b, 8 * p + 3, 13) = 256 * (b[p] % 32) + b[p + 1]
<1>. DEFINE x == b[p]
            y == b[p + 1]
<1>0. /\ 8 * p + 0 = 8 * p /\ x % 16 \in Nat /\ x % 32 \in Nat /\ x \div 128 \in Nat
      /\ x \in Nat /\ (y \in Byte => y \in Nat)
  BY DEF Byte
<1>2. bits(b, 8 * p, 8) = x
  <2>1. ASSUME NEW j \in 0 .. 7
        PROVE  /\ FieldBit(b, p, 0, 8, 7, j) = BitOf(x, j)
               /\ FieldBit(b, p, 0, 8, 6, j) = 0
               /\ FieldBit(b, p, 0, 8, 5, j) = 0
    <3>1. FieldBit(b, p, 0, 8, 7, j) = BitOf(x, j)
      BY <2>1, BitOfOctet
    <3>2. FieldBit(b, p, 0, 8, 6, j) = 0
      BY <2>1, BitOfOctet
    <3>3. FieldBit(b, p, 0, 8, 5, j) = 0
      BY <2>1, BitOfOctet
    <3>. QED
      BY <3>1, <3>2, <3>3
  <2>2. /\ Octet(getBit(b, 8 * p + 0, 8), 7) = x
        /\ Octet(getBit(b, 8 * p + 0, 8), 6) = 0
        /\ Octet(getBit(b, 8 * p + 0, 8), 5) = 0
    BY <2>1, OctetOfByte DEF FieldBit
  <2>. QED
    BY <1>0, <2>2 DEF bits, Value
<1>3. bits(b, 8 * p, 1) = x \div 128
  <2>1. ASSUME NEW j \in 0 .. 7
        PROVE  /\ FieldBit(b, p, 0, 1, 7, j) = IF j = 7 THEN BitOf(x, 0) ELSE 0
               /\ FieldBit(b, p, 0, 1, 6, j) = 0
               /\ FieldBit(b, p, 0, 1, 5, j) = 0
    <3>1. FieldBit(b, p, 0, 1, 7, j) = IF j = 7 THEN BitOf(x, 0) ELSE 0
      BY <2>1, BitOfOctet
    <3>2. FieldBit(b, p, 0, 1, 6, j) = 0
      BY <2>1, BitOfOctet
    <3>3. FieldBit(b, p, 0, 1, 5, j) = 0
      BY <2>1, BitOfOctet
    <3>. QED
      BY <3>1, <3>2, <3>3
  <2>2. /\ Octet(getBit(b, 8 * p + 0, 1), 7) = x \div 128
        /\ Octet(getBit(b, 8 * p + 0, 1), 6) = 0
        /\ Octet(getBit(b, 8 * p + 0, 1), 5) = 0
    BY <2>1, OctetOfByte DEF FieldBit
  <2>. QED
    BY <1>0, <2>2 DEF bits, Value
<1>4. ASSUME y \in Byte PROVE bits(b, 8 * p, 16) = 256 * x + y
  <2>1. ASSUME NEW j \in 0 .. 7
        PROVE  /\ FieldBit(b, p, 0, 16, 7, j) = BitOf(y, j)
               /\ FieldBit(b, p, 0, 16, 6, j) = BitOf(x, j)
               /\ FieldBit(b, p, 0, 16, 5, j) = 0
    <3>1. FieldBit(b, p, 0, 16, 7, j) = BitOf(y, j)
      BY <2>1, BitOfOctet
    <3>2. FieldBit(b, p, 0, 16, 6, j) = BitOf(x, j)
      BY <2>1, BitOfOctet
    <3>3. FieldBit(b, p, 0, 16, 5, j) = 0
      BY <2>1, BitOfOctet
    <3>. QED
      BY <3>1, <3>2, <3>3
  <2>2. /\ Octet(getBit(b, 8 * p + 0, 16), 7) = y
        /\ Octet(getBit(b, 8 * p + 0, 16), 6) = x
        /\ Octet(getBit(b, 8 * p + 0, 16), 5) = 0
    BY <1>4, <2>1, OctetOfByte DEF FieldBit
  <2>. QED
    BY <1>0, <1>4, <2>2 DEF bits, Value
<1>5. ASSUME y \in Byte PROVE bits(b, 8 * p + 4, 12) = 256 * (x % 16) + y
  <2>1. ASSUME NEW j \in 0 .. 7
        PROVE  /\ FieldBit(b, p, 4, 12, 7, j) = BitOf(y, j)
               /\ FieldBit(b, p, 4, 12, 6, j) = IF j >= 4 THEN BitOf(x, j) ELSE 0
               /\ FieldBit(b, p, 4, 12, 5, j) = 0
    <3>1. FieldBit(b, p, 4, 12, 7, j) = BitOf(y, j)
      BY <2>1, BitOfOctet
    <3>2. FieldBit(b, p, 4, 12, 6, j) = IF j >= 4 THEN BitOf(x, j) ELSE 0
      BY <2>1, BitOfOctet
    <3>3. FieldBit(b, p, 4, 12, 5, j) = 0
      BY <2>1, BitOfOctet
    <3>. QED
      BY <3>1, <3>2, <3>3
  <2>2. /\ Octet(getBit(b, 8 * p + 4, 12), 7) = y
        /\ Octet(getBit(b, 8 * p + 4, 12), 6) = x % 16
        /\ Octet(getBit(b, 8 * p + 4, 12), 5) = 0
    BY <1>5, <2>1, OctetOfByte DEF FieldBit
  <2>. QED
    BY <1>0, <1>5, <2>2 DEF bits, Value
<1>6. ASSUME y \in Byte PROVE bits(b, 8 * p + 3, 13) = 256 * (x % 32) + y
  <2>1. ASSUME NEW j \in 0 .. 7
        PROVE  /\ FieldBit(b, p, 3, 13, 7, j) = BitOf(y, j)
               /\ FieldBit(b, p, 3, 13, 6, j) = IF j >= 3 THEN BitOf(x, j) ELSE 0
               /\ FieldBit(b, p, 3, 13, 5, j) = 0
    <3>1. FieldBit(b, p, 3, 13, 7, j) = BitOf(y, j)
      BY <2>1, BitOfOctet
    <3>2. FieldBit(b, p, 3, 13, 6, j) = IF j >= 3 THEN BitOf(x, j) ELSE 0
      BY <2>1, BitOfOctet
    <3>3. FieldBit(b, p, 3, 13, 5, j) = 0
      BY <2>1, BitOfOctet
    <3>. QED
      BY <3>1, <3>2, <3>3
  <2>2. /\ Octet(getBit(b, 8 * p + 3, 13), 7) = y
        /\ Octet(getBit(b, 8 * p + 3, 13), 6) = x % 32
        /\ Octet(getBit(b, 8 * p + 3, 13), 5) = 0
    BY <1>6, <2>1, OctetOfByte DEF FieldBit
  <2>. QED
    BY <1>0, <1>6, <2>2 DEF bits, Value
<1>. QED
  BY <1>2, <1>3, <1>4, <1>5, <1>6

(* A sum grows by its last number.                                         *)
LEMMA SumGrows ==
  ASSUME NEW n \in Nat, NEW f, NEW g,
         DOMAIN f = 1 .. n, DOMAIN g = 1 .. n + 1,
         \A k \in 1 .. n : f[k] \in Nat /\ g[k] = f[k], g[n + 1] \in Nat
  PROVE  SumOf(f) \in Nat /\ SumOf(g) = SumOf(f) + g[n + 1]
<1>. DEFINE Row(k) == {k} \X (1 .. f[k])
            Rows == {Row(k) : k \in 1 .. n}
            U == UNION {{k} \X (1 .. f[k]) : k \in DOMAIN f}
            V == UNION {{k} \X (1 .. g[k]) : k \in DOMAIN g}
            W == {n + 1} \X (1 .. g[n + 1])
<1>1. IsFiniteSet(1 .. n)
  BY FS_Interval
<1>2. IsFiniteSet(Rows)
  <2>1. [k \in 1 .. n |-> Row(k)] \in Surjection(1 .. n, Rows)
    BY Fun_IsSurj
  <2>. QED
    BY <1>1, <2>1, FS_Surjection
<1>3. \A k \in 1 .. n : IsFiniteSet(Row(k))
  <2>. SUFFICES ASSUME NEW k \in 1 .. n PROVE IsFiniteSet(Row(k))
    OBVIOUS
  <2>1. IsFiniteSet({k})
    BY FS_Singleton
  <2>2. f[k] \in Int /\ 1 \in Int
    OBVIOUS
  <2>3. IsFiniteSet(1 .. f[k])
    BY <2>2, FS_Interval
  <2>. QED
    BY <2>1, <2>3, FS_Product
<1>4. IsFiniteSet(U)
  <2>1. U = UNION Rows
    OBVIOUS
  <2>2. \A S \in Rows : IsFiniteSet(S)
    BY <1>3
  <2>. QED
    BY <1>2, <2>1, <2>2, FS_UNION
<1>5. IsFiniteSet(W) /\ Cardinality(W) = g[n + 1]
  <2>1. IsFiniteSet({n + 1}) /\ Cardinality({n + 1}) = 1
    BY FS_Singleton
  <2>2. IsFiniteSet(1 .. g[n + 1]) /\ Cardinality(1 .. g[n + 1]) = g[n + 1]
    BY FS_Interval
  <2>3. IsFiniteSet(W) /\ Cardinality(W) = 1 * g[n + 1]
    BY <2>1, <2>2, FS_Product
  <2>. QED
    BY <2>3
<1>6. \A k, i : <<k, i>> \in U <=> k \in 1 .. n /\ i \in 1 .. f[k]
  OBVIOUS
<1>7. \A k, i : <<k, i>> \in V <=> k \in 1 .. n + 1 /\ i \in 1 .. g[k]
  OBVIOUS
<1>8. \A k, i : <<k, i>> \in W <=> k = n + 1 /\ i \in 1 .. g[k]
  OBVIOUS
<1>9. \A u \in U \cup V \cup W : u = <<u[1], u[2]>>
  OBVIOUS
<1>10. SumOf(f) = Cardinality(U) /\ SumOf(g) = Cardinality(V)
  BY DEF SumOf
<1>. HIDE DEF U, V, W, Row, Rows
<1>11. V = U \cup W /\ U \cap W = {}
  <2>1. \A k : k \in 1 .. n + 1 <=> k \in 1 .. n \/ k = n + 1
    OBVIOUS
  <2>2. \A k \in 1 .. n : k # n + 1
    OBVIOUS
  <2>7. \A k \in 1 .. n : f[k] = g[k]
    OBVIOUS
  <2>3. \A k, i : <<k, i>> \in V <=> <<k, i>> \in U \/ <<k, i>> \in W
    BY <1>6, <1>7, <1>8, <2>1, <2>7
  <2>4. \A k, i : ~(<<k, i>> \in U /\ <<k, i>> \in W)
    BY <1>6, <1>8, <2>2
  <2>5. \A u : u \in V <=> u \in U \/ u \in W
    BY <1>9, <2>3
  <2>6. \A u : ~(u \in U /\ u \in W)
    BY <1>9, <2>4
  <2>. QED
    BY <2>5, <2>6
<1>12. Cardinality(U \cap W) = 0
  BY <1>11, FS_EmptySet
<1>13. Cardinality(U) \in Nat /\ Cardinality(W) \in Nat
  BY <1>4, <1>5, FS_CardinalityType
<1>14. Cardinality(U \cup W) = Cardinality(U) + Cardinality(W) - Cardinality(U \cap W)
  BY <1>4, <1>5, FS_Union
<1>. QED
  BY <1>5, <1>10, <1>11, <1>12, <1>13, <1>14

(* A sum of nothing.                                                       *)
LEMMA SumOfNothing == ASSUME NEW f, DOMAIN f = {} PROVE SumOf(f) = 0
<1>1. UNION {{k} \X (1 .. f[k]) : k \in DOMAIN f} = {}
  OBVIOUS
<1>. QED
  BY <1>1, FS_EmptySet DEF SumOf

(* The copies of the bit reader and of the sums are the same.              *)
LEMMA SameOperators ==
  /\ \A b, o, n : P!bits(b, o, n) = bits(b, o, n)
  /\ \A b, o, n : E!bits(b, o, n) = bits(b, o, n)
  /\ \A b, o, n : T!bits(b, o, n) = bits(b, o, n)
  /\ \A f : E!SumOf(f) = SumOf(f)
<1>1. \A b, o, n : P!bits(b, o, n) = bits(b, o, n)
  BY DEF bits, Value, Octet, Weight, getBit, Loaded, ShiftLeft, ShiftRight, BitOf, Places,
         P!bits, P!Value, P!Octet, P!Weight, P!getBit, P!Loaded, P!ShiftLeft,
         P!ShiftRight, P!BitOf, P!Places
<1>2. \A b, o, n : E!bits(b, o, n) = bits(b, o, n)
  BY DEF bits, Value, Octet, Weight, getBit, Loaded, ShiftLeft, ShiftRight, BitOf, Places,
         E!bits, E!Value, E!Octet, E!Weight, E!getBit, E!Loaded, E!ShiftLeft,
         E!ShiftRight, E!BitOf, E!Places
<1>3. \A b, o, n : T!bits(b, o, n) = bits(b, o, n)
  BY DEF bits, Value, Octet, Weight, getBit, Loaded, ShiftLeft, ShiftRight, BitOf, Places,
         T!bits, T!Value, T!Octet, T!Weight, T!getBit, T!Loaded, T!ShiftLeft,
         T!ShiftRight, T!BitOf, T!Places
<1>4. \A f : E!SumOf(f) = SumOf(f)
  BY DEF SumOf, E!SumOf, Cardinality, E!Cardinality
<1>. QED
  BY <1>1, <1>2, <1>3, <1>4

(* Two hexadecimal digits are read as a number of at most two decimal ones.*)
LEMMA DigitsInByte ==
  ASSUME NEW x \in Byte
  PROVE  T!hex_to_digi(x) \in 0 .. 99
<1>. DEFINE high == x \div 16
            low  == x % 16
<1>1. high \in 0 .. 15 /\ low \in 0 .. 15
  BY DEF Byte
<1>. HIDE DEF high, low
<1>2. CASE high > 9
  BY <1>1, <1>2 DEF T!hex_to_digi, high, low
<1>3. CASE high <= 9 /\ low > 9
  BY <1>1, <1>3 DEF T!hex_to_digi, high, low
<1>4. CASE high <= 9 /\ low <= 9
  BY <1>1, <1>4 DEF T!hex_to_digi, high, low
<1>. QED
  BY <1>1, <1>2, <1>3, <1>4

(* Division of the C language, where nothing is negative.                  *)
LEMMA Divided ==
  ASSUME NEW a \in Nat, NEW b \in Nat \ {0}
  PROVE  /\ T!Quotient(a, b) = a \div b
         /\ T!Remainder(a, b) = a - b * (a \div b)
BY DEF T!Quotient, T!Remainder

(* The days are counted in quarters, from 1 March of the year -4712 of a   *)
(* calendar in which every fourth year has a day more; from 1 March 1900   *)
(* on this calendar is one day ahead.                                      *)
QuarterDays(m) == 4 * m + (IF m < 15079 THEN 9599815 ELSE 9599819)

(* The year that began last, in March, and the days since then.            *)
MarchYear(m) == QuarterDays(m) \div 1461
DayOfYear(m) == (QuarterDays(m) % 1461) \div 4

(* The months from March on have 30.6 days.                                *)
MonthOfDay(r) == (10 * r + 5) \div 306

(* The years in question, and the days of one.                             *)
MarchYears == 6570 .. 6750
YearDays   == 0 .. 365

Dated(y, r) ==
  [tm_year |-> y - 6612 + (IF r >= 306 THEN 1 ELSE 0),
   tm_mon  |-> IF r >= 306 THEN MonthOfDay(r) - 10 ELSE MonthOfDay(r) + 2,
   tm_mday |-> ((10 * r + 5) - 306 * MonthOfDay(r)) \div 10 + 1]

(* The formula of the code counts like this.                               *)
LEMMA DateOfDayIs ==
  ASSUME NEW m \in Nat, m < 65536
  PROVE  /\ T!mjd_to_tm(m) = Dated(MarchYear(m), DayOfYear(m))
         /\ MarchYear(m) \in 6570 .. 6750 /\ DayOfYear(m) \in 0 .. 365
<1>. DEFINE num   == 4 * (m + 2400001) - 17918
            a     == num \div 146097
            b     == (3 * a + 2) \div 4
            jd4   == 4 * (m + 2400001 + b - 37)
            past  == jd4 - 237
            q     == past \div 1461
            rem   == past - 1461 * q
            r     == rem \div 4
            dtmp  == 10 * r + 5
            month == dtmp \div 306
            day   == dtmp - 306 * month
            tm    == T!mjd_to_tm(m)
<1>. HIDE DEF num, a, b, jd4, past, q, rem, r, dtmp, month, day, tm
<1>1. num \in Nat /\ T!Quotient(num, 146097) = a
  <2>1. num \in Nat
    BY DEF num
  <2>. QED
    BY <2>1, Divided DEF a
<1>2. a \in 65 .. 67 /\ (a = 65 <=> m < 15079)
  <2>1. num = 4 * m + 9582086
    BY DEF num
  <2>. QED
    BY <1>1, <2>1 DEF a
<1>3. b = (IF m < 15079 THEN 49 ELSE 50) /\ T!Quotient(3 * a + 2, 4) = b
  <2>1. b = IF m < 15079 THEN 49 ELSE 50
    BY <1>2 DEF b
  <2>2. 3 * a + 2 \in Nat
    BY <1>2
  <2>. QED
    BY <2>1, <2>2, Divided DEF b
<1>4. past = QuarterDays(m) /\ jd4 = past + 237 /\ past \in Nat
      /\ past >= 9599815 /\ past <= 9861959
  BY <1>3 DEF past, jd4, QuarterDays
<1>5. q = MarchYear(m) /\ q \in 6570 .. 6750
  BY <1>4 DEF q, MarchYear
<1>6. rem = QuarterDays(m) % 1461 /\ rem \in 0 .. 1460 /\ T!Remainder(past, 1461) = rem
  <2>1. T!Remainder(past, 1461) = rem
    BY <1>4, Divided DEF rem, q
  <2>2. rem = past % 1461
    BY <1>4 DEF rem, q
  <2>. QED
    BY <1>4, <2>1, <2>2
<1>7. r = DayOfYear(m) /\ r \in 0 .. 365 /\ T!Quotient(rem, 4) = r
  <2>0. rem \in Nat /\ 4 \in Nat \ {0}
    BY <1>6
  <2>1. T!Quotient(rem, 4) = r
    BY <2>0, Divided DEF r
  <2>. QED
    BY <1>6, <2>1 DEF r, DayOfYear
<1>8. dtmp \in Nat /\ dtmp <= 3655
  BY <1>7 DEF dtmp
<1>9. month \in 0 .. 11 /\ T!Quotient(dtmp, 306) = month /\ month = MonthOfDay(r)
      /\ (month >= 10 <=> r >= 306)
  <2>1. month \in 0 .. 11 /\ (month >= 10 <=> dtmp >= 3060)
    BY <1>8 DEF month
  <2>2. dtmp >= 3060 <=> r >= 306
    BY <1>7 DEF dtmp
  <2>. QED
    BY <1>8, <2>1, <2>2, Divided DEF month, dtmp, MonthOfDay
<1>10. day \in 0 .. 305 /\ T!Remainder(dtmp, 306) = day
  <2>1. T!Remainder(dtmp, 306) = day
    BY <1>8, Divided DEF day, month
  <2>2. day = dtmp % 306
    BY <1>8 DEF day, month
  <2>. QED
    BY <1>8, <2>1, <2>2
<1>11. tm = [tm_year |-> T!Quotient(jd4, 1461) - 4712 - 1900,
             tm_mon  |-> T!Remainder(month + 2, 12),
             tm_mday |-> T!Quotient(day, 10) + 1]
  <2>1. T!Quotient(4 * (m + 2400001) - 17918, 146097) = a
    BY <1>1 DEF num
  <2>2. 4 * (m + 2400001 + b - 37) = jd4
    BY DEF jd4
  <2>3. 10 * T!Quotient(T!Remainder(jd4 - 237, 1461), 4) + 5 = dtmp
    BY <1>6, <1>7 DEF past, dtmp
  <2>. QED
    BY <1>3, <1>9, <1>10, <2>1, <2>2, <2>3 DEF T!mjd_to_tm, tm
<1>12. T!Quotient(jd4, 1461) = q + (IF r >= 306 THEN 1 ELSE 0)
  <2>1. T!Quotient(jd4, 1461) = jd4 \div 1461
    BY <1>4, Divided
  <2>2. jd4 = 1461 * q + rem + 237
    BY <1>4, <1>5 DEF rem
  <2>3. rem >= 1224 <=> r >= 306
    BY <1>6, <1>7 DEF r
  <2>4. jd4 \div 1461 = q + (IF rem >= 1224 THEN 1 ELSE 0)
    <3>1. q \in Int /\ rem \in Int /\ rem >= 0 /\ rem <= 1460
      BY <1>5, <1>6
    <3>2. CASE rem >= 1224
      <4>1. jd4 = 1461 * (q + 1) + (rem - 1224)
        BY <2>2, <3>1
      <4>. QED
        BY <3>1, <3>2, <4>1
    <3>3. CASE rem < 1224
      BY <2>2, <3>1, <3>3
    <3>. QED
      BY <3>1, <3>2, <3>3
  <2>. QED
    BY <2>1, <2>3, <2>4
<1>13. T!Remainder(month + 2, 12) = IF r >= 306 THEN month - 10 ELSE month + 2
  <2>1. month + 2 \in Nat
    BY <1>9
  <2>2. T!Remainder(month + 2, 12) = (month + 2) - 12 * ((month + 2) \div 12)
    BY <2>1, Divided
  <2>3. (month + 2) \div 12 = IF month >= 10 THEN 1 ELSE 0
    BY <1>9
  <2>. QED
    BY <1>9, <2>2, <2>3
<1>14. T!Quotient(day, 10) = day \div 10
  BY <1>10, Divided
<1>15. tm = Dated(q, r)
  BY <1>5, <1>7, <1>9, <1>11, <1>12, <1>13, <1>14 DEF Dated, day, dtmp
<1>. QED
  BY <1>5, <1>7, <1>15 DEF tm

(* Every fourth year of those in question is a leap year, but for one.     *)
LEMMA LeapYears ==
  ASSUME NEW y \in 1858 .. 2040
  PROVE  T!LeapYear(y) <=> y % 4 = 0 /\ y # 1900
<1>1. y % 100 = 0 <=> y \in {1900, 2000}
  OBVIOUS
<1>2. y % 400 = 0 <=> y = 2000
  OBVIOUS
<1>. QED
  BY <1>1, <1>2 DEF T!LeapYear

(* A day later: the year has a day more when it ends in a leap year's      *)
(* February.                                                               *)
LEMMA NextDayOfYear ==
  ASSUME NEW m \in Nat, m < 65535
  PROVE  LET q == MarchYear(m)
             r == DayOfYear(m)
         IN IF r < 364 \/ (r = 364 /\ T!LeapYear(q - 4711))
            THEN MarchYear(m + 1) = q /\ DayOfYear(m + 1) = r + 1
            ELSE MarchYear(m + 1) = q + 1 /\ DayOfYear(m + 1) = 0
<1>. DEFINE q == MarchYear(m)
            r == DayOfYear(m)
            past == QuarterDays(m)
            rem == past - 1461 * q
            past2 == QuarterDays(m + 1)
            rem2 == past2 % 1461
<1>1. q \in 6570 .. 6750 /\ r \in 0 .. 365
  BY DateOfDayIs
<1>2. past \in Nat /\ q = past \div 1461 /\ rem \in 0 .. 1460 /\ r = rem \div 4
  <2>1. past \in Nat
    BY DEF QuarterDays
  <2>. HIDE DEF past
  <2>2. past % 1461 = past - 1461 * (past \div 1461) /\ past % 1461 \in 0 .. 1460
    BY <2>1
  <2>. QED
    BY <2>1, <2>2 DEF MarchYear, DayOfYear, past
<1>3. past2 = past + (IF m = 15078 THEN 8 ELSE 4)
  BY DEF QuarterDays
<1>4. MarchYear(m + 1) = past2 \div 1461 /\ DayOfYear(m + 1) = rem2 \div 4
  BY DEF MarchYear, DayOfYear
<1>5. (q + rem) % 4 = 3
  <2>1. past % 4 = 3
    BY DEF QuarterDays
  <2>2. past = 1461 * q + rem
    BY <1>1, <1>2
  <2>3. past = 4 * (365 * q) + (q + rem)
    BY <1>1, <1>2, <2>2
  <2>. HIDE DEF past, rem, q
  <2>. QED
    BY <1>1, <1>2, <2>1, <2>3
<1>6. T!LeapYear(q - 4711) <=> q % 4 = 3 /\ q # 6611
  <2>. HIDE DEF q
  <2>1. q - 4711 \in 1858 .. 2040
    BY <1>1
  <2>2. (q - 4711) % 4 = 0 <=> q % 4 = 3
    BY <1>1
  <2>. QED
    BY <1>1, <2>1, <2>2, LeapYears
<1>7. m = 15078 => q = 6611 /\ rem = 1456
  BY DEF QuarterDays, MarchYear
<1>8. q = 6611 /\ rem = 1456 => m = 15078
  BY DEF QuarterDays
<1>9. past2 = 1461 * q + rem + (IF m = 15078 THEN 8 ELSE 4)
  BY <1>1, <1>2, <1>3
<1>. HIDE DEF q, r, past, rem, past2
<1>10. CASE r < 364
  <2>1. m # 15078 /\ rem + 4 <= 1460 /\ (rem + 4) \div 4 = r + 1
    BY <1>1, <1>2, <1>7, <1>10
  <2>2. past2 \div 1461 = q /\ rem2 = rem + 4
    BY <1>1, <1>2, <1>9, <2>1
  <2>. QED
    BY <1>4, <1>10, <2>1, <2>2 DEF q, r
<1>11. CASE r = 364 /\ T!LeapYear(q - 4711)
  <2>1. rem = 1456
    BY <1>1, <1>2, <1>5, <1>6, <1>11
  <2>2. m # 15078
    BY <1>6, <1>7, <1>11
  <2>3. past2 \div 1461 = q /\ rem2 = 1460
    BY <1>1, <1>2, <1>9, <2>1, <2>2
  <2>. QED
    BY <1>4, <1>11, <2>3 DEF q, r
<1>12. CASE ~(r < 364 \/ (r = 364 /\ T!LeapYear(q - 4711)))
  <2>1. rem \in 1456 .. 1460
    BY <1>1, <1>2, <1>12
  <2>2. rem = 1456 => m = 15078
    <3>1. rem = 1456 => q % 4 = 3
      BY <1>1, <1>5
    <3>2. rem = 1456 => r = 364
      BY <1>2
    <3>. QED
      BY <1>6, <1>8, <1>12, <3>1, <3>2
  <2>3. m = 15078 => rem = 1456
    BY <1>7
  <2>4. past2 \div 1461 = q + 1 /\ rem2 \in 0 .. 3
    BY <1>1, <1>9, <2>1, <2>2, <2>3
  <2>. QED
    BY <1>4, <1>12, <2>4 DEF q, r
<1>. QED
  BY <1>10, <1>11, <1>12 DEF q, r

(* The name of a day: year, month and day.                                 *)
DateOf(tm) == <<tm.tm_year + 1900, tm.tm_mon + 1, tm.tm_mday>>

(* The days of a year from March on, month by month, and the names of the  *)
(* months.                                                                 *)
MonthBegins == <<0, 31, 61, 92, 122, 153, 184, 214, 245, 275, 306, 337, 366>>
MonthName(k) == IF k <= 10 THEN k + 2 ELSE k - 10
YearName(y, k) == IF k <= 10 THEN y - 4712 ELSE y - 4711

MonthsOfYear == 1 .. 12

InMonth(r, k) == MonthBegins[k] <= r /\ r < MonthBegins[k + 1]

LEMMA Months ==
  /\ \A i \in 1 .. 13 : MonthBegins[i] \in 0 .. 366
  /\ \A i \in 1 .. 12 : /\ MonthBegins[i] < MonthBegins[i + 1]
                        /\ 10 * MonthBegins[i] + 5 - 306 * (i - 1) \in 1 .. 9
                        /\ 10 * MonthBegins[i + 1] + 5 - 306 * i \in 1 .. 9 \/ i = 12
  /\ MonthBegins[1] = 0 /\ MonthBegins[11] = 306 /\ MonthBegins[12] = 337
  /\ MonthBegins[13] = 366
BY DEF MonthBegins

LEMMA MonthExists == \A r \in YearDays : \E k \in MonthsOfYear : InMonth(r, k)
<1>. TAKE r \in YearDays
<1>. USE DEF YearDays, MonthsOfYear
<1>. DEFINE Below(k) == r < MonthBegins[k]
<1>1. Below(13) /\ ~Below(1)
  BY Months
<1>2. \E k \in 1 .. 12 : ~Below(k) /\ Below(k + 1)
  <2>1. /\ 1 + 1 = 2 /\ 2 + 1 = 3 /\ 3 + 1 = 4 /\ 4 + 1 = 5 /\ 5 + 1 = 6 /\ 6 + 1 = 7
        /\ 7 + 1 = 8 /\ 8 + 1 = 9 /\ 9 + 1 = 10 /\ 10 + 1 = 11 /\ 11 + 1 = 12
        /\ 12 + 1 = 13 /\ {1, 2, 3, 4, 5, 6, 7, 8, 9, 10, 11, 12} \subseteq 1 .. 12
    OBVIOUS
  <2>. HIDE DEF Below
  <2>. QED
    BY <1>1, <2>1
<1>3. PICK k \in 1 .. 12 : ~Below(k) /\ Below(k + 1)
  BY <1>2
<1>4. MonthBegins[k] \in 0 .. 366
  <2>1. k \in 1 .. 13
    OBVIOUS
  <2>. QED
    BY <2>1, Months
<1>5. MonthBegins[k] \in Int
  BY <1>4
<1>. QED
  BY <1>3, <1>5 DEF InMonth

NamedAs(y, r, k) ==
  DateOf(Dated(y, r)) = <<YearName(y, k), MonthName(k), r - MonthBegins[k] + 1>>

LEMMA NameOfDay ==
  ASSUME NEW y \in Int, NEW r \in YearDays, NEW k \in MonthsOfYear, InMonth(r, k)
  PROVE  NamedAs(y, r, k)
<1>. USE DEF YearDays, MonthsOfYear
<1>. DEFINE from == MonthBegins[k]
            next == MonthBegins[k + 1]
            c    == 10 * from + 5 - 306 * (k - 1)
<1>1. /\ from \in 0 .. 366 /\ next \in 0 .. 366 /\ from <= r /\ r < next
      /\ c \in 1 .. 9
      /\ (10 * next + 5 - 306 * k \in 1 .. 9 \/ (k = 12 /\ next = 366))
  BY Months DEF InMonth
<1>2. k <= 10 => next <= 306
  BY DEF MonthBegins
<1>3. k >= 11 => from >= 306
  BY DEF MonthBegins
<1>. HIDE DEF from, next
<1>4. 10 * r + 5 >= 306 * (k - 1) /\ 10 * r + 5 < 306 * k
  BY <1>1
<1>5. MonthOfDay(r) = k - 1
  BY <1>4 DEF MonthOfDay
<1>6. ((10 * r + 5) - 306 * (k - 1)) \div 10 = r - from
  <2>1. (10 * r + 5) - 306 * (k - 1) = 10 * (r - from) + c
    BY <1>1
  <2>2. r - from \in Nat
    BY <1>1
  <2>. HIDE DEF c
  <2>3. (10 * (r - from) + c) \div 10 = r - from
    BY <1>1, <2>2
  <2>. QED
    BY <2>1, <2>3
<1>7. r >= 306 <=> k >= 11
  BY <1>1, <1>2, <1>3
<1>8. DateOf(Dated(y, r)) =
        <<y - 6612 + (IF r >= 306 THEN 1 ELSE 0) + 1900,
          (IF r >= 306 THEN (k - 1) - 10 ELSE (k - 1) + 2) + 1, (r - from) + 1>>
  BY <1>5, <1>6 DEF Dated, DateOf
<1>9. /\ y - 6612 + (IF r >= 306 THEN 1 ELSE 0) + 1900 = YearName(y, k)
      /\ (IF r >= 306 THEN (k - 1) - 10 ELSE (k - 1) + 2) + 1 = MonthName(k)
  BY <1>7 DEF YearName, MonthName
<1>. QED
  BY <1>8, <1>9 DEF from, NamedAs

(* The months have their lengths in the calendar.                          *)
LEMMA LengthOfMonth ==
  ASSUME NEW k \in 1 .. 12, NEW y \in Int
  PROVE  T!DaysIn(y, MonthName(k)) =
           IF k < 12 THEN MonthBegins[k + 1] - MonthBegins[k]
           ELSE IF T!LeapYear(y) THEN 29 ELSE 28
<1>. DEFINE m == MonthName(k)
<1>1. CASE k = 12
  <2>1. m = 2
    BY <1>1 DEF MonthName
  <2>. QED
    BY <1>1, <2>1 DEF T!DaysIn
<1>2. CASE k < 12
  <2>1. m # 2 /\ m \in 1 .. 12
    BY <1>2 DEF MonthName
  <2>2. T!DaysIn(y, m) = IF m \in {4, 6, 9, 11} THEN 30 ELSE 31
    BY <2>1 DEF T!DaysIn
  <2>3. MonthBegins[k + 1] - MonthBegins[k] = IF m \in {4, 6, 9, 11} THEN 30 ELSE 31
    BY <1>2 DEF MonthBegins, MonthName
  <2>. QED
    BY <1>2, <2>2, <2>3
<1>. QED
  BY <1>1, <1>2

(* The day after a day that is called like this.                           *)
LEMMA AfterDay ==
  ASSUME NEW y \in Int, NEW m \in Int, NEW d \in Int, NEW last \in Int,
         last = T!DaysIn(y, m)
  PROVE  /\ d < last => T!NextDay(<<y, m, d>>) = <<y, m, d + 1>>
         /\ d = last /\ m < 12 => T!NextDay(<<y, m, d>>) = <<y, m + 1, 1>>
         /\ d = last /\ m = 12 => T!NextDay(<<y, m, d>>) = <<y + 1, 1, 1>>
<1>1. T!NextDay(<<y, m, d>>) =
        CASE d < last -> <<y, m, d + 1>>
          [] d = last /\ m < 12 -> <<y, m + 1, 1>>
          [] d = last /\ m = 12 -> <<y + 1, 1, 1>>
  BY DEF T!NextDay
<1>. QED
  BY <1>1

(* The day after a day.                                                    *)
LEMMA DayAfter ==
  ASSUME NEW y \in MarchYears, NEW r \in YearDays
  PROVE  /\ r < 364 \/ (r = 364 /\ T!LeapYear(y - 4711)) =>
              T!NextDay(DateOf(Dated(y, r))) = DateOf(Dated(y, r + 1))
         /\ (r = 365 <=> T!LeapYear(y - 4711)) /\ r >= 364 =>
              T!NextDay(DateOf(Dated(y, r))) = DateOf(Dated(y + 1, 0))
<1>0. PICK k \in MonthsOfYear : InMonth(r, k)
  BY MonthExists
<1>a. y \in Int
  BY DEF MarchYears
<1>b. NamedAs(y, r, k)
  BY <1>0, <1>a, NameOfDay
<1>. USE DEF MarchYears, YearDays, MonthsOfYear
<1>. DEFINE from == MonthBegins[k]
            next == MonthBegins[k + 1]
            leap == T!LeapYear(y - 4711)
            today == DateOf(Dated(y, r))
            yy == YearName(y, k)
            mm == MonthName(k)
            d == r - from + 1
            last == T!DaysIn(yy, mm)
<1>1. today = <<yy, mm, d>>
  BY <1>b DEF NamedAs
<1>2. /\ from \in 0 .. 366 /\ next \in 0 .. 366 /\ from <= r /\ r < next
      /\ (k = 12 => from = 337 /\ next = 366)
  BY <1>0, Months DEF InMonth
<1>3. k # 12 => next <= 337
  BY DEF MonthBegins
<1>4. yy \in Int /\ mm \in 1 .. 12 /\ (k = 12 => yy = y - 4711 /\ mm = 2)
  BY DEF YearName, MonthName
<1>5. last = IF k < 12 THEN next - from ELSE IF leap THEN 29 ELSE 28
  <2>1. last = IF k < 12 THEN next - from ELSE IF T!LeapYear(yy) THEN 29 ELSE 28
    BY <1>4, LengthOfMonth
  <2>. HIDE DEF last, next, from, yy
  <2>. QED
    BY <1>4, <2>1
<1>. HIDE DEF from, next, leap, today, yy, mm, last
<1>6. d \in Int /\ last \in Int
  BY <1>2, <1>5
<1>7. /\ d < last => T!NextDay(today) = <<yy, mm, d + 1>>
      /\ d = last /\ mm < 12 => T!NextDay(today) = <<yy, mm + 1, 1>>
      /\ d = last /\ mm = 12 => T!NextDay(today) = <<yy + 1, 1, 1>>
  <2>. HIDE DEF d
  <2>1. last = T!DaysIn(yy, mm)
    BY DEF last
  <2>. QED
    BY <1>1, <1>4, <1>6, <2>1, AfterDay
<1>8. ASSUME r < 364 \/ (r = 364 /\ leap)
      PROVE  T!NextDay(today) = DateOf(Dated(y, r + 1))
  <2>1. r + 1 \in YearDays
    BY <1>8
  <2>2. CASE r + 1 < next
    <3>1. InMonth(r + 1, k)
      BY <1>2, <2>2 DEF InMonth, from, next
    <3>2. DateOf(Dated(y, r + 1)) = <<yy, mm, (r + 1) - from + 1>>
      <4>1. NamedAs(y, r + 1, k)
        <5>. HIDE DEF YearDays, MonthsOfYear
        <5>. QED
          BY <1>a, <2>1, <3>1, NameOfDay
      <4>. QED
        BY <4>1 DEF NamedAs, yy, mm, from
    <3>3. (r + 1) - from + 1 = d + 1
      BY <1>2
    <3>4. d < last
      <4>1. k < 12 => d < next - from
        BY <1>2, <2>2
      <4>2. k = 12 => d < (IF leap THEN 29 ELSE 28)
        BY <1>2, <1>8
      <4>. QED
        BY <1>5, <4>1, <4>2
    <3>. HIDE DEF d
    <3>. QED
      BY <1>7, <3>2, <3>3, <3>4
  <2>3. CASE ~(r + 1 < next)
    <3>1. r + 1 = next
      BY <1>2, <2>3
    <3>2. k # 12
      BY <1>2, <2>1, <3>1
    <3>3. k + 1 \in MonthsOfYear /\ next < MonthBegins[k + 1 + 1]
      BY <3>2, Months DEF next
    <3>4. InMonth(r + 1, k + 1)
      BY <1>2, <3>1, <3>3 DEF InMonth, next
    <3>5. DateOf(Dated(y, r + 1)) =
            <<YearName(y, k + 1), MonthName(k + 1), (r + 1) - next + 1>>
      <4>1. NamedAs(y, r + 1, k + 1)
        <5>. HIDE DEF YearDays, MonthsOfYear
        <5>. QED
          BY <1>a, <2>1, <3>3, <3>4, NameOfDay
      <4>. QED
        BY <4>1 DEF NamedAs, next
    <3>6. (r + 1) - next + 1 = 1 /\ d = last
      BY <1>2, <1>5, <3>1, <3>2
    <3>. HIDE DEF d
    <3>7. CASE k = 10
      <4>1. mm = 12 /\ YearName(y, k + 1) = yy + 1 /\ MonthName(k + 1) = 1
        BY <3>7 DEF yy, mm, YearName, MonthName
      <4>. QED
        BY <1>7, <3>5, <3>6, <4>1
    <3>8. CASE k # 10
      <4>1. mm < 12 /\ YearName(y, k + 1) = yy /\ MonthName(k + 1) = mm + 1
        BY <3>2, <3>8 DEF yy, mm, YearName, MonthName
      <4>. QED
        BY <1>7, <3>5, <3>6, <4>1
    <3>. QED
      BY <3>7, <3>8
  <2>. QED
    BY <2>2, <2>3
<1>9. ASSUME r = 365 <=> leap, r >= 364
      PROVE  T!NextDay(today) = DateOf(Dated(y + 1, 0))
  <2>1. k = 12
    BY <1>2, <1>3, <1>9
  <2>2. d = last /\ mm < 12
    BY <1>2, <1>4, <1>5, <1>9, <2>1
  <2>3. InMonth(0, 1)
    <3>1. MonthBegins[1] = 0 /\ MonthBegins[1 + 1] = 31
      BY DEF MonthBegins
    <3>. QED
      BY <3>1 DEF InMonth
  <2>4. DateOf(Dated(y + 1, 0)) = <<YearName(y + 1, 1), MonthName(1), 0 - MonthBegins[1] + 1>>
    <3>1. y + 1 \in Int /\ 0 \in YearDays /\ 1 \in MonthsOfYear
      OBVIOUS
    <3>2. NamedAs(y + 1, 0, 1)
      <4>. HIDE DEF YearDays, MonthsOfYear
      <4>. QED
        BY <2>3, <3>1, NameOfDay
    <3>. QED
      BY <3>2 DEF NamedAs
  <2>5. YearName(y + 1, 1) = yy /\ MonthName(1) = mm + 1 /\ 0 - MonthBegins[1] + 1 = 1
    BY <1>4, <2>1, Months DEF YearName, MonthName
  <2>. HIDE DEF d
  <2>. QED
    BY <1>7, <2>2, <2>4, <2>5
<1>. QED
  BY <1>8, <1>9 DEF today, leap

(* The year that has 366 days from March on is the one before a leap year. *)
LEMMA LastOfFebruary ==
  ASSUME NEW m \in Nat, m < 65536, DayOfYear(m) = 365
  PROVE  T!LeapYear(MarchYear(m) - 4711)
<1>. DEFINE q == MarchYear(m)
            past == QuarterDays(m)
<1>1. q \in 6570 .. 6750
  BY DateOfDayIs
<1>2. past \in Nat /\ past = 1461 * q + 1460
  <2>1. past \in Nat
    BY DEF QuarterDays
  <2>. HIDE DEF past
  <2>2. past = 1461 * (past \div 1461) + (past % 1461) /\ past % 1461 \in 0 .. 1460
    BY <2>1
  <2>3. past % 1461 = 1460
    BY <2>2 DEF DayOfYear, past
  <2>. QED
    BY <2>1, <2>2, <2>3 DEF MarchYear, past
<1>3. past = 4 * m + (IF m < 15079 THEN 9599815 ELSE 9599819)
  BY DEF QuarterDays
<1>. HIDE DEF q, past
<1>4. q % 4 = 3 /\ q # 6611
  BY <1>1, <1>2, <1>3
<1>5. q - 4711 \in 1858 .. 2040 /\ (q - 4711) % 4 = 0 /\ q - 4711 # 1900
  BY <1>1, <1>4
<1>. QED
  BY <1>5, LeapYears DEF q

(***************************************************************************)
(* The formula of mjd_to_tm keeps the calendar: from every day that 16     *)
(* bits can name but the last it goes on to the next one, and it begins    *)
(* with the right one.                                                     *)
(***************************************************************************)
THEOREM KeepsCalendar ==
  /\ DateOf(T!mjd_to_tm(0)) = T!DayZero
  /\ \A m \in Nat : m < 65535 =>
       T!NextDay(DateOf(T!mjd_to_tm(m))) = DateOf(T!mjd_to_tm(m + 1))
<1>1. DateOf(T!mjd_to_tm(0)) = T!DayZero
  <2>1. 0 \in Nat /\ 0 < 65536
    OBVIOUS
  <2>2. T!mjd_to_tm(0) = Dated(MarchYear(0), DayOfYear(0))
    BY <2>1, DateOfDayIs
  <2>3. MarchYear(0) = 6570 /\ DayOfYear(0) = 261
    BY DEF QuarterDays, MarchYear, DayOfYear
  <2>4. MonthOfDay(261) = 8
    BY DEF MonthOfDay
  <2>5. Dated(6570, 261) = [tm_year |-> -42, tm_mon |-> 10, tm_mday |-> 17]
    BY <2>4 DEF Dated
  <2>. QED
    BY <2>2, <2>3, <2>5 DEF DateOf, T!DayZero
<1>2. ASSUME NEW m \in Nat, m < 65535
      PROVE  T!NextDay(DateOf(T!mjd_to_tm(m))) = DateOf(T!mjd_to_tm(m + 1))
  <2>. DEFINE q == MarchYear(m)
              r == DayOfYear(m)
              leap == T!LeapYear(q - 4711)
  <2>1. T!mjd_to_tm(m) = Dated(q, r) /\ q \in 6570 .. 6750 /\ r \in 0 .. 365
    <3>1. m < 65536
      BY <1>2
    <3>. QED
      BY <3>1, DateOfDayIs
  <2>2. T!mjd_to_tm(m + 1) = Dated(MarchYear(m + 1), DayOfYear(m + 1))
    <3>1. m + 1 \in Nat /\ m + 1 < 65536
      BY <1>2
    <3>. QED
      BY <3>1, DateOfDayIs
  <2>3. IF r < 364 \/ (r = 364 /\ leap)
        THEN MarchYear(m + 1) = q /\ DayOfYear(m + 1) = r + 1
        ELSE MarchYear(m + 1) = q + 1 /\ DayOfYear(m + 1) = 0
    BY <1>2, NextDayOfYear
  <2>4. r = 365 => leap
    <3>1. m < 65536
      BY <1>2
    <3>. QED
      BY <3>1, LastOfFebruary
  <2>5. /\ r < 364 \/ (r = 364 /\ leap) =>
              T!NextDay(DateOf(Dated(q, r))) = DateOf(Dated(q, r + 1))
        /\ (r = 365 <=> leap) /\ r >= 364 =>
              T!NextDay(DateOf(Dated(q, r))) = DateOf(Dated(q + 1, 0))
    <3>. HIDE DEF q, r
    <3>1. q \in MarchYears /\ r \in YearDays
      BY <2>1 DEF MarchYears, YearDays
    <3>. QED
      BY <3>1, DayAfter
  <2>. HIDE DEF q, r, leap
  <2>6. CASE r < 364 \/ (r = 364 /\ leap)
    BY <2>1, <2>2, <2>3, <2>5, <2>6
  <2>7. CASE ~(r < 364 \/ (r = 364 /\ leap))
    <3>1. (r = 365 <=> leap) /\ r >= 364
      BY <2>1, <2>4, <2>7
    <3>. QED
      BY <2>1, <2>2, <2>3, <2>5, <2>7, <3>1
  <2>. QED
    BY <2>6, <2>7
<1>. QED
  BY <1>1, <1>2

(* Two decimal digits are read as the number that they are.                *)
LEMMA DigitsOfBcd ==
  ASSUME NEW x \in Byte, T!IsBcd(x)
  PROVE  x = T!Bcd(T!hex_to_digi(x))
<1>. DEFINE high == x \div 16
            low  == x % 16
<1>1. high \in 0 .. 9 /\ low \in 0 .. 9 /\ x = 16 * high + low
  BY DEF Byte, T!IsBcd
<1>2. T!hex_to_digi(x) = 10 * high + low
  BY <1>1 DEF T!hex_to_digi
<1>. HIDE DEF high, low
<1>3. (10 * high + low) \div 10 = high /\ (10 * high + low) % 10 = low
  BY <1>1
<1>. QED
  BY <1>1, <1>2, <1>3 DEF T!Bcd

(* The date of a day that 16 bits can name: a year of four digits, a month *)
(* and a day.                                                              *)
LEMMA DateOfDay ==
  ASSUME NEW m \in Nat, m < 65536
  PROVE  T!mjd_to_tm(m) \in [tm_year : -42 .. 140, tm_mon : 0 .. 11, tm_mday : 1 .. 31]
<1>. DEFINE r     == DayOfYear(m)
            month == MonthOfDay(r)
            day   == (10 * r + 5) - 306 * month
<1>1. T!mjd_to_tm(m) = Dated(MarchYear(m), r) /\ MarchYear(m) \in 6570 .. 6750
      /\ r \in 0 .. 365
  BY DateOfDayIs
<1>. HIDE DEF r
<1>2. month \in 0 .. 11 /\ (r >= 306 <=> month >= 10) /\ day \in 0 .. 305
  BY <1>1 DEF MonthOfDay
<1>. HIDE DEF month
<1>3. day \div 10 + 1 \in 1 .. 31
  BY <1>2
<1>. QED
  BY <1>1, <1>2, <1>3 DEF Dated, month

(* The dates of the EIT are made like those of the TOT.                    *)
LEMMA SameDates ==
  /\ \A b, n : E!time_to_tm(b, n) = T!time_to_tm(b, n)
  /\ \A x : E!hex_to_digi(x) = T!hex_to_digi(x)
<1>1. \A m : E!mjd_to_tm(m) = T!mjd_to_tm(m)
  <2>1. \A a, b : E!Quotient(a, b) = T!Quotient(a, b)
    BY DEF E!Quotient, T!Quotient
  <2>2. \A a, b : E!Remainder(a, b) = T!Remainder(a, b)
    BY <2>1 DEF E!Remainder, T!Remainder
  <2>. QED
    BY <2>1, <2>2 DEF E!mjd_to_tm, T!mjd_to_tm
<1>2. \A x : E!hex_to_digi(x) = T!hex_to_digi(x)
  BY DEF E!hex_to_digi, T!hex_to_digi
<1>3. \A b, o, n : E!bits(b, o, n) = T!bits(b, o, n)
  BY SameOperators
<1>. QED
  BY <1>1, <1>2, <1>3 DEF E!time_to_tm, T!time_to_tm

Tm ==
  [tm_year : -42 .. 140, tm_mon : 0 .. 11, tm_mday : 1 .. 31,
   tm_hour : 0 .. 99, tm_min : 0 .. 99, tm_sec : 0 .. 99]

(* Five bytes are a time, whatever they are.                               *)
LEMMA TimeOfBytes ==
  ASSUME NEW b, NEW p \in Nat, \A k \in 0 .. 4 : b[p + k] \in Byte
  PROVE  LET tm == T!time_to_tm(b, p)
         IN /\ tm \in Tm
            /\ DateOf(tm) = DateOf(T!mjd_to_tm(256 * b[p] + b[p + 1]))
            /\ tm.tm_hour = T!hex_to_digi(b[p + 2])
            /\ tm.tm_min = T!hex_to_digi(b[p + 3])
            /\ tm.tm_sec = T!hex_to_digi(b[p + 4])
<1>1. /\ p + 0 = p /\ b[p] \in Byte /\ b[p + 1] \in Byte
      /\ b[p + 2] \in Byte /\ b[p + 3] \in Byte /\ b[p + 4] \in Byte
  BY DEF Byte
<1>2. /\ T!bits(b, 8 * p, 16) = 256 * b[p] + b[p + 1]
      /\ T!bits(b, 8 * (p + 2), 8) = b[p + 2]
      /\ T!bits(b, 8 * (p + 3), 8) = b[p + 3]
      /\ T!bits(b, 8 * (p + 4), 8) = b[p + 4]
  BY <1>1, Fields, SameOperators
<1>3. T!bits(b, 8 * p, 16) \in Nat /\ T!bits(b, 8 * p, 16) < 65536
  <2>1. \A u, v \in Byte : 256 * u + v \in Nat /\ 256 * u + v < 65536
    BY DEF Byte
  <2>. QED
    BY <1>1, <1>2, <2>1
<1>4. T!mjd_to_tm(T!bits(b, 8 * p, 16))
        \in [tm_year : -42 .. 140, tm_mon : 0 .. 11, tm_mday : 1 .. 31]
  BY <1>3, DateOfDay
<1>5. /\ T!hex_to_digi(T!bits(b, 8 * (p + 2), 8)) \in 0 .. 99
      /\ T!hex_to_digi(T!bits(b, 8 * (p + 3), 8)) \in 0 .. 99
      /\ T!hex_to_digi(T!bits(b, 8 * (p + 4), 8)) \in 0 .. 99
  BY <1>1, <1>2, DigitsInByte
<1>6. T!time_to_tm(b, p) \in Tm
  BY <1>4, <1>5 DEF T!time_to_tm, Tm
<1>. QED
  BY <1>2, <1>6 DEF T!time_to_tm, DateOf

(* The lengths and the bytes of the block that is decoded.                 *)
LEMMA BlockHasBytes ==
  ASSUME InBlock(buf)
  PROVE  LET n == bits(buf, 12, 12) IN
         /\ P!section_length = n /\ E!section_length = n
         /\ P!BlockSize = n + 3 + Slack /\ E!BlockSize = n + 3 + Slack
         /\ n \in Nat /\ n < 4096
         /\ \A k \in 0 .. n + 10 + Slack : buf[k] \in Byte
<1>. DEFINE n == bits(buf, 12, 12)
<1>1. n \in SectionLengths /\ buf \in [0 .. n + 3 + Slack + 7 -> Byte]
  BY DEF InBlock
<1>2. n \in Nat /\ n < 4096
  <2>1. 2^12 = 4096
    OBVIOUS
  <2>. QED
    BY <1>1, <2>1 DEF SectionLengths
<1>3. P!section_length = n /\ E!section_length = n
  BY SameOperators DEF P!section_length, E!section_length
<1>4. P!BlockSize = n + 3 + Slack /\ E!BlockSize = n + 3 + Slack
  BY <1>3 DEF P!BlockSize, E!BlockSize
<1>5. n + 3 + Slack + 7 = n + 10 + Slack
  BY <1>2, LayoutAssumption
<1>. HIDE DEF n
<1>. QED
  BY <1>1, <1>2, <1>3, <1>4, <1>5 DEF n

(* A length field of twelve bits and the two fields of a stream.           *)
LEMMA FieldsAreNumbers ==
  ASSUME NEW b, NEW p \in Nat, b[p] \in Byte
  PROVE  /\ bits(b, 8 * p, 8) \in Byte
         /\ bits(b, 8 * p, 8) \in Nat
         /\ b[p + 1] \in Byte =>
              /\ bits(b, 8 * p, 16) \in Nat
              /\ bits(b, 8 * p, 16) < 65536
              /\ bits(b, 8 * p + 4, 12) \in Nat
              /\ bits(b, 8 * p + 3, 13) \in Nat
<1>1. \A u, v \in Byte :
        /\ u \in Nat
        /\ 256 * u + v \in Nat /\ 256 * u + v < 65536
        /\ 256 * (u % 16) + v \in Nat /\ 256 * (u % 32) + v \in Nat
  BY DEF Byte
<1>2. bits(b, 8 * p, 8) = b[p]
  BY Fields
<1>3. b[p + 1] \in Byte =>
        /\ bits(b, 8 * p, 16) = 256 * b[p] + b[p + 1]
        /\ bits(b, 8 * p + 4, 12) = 256 * (b[p] % 16) + b[p + 1]
        /\ bits(b, 8 * p + 3, 13) = 256 * (b[p] % 32) + b[p + 1]
  BY Fields
<1>. QED
  BY <1>1, <1>2, <1>3

PmtStates == {"pmt header", "pmt streams", "pmt done", "pmt outside"}
EitStates ==
  {"eit header", "events", "descriptors", "eit done", "refused", "eit outside",
   "eit freed"}

(* There is a block to be decoded, or none.                                *)
Decoding ==
  /\ pc \in PmtStates \cup EitStates \cup {"tot"}
  /\ pc # "tot" => InBlock(buf)

PmtStream == [stream_type : Nat, elementary_PID : Nat]
TS_PMT ==
  [program_number : Nat, PCR_PID : Nat, end_of_streams : Nat, streams : Seq(PmtStream)]

(* The decoder of the PMT reads at a byte, and remembers where to end.     *)
PmtPlaced ==
  /\ pc = "pmt header" => boff = 0
  /\ pc = "pmt streams" =>
       /\ boff \in Nat /\ boff % 8 = 0
       /\ pmt \in TS_PMT
       /\ pmt.end_of_streams = P!end_of_streams

(* Where the loop over the streams ends.                                   *)
LEMMA EndOfLoop ==
  ASSUME InBlock(buf)
  PROVE  /\ P!end_of_streams \in Nat
         /\ P!section_length >= 4 => P!end_of_streams = P!section_length - 4
<1>1. P!section_length \in Nat
  BY BlockHasBytes
<1>2. 2^30 = 1073741824
  OBVIOUS
<1>. QED
  BY <1>1, <1>2 DEF P!end_of_streams, P!Endless

(* A position behind a byte is one.                                        *)
LEMMA Aligned ==
  ASSUME NEW k \in Nat, NEW m \in Nat
  PROVE  8 * k + 8 * m \in Nat /\ (8 * k + 8 * m) % 8 = 0
OBVIOUS

(* A step of the decoder.                                                  *)
LEMMA PmtStep ==
  ASSUME Decoding, PmtPlaced, P!Next
  PROVE  /\ buf' = buf /\ pc' \in PmtStates /\ PmtPlaced'
         /\ pc = "pmt streams" /\ P!section_length >= 4 =>
              /\ pc' # "pmt outside"
              /\ pmt' # pmt =>
                   (boff \div 8) + P!StreamEntrySize <= P!section_length + 3
<1>. DEFINE n == P!section_length
<1>0. pc \in PmtStates /\ pc # "tot"
  BY DEF P!Next, P!ReadHeader, P!ReadStream, P!EndOfStreams, P!ReadOutside, PmtStates
<1>1. InBlock(buf)
  BY <1>0 DEF Decoding
<1>2. /\ n \in Nat /\ P!BlockSize = n + 3 + Slack /\ Slack \in Nat /\ Slack >= 11
      /\ \A k \in 0 .. n + 10 + Slack : buf[k] \in Byte
  BY <1>1, BlockHasBytes, LayoutAssumption
<1>3. /\ P!end_of_streams \in Nat
      /\ n >= 4 => P!end_of_streams = n - 4
  BY <1>1, EndOfLoop
<1>4. CASE P!ReadHeader
  <2>1. /\ 24 = 8 * 3 /\ 67 = 8 * 8 + 3 /\ 84 = 8 * 10 + 4
        /\ buf[3] \in Byte /\ buf[3 + 1] \in Byte /\ buf[8] \in Byte /\ buf[8 + 1] \in Byte
        /\ buf[10] \in Byte /\ buf[10 + 1] \in Byte
    BY <1>2
  <2>2. /\ P!bits(buf, 24, 16) \in Nat /\ P!bits(buf, 67, 13) \in Nat
        /\ P!bits(buf, 84, 12) \in Nat
    BY <2>1, FieldsAreNumbers, SameOperators
  <2>3. pmt' \in TS_PMT /\ pmt'.end_of_streams = P!end_of_streams
    <3>1. pmt' = [program_number |-> P!bits(buf, 24, 16),
                  PCR_PID        |-> P!bits(buf, 67, 13),
                  end_of_streams |-> P!end_of_streams,
                  streams        |-> <<>>]
      BY <1>4 DEF P!ReadHeader
    <3>2. <<>> \in Seq(PmtStream)
      OBVIOUS
    <3>. QED
      BY <1>3, <2>2, <3>1, <3>2 DEF TS_PMT
  <2>4. boff' \in Nat /\ boff' % 8 = 0
    <3>1. boff' = 8 * 12 + 8 * P!bits(buf, 84, 12)
      BY <1>4 DEF P!ReadHeader, P!HeaderSize
    <3>. QED
      BY <2>2, <3>1, Aligned
  <2>5. buf' = buf /\ pc = "pmt header" /\ pc' = "pmt streams"
    BY <1>4 DEF P!ReadHeader
  <2>6. P!end_of_streams' = P!end_of_streams
    BY <2>5, SameOperators DEF P!end_of_streams, P!section_length, P!Endless
  <2>. QED
    BY <2>3, <2>4, <2>5, <2>6 DEF PmtPlaced, PmtStates
<1>5. CASE P!ReadStream
  <2>. DEFINE q == boff \div 8
  <2>1. boff \in Nat /\ boff = 8 * q /\ q \in Nat /\ q + 5 <= n + 3 + Slack
    <3>1. boff \in Nat /\ boff % 8 = 0
      BY <1>5 DEF P!ReadStream, PmtPlaced
    <3>2. q + 5 <= P!BlockSize
      BY <1>5 DEF P!ReadStream, P!Inside, P!StreamEntrySize
    <3>. QED
      BY <1>2, <3>1, <3>2
  <2>2. /\ buf[q] \in Byte /\ buf[q + 1] \in Byte /\ buf[(q + 1) + 1] \in Byte
        /\ buf[q + 3] \in Byte /\ buf[(q + 3) + 1] \in Byte
        /\ boff + 11 = 8 * (q + 1) + 3 /\ boff + 28 = 8 * (q + 3) + 4
        /\ q + 1 \in Nat /\ q + 3 \in Nat
    BY <1>2, <2>1
  <2>. HIDE DEF q
  <2>3. /\ P!bits(buf, boff, 8) \in Nat /\ P!bits(buf, boff + 11, 13) \in Nat
        /\ P!bits(buf, boff + 28, 12) \in Nat
    BY <2>1, <2>2, FieldsAreNumbers, SameOperators
  <2>4. pmt \in TS_PMT /\ pmt.end_of_streams = P!end_of_streams
    BY <1>5 DEF P!ReadStream, PmtPlaced
  <2>5. pmt' \in TS_PMT /\ pmt'.end_of_streams = P!end_of_streams
    <3>. DEFINE s == [stream_type    |-> P!bits(buf, boff, 8),
                      elementary_PID |-> P!bits(buf, boff + 11, 13)]
    <3>1. s \in PmtStream
      BY <2>3 DEF PmtStream
    <3>2. pmt' = [pmt EXCEPT !.streams = Append(pmt.streams, s)]
      BY <1>5 DEF P!ReadStream
    <3>. HIDE DEF s
    <3>3. Append(pmt.streams, s) \in Seq(PmtStream)
      BY <2>4, <3>1 DEF TS_PMT
    <3>. QED
      BY <2>4, <3>2, <3>3 DEF TS_PMT
  <2>6. boff' \in Nat /\ boff' % 8 = 0
    <3>1. boff' = boff + 8 * 5 + 8 * P!bits(buf, boff + 28, 12)
      BY <1>5 DEF P!ReadStream, P!StreamEntrySize, P!SkipInfo
    <3>2. boff' = 8 * (q + 5) + 8 * P!bits(buf, boff + 28, 12)
      BY <2>1, <2>3, <3>1
    <3>. QED
      BY <2>1, <2>3, <3>2, Aligned
  <2>7. /\ buf' = buf /\ pc = "pmt streams" /\ pc' = "pmt streams"
        /\ boff \div 8 < pmt.end_of_streams
    BY <1>5 DEF P!ReadStream
  <2>8. P!end_of_streams' = P!end_of_streams
    BY <2>7, SameOperators DEF P!end_of_streams, P!section_length, P!Endless
  <2>9. n >= 4 => (boff \div 8) + P!StreamEntrySize <= n + 3
    <3>1. (boff \div 8) + P!StreamEntrySize = q + 5 /\ boff \div 8 = q
      BY <2>1 DEF P!StreamEntrySize, q
    <3>2. q < P!end_of_streams
      BY <2>4, <2>7, <3>1
    <3>. HIDE DEF n
    <3>3. n >= 4 => q + 5 <= n + 3
      BY <1>2, <1>3, <2>1, <3>2
    <3>. QED
      BY <3>1, <3>3
  <2>. QED
    BY <2>5, <2>6, <2>7, <2>8, <2>9 DEF PmtPlaced, PmtStates
<1>6. CASE P!EndOfStreams
  BY <1>6 DEF P!EndOfStreams, PmtPlaced, PmtStates
<1>7. CASE P!ReadOutside
  <2>. DEFINE q == boff \div 8
  <2>1. ~(n >= 4)
    <3>1. q \in Nat /\ q < P!end_of_streams /\ ~(q + 5 <= P!BlockSize)
      <4>1. /\ boff \in Nat /\ pmt.end_of_streams = P!end_of_streams
            /\ q < pmt.end_of_streams
        BY <1>7 DEF P!ReadOutside, PmtPlaced
      <4>2. ~(q + 5 <= P!BlockSize)
        BY <1>7 DEF P!ReadOutside, P!Inside, P!StreamEntrySize
      <4>. QED
        BY <4>1, <4>2
    <3>. HIDE DEF q, n
    <3>. QED
      BY <1>2, <1>3, <3>1
  <2>. QED
    BY <1>7, <2>1 DEF P!ReadOutside, PmtPlaced, PmtStates
<1>. QED
  BY <1>4, <1>5, <1>6, <1>7 DEF P!Next

Descriptor == [descriptor_tag : Byte, descriptor_length : Byte]
EitEvent ==
  [event_id : Nat, start_time_tm : Tm, duration_sec : Nat,
   descriotors_loop_length : Nat, desc : Seq(Descriptor)]

(* The types of what the decoder of the EIT keeps, and its two limits.     *)
EitTypeOK ==
  pc \in EitStates =>
    /\ boff \in Nat /\ boff % 8 = 0
    /\ loaded \in Nat /\ loaded_desc \in Nat
    /\ events \in Seq(EitEvent) /\ Len(events) <= MAX_EVENTS
    /\ \A k \in DOMAIN events : Len(events[k].desc) <= MAX_DESC
    /\ pc = "descriptors" =>
         /\ curr_ev \in EitEvent /\ Len(curr_ev.desc) <= MAX_DESC
         /\ Len(events) < MAX_EVENTS

(* A block that lies behind byte q can be read there.                      *)
LEMMA ReadInside ==
  ASSUME InBlock(buf), NEW size \in 2 .. 12,
         boff \in Nat, boff % 8 = 0, E!Inside(size)
  PROVE  /\ boff = 8 * (boff \div 8) /\ boff \div 8 \in Nat
         /\ \A k \in 0 .. size - 1 : buf[(boff \div 8) + k] \in Byte
<1>. DEFINE n == bits(buf, 12, 12)
            q == boff \div 8
<1>1. /\ n \in Nat /\ E!BlockSize = n + 3 + Slack
      /\ \A k \in 0 .. n + 10 + Slack : buf[k] \in Byte
  BY BlockHasBytes
<1>2. q + size <= E!BlockSize
  BY DEF E!Inside
<1>3. boff = 8 * q /\ q \in Nat
  OBVIOUS
<1>. HIDE DEF n, q
<1>4. \A k \in 0 .. size - 1 : q + k \in 0 .. n + 10 + Slack
  BY <1>1, <1>2, <1>3, LayoutAssumption
<1>5. \A k \in 0 .. size - 1 : buf[q + k] \in Byte
  BY <1>1, <1>4
<1>. QED
  BY <1>3, <1>5 DEF q

(* An event is read from twelve bytes.                                     *)
LEMMA EventOfBytes ==
  ASSUME InBlock(buf), boff \in Nat, boff % 8 = 0, E!Inside(E!EventSize)
  PROVE  E!EventRead \in EitEvent /\ E!EventRead.desc = <<>>
<1>. DEFINE q == boff \div 8
            start == E!time_to_tm(buf, (boff + 16) \div 8)
            seconds == E!Seconds(boff + 56)
            id == E!bits(buf, boff, 16)
            length == E!bits(buf, boff + 84, 12)
<1>1. boff = 8 * q /\ q \in Nat /\ \A k \in 0 .. 11 : buf[q + k] \in Byte
  BY ReadInside DEF E!EventSize
<1>. HIDE DEF q
<1>2. /\ buf[q] \in Byte /\ buf[q + 1] \in Byte
      /\ \A k \in 0 .. 4 : buf[(q + 2) + k] \in Byte
      /\ buf[q + 7] \in Byte /\ buf[q + 8] \in Byte /\ buf[q + 9] \in Byte
      /\ buf[q + 10] \in Byte /\ buf[(q + 10) + 1] \in Byte
  <2>1. \A k \in 0 .. 4 : (q + 2) + k = q + (k + 2) /\ k + 2 \in 0 .. 11
    BY <1>1
  <2>2. q + 0 = q /\ (q + 10) + 1 = q + 11
    BY <1>1
  <2>. QED
    BY <1>1, <2>1, <2>2
<1>3. /\ (boff + 16) \div 8 = q + 2 /\ boff + 56 = 8 * (q + 7)
      /\ (boff + 56) + 8 = 8 * (q + 8) /\ (boff + 56) + 16 = 8 * (q + 9)
      /\ boff + 84 = 8 * (q + 10) + 4
      /\ q + 2 \in Nat /\ q + 7 \in Nat /\ q + 8 \in Nat /\ q + 9 \in Nat /\ q + 10 \in Nat
  BY <1>1
<1>4. start \in Tm
  <2>1. T!time_to_tm(buf, q + 2) \in Tm
    BY <1>2, <1>3, TimeOfBytes
  <2>. QED
    BY <1>3, <2>1, SameDates
<1>5. id \in Nat /\ length \in Nat
  BY <1>1, <1>2, <1>3, FieldsAreNumbers, SameOperators
<1>6. seconds \in Nat
  <2>1. /\ E!bits(buf, boff + 56, 8) \in Byte
        /\ E!bits(buf, (boff + 56) + 8, 8) \in Byte
        /\ E!bits(buf, (boff + 56) + 16, 8) \in Byte
    BY <1>2, <1>3, FieldsAreNumbers, SameOperators
  <2>2. /\ E!hex_to_digi(E!bits(buf, boff + 56, 8)) \in Nat
        /\ E!hex_to_digi(E!bits(buf, (boff + 56) + 8, 8)) \in Nat
        /\ E!hex_to_digi(E!bits(buf, (boff + 56) + 16, 8)) \in Nat
    <3>1. \A x \in Byte : E!hex_to_digi(x) \in Nat
      BY DigitsInByte, SameDates
    <3>. QED
      BY <2>1, <3>1
  <2>. QED
    BY <2>2 DEF E!Seconds
<1>7. E!EventRead = [event_id |-> id, start_time_tm |-> start, duration_sec |-> seconds,
                     descriotors_loop_length |-> length, desc |-> <<>>]
  BY DEF E!EventRead
<1>. HIDE DEF id, start, seconds, length
<1>8. <<>> \in Seq(Descriptor)
  OBVIOUS
<1>. QED
  BY <1>4, <1>5, <1>6, <1>7, <1>8 DEF EitEvent

(* A descriptor has two bytes, and an event one more.                      *)
DescriptorHere ==
  [descriptor_tag |-> E!bits(buf, boff, 8), descriptor_length |-> E!DescriptorLength]

(* It is read from two bytes of the block.                                 *)
LEMMA DescriptorOfBytes ==
  ASSUME InBlock(buf), boff \in Nat, boff % 8 = 0, E!Inside(E!DescriptorSize)
  PROVE  /\ E!DescriptorLength \in Byte /\ E!DescriptorLength \in Nat
         /\ DescriptorHere \in Descriptor
<1>. DEFINE q == boff \div 8
<1>1. boff = 8 * q /\ q \in Nat /\ \A k \in 0 .. 1 : buf[q + k] \in Byte
  BY ReadInside DEF E!DescriptorSize
<1>. HIDE DEF q
<1>2. /\ buf[q] \in Byte /\ buf[q + 1] \in Byte /\ q + 1 \in Nat
      /\ boff + 8 = 8 * (q + 1)
  <2>1. q + 0 = q
    BY <1>1
  <2>. QED
    BY <1>1, <2>1
<1>3. /\ E!bits(buf, boff, 8) \in Byte
      /\ E!bits(buf, boff + 8, 8) \in Byte /\ E!bits(buf, boff + 8, 8) \in Nat
  BY <1>1, <1>2, FieldsAreNumbers, SameOperators
<1>. QED
  BY <1>3 DEF DescriptorHere, Descriptor, E!DescriptorLength

(* The constants that the decoder of the EIT is bounded by.                *)
LEMMA Limits == MAX_EVENTS \in Nat \ {0} /\ MAX_DESC \in Nat \ {0}
BY DecodersAssumption

(* Where the decoder of the EIT is, and that its block stays.              *)
LEMMA EitStepStates ==
  ASSUME Decoding, E!Next
  PROVE  pc \in EitStates /\ pc' \in EitStates /\ buf' = buf /\ InBlock(buf)
<1>1. pc \in EitStates /\ pc # "tot" /\ pc' \in EitStates /\ buf' = buf
  BY DEF E!Next, E!ReadHeader, E!ReadEvent, E!EndOfEvents, E!ReadDescriptor, E!LinkEvent,
         E!ReadOutside, E!FreeEit, E!Unread, E!here, EitStates
<1>. QED
  BY <1>1 DEF Decoding

(* A sequence with one element more.                                       *)
LEMMA OneMore ==
  ASSUME NEW S, NEW s \in Seq(S), NEW x \in S
  PROVE  /\ Append(s, x) \in Seq(S) /\ Len(s) \in Nat
         /\ Len(Append(s, x)) = Len(s) + 1
         /\ DOMAIN s = 1 .. Len(s) /\ DOMAIN Append(s, x) = 1 .. Len(s) + 1
         /\ \A k \in 1 .. Len(s) : Append(s, x)[k] = s[k]
         /\ Append(s, x)[Len(s) + 1] = x
OBVIOUS

(* A step keeps the types.                                                 *)
LEMMA EitTypeStep ==
  ASSUME Decoding, EitTypeOK, E!Next
  PROVE  EitTypeOK'
<1>0. /\ pc \in EitStates /\ InBlock(buf)
      /\ boff \in Nat /\ boff % 8 = 0
      /\ loaded \in Nat /\ loaded_desc \in Nat
      /\ events \in Seq(EitEvent) /\ Len(events) <= MAX_EVENTS
      /\ \A k \in DOMAIN events : Len(events[k].desc) <= MAX_DESC
      /\ pc = "descriptors" =>
           /\ curr_ev \in EitEvent /\ Len(curr_ev.desc) <= MAX_DESC
           /\ Len(events) < MAX_EVENTS
      /\ MAX_DESC \in Nat \ {0} /\ MAX_EVENTS \in Nat \ {0}
      /\ Len(events) \in Nat
  BY EitStepStates, Limits DEF EitTypeOK
<1>1. CASE E!ReadHeader
  <2>1. boff' = 112 /\ loaded' = 16 /\ pc' # "descriptors"
    <3>1. boff' = 8 * 14 /\ loaded' = 11 + 5
      BY <1>1 DEF E!ReadHeader, E!HeaderSize, E!LoadedAtFirst
    <3>2. pc' = "events" \/ pc' = "refused"
      BY <1>1 DEF E!ReadHeader
    <3>. QED
      BY <3>1, <3>2
  <2>2. loaded_desc' = loaded_desc /\ events' = events
    BY <1>1 DEF E!ReadHeader
  <2>. QED
    BY <1>0, <2>1, <2>2 DEF EitTypeOK
<1>2. CASE E!ReadEvent
  <2>1. E!EventRead \in EitEvent /\ E!EventRead.desc = <<>>
    BY <1>0, <1>2, EventOfBytes DEF E!ReadEvent
  <2>2. boff' \in Nat /\ boff' % 8 = 0
    <3>1. boff' = boff + 8 * 12
      BY <1>2 DEF E!ReadEvent, E!EventSize
    <3>. QED
      BY <1>0, <3>1
  <2>3. /\ pc' = "descriptors" => curr_ev' = E!EventRead /\ loaded_desc' = 0
        /\ pc' # "descriptors" => loaded_desc' = loaded_desc
        /\ loaded' = loaded /\ events' = events /\ Len(events) < MAX_EVENTS
    BY <1>2 DEF E!ReadEvent, E!MoreEvents
  <2>4. Len(E!EventRead.desc) <= MAX_DESC
    <3>1. Len(<<>>) = 0
      OBVIOUS
    <3>. QED
      BY <1>0, <2>1, <3>1
  <2>5. CASE pc' = "descriptors"
    <3>1. curr_ev' \in EitEvent /\ Len(curr_ev'.desc) <= MAX_DESC /\ loaded_desc' \in Nat
      BY <2>1, <2>3, <2>4, <2>5
    <3>. QED
      BY <1>0, <2>2, <2>3, <3>1 DEF EitTypeOK
  <2>6. CASE pc' # "descriptors"
    BY <1>0, <2>2, <2>3, <2>6 DEF EitTypeOK
  <2>. QED
    BY <2>5, <2>6
<1>3. CASE E!EndOfEvents
  BY <1>0, <1>3 DEF E!EndOfEvents, E!here, EitTypeOK
<1>4. CASE E!ReadDescriptor
  <2>1. /\ boff \in Nat /\ boff % 8 = 0 /\ E!Inside(E!DescriptorSize)
        /\ pc = "descriptors" /\ pc' = pc
    BY <1>0, <1>4 DEF E!ReadDescriptor
  <2>2. E!DescriptorLength \in Nat /\ DescriptorHere \in Descriptor
    BY <1>0, <2>1, DescriptorOfBytes
  <2>3. boff' \in Nat /\ boff' % 8 = 0
    <3>1. boff' = boff + 8 * (2 + E!DescriptorLength)
      BY <1>4 DEF E!ReadDescriptor, E!DescriptorSize
    <3>2. boff = 8 * (boff \div 8) /\ boff \div 8 \in Nat /\ 2 + E!DescriptorLength \in Nat
      BY <2>1, <2>2
    <3>. QED
      BY <3>1, <3>2, Aligned
  <2>4. /\ curr_ev \in EitEvent
        /\ curr_ev' = [curr_ev EXCEPT !.desc = Append(curr_ev.desc, DescriptorHere)]
    BY <1>0, <1>4, <2>1 DEF E!ReadDescriptor, DescriptorHere
  <2>5. curr_ev' \in EitEvent /\ Len(curr_ev'.desc) = Len(curr_ev.desc) + 1
    <3>1. curr_ev.desc \in Seq(Descriptor)
      BY <2>4 DEF EitEvent
    <3>2. /\ Append(curr_ev.desc, DescriptorHere) \in Seq(Descriptor)
          /\ Len(Append(curr_ev.desc, DescriptorHere)) = Len(curr_ev.desc) + 1
      BY <2>2, <3>1, OneMore
    <3>3. curr_ev'.desc = Append(curr_ev.desc, DescriptorHere)
      BY <2>4 DEF EitEvent
    <3>4. curr_ev' \in EitEvent
      BY <2>4, <3>2 DEF EitEvent
    <3>. QED
      BY <3>2, <3>3, <3>4
  <2>6. Len(curr_ev.desc) < MAX_DESC /\ Len(curr_ev.desc) \in Nat
    <3>1. curr_ev.desc \in Seq(Descriptor)
      BY <2>4 DEF EitEvent
    <3>. QED
      BY <1>4, <3>1 DEF E!ReadDescriptor, E!MoreDescriptors
  <2>7. loaded_desc' \in Nat
    BY <1>0, <1>4, <2>2 DEF E!ReadDescriptor, E!DescriptorSize
  <2>8. events' = events /\ loaded' = loaded
    BY <1>4 DEF E!ReadDescriptor
  <2>9. Len(curr_ev'.desc) <= MAX_DESC
    BY <1>0, <2>5, <2>6
  <2>. QED
    BY <1>0, <2>1, <2>3, <2>5, <2>7, <2>8, <2>9 DEF EitTypeOK
<1>5. CASE E!LinkEvent
  <2>1. /\ pc = "descriptors" /\ pc' = "events" /\ events' = Append(events, curr_ev)
        /\ boff' = boff /\ loaded_desc' = loaded_desc
        /\ loaded' = loaded + 12 + curr_ev.descriotors_loop_length
    BY <1>5 DEF E!LinkEvent, E!LoadedAfter, E!EventSize
  <2>2. /\ curr_ev \in EitEvent /\ Len(curr_ev.desc) <= MAX_DESC
        /\ Len(events) < MAX_EVENTS /\ events \in Seq(EitEvent)
        /\ \A k \in DOMAIN events : Len(events[k].desc) <= MAX_DESC
    BY <1>0, <2>1
  <2>3. loaded' \in Nat
    BY <1>0, <2>1, <2>2 DEF EitEvent
  <2>4. events' \in Seq(EitEvent) /\ Len(events') <= MAX_EVENTS
    BY <1>0, <2>1, <2>2, OneMore
  <2>5. \A k \in DOMAIN events' : Len(events'[k].desc) <= MAX_DESC
    BY <2>1, <2>2, OneMore
  <2>. QED
    BY <1>0, <2>1, <2>3, <2>4, <2>5 DEF EitTypeOK
<1>6. CASE E!ReadOutside
  BY <1>0, <1>6 DEF E!ReadOutside, E!here, EitTypeOK
<1>7. CASE E!FreeEit
  BY <1>0, <1>7 DEF E!FreeEit, EitTypeOK
<1>. QED
  BY <1>1, <1>2, <1>3, <1>4, <1>5, <1>6, <1>7 DEF E!Next

(* What was counted of an event.                                           *)
LEMMA CountedDescriptors ==
  ASSUME NEW e, NEW x \in Descriptor, e.desc \in Seq(Descriptor), NEW f,
         f.desc = Append(e.desc, x)
  PROVE  /\ E!DescriptorsRead(e) \in Nat
         /\ E!DescriptorsRead(f) = E!DescriptorsRead(e) + 2 + x.descriptor_length
<1>. DEFINE n == Len(e.desc)
            s == [k \in DOMAIN e.desc |-> 2 + e.desc[k].descriptor_length]
            t == [k \in DOMAIN f.desc |-> 2 + f.desc[k].descriptor_length]
<1>1. /\ n \in Nat /\ DOMAIN e.desc = 1 .. n /\ DOMAIN f.desc = 1 .. n + 1
      /\ \A k \in 1 .. n : f.desc[k] = e.desc[k]
      /\ f.desc[n + 1] = x
  BY OneMore
<1>2. E!DescriptorsRead(e) = SumOf(s) /\ E!DescriptorsRead(f) = SumOf(t)
  BY SameOperators DEF E!DescriptorsRead, E!DescriptorSize
<1>3. \A k \in 1 .. n : e.desc[k] \in Descriptor
  BY <1>1
<1>4. x.descriptor_length \in Nat /\ \A k \in 1 .. n : e.desc[k].descriptor_length \in Nat
  <2>1. \A d \in Descriptor : d.descriptor_length \in Nat
    <3>1. \A d \in Descriptor : d.descriptor_length \in Byte
      BY DEF Descriptor
    <3>2. \A b \in Byte : b \in Nat
      BY DEF Byte
    <3>. QED
      BY <3>1, <3>2
  <2>. HIDE DEF n
  <2>. QED
    BY <1>3, <2>1
<1>5. \A k \in 1 .. n : s[k] \in Nat /\ t[k] = s[k]
  BY <1>1, <1>4
<1>6. t[n + 1] = 2 + x.descriptor_length
  BY <1>1
<1>7. DOMAIN s = 1 .. n /\ DOMAIN t = 1 .. n + 1
  BY <1>1
<1>. HIDE DEF s, t, n
<1>8. t[n + 1] \in Nat
  BY <1>4, <1>6
<1>9. SumOf(s) \in Nat /\ SumOf(t) = SumOf(s) + t[n + 1]
  BY <1>1, <1>5, <1>7, <1>8, SumGrows
<1>10. SumOf(s) + (2 + x.descriptor_length) = SumOf(s) + 2 + x.descriptor_length
  <2>1. \A a, d \in Nat : a + (2 + d) = a + 2 + d
    OBVIOUS
  <2>. QED
    BY <1>4, <1>9, <2>1
<1>. QED
  BY <1>2, <1>6, <1>9, <1>10

(* Nothing was counted of an event without descriptors.                    *)
LEMMA NothingCounted == ASSUME NEW e, e.desc = <<>> PROVE E!DescriptorsRead(e) = 0
<1>1. DOMAIN [k \in DOMAIN e.desc |-> E!DescriptorSize + e.desc[k].descriptor_length] = {}
  OBVIOUS
<1>. QED
  BY <1>1, SumOfNothing, SameOperators DEF E!DescriptorsRead

(* An event was cut short.                                                 *)
Cut(evs) ==
  \E k \in DOMAIN evs :
    \/ E!DescriptorsRead(evs[k]) > evs[k].descriotors_loop_length
    \/ Len(evs[k].desc) = MAX_DESC

(* The bytes counted of an event are those behind its header.              *)
EitInPlace ==
  /\ pc = "events" => boff = 8 * (loaded - 2) \/ Cut(events)
  /\ pc = "descriptors" =>
       /\ loaded_desc = E!DescriptorsRead(curr_ev)
       /\ boff = 8 * (loaded + 10 + loaded_desc) \/ Cut(events)

(* A step keeps the place.                                                 *)
LEMMA EitPlaceStep ==
  ASSUME Decoding, EitTypeOK, EitInPlace, E!Next
  PROVE  EitInPlace'
<1>0. /\ pc \in EitStates /\ InBlock(buf)
      /\ boff \in Nat /\ boff % 8 = 0
      /\ loaded \in Nat /\ loaded_desc \in Nat
      /\ events \in Seq(EitEvent)
      /\ pc = "descriptors" => curr_ev \in EitEvent /\ Len(curr_ev.desc) <= MAX_DESC
      /\ MAX_DESC \in Nat \ {0}
  BY EitStepStates, Limits DEF EitTypeOK
<1>1. CASE E!ReadHeader
  <2>1. boff' = 8 * 14 /\ loaded' = 11 + 5
    BY <1>1 DEF E!ReadHeader, E!HeaderSize, E!LoadedAtFirst
  <2>2. pc' \in {"events", "refused"}
    BY <1>1 DEF E!ReadHeader
  <2>3. boff' = 8 * (loaded' - 2)
    BY <2>1
  <2>. QED
    BY <2>2, <2>3 DEF EitInPlace
<1>2. CASE E!ReadEvent
  <2>1. /\ pc = "events" /\ boff' = boff + 8 * 12 /\ loaded' = loaded /\ events' = events
        /\ pc' \in {"descriptors", "eit done"}
        /\ pc' = "descriptors" => curr_ev' = E!EventRead /\ loaded_desc' = 0
    BY <1>2 DEF E!ReadEvent, E!EventSize
  <2>2. E!EventRead.desc = <<>>
    BY <1>0, <1>2, EventOfBytes DEF E!ReadEvent
  <2>3. E!DescriptorsRead(E!EventRead) = 0
    BY <2>2, NothingCounted
  <2>4. boff = 8 * (loaded - 2) \/ Cut(events)
    BY <2>1 DEF EitInPlace
  <2>5. boff = 8 * (loaded - 2) => boff' = 8 * (loaded' + 10 + 0)
    <3>1. loaded \in Nat /\ boff \in Nat /\ boff' = boff + 8 * 12 /\ loaded' = loaded
      BY <1>0, <2>1
    <3>. QED
      BY <3>1
  <2>6. CASE pc' = "descriptors"
    BY <2>1, <2>3, <2>4, <2>5, <2>6 DEF EitInPlace
  <2>7. CASE pc' = "eit done"
    BY <2>7 DEF EitInPlace
  <2>. QED
    BY <2>1, <2>6, <2>7
<1>3. CASE E!EndOfEvents
  BY <1>3 DEF E!EndOfEvents, EitInPlace
<1>4. CASE E!ReadDescriptor
  <2>1. /\ pc = "descriptors" /\ pc' = pc /\ loaded' = loaded /\ events' = events
        /\ E!Inside(E!DescriptorSize)
        /\ boff' = boff + 8 * (2 + E!DescriptorLength)
        /\ loaded_desc' = loaded_desc + 2 + E!DescriptorLength
        /\ curr_ev' = [curr_ev EXCEPT !.desc = Append(curr_ev.desc, DescriptorHere)]
    BY <1>4 DEF E!ReadDescriptor, E!DescriptorSize, DescriptorHere
  <2>2. E!DescriptorLength \in Nat /\ DescriptorHere \in Descriptor
    BY <1>0, <2>1, DescriptorOfBytes
  <2>3. /\ curr_ev.desc \in Seq(Descriptor)
        /\ curr_ev'.desc = Append(curr_ev.desc, DescriptorHere)
    BY <1>0, <2>1 DEF EitEvent
  <2>4. DescriptorHere.descriptor_length = E!DescriptorLength
    BY DEF DescriptorHere
  <2>5. E!DescriptorsRead(curr_ev') = E!DescriptorsRead(curr_ev) + 2 + E!DescriptorLength
    BY <2>2, <2>3, <2>4, CountedDescriptors
  <2>6. /\ loaded_desc = E!DescriptorsRead(curr_ev)
        /\ boff = 8 * (loaded + 10 + loaded_desc) \/ Cut(events)
    BY <2>1 DEF EitInPlace
  <2>7. boff = 8 * (loaded + 10 + loaded_desc) => boff' = 8 * (loaded' + 10 + loaded_desc')
    BY <1>0, <2>1, <2>2
  <2>8. loaded_desc' = E!DescriptorsRead(curr_ev')
    BY <2>1, <2>5, <2>6
  <2>. QED
    BY <2>1, <2>6, <2>7, <2>8 DEF EitInPlace
<1>5. CASE E!LinkEvent
  <2>. DEFINE n == Len(events)
              length == curr_ev.descriotors_loop_length
              read == E!DescriptorsRead(curr_ev)
  <2>1. /\ pc = "descriptors" /\ pc' = "events" /\ events' = Append(events, curr_ev)
        /\ boff' = boff /\ loaded' = loaded + 12 + length
        /\ ~(Len(curr_ev.desc) < MAX_DESC /\ loaded_desc < length)
    BY <1>5 DEF E!LinkEvent, E!LoadedAfter, E!EventSize, E!MoreDescriptors
  <2>2. /\ curr_ev \in EitEvent /\ Len(curr_ev.desc) <= MAX_DESC /\ Len(curr_ev.desc) \in Nat
        /\ length \in Nat
    BY <1>0, <2>1 DEF EitEvent
  <2>3. /\ n \in Nat /\ DOMAIN events = 1 .. n /\ DOMAIN events' = 1 .. n + 1
        /\ \A k \in 1 .. n : events'[k] = events[k]
        /\ events'[n + 1] = curr_ev
    BY <1>0, <2>1, <2>2, OneMore
  <2>4. loaded_desc = read /\ (boff = 8 * (loaded + 10 + loaded_desc) \/ Cut(events))
    BY <2>1 DEF EitInPlace
  <2>5. Cut(events) => Cut(events')
    BY <2>3 DEF Cut
  <2>6. Len(curr_ev.desc) = MAX_DESC \/ loaded_desc > length \/ loaded_desc = length
    BY <1>0, <2>1, <2>2
  <2>7. Len(curr_ev.desc) = MAX_DESC \/ read > length => Cut(events')
    <3>1. n + 1 \in DOMAIN events'
      BY <2>3
    <3>. QED
      BY <2>3, <3>1 DEF Cut
  <2>8. loaded_desc = length /\ boff = 8 * (loaded + 10 + loaded_desc) =>
          boff' = 8 * (loaded' - 2)
    <3>1. /\ loaded \in Nat /\ length \in Nat /\ boff' = boff
          /\ loaded' = loaded + 12 + length
      BY <1>0, <2>1, <2>2
    <3>. HIDE DEF length
    <3>. QED
      BY <3>1
  <2>9. boff' = 8 * (loaded' - 2) \/ Cut(events')
    BY <2>4, <2>5, <2>6, <2>7, <2>8
  <2>. QED
    BY <2>1, <2>9 DEF EitInPlace
<1>6. CASE E!ReadOutside
  BY <1>6 DEF E!ReadOutside, EitInPlace
<1>7. CASE E!FreeEit
  BY <1>7 DEF E!FreeEit, EitInPlace
<1>. QED
  BY <1>1, <1>2, <1>3, <1>4, <1>5, <1>6, <1>7 DEF E!Next

(* What is allocated for an event and for the events of the list, and for  *)
(* one that was found to be wrong.                                         *)
OfEvent(e) == 1 + Len(e.desc)
OfEvents(evs) == SumOf([k \in DOMAIN evs |-> OfEvent(evs[k])])
OfWrongEvent ==
  IF boff > 112 /\ loaded < E!section_length /\ Len(events) < MAX_EVENTS THEN 1 ELSE 0

(* What st_eit allocated and free_eit has not freed.                       *)
Allocated ==
  /\ pc = "eit header" => events = <<>> /\ allocated = 0
  /\ pc = "events" => boff >= 112 /\ allocated = OfEvents(events)
  /\ pc = "descriptors" => boff >= 112 /\ allocated = OfEvents(events) + OfEvent(curr_ev)
  /\ pc \in {"eit done", "refused"} => allocated = OfEvents(events) + OfWrongEvent
  /\ pc = "eit freed" => allocated = OfWrongEvent

(* The elements of a list are counted one by one.                          *)
LEMMA OneEventMore ==
  ASSUME NEW evs \in Seq(EitEvent), NEW e \in EitEvent
  PROVE  /\ OfEvents(evs) \in Nat /\ OfEvent(e) \in Nat
         /\ OfEvents(Append(evs, e)) = OfEvents(evs) + OfEvent(e)
<1>. DEFINE n == Len(evs)
            s == [k \in DOMAIN evs |-> OfEvent(evs[k])]
            more == Append(evs, e)
            t == [k \in DOMAIN more |-> OfEvent(more[k])]
<1>1. /\ n \in Nat /\ DOMAIN evs = 1 .. n /\ DOMAIN more = 1 .. n + 1
      /\ \A k \in 1 .. n : more[k] = evs[k] /\ evs[k] \in EitEvent
      /\ more[n + 1] = e
  BY OneMore
<1>2. \A x \in EitEvent : OfEvent(x) \in Nat
  <2>1. \A x \in EitEvent : x.desc \in Seq(Descriptor)
    BY DEF EitEvent
  <2>2. \A x \in EitEvent : Len(x.desc) \in Nat
    BY <2>1
  <2>. QED
    BY <2>2 DEF OfEvent
<1>. HIDE DEF more, n
<1>3. DOMAIN s = 1 .. n /\ DOMAIN t = 1 .. n + 1 /\ t[n + 1] = OfEvent(e)
  BY <1>1
<1>4. \A k \in 1 .. n : s[k] \in Nat /\ t[k] = s[k]
  BY <1>1, <1>2
<1>5. OfEvents(evs) = SumOf(s) /\ OfEvents(more) = SumOf(t)
  BY DEF OfEvents
<1>. HIDE DEF s, t
<1>. QED
  BY <1>1, <1>2, <1>3, <1>4, <1>5, SumGrows DEF more

(* Nothing is allocated for an empty list.                                 *)
LEMMA NoEvents == OfEvents(<<>>) = 0
<1>1. DOMAIN [k \in DOMAIN <<>> |-> OfEvent(<<>>[k])] = {}
  OBVIOUS
<1>. QED
  BY <1>1, SumOfNothing DEF OfEvents

(* Within the limits every element of the list is freed.                   *)
LEMMA AllEventsFreed ==
  ASSUME events \in Seq(EitEvent), Len(events) <= MAX_EVENTS,
         \A k \in DOMAIN events : Len(events[k].desc) <= MAX_DESC
  PROVE  E!Freed = OfEvents(events)
<1>. DEFINE n == Len(events)
            s == [k \in DOMAIN events |-> OfEvent(events[k])]
            t == [k \in 1 .. E!Least(n, E!FreeLimit) |->
                    1 + E!Least(Len(events[k].desc), MAX_DESC)]
<1>1. n \in Nat /\ DOMAIN events = 1 .. n /\ MAX_EVENTS \in Nat /\ MAX_DESC \in Nat
  BY Limits
<1>2. E!Least(n, E!FreeLimit) = n
  <2>1. n <= MAX_EVENTS /\ E!FreeLimit = MAX_EVENTS
    BY DEF E!FreeLimit
  <2>2. \A m \in Nat : m <= MAX_EVENTS => E!Least(m, MAX_EVENTS) = m
    BY <1>1 DEF E!Least
  <2>. HIDE DEF n
  <2>. QED
    BY <1>1, <2>1, <2>2
<1>3. \A k \in 1 .. n : E!Least(Len(events[k].desc), MAX_DESC) = Len(events[k].desc)
  <2>1. \A k \in 1 .. n : Len(events[k].desc) \in Nat
    <3>1. \A k \in 1 .. n : events[k] \in EitEvent
      BY <1>1
    <3>2. \A k \in 1 .. n : events[k].desc \in Seq(Descriptor)
      BY <3>1 DEF EitEvent
    <3>. QED
      BY <3>2
  <2>2. \A k \in 1 .. n : Len(events[k].desc) <= MAX_DESC
    BY <1>1
  <2>3. \A m \in Nat : m <= MAX_DESC => E!Least(m, MAX_DESC) = m
    BY <1>1 DEF E!Least
  <2>. QED
    BY <2>1, <2>2, <2>3
<1>4. s = t
  BY <1>1, <1>2, <1>3 DEF OfEvent
<1>5. E!Freed = E!SumOf(t) /\ OfEvents(events) = SumOf(s)
  BY DEF E!Freed, OfEvents
<1>. HIDE DEF s, t
<1>. QED
  BY <1>4, <1>5, SameOperators

(* A sum is a number.                                                      *)
LEMMA EventsAreCounted ==
  ASSUME NEW evs \in Seq(EitEvent) PROVE OfEvents(evs) \in Nat
<1>. DEFINE n == Len(evs)
            s == [k \in DOMAIN evs |-> OfEvent(evs[k])]
            t == [k \in 1 .. n + 1 |-> IF k \in 1 .. n THEN s[k] ELSE 0]
<1>1. n \in Nat /\ DOMAIN s = 1 .. n
  OBVIOUS
<1>2. \A k \in 1 .. n : s[k] \in Nat
  <2>1. \A k \in 1 .. n : evs[k] \in EitEvent
    OBVIOUS
  <2>2. \A k \in 1 .. n : evs[k].desc \in Seq(Descriptor)
    BY <2>1 DEF EitEvent
  <2>3. \A k \in 1 .. n : Len(evs[k].desc) \in Nat
    BY <2>2
  <2>. QED
    BY <1>1, <2>3 DEF OfEvent
<1>3. OfEvents(evs) = SumOf(s)
  BY DEF OfEvents
<1>. HIDE DEF s, n
<1>4. DOMAIN t = 1 .. n + 1 /\ t[n + 1] = 0 /\ \A k \in 1 .. n : t[k] = s[k]
  BY <1>1
<1>. HIDE DEF t
<1>. QED
  BY <1>1, <1>2, <1>3, <1>4, SumGrows

(* A step keeps account of what is allocated.                              *)
LEMMA AllocatedStep ==
  ASSUME Decoding, EitTypeOK, Allocated, E!Next
  PROVE  Allocated'
<1>. DEFINE size == E!section_length
<1>0. /\ pc \in EitStates /\ InBlock(buf) /\ buf' = buf
      /\ boff \in Nat /\ boff % 8 = 0
      /\ loaded \in Nat
      /\ events \in Seq(EitEvent) /\ Len(events) <= MAX_EVENTS /\ Len(events) \in Nat
      /\ \A k \in DOMAIN events : Len(events[k].desc) <= MAX_DESC
      /\ pc = "descriptors" => curr_ev \in EitEvent
      /\ OfEvents(events) \in Nat
      /\ MAX_EVENTS \in Nat
  BY EitStepStates, Limits, EventsAreCounted DEF EitTypeOK
<1>n. boff \in Nat /\ OfEvents(events) \in Nat
  BY <1>0
<1>s. size' = size /\ size \in Nat
  BY <1>0, BlockHasBytes DEF E!section_length
<1>. HIDE DEF size
<1>l. /\ OfWrongEvent =
           IF boff > 112 /\ loaded < size /\ Len(events) < MAX_EVENTS THEN 1 ELSE 0
      /\ OfWrongEvent' =
           IF boff' > 112 /\ loaded' < size' /\ Len(events') < MAX_EVENTS THEN 1 ELSE 0
  BY DEF OfWrongEvent, size
<1>1. CASE E!ReadHeader
  <2>1. boff' = 112
    <3>1. boff' = 8 * 14
      BY <1>1 DEF E!ReadHeader, E!HeaderSize
    <3>. QED
      BY <3>1
  <2>2. /\ events' = events /\ allocated' = allocated /\ pc = "eit header"
        /\ pc' \in {"events", "refused"}
    BY <1>1 DEF E!ReadHeader
  <2>3. allocated' = 0 /\ OfEvents(events') = 0
    BY <2>2, NoEvents DEF Allocated
  <2>4. OfWrongEvent' = 0
    <3>1. ~(boff' > 112)
      BY <2>1
    <3>. QED
      BY <1>l, <3>1
  <2>5. allocated' = OfEvents(events') + OfWrongEvent' /\ boff' >= 112
        /\ allocated' = OfEvents(events')
    BY <2>1, <2>3, <2>4
  <2>. QED
    BY <2>2, <2>5 DEF Allocated
<1>2. CASE E!ReadEvent
  <2>1. /\ pc = "events" /\ pc' \in {"descriptors", "eit done"}
        /\ pc' = "descriptors" => curr_ev' = E!EventRead
    BY <1>2 DEF E!ReadEvent
  <2>a. /\ boff' = boff + 8 * 12 /\ loaded' = loaded /\ events' = events
        /\ allocated' = allocated + 1
        /\ Len(events) < MAX_EVENTS /\ loaded < size
    BY <1>2 DEF E!ReadEvent, E!EventSize, E!MoreEvents, size
  <2>2. E!EventRead.desc = <<>>
    BY <1>0, <1>2, EventOfBytes DEF E!ReadEvent
  <2>3. boff >= 112 /\ allocated = OfEvents(events)
    BY <2>1 DEF Allocated
  <2>4. boff' > 112
    BY <1>n, <2>a, <2>3
  <2>5. CASE pc' = "descriptors"
    <3>1. Len(<<>>) = 0
      OBVIOUS
    <3>2. OfEvent(curr_ev') = 1
      BY <2>1, <2>2, <2>5, <3>1 DEF OfEvent
    <3>3. boff' >= 112 /\ allocated' = OfEvents(events') + OfEvent(curr_ev')
      BY <1>n, <2>a, <2>3, <3>2
    <3>. QED
      BY <2>5, <3>3 DEF Allocated
  <2>6. CASE pc' = "eit done"
    <3>1. OfWrongEvent' = 1
      BY <1>l, <1>s, <2>a, <2>4
    <3>2. allocated' = OfEvents(events') + OfWrongEvent'
      BY <2>a, <2>3, <3>1
    <3>. QED
      BY <2>6, <3>2 DEF Allocated
  <2>. QED
    BY <2>1, <2>5, <2>6
<1>3. CASE E!EndOfEvents
  <2>1. pc = "events" /\ pc' = "eit done"
    BY <1>3 DEF E!EndOfEvents
  <2>a. /\ events' = events /\ allocated' = allocated /\ boff' = boff /\ loaded' = loaded
        /\ ~(Len(events) < MAX_EVENTS /\ loaded < size)
    BY <1>3 DEF E!EndOfEvents, E!MoreEvents, E!here, size
  <2>2. OfWrongEvent' = 0
    BY <1>l, <1>s, <2>a
  <2>b. allocated = OfEvents(events)
    BY <2>1 DEF Allocated
  <2>3. allocated' = OfEvents(events') + OfWrongEvent'
    BY <1>n, <2>a, <2>b, <2>2
  <2>. QED
    BY <2>1, <2>3 DEF Allocated
<1>4. CASE E!ReadDescriptor
  <2>1. pc = "descriptors" /\ pc' = pc
    BY <1>4 DEF E!ReadDescriptor
  <2>a. /\ events' = events /\ allocated' = allocated + 1
        /\ E!Inside(E!DescriptorSize)
        /\ boff' = boff + 8 * (2 + E!DescriptorLength)
        /\ curr_ev' = [curr_ev EXCEPT !.desc = Append(curr_ev.desc, DescriptorHere)]
    BY <1>4 DEF E!ReadDescriptor, E!DescriptorSize, DescriptorHere
  <2>2. E!DescriptorLength \in Nat /\ DescriptorHere \in Descriptor
    BY <1>0, <2>a, DescriptorOfBytes
  <2>3. boff >= 112 /\ allocated = OfEvents(events) + OfEvent(curr_ev)
    BY <2>1 DEF Allocated
  <2>4. boff' >= 112
    BY <1>n, <2>a, <2>2, <2>3
  <2>5. OfEvent(curr_ev') = OfEvent(curr_ev) + 1 /\ OfEvent(curr_ev) \in Nat
    <3>1. /\ curr_ev.desc \in Seq(Descriptor)
          /\ curr_ev'.desc = Append(curr_ev.desc, DescriptorHere)
      BY <1>0, <2>1, <2>a DEF EitEvent
    <3>2. Len(curr_ev'.desc) = Len(curr_ev.desc) + 1 /\ Len(curr_ev.desc) \in Nat
      BY <2>2, <3>1, OneMore
    <3>. QED
      BY <3>2 DEF OfEvent
  <2>6. allocated' = OfEvents(events') + OfEvent(curr_ev')
    BY <1>n, <2>a, <2>3, <2>5
  <2>. QED
    BY <2>1, <2>4, <2>6 DEF Allocated
<1>5. CASE E!LinkEvent
  <2>1. /\ pc = "descriptors" /\ pc' = "events" /\ events' = Append(events, curr_ev)
        /\ boff' = boff /\ allocated' = allocated
    BY <1>5 DEF E!LinkEvent
  <2>2. boff >= 112 /\ allocated = OfEvents(events) + OfEvent(curr_ev)
    BY <2>1 DEF Allocated
  <2>3. OfEvents(events') = OfEvents(events) + OfEvent(curr_ev)
    BY <1>0, <2>1, OneEventMore
  <2>. QED
    BY <2>1, <2>2, <2>3 DEF Allocated
<1>6. CASE E!ReadOutside
  BY <1>6 DEF E!ReadOutside, Allocated
<1>7. CASE E!FreeEit
  <2>1. pc \in {"eit done", "refused"} /\ pc' = "eit freed"
    BY <1>7 DEF E!FreeEit
  <2>a. /\ allocated' = allocated - E!Freed
        /\ boff' = boff /\ loaded' = loaded /\ events' = events
    BY <1>7 DEF E!FreeEit
  <2>2. E!Freed = OfEvents(events)
    BY <1>0, AllEventsFreed
  <2>3. allocated = OfEvents(events) + OfWrongEvent
    BY <2>1 DEF Allocated
  <2>4. OfWrongEvent' = OfWrongEvent /\ OfWrongEvent \in Nat
    BY <1>l, <1>s, <2>a
  <2>5. allocated' = OfWrongEvent'
    <3>1. allocated' = (OfEvents(events) + OfWrongEvent) - OfEvents(events)
      BY <2>a, <2>2, <2>3
    <3>. QED
      BY <1>n, <2>a, <2>4, <3>1
  <2>. QED
    BY <2>1, <2>5 DEF Allocated
<1>. QED
  BY <1>1, <1>2, <1>3, <1>4, <1>5, <1>6, <1>7 DEF E!Next

(* A function that is a sequence.                                          *)
LEMMA OfLength ==
  ASSUME NEW n \in Nat, NEW s \in [1 .. n -> Byte]
  PROVE  s \in Seq(Byte) /\ Len(s) = n
OBVIOUS

(* The bytes of a time offset table, as far as they are looked at.         *)
LEMMA TotSection ==
  ASSUME NEW day \in 0 .. 2^16 - 1, NEW h \in TotHeader, NEW time \in [1 .. 3 -> Byte]
  PROVE  LET s == T!TotBytes(day, h, time)
             n == h.rest + 9
         IN /\ h.rest \in Nat /\ n \in SectionLengths
            /\ s \in Seq(Byte) /\ Len(s) = n + 3
            /\ s[1] = h.table_id
            /\ s[2] = (IF h.syntax = 1 THEN 240 ELSE 112) + (n \div 256)
            /\ s[3] = n % 256
            /\ 256 * s[4] + s[5] = day
            /\ s[6] = time[1] /\ s[7] = time[2] /\ s[8] = time[3]
<1>. DEFINE n == h.rest + 9
            head == <<h.table_id>>
            size == T!Pair(240, n)
            date1 == T!Pair(0, day)
            rest == T!Filler(h.rest)
            crc == T!Filler(4)
            body1 == date1 \o time
            body == body1 \o rest
            first == head \o size
            most == first \o body
            s == most \o crc
<1>1. h.table_id \in Byte /\ h.syntax \in Bit /\ h.rest \in 0 .. T!RestMax
  BY DEF TotHeader
<1>2. h.rest \in Nat /\ n \in Nat /\ n \in SectionLengths
  <2>. DEFINE last == 2^12 - 1
  <2>1. last \in Nat /\ T!RestMax \in Nat /\ T!RestMax + 9 = last
    BY DEF T!RestMax
  <2>. HIDE DEF last
  <2>2. h.rest \in Nat /\ n \in Nat /\ n \in 0 .. last
    BY <1>1, <2>1
  <2>. QED
    BY <2>2 DEF SectionLengths, last
<1>a. n \div 256 \in 0 .. 15 /\ n % 256 \in 0 .. 255
  <2>1. 2^12 = 4096
    OBVIOUS
  <2>2. n < 4096
    BY <1>2, <2>1 DEF SectionLengths
  <2>. QED
    BY <1>2, <2>2
<1>3. head \in Seq(Byte) /\ Len(head) = 1 /\ head[1] = h.table_id
  BY <1>1
<1>4. size \in Seq(Byte) /\ Len(size) = 2 /\ size[1] = 240 + (n \div 256) /\ size[2] = n % 256
  <2>. HIDE DEF n
  <2>1. 240 + (n \div 256) \in Byte /\ n % 256 \in Byte
    BY <1>a DEF Byte
  <2>. QED
    BY <2>1 DEF T!Pair
<1>5. date1 \in Seq(Byte) /\ Len(date1) = 2 /\ 256 * date1[1] + date1[2] = day
  <2>1. 0 + (day \div 256) \in Byte /\ day % 256 \in Byte
    <3>1. 2^16 = 65536
      OBVIOUS
    <3>2. day \in Nat /\ day < 65536
      BY <3>1
    <3>. QED
      BY <3>2 DEF Byte
  <2>2. 256 * (0 + (day \div 256)) + (day % 256) = day
    OBVIOUS
  <2>. QED
    BY <2>1, <2>2 DEF T!Pair
<1>6. time \in Seq(Byte) /\ Len(time) = 3
  BY OfLength
<1>7. \A m \in Nat : T!Filler(m) \in Seq(Byte) /\ Len(T!Filler(m)) = m
  <2>1. 171 \in Byte
    BY DEF Byte
  <2>. QED
    BY <2>1 DEF T!Filler
<1>8. rest \in Seq(Byte) /\ Len(rest) = h.rest /\ crc \in Seq(Byte) /\ Len(crc) = 4
  <2>1. rest \in Seq(Byte) /\ Len(rest) = h.rest
    BY <1>2, <1>7
  <2>2. 4 \in Nat
    OBVIOUS
  <2>. QED
    BY <1>7, <2>1, <2>2
<1>. HIDE DEF head, size, date1, rest, crc
<1>9. /\ body1 \in Seq(Byte) /\ Len(body1) = 5
      /\ body1[1] = date1[1] /\ body1[2] = date1[2]
      /\ body1[3] = time[1] /\ body1[4] = time[2] /\ body1[5] = time[3]
  <2>1. body1 = date1 \o time
    OBVIOUS
  <2>. HIDE DEF body1
  <2>. QED
    <3>1. /\ body1 \in Seq(Byte) /\ Len(body1) = Len(date1) + Len(time)
          /\ \A k \in 1 .. Len(date1) : body1[k] = date1[k]
          /\ \A k \in 1 .. Len(time) : body1[Len(date1) + k] = time[k]
      <4>1. date1 \in Seq(Byte) /\ time \in Seq(Byte)
        BY <1>5, <1>6
      <4>. QED
        BY <2>1, <4>1, Joined
    <3>2. /\ \A k \in 1 .. 2 : body1[k] = date1[k]
          /\ \A k \in 1 .. 3 : body1[2 + k] = time[k]
      BY <1>5, <1>6, <3>1
    <3>3. 2 + 1 = 3 /\ 2 + 2 = 4 /\ 2 + 3 = 5 /\ 1 \in 1 .. 2 /\ 2 \in 1 .. 2
          /\ 1 \in 1 .. 3 /\ 2 \in 1 .. 3 /\ 3 \in 1 .. 3
      OBVIOUS
    <3>. QED
      BY <1>5, <1>6, <3>1, <3>2, <3>3
<1>. HIDE DEF body1
<1>10. /\ body \in Seq(Byte) /\ Len(body) = 5 + h.rest
       /\ \A k \in 1 .. 5 : body[k] = body1[k]
  <2>1. body = body1 \o rest
    OBVIOUS
  <2>. HIDE DEF body
  <2>. QED
    <3>1. /\ body \in Seq(Byte) /\ Len(body) = Len(body1) + Len(rest)
          /\ \A k \in 1 .. Len(body1) : body[k] = body1[k]
      <4>1. body1 \in Seq(Byte) /\ rest \in Seq(Byte)
        BY <1>8, <1>9
      <4>. QED
        BY <2>1, <4>1, Joined
    <3>. QED
      BY <1>2, <1>8, <1>9, <3>1
<1>. HIDE DEF body
<1>11. first \in Seq(Byte) /\ Len(first) = 3
       /\ first[1] = head[1] /\ first[2] = size[1] /\ first[3] = size[2]
  <2>0. first = head \o size
    OBVIOUS
  <2>. HIDE DEF first
  <2>1. /\ \A k \in 1 .. 1 : first[k] = head[k]
        /\ \A k \in 1 .. 2 : first[1 + k] = size[k]
        /\ first \in Seq(Byte) /\ Len(first) = 3
    <3>1. /\ \A k \in 1 .. Len(head) : first[k] = head[k]
          /\ \A k \in 1 .. Len(size) : first[Len(head) + k] = size[k]
          /\ first \in Seq(Byte) /\ Len(first) = Len(head) + Len(size)
      <4>1. head \in Seq(Byte) /\ size \in Seq(Byte)
        BY <1>3, <1>4
      <4>. QED
        BY <2>0, <4>1, Joined
    <3>. QED
      BY <1>3, <1>4, <3>1
  <2>2. 1 + 1 = 2 /\ 1 + 2 = 3 /\ 1 \in 1 .. 1 /\ 1 \in 1 .. 2 /\ 2 \in 1 .. 2
    OBVIOUS
  <2>. QED
    BY <2>1, <2>2
<1>. HIDE DEF first
<1>12. /\ most \in Seq(Byte) /\ Len(most) = 3 + (5 + h.rest)
       /\ \A k \in 1 .. 3 : most[k] = first[k]
       /\ \A k \in 1 .. 5 : most[3 + k] = body[k]
  <2>1. most = first \o body
    OBVIOUS
  <2>. HIDE DEF most
  <2>. QED
    <3>1. /\ most \in Seq(Byte) /\ Len(most) = Len(first) + Len(body)
          /\ \A k \in 1 .. Len(first) : most[k] = first[k]
          /\ \A k \in 1 .. Len(body) : most[Len(first) + k] = body[k]
      <4>1. first \in Seq(Byte) /\ body \in Seq(Byte)
        BY <1>10, <1>11
      <4>. QED
        BY <2>1, <4>1, Joined
    <3>2. \A k \in 1 .. 5 : k \in 1 .. Len(body)
      BY <1>2, <1>10
    <3>. QED
      BY <1>2, <1>10, <1>11, <3>1, <3>2
<1>. HIDE DEF most
<1>13. /\ s \in Seq(Byte) /\ Len(s) = n + 3
       /\ \A k \in 1 .. 3 : s[k] = first[k]
       /\ \A k \in 1 .. 5 : s[3 + k] = body[k]
  <2>0. s = most \o crc
    OBVIOUS
  <2>. HIDE DEF s
  <2>1. s \in Seq(Byte) /\ Len(s) = 3 + (5 + h.rest) + 4
    <3>1. s \in Seq(Byte) /\ Len(s) = Len(most) + Len(crc)
      <4>1. most \in Seq(Byte) /\ crc \in Seq(Byte)
        BY <1>8, <1>12
      <4>. QED
        BY <2>0, <4>1, Joined
    <3>. QED
      BY <1>2, <1>8, <1>12, <3>1
  <2>2. \A k \in 1 .. 8 : k \in 1 .. Len(most)
    BY <1>2, <1>12
  <2>3. \A k \in 1 .. Len(most) : s[k] = most[k]
    <3>1. most \in Seq(Byte) /\ crc \in Seq(Byte)
      BY <1>8, <1>12
    <3>. QED
      BY <2>0, <3>1, Joined
  <2>4. \A k \in 1 .. 8 : s[k] = most[k]
    BY <2>2, <2>3
  <2>5. /\ \A k \in 1 .. 3 : k \in 1 .. 8
        /\ \A k \in 1 .. 5 : 3 + k \in 1 .. 8
    OBVIOUS
  <2>6. \A k \in 1 .. 3 : s[k] = first[k]
    BY <1>12, <2>4, <2>5
  <2>7. \A k \in 1 .. 5 : s[3 + k] = body[k]
    BY <1>12, <2>4, <2>5
  <2>8. s \in Seq(Byte) /\ Len(s) = n + 3
    <3>. DEFINE x == h.rest
    <3>1. x \in Nat
      BY <1>2
    <3>. HIDE DEF x
    <3>2. 3 + (5 + x) + 4 = (x + 9) + 3
      BY <3>1
    <3>. QED
      BY <2>1, <3>2 DEF x
  <2>. QED
    BY <2>6, <2>7, <2>8
<1>. HIDE DEF s
<1>14. s[1] = h.table_id /\ s[2] = 240 + (n \div 256) /\ s[3] = n % 256
  <2>1. s[1] = first[1] /\ s[2] = first[2] /\ s[3] = first[3]
    BY <1>13
  <2>. QED
    BY <1>3, <1>4, <1>11, <2>1
<1>b. /\ 256 * s[4] + s[5] = day
      /\ s[6] = time[1] /\ s[7] = time[2] /\ s[8] = time[3]
  <2>1. /\ 3 + 1 = 4 /\ 3 + 2 = 5 /\ 3 + 3 = 6 /\ 3 + 4 = 7 /\ 3 + 5 = 8
        /\ {1, 2, 3, 4, 5} \subseteq 1 .. 5
    OBVIOUS
  <2>2. \A k \in 1 .. 5 : s[3 + k] = body1[k]
    BY <1>10, <1>13
  <2>3. s[4] = body1[1] /\ s[5] = body1[2] /\ s[6] = body1[3] /\ s[7] = body1[4]
        /\ s[8] = body1[5]
    BY <2>1, <2>2
  <2>. QED
    BY <1>5, <1>9, <2>3
<1>15. T!TotBytes(day, h, time) = IF h.syntax = 1 THEN s ELSE [s EXCEPT ![2] = @ - 128]
  <2>1. Len(body) + 4 = n
    BY <1>2, <1>10
  <2>2. T!Section(h.table_id, body) = s
    BY <2>1 DEF T!Section, s, most, first, head, size, crc
  <2>. QED
    BY <2>2 DEF T!TotBytes, body, body1, date1, rest
<1>. HIDE DEF n
<1>16. CASE h.syntax = 1
  BY <1>1, <1>2, <1>a, <1>b, <1>13, <1>14, <1>15, <1>16 DEF n
<1>17. CASE h.syntax # 1
  <2>. DEFINE t == [s EXCEPT ![2] = @ - 128]
  <2>1. DOMAIN s = 1 .. n + 3 /\ s \in [1 .. n + 3 -> Byte] /\ 2 \in 1 .. n + 3
    BY <1>2, <1>13
  <2>2. s[2] - 128 \in Byte /\ s[2] - 128 = 112 + (n \div 256)
    BY <1>a, <1>14 DEF Byte
  <2>3. t \in [1 .. n + 3 -> Byte] /\ t[2] = 112 + (n \div 256)
    BY <2>1, <2>2
  <2>4. t[1] = s[1] /\ t[3] = s[3] /\ t[4] = s[4] /\ t[5] = s[5] /\ t[6] = s[6]
        /\ t[7] = s[7] /\ t[8] = s[8]
    <3>1. {1, 3, 4, 5, 6, 7, 8} \subseteq 1 .. n + 3
      BY <1>1, <1>2 DEF n
    <3>. QED
      BY <2>1, <3>1
  <2>. HIDE DEF t
  <2>5. t \in Seq(Byte) /\ Len(t) = n + 3
    BY <1>2, <2>3
  <2>. QED
    BY <1>1, <1>2, <1>a, <1>b, <1>14, <1>15, <1>17, <2>3, <2>4, <2>5 DEF t, n
<1>. QED
  BY <1>16, <1>17

(* The header of a table that is no refused one.                           *)
OfTot(h) == h.table_id = 115 /\ h.syntax = 0 /\ h.rest + 9 <= 1021

(* What is made of a table: only one of the right id, syntax and length is *)
(* a TOT, and of that the time is the one that was sent.                   *)
LEMMA TotIsRead ==
  ASSUME NEW day \in 0 .. 2^16 - 1, NEW h \in TotHeader, NEW time \in [1 .. 3 -> Byte]
  PROVE  LET got == T!Received(day, h, time)
         IN /\ got.disable = 0 <=> OfTot(h)
            /\ OfTot(h) => /\ got.tm \in Tm
                           /\ DateOf(got.tm) = DateOf(T!mjd_to_tm(day))
                           /\ got.tm.tm_hour = T!hex_to_digi(time[1])
                           /\ got.tm.tm_min = T!hex_to_digi(time[2])
                           /\ got.tm.tm_sec = T!hex_to_digi(time[3])
<1>. DEFINE n == h.rest + 9
            s == T!TotBytes(day, h, time)
            b == T!Memory(s, Len(s))
            flags == IF h.syntax = 1 THEN 240 ELSE 112
<1>1. /\ h.rest \in Nat /\ n \in SectionLengths
      /\ s \in Seq(Byte) /\ Len(s) = n + 3
      /\ s[1] = h.table_id
      /\ s[2] = flags + (n \div 256)
      /\ s[3] = n % 256
      /\ 256 * s[4] + s[5] = day
      /\ s[6] = time[1] /\ s[7] = time[2] /\ s[8] = time[3]
  BY TotSection
<1>2. n \in Nat /\ n >= 9 /\ n < 4096
  <2>1. h.rest \in Nat /\ n \in SectionLengths
    BY <1>1
  <2>2. n \in Nat /\ n >= 9
    BY <2>1
  <2>. HIDE DEF n
  <2>3. 2^12 = 4096
    OBVIOUS
  <2>4. n < 4096
    BY <2>1, <2>2, <2>3 DEF SectionLengths
  <2>. QED
    BY <2>2, <2>4
<1>3. h.syntax \in Bit /\ (flags = 240 <=> h.syntax # 0) /\ flags \in {112, 240}
  BY DEF TotHeader, Bit
<1>. HIDE DEF s, n, flags
<1>4. \A k \in 0 .. 7 : b[k] = s[k + 1] /\ b[k] \in Byte
  <2>1. Len(s) \in Nat /\ Len(s) >= 12 /\ DOMAIN s = 1 .. Len(s)
    BY <1>1, <1>2
  <2>2. \A k \in 0 .. 7 : k \in 0 .. Len(s) + 7 /\ k < Len(s) /\ k + 1 \in 1 .. Len(s)
    BY <2>1
  <2>3. \A k \in 0 .. 7 : b[k] = s[k + 1]
    BY <2>1, <2>2 DEF T!Memory
  <2>4. \A k \in 1 .. Len(s) : s[k] \in Byte
    BY <1>1
  <2>. QED
    BY <2>2, <2>3, <2>4
<1>. HIDE DEF b
<1>5. /\ b[0] = s[1] /\ b[1] = s[2] /\ b[2] = s[3] /\ b[3] = s[4] /\ b[4] = s[5]
      /\ b[5] = s[6] /\ b[6] = s[7] /\ b[7] = s[8]
      /\ b[0] \in Byte /\ b[1] \in Byte /\ b[2] \in Byte
      /\ \A k \in 0 .. 4 : b[3 + k] \in Byte
  <2>1. /\ 0 + 1 = 1 /\ 1 + 1 = 2 /\ 2 + 1 = 3 /\ 3 + 1 = 4 /\ 4 + 1 = 5
        /\ 5 + 1 = 6 /\ 6 + 1 = 7 /\ 7 + 1 = 8 /\ {0, 1, 2, 3, 4, 5, 6, 7} \subseteq 0 .. 7
    OBVIOUS
  <2>2. \A k \in 0 .. 4 : 3 + k \in 0 .. 7
    OBVIOUS
  <2>. QED
    BY <1>4, <2>1, <2>2
<1>6. /\ T!bits(b, 8 * 0, 8) = b[0]
      /\ T!bits(b, 8 * 1, 1) = b[1] \div 128
      /\ T!bits(b, 8 * 1 + 4, 12) = 256 * (b[1] % 16) + b[1 + 1]
  <2>1. 0 \in Nat /\ 1 \in Nat /\ 1 + 1 = 2
    OBVIOUS
  <2>. QED
    BY <1>5, <2>1, Fields, SameOperators
<1>7. /\ T!bits(b, 0, 8) = h.table_id
      /\ T!bits(b, 8, 1) = 1 <=> h.syntax # 0
      /\ T!bits(b, 12, 12) = n
  <2>1. 8 * 0 = 0 /\ 8 * 1 = 8 /\ 8 * 1 + 4 = 12 /\ 1 + 1 = 2
    OBVIOUS
  <2>2. /\ T!bits(b, 0, 8) = s[1]
        /\ T!bits(b, 8, 1) = s[2] \div 128
        /\ T!bits(b, 12, 12) = 256 * (s[2] % 16) + s[3]
    BY <1>5, <1>6, <2>1
  <2>3. n \div 256 \in 0 .. 15 /\ n = 256 * (n \div 256) + (n % 256)
    BY <1>2
  <2>4. (s[2] \div 128 = 1 <=> flags = 240) /\ s[2] % 16 = n \div 256
    <3>1. \A f \in {112, 240}, u \in 0 .. 15 :
            ((f + u) \div 128 = 1 <=> f = 240) /\ (f + u) % 16 = u
      OBVIOUS
    <3>2. s[2] = flags + (n \div 256)
      BY <1>1
    <3>. QED
      BY <1>3, <2>3, <3>1, <3>2
  <2>. QED
    BY <1>1, <1>3, <2>2, <2>3, <2>4
<1>8. T!Disabled(b) <=> ~OfTot(h)
  <2>1. n > 1021 <=> ~(h.rest + 9 <= 1021)
    <3>1. n \in Nat /\ h.rest + 9 = n
      BY <1>2 DEF n
    <3>2. n > 1021 <=> ~(n <= 1021)
      BY <3>1
    <3>. QED
      BY <3>1, <3>2
  <2>. QED
    BY <1>7, <2>1 DEF T!Disabled, OfTot
<1>9. LET tm == T!time_to_tm(b, 3)
      IN /\ tm \in Tm
         /\ DateOf(tm) = DateOf(T!mjd_to_tm(day))
         /\ tm.tm_hour = T!hex_to_digi(time[1])
         /\ tm.tm_min = T!hex_to_digi(time[2])
         /\ tm.tm_sec = T!hex_to_digi(time[3])
  <2>1. 3 \in Nat /\ 3 + 1 = 4 /\ 3 + 2 = 5 /\ 3 + 3 = 6 /\ 3 + 4 = 7
    OBVIOUS
  <2>2. 256 * b[3] + b[4] = day
    BY <1>1, <1>5
  <2>3. b[5] = time[1] /\ b[6] = time[2] /\ b[7] = time[3]
    BY <1>1, <1>5
  <2>. QED
    BY <1>5, <2>1, <2>2, <2>3, TimeOfBytes
<1>10. T!Received(day, h, time) = T!st_tot(b)
  BY DEF T!Received, b, s
<1>11. T!Received(day, h, time) =
         IF OfTot(h) THEN [disable |-> 0, tm |-> T!time_to_tm(b, 3)] ELSE [disable |-> 1]
  BY <1>8, <1>10 DEF T!st_tot
<1>. QED
  BY <1>9, <1>11

(* The powers of ten.                                                      *)
Ten(d) == 10^d

(* How far they lie from the two that are of use.                          *)
LEMMA PowersOfTen ==
  ASSUME NEW d \in 1 .. 9
  PROVE  /\ d \in Nat /\ Ten(d) \in Nat /\ Ten(d - 1) \in Nat
         /\ d > 2 => 100 <= Ten(d - 1)
         /\ d <= 1 => Ten(d) <= 10
         /\ d > 4 => 10000 <= Ten(d - 1)
         /\ d <= 3 => Ten(d) <= 1000
         /\ d = 2 => Ten(d) = 100 /\ Ten(d - 1) = 10
         /\ d = 4 => Ten(d) = 10000 /\ Ten(d - 1) = 1000
<1>1. d = 1 \/ d = 2 \/ d = 3 \/ d = 4 \/ d = 5 \/ d = 6 \/ d = 7 \/ d = 8 \/ d = 9
  OBVIOUS
<1>2. CASE d = 1
  <2>1. 10^1 = 10 /\ 10^0 = 1
    OBVIOUS
  <2>2. d - 1 = 0
    BY <1>2
  <2>3. Ten(d) = 10 /\ Ten(d - 1) = 1
    BY <1>2, <2>1, <2>2 DEF Ten
  <2>. QED
    BY <1>2, <2>3
<1>3. CASE d = 2
  <2>1. 10^2 = 100 /\ 10^1 = 10
    OBVIOUS
  <2>2. d - 1 = 1
    BY <1>3
  <2>3. Ten(d) = 100 /\ Ten(d - 1) = 10
    BY <1>3, <2>1, <2>2 DEF Ten
  <2>. QED
    BY <1>3, <2>3
<1>4. CASE d = 3
  <2>1. 10^3 = 1000 /\ 10^2 = 100
    OBVIOUS
  <2>2. d - 1 = 2
    BY <1>4
  <2>3. Ten(d) = 1000 /\ Ten(d - 1) = 100
    BY <1>4, <2>1, <2>2 DEF Ten
  <2>. QED
    BY <1>4, <2>3
<1>5. CASE d = 4
  <2>1. 10^4 = 10000 /\ 10^3 = 1000
    OBVIOUS
  <2>2. d - 1 = 3
    BY <1>5
  <2>3. Ten(d) = 10000 /\ Ten(d - 1) = 1000
    BY <1>5, <2>1, <2>2 DEF Ten
  <2>. QED
    BY <1>5, <2>3
<1>6. CASE d = 5
  <2>1. 10^5 = 100000 /\ 10^4 = 10000
    OBVIOUS
  <2>2. d - 1 = 4
    BY <1>6
  <2>3. Ten(d) = 100000 /\ Ten(d - 1) = 10000
    BY <1>6, <2>1, <2>2 DEF Ten
  <2>. QED
    BY <1>6, <2>3
<1>7. CASE d = 6
  <2>1. 10^6 = 1000000 /\ 10^5 = 100000
    OBVIOUS
  <2>2. d - 1 = 5
    BY <1>7
  <2>3. Ten(d) = 1000000 /\ Ten(d - 1) = 100000
    BY <1>7, <2>1, <2>2 DEF Ten
  <2>. QED
    BY <1>7, <2>3
<1>8. CASE d = 7
  <2>1. 10^7 = 10000000 /\ 10^6 = 1000000
    OBVIOUS
  <2>2. d - 1 = 6
    BY <1>8
  <2>3. Ten(d) = 10000000 /\ Ten(d - 1) = 1000000
    BY <1>8, <2>1, <2>2 DEF Ten
  <2>. QED
    BY <1>8, <2>3
<1>9. CASE d = 8
  <2>1. 10^8 = 100000000 /\ 10^7 = 10000000
    OBVIOUS
  <2>2. d - 1 = 7
    BY <1>9
  <2>3. Ten(d) = 100000000 /\ Ten(d - 1) = 10000000
    BY <1>9, <2>1, <2>2 DEF Ten
  <2>. QED
    BY <1>9, <2>3
<1>10. CASE d = 9
  <2>1. 10^9 = 1000000000 /\ 10^8 = 100000000
    OBVIOUS
  <2>2. d - 1 = 8
    BY <1>10
  <2>3. Ten(d) = 1000000000 /\ Ten(d - 1) = 100000000
    BY <1>10, <2>1, <2>2 DEF Ten
  <2>. QED
    BY <1>10, <2>3
<1>. QED
  BY <1>1, <1>2, <1>3, <1>4, <1>5, <1>6, <1>7, <1>8, <1>9, <1>10

(* Numbers of two decimal digits.                                          *)
LEMMA TwoDigits ==
  ASSUME NEW m \in Nat, Ten(1) <= m, m < Ten(2)
  PROVE  T!DigitCount(m) = 2
<1>1. ASSUME NEW d \in 1 .. 9
      PROVE  (m < Ten(d) /\ (d = 1 \/ Ten(d - 1) <= m)) <=> d = 2
  <2>1. /\ d \in Nat /\ Ten(d) \in Nat /\ Ten(d - 1) \in Nat
        /\ d > 2 => 100 <= Ten(d - 1)
        /\ d <= 1 => Ten(d) <= 10
        /\ d = 2 => Ten(d) = 100 /\ Ten(d - 1) = 10
    BY PowersOfTen
  <2>2. Ten(1) = 10 /\ Ten(2) = 100
    BY DEF Ten
  <2>3. d = 2 => m < Ten(d) /\ Ten(d - 1) <= m
    BY <2>1, <2>2
  <2>4. d > 2 => d # 1 /\ ~(Ten(d - 1) <= m)
    BY <2>1, <2>2
  <2>5. d <= 1 => d # 2 /\ ~(m < Ten(d))
    BY <2>1, <2>2
  <2>6. d = 2 \/ d > 2 \/ d <= 1
    BY <2>1
  <2>7. d > 2 => d # 2
    BY <2>1
  <2>. QED
    BY <2>3, <2>4, <2>5, <2>6, <2>7
<1>2. 2 \in 1 .. 9
  OBVIOUS
<1>3. T!DigitCount(m) = CHOOSE d \in 1 .. 9 : m < Ten(d) /\ (d = 1 \/ Ten(d - 1) <= m)
  BY DEF T!DigitCount, Ten
<1>. QED
  BY <1>1, <1>2, <1>3

(* Numbers of four decimal digits.                                         *)
LEMMA FourDigits ==
  ASSUME NEW m \in Nat, Ten(3) <= m, m < Ten(4)
  PROVE  T!DigitCount(m) = 4
<1>1. ASSUME NEW d \in 1 .. 9
      PROVE  (m < Ten(d) /\ (d = 1 \/ Ten(d - 1) <= m)) <=> d = 4
  <2>1. /\ d \in Nat /\ Ten(d) \in Nat /\ Ten(d - 1) \in Nat
        /\ d > 4 => 10000 <= Ten(d - 1)
        /\ d <= 3 => Ten(d) <= 1000
        /\ d = 4 => Ten(d) = 10000 /\ Ten(d - 1) = 1000
    BY PowersOfTen
  <2>2. Ten(3) = 1000 /\ Ten(4) = 10000
    BY DEF Ten
  <2>3. d = 4 => m < Ten(d) /\ Ten(d - 1) <= m
    BY <2>1, <2>2
  <2>4. d > 4 => d # 1 /\ ~(Ten(d - 1) <= m)
    BY <2>1, <2>2
  <2>5. d <= 3 => d # 4 /\ ~(m < Ten(d))
    BY <2>1, <2>2
  <2>6. d = 4 \/ d > 4 \/ d <= 3
    BY <2>1
  <2>7. d > 4 => d # 4
    BY <2>1
  <2>. QED
    BY <2>3, <2>4, <2>5, <2>6, <2>7
<1>2. 4 \in 1 .. 9
  OBVIOUS
<1>3. T!DigitCount(m) = CHOOSE d \in 1 .. 9 : m < Ten(d) /\ (d = 1 \/ Ten(d - 1) <= m)
  BY DEF T!DigitCount, Ten
<1>. QED
  BY <1>1, <1>2, <1>3

(* Four digits of a year and two of everything else.                       *)
LEMMA TextOfTime ==
  ASSUME NEW tm \in Tm
  PROVE  T!tm_to_text(tm) # T!NoText /\ ~T!Empty(tm)
<1>1. \A m \in 1858 .. 2040 : T!DigitCount(m) = 4
  <2>1. Ten(3) = 1000 /\ Ten(4) = 10000
    BY DEF Ten
  <2>2. \A m \in 1858 .. 2040 : m \in Nat /\ Ten(3) <= m /\ m < Ten(4)
    BY <2>1
  <2>3. 4 - 1 = 3
    OBVIOUS
  <2>. QED
    BY <2>2, <2>3, FourDigits
<1>2. \A m \in 0 .. 99 : T!FieldLength(m) = 2
  <2>1. Ten(1) = 10 /\ Ten(2) = 100
    BY DEF Ten
  <2>2. \A m \in 0 .. 99 : m \in Nat /\ (m < 10 \/ (Ten(1) <= m /\ m < Ten(2)))
    BY <2>1
  <2>3. \A m \in 0 .. 99 : m < 10 \/ T!DigitCount(m) = 2
    BY <2>2, TwoDigits
  <2>. QED
    BY <2>3 DEF T!FieldLength
<1>3. /\ tm.tm_year + 1900 \in 1858 .. 2040
      /\ tm.tm_mon + 1 \in 0 .. 99 /\ tm.tm_mday \in 1 .. 31
      /\ tm.tm_hour \in 0 .. 99 /\ tm.tm_min \in 0 .. 99 /\ tm.tm_sec \in 0 .. 99
  <2>1. /\ tm.tm_year \in -42 .. 140 /\ tm.tm_mon \in 0 .. 11 /\ tm.tm_mday \in 1 .. 31
        /\ tm.tm_hour \in 0 .. 99 /\ tm.tm_min \in 0 .. 99 /\ tm.tm_sec \in 0 .. 99
    BY DEF Tm
  <2>. QED
    BY <2>1
<1>4. tm.tm_mday \in 0 .. 99 /\ tm.tm_mday # 0
  BY <1>3
<1>5. /\ T!DigitCount(tm.tm_year + 1900) = 4
      /\ T!FieldLength(tm.tm_mon + 1) = 2 /\ T!FieldLength(tm.tm_mday) = 2
      /\ T!FieldLength(tm.tm_hour) = 2 /\ T!FieldLength(tm.tm_min) = 2
      /\ T!FieldLength(tm.tm_sec) = 2
  BY <1>1, <1>2, <1>3, <1>4
<1>6. T!TextLength(tm) = 19
  <2>1. T!TextLength(tm) = 4 + 5 + 2 + 2 + 2 + 2 + 2
    BY <1>5 DEF T!TextLength
  <2>. QED
    BY <2>1
<1>7. T!TextLength(tm) < T!TextSize
  BY <1>6 DEF T!TextSize
<1>. QED
  BY <1>4, <1>7 DEF T!tm_to_text, T!NoText, T!Empty

-----------------------------------------------------------------------------
(* The decoders of PMT and EIT read of an undamaged section what was sent. *)

(* A sequence of bytes lies in memory from address a on.                   *)
At(b, a, s) == \A k \in 1 .. Len(s) : b[a + k - 1] = s[k]

(* The address of what is behind.                                          *)
LEMMA AtJoined ==
  ASSUME NEW b, NEW a \in Nat, NEW s \in Seq(Nat), NEW t \in Seq(Nat),
         At(b, a, s \o t)
  PROVE  /\ At(b, a, s) /\ At(b, a + Len(s), t)
         /\ s \o t \in Seq(Nat) /\ Len(s \o t) = Len(s) + Len(t)
<1>. DEFINE u == s \o t
<1>1. /\ u \in Seq(Nat) /\ Len(s) \in Nat /\ Len(t) \in Nat
      /\ Len(u) = Len(s) + Len(t)
      /\ \A k \in 1 .. Len(s) : u[k] = s[k]
      /\ \A k \in 1 .. Len(t) : u[Len(s) + k] = t[k]
  BY Joined
<1>2. \A k \in 1 .. Len(u) : b[a + k - 1] = u[k]
  BY DEF At
<1>. HIDE DEF u
<1>3. \A k \in 1 .. Len(s) : k \in 1 .. Len(u)
  BY <1>1
<1>4. \A k \in 1 .. Len(t) :
        Len(s) + k \in 1 .. Len(u) /\ a + (Len(s) + k) - 1 = (a + Len(s)) + k - 1
  BY <1>1
<1>5. At(b, a, s)
  BY <1>1, <1>2, <1>3 DEF At
<1>6. At(b, a + Len(s), t)
  <2>. SUFFICES ASSUME NEW k \in 1 .. Len(t) PROVE b[(a + Len(s)) + k - 1] = t[k]
    BY DEF At
  <2>1. b[a + (Len(s) + k) - 1] = u[Len(s) + k]
    BY <1>2, <1>4
  <2>. QED
    BY <1>1, <1>4, <2>1
<1>. QED
  BY <1>1, <1>5, <1>6 DEF u

(* The same with the numbers of bytes.                                     *)
Bytes(s, n) == s \in Seq(Nat) /\ n \in Nat /\ Len(s) = n

LEMMA Longer ==
  ASSUME NEW s, NEW t, NEW m, NEW n, NEW k, Bytes(s, m), Bytes(t, n), k = m + n
  PROVE  Bytes(s \o t, k)
<1>. DEFINE u == s \o t
<1>1. s \in Seq(Nat) /\ t \in Seq(Nat) /\ m \in Nat /\ n \in Nat
      /\ Len(s) = m /\ Len(t) = n
  BY DEF Bytes
<1>2. u \in Seq(Nat) /\ Len(u) = Len(s) + Len(t)
  <2>. DEFINE N == Nat
  <2>1. s \in Seq(N) /\ t \in Seq(N) /\ u = s \o t
    BY <1>1
  <2>. HIDE DEF N, u
  <2>2. u \in Seq(N) /\ Len(u) = Len(s) + Len(t)
    BY <2>1, Joined
  <2>. QED
    BY <2>2 DEF N
<1>. HIDE DEF u
<1>3. Bytes(u, k)
  BY <1>1, <1>2 DEF Bytes
<1>. QED
  BY <1>3 DEF u

LEMMA Parts ==
  ASSUME NEW b, NEW a \in Nat, NEW s, NEW t, NEW m, NEW n, Bytes(s, m), Bytes(t, n),
         At(b, a, s \o t), NEW k, k = a + m
  PROVE  At(b, a, s) /\ At(b, k, t) /\ k \in Nat
<1>1. s \in Seq(Nat) /\ t \in Seq(Nat) /\ m \in Nat /\ Len(s) = m
  BY DEF Bytes
<1>2. At(b, a, s) /\ At(b, a + Len(s), t)
  BY <1>1, AtJoined
<1>. QED
  BY <1>1, <1>2

(* A member of a list that lies there.                                     *)
MemberAt(b, a, w, off, k) ==
  /\ off[k - 1] \in Nat /\ off[k] \in Nat
  /\ off[k] = off[k - 1] + Len(w[k]) /\ off[k] <= off[Len(w)]
  /\ At(b, a + off[k - 1], w[k])

LEMMA AtPlaced ==
  ASSUME NEW b, NEW a \in Nat, NEW w \in Seq(Seq(Nat)), NEW t \in Seq(Nat), NEW off,
         JoinedAt(w, t, off), At(b, a, t), NEW k \in 1 .. Len(w)
  PROVE  MemberAt(b, a, w, off, k)
<1>. DEFINE x == off[k - 1]
            n == Len(w[k])
            N == Len(w)
<1>1. /\ off \in [0 .. N -> Nat] /\ off[N] = Len(t) /\ off[k] = x + n
      /\ off[k] <= Len(t) /\ \A j \in 1 .. n : t[x + j] = w[k][j]
  BY DEF JoinedAt
<1>2. N \in Nat /\ k - 1 \in 0 .. N /\ k \in 0 .. N /\ w[k] \in Seq(Nat) /\ n \in Nat
      /\ Len(t) \in Nat
  OBVIOUS
<1>. HIDE DEF N
<1>3. x \in Nat /\ off[k] \in Nat
  BY <1>1, <1>2
<1>. HIDE DEF n, x
<1>4. ASSUME NEW j \in 1 .. n PROVE b[a + x + j - 1] = w[k][j]
  <2>1. x + j \in 1 .. Len(t) /\ a + (x + j) - 1 = a + x + j - 1
    BY <1>1, <1>2, <1>3
  <2>2. b[a + (x + j) - 1] = t[x + j]
    BY <2>1 DEF At
  <2>. QED
    BY <1>1, <2>1, <2>2
<1>5. At(b, a + x, w[k])
  BY <1>4 DEF At, n
<1>. QED
  BY <1>1, <1>3, <1>5 DEF MemberAt, x, n, N

LEMMA AtOne ==
  ASSUME NEW b, NEW a \in Nat, NEW x, At(b, a, <<x>>)
  PROVE  b[a] = x
<1>1. Len(<<x>>) = 1 /\ <<x>>[1] = x /\ 1 \in 1 .. 1 /\ a + 1 - 1 = a
  OBVIOUS
<1>. QED
  BY <1>1 DEF At

LEMMA AtTwo ==
  ASSUME NEW b, NEW a \in Nat, NEW x, NEW y, At(b, a, <<x, y>>)
  PROVE  b[a] = x /\ b[a + 1] = y
<1>1. /\ Len(<<x, y>>) = 2 /\ <<x, y>>[1] = x /\ <<x, y>>[2] = y
      /\ 1 \in 1 .. 2 /\ 2 \in 1 .. 2 /\ a + 1 - 1 = a /\ a + 2 - 1 = a + 1
  OBVIOUS
<1>. QED
  BY <1>1 DEF At

(* A field of two bytes is a pair, and it is read as what is in it.        *)
Fits(flags, n) ==
  \/ flags = 0 /\ n < 65536
  \/ flags = 224 /\ n < 8192
  \/ flags \in {64, 240} /\ n < 4096

LEMMA PairBytes ==
  ASSUME NEW n \in Nat, NEW flags \in Nat
  PROVE  Bytes(Pair(flags, n), 2)
<1>1. flags + n \div 256 \in Nat /\ n % 256 \in Nat
  OBVIOUS
<1>. QED
  BY <1>1 DEF Pair, Bytes

LEMMA PairFits ==
  ASSUME NEW n \in Nat, NEW flags, Fits(flags, n)
  PROVE  /\ flags + n \div 256 \in Byte /\ n % 256 \in Byte
<1>. DEFINE x == n \div 256
            y == n % 256
<1>1. /\ x \in Nat /\ y \in 0 .. 255
      /\ (n < 65536 => x <= 255) /\ (n < 8192 => x <= 31) /\ (n < 4096 => x <= 15)
  OBVIOUS
<1>. HIDE DEF x, y
<1>2. flags + x \in Byte /\ y \in Byte
  BY <1>1 DEF Byte, Fits
<1>. QED
  BY <1>2 DEF x, y

(* What is read of it, at bit o.                                           *)
LEMMA PairIs ==
  ASSUME NEW b, NEW a \in Nat, NEW n \in Nat, NEW flags, Fits(flags, n),
         At(b, a, Pair(flags, n))
  PROVE  /\ b[a] = flags + n \div 256 /\ b[a + 1] = n % 256
         /\ b[a] \in Byte /\ b[a + 1] \in Byte
<1>1. b[a] = flags + n \div 256 /\ b[a + 1] = n % 256
  BY AtTwo DEF Pair
<1>2. flags + n \div 256 \in Byte /\ n % 256 \in Byte
  BY PairFits
<1>. QED
  BY <1>1, <1>2

LEMMA PairRead16 ==
  ASSUME NEW b, NEW a \in Nat, NEW n \in Nat, n < 65536, At(b, a, Pair(0, n)),
         NEW o, o = 8 * a
  PROVE  bits(b, o, 16) = n
<1>1. Fits(0, n)
  BY DEF Fits
<1>2. /\ b[a] = 0 + n \div 256 /\ b[a + 1] = n % 256
      /\ b[a] \in Byte /\ b[a + 1] \in Byte
  BY <1>1, PairIs
<1>3. bits(b, 8 * a, 16) = 256 * b[a] + b[a + 1]
  BY <1>2, Fields
<1>4. 256 * (0 + n \div 256) + (n % 256) = n
  OBVIOUS
<1>. QED
  BY <1>2, <1>3, <1>4

LEMMA PairRead13 ==
  ASSUME NEW b, NEW a \in Nat, NEW n \in Nat, n < 8192, At(b, a, Pair(224, n)),
         NEW o, o = 8 * a + 3
  PROVE  bits(b, o, 13) = n
<1>1. Fits(224, n)
  BY DEF Fits
<1>2. /\ b[a] = 224 + n \div 256 /\ b[a + 1] = n % 256
      /\ b[a] \in Byte /\ b[a + 1] \in Byte
  BY <1>1, PairIs
<1>3. bits(b, 8 * a + 3, 13) = 256 * (b[a] % 32) + b[a + 1]
  BY <1>2, Fields
<1>4. 256 * ((224 + n \div 256) % 32) + (n % 256) = n
  OBVIOUS
<1>. QED
  BY <1>2, <1>3, <1>4

LEMMA PairRead12 ==
  ASSUME NEW b, NEW a \in Nat, NEW n \in Nat, n < 4096,
         NEW flags \in {64, 240}, At(b, a, Pair(flags, n)),
         NEW o, o = 8 * a + 4
  PROVE  bits(b, o, 12) = n
<1>1. Fits(flags, n)
  BY DEF Fits
<1>2. /\ b[a] = flags + n \div 256 /\ b[a + 1] = n % 256
      /\ b[a] \in Byte /\ b[a + 1] \in Byte
  BY <1>1, PairIs
<1>3. bits(b, 8 * a + 4, 12) = 256 * (b[a] % 16) + b[a + 1]
  BY <1>2, Fields
<1>4. 256 * ((flags + n \div 256) % 16) + (n % 256) = n
  OBVIOUS
<1>. QED
  BY <1>2, <1>3, <1>4

LEMMA ByteRead ==
  ASSUME NEW b, NEW a \in Nat, NEW x \in Byte, At(b, a, <<x>>), NEW o, o = 8 * a
  PROVE  bits(b, o, 8) = x
<1>1. b[a] = x
  BY AtOne
<1>. QED
  BY <1>1, Fields

LEMMA FillerBytes ==
  ASSUME NEW n \in Nat
  PROVE  Bytes(Filler(n), n)
<1>1. 171 \in Nat
  OBVIOUS
<1>2. Filler(n) \in Seq(Nat) /\ Len(Filler(n)) = n
  BY <1>1 DEF Filler
<1>. QED
  BY <1>2 DEF Bytes

(* A section that fits into its block lies there, with its length.         *)
LEMMA SectionRead ==
  ASSUME NEW table_id \in Byte, NEW body \in Seq(Nat), NEW b,
         b = InMemory(Section(table_id, body)), InBlock(b)
  PROVE  /\ Len(body) + 4 < 4096
         /\ bits(b, 12, 12) = Len(body) + 4
         /\ b[0] = table_id /\ b[1] \div 128 = 1 /\ b[1] \in Byte
         /\ At(b, 3, body)
<1>. DEFINE n == Len(body) + 4
            x == n \div 256
            head == <<table_id>> \o Pair(240, n)
            most == head \o body
            s == most \o Filler(4)
            size == 256 * (s[2] % 16) + s[3] + 3 + Slack
<1>1. n \in Nat /\ x \in Nat /\ n % 256 \in 0 .. 255 /\ 256 * x + (n % 256) = n
      /\ Len(body) \in Nat /\ n >= 4
  <2>1. \A m \in Nat : /\ m + 4 \in Nat /\ m + 4 >= 4 /\ (m + 4) \div 256 \in Nat
                        /\ (m + 4) % 256 \in 0 .. 255
                        /\ 256 * ((m + 4) \div 256) + ((m + 4) % 256) = m + 4
    OBVIOUS
  <2>2. Len(body) \in Nat
    OBVIOUS
  <2>. QED
    BY <2>1, <2>2
<1>2. Section(table_id, body) = s
  BY DEF Section
<1>3. /\ Len(s) = n + 3
      /\ s[1] = table_id /\ s[2] = 240 + x /\ s[3] = n % 256
      /\ \A k \in 1 .. Len(body) : s[3 + k] = body[k]
  <2>. DEFINE p == Pair(240, n)
              t == <<table_id>>
              c == Filler(4)
              N == Nat
  <2>1. t \in Seq(N) /\ Len(t) = 1 /\ t[1] = table_id
        /\ p \in Seq(N) /\ Len(p) = 2 /\ p[1] = 240 + x /\ p[2] = n % 256
    <3>1. table_id \in Nat
      BY DEF Byte
    <3>2. 240 + x \in Nat /\ n % 256 \in Nat
      BY <1>1
    <3>. HIDE DEF n, x
    <3>. QED
      BY <3>1, <3>2 DEF Pair, x
  <2>2. /\ body \in Seq(N) /\ c \in Seq(N) /\ Len(c) = 4
    <3>1. 4 \in Nat
      OBVIOUS
    <3>2. Bytes(c, 4)
      BY <3>1, FillerBytes
    <3>. HIDE DEF c
    <3>. QED
      BY <3>2 DEF Bytes
  <2>. HIDE DEF p, t, n, x, c, N
  <2>3. head \in Seq(N) /\ Len(head) = 3 /\ head[1] = table_id
        /\ head[2] = 240 + x /\ head[3] = n % 256
    <3>a. head = t \o p
      BY DEF p, t
    <3>. HIDE DEF head
    <3>1. /\ head \in Seq(N) /\ Len(head) = Len(t) + Len(p)
          /\ \A k \in 1 .. Len(t) : head[k] = t[k]
          /\ \A k \in 1 .. Len(p) : head[Len(t) + k] = p[k]
      <4>1. t \in Seq(N) /\ p \in Seq(N)
        BY <2>1
      <4>. QED
        BY <3>a, <4>1, Joined
    <3>2. /\ \A k \in 1 .. 1 : head[k] = t[k]
          /\ \A k \in 1 .. 2 : head[1 + k] = p[k]
      BY <2>1, <3>1
    <3>3. 1 \in 1 .. 1 /\ 1 \in 1 .. 2 /\ 2 \in 1 .. 2 /\ 1 + 1 = 2 /\ 1 + 2 = 3
      OBVIOUS
    <3>. QED
      BY <2>1, <3>1, <3>2, <3>3
  <2>. HIDE DEF head
  <2>4. /\ most \in Seq(N) /\ Len(most) = 3 + Len(body)
        /\ \A k \in 1 .. 3 : most[k] = head[k]
        /\ \A k \in 1 .. Len(body) : most[3 + k] = body[k]
    <3>a. most = head \o body
      OBVIOUS
    <3>. HIDE DEF most
    <3>1. /\ most \in Seq(N) /\ Len(most) = Len(head) + Len(body)
          /\ \A k \in 1 .. Len(head) : most[k] = head[k]
          /\ \A k \in 1 .. Len(body) : most[Len(head) + k] = body[k]
      <4>1. head \in Seq(N) /\ body \in Seq(N)
        BY <2>2, <2>3
      <4>. QED
        BY <3>a, <4>1, Joined
    <3>. QED
      BY <2>3, <3>1
  <2>. HIDE DEF most
  <2>a. s = most \o c
    BY DEF c
  <2>. HIDE DEF s
  <2>5. /\ Len(s) = Len(most) + 4
        /\ \A k \in 1 .. Len(most) : s[k] = most[k]
    <3>1. most \in Seq(N) /\ c \in Seq(N)
      BY <2>2, <2>4
    <3>2. Len(s) = Len(most) + Len(c) /\ \A k \in 1 .. Len(most) : s[k] = most[k]
      BY <2>a, <3>1, Joined
    <3>. QED
      BY <2>2, <3>2
  <2>6. /\ \A k \in 1 .. 3 : k \in 1 .. Len(most)
        /\ \A k \in 1 .. Len(body) : 3 + k \in 1 .. Len(most)
    BY <1>1, <2>4
  <2>7. 1 \in 1 .. 3 /\ 2 \in 1 .. 3 /\ 3 \in 1 .. 3
    OBVIOUS
  <2>8. s[1] = head[1] /\ s[2] = head[2] /\ s[3] = head[3]
    BY <2>4, <2>5, <2>6, <2>7
  <2>9. \A k \in 1 .. Len(body) : s[3 + k] = body[k]
    BY <2>4, <2>5, <2>6
  <2>10. Len(s) = n + 3
    BY <1>1, <2>4, <2>5 DEF n
  <2>. QED
    BY <2>3, <2>8, <2>9, <2>10
<1>4. \A address \in 0 .. size + 7 : address < Len(s) => b[address] = s[address + 1]
  <2>. HIDE DEF s, size
  <2>1. b = Memory(s, size)
    BY <1>2 DEF InMemory, size
  <2>. QED
    BY <2>1 DEF Memory
<1>. HIDE DEF s, most, head
<1>a. x \in Nat
  BY <1>1
<1>. HIDE DEF x
<1>5. x % 16 \in 0 .. 15 /\ (240 + x) % 16 = x % 16 /\ (x <= 15 => x % 16 = x)
  BY <1>a
<1>6. size \in Nat /\ Slack \in Nat
  <2>1. size = 256 * (x % 16) + (n % 256) + 3 + Slack
    BY <1>3, <1>5
  <2>. HIDE DEF size, x, n
  <2>. QED
    BY <1>1, <1>5, <2>1, LayoutAssumption
<1>7. b[1] = 240 + x /\ b[1] \in Byte /\ b[0] = table_id /\ b[2] = n % 256
  <2>1. 0 \in 0 .. size + 7 /\ 1 \in 0 .. size + 7 /\ 2 \in 0 .. size + 7
        /\ 0 + 1 = 1 /\ 1 + 1 = 2 /\ 2 + 1 = 3
    BY <1>6
  <2>2. 0 < Len(s) /\ 1 < Len(s) /\ 2 < Len(s)
    BY <1>1, <1>3
  <2>3. b[1] = s[2] /\ b[0] = s[1] /\ b[2] = s[3]
    BY <1>4, <2>1, <2>2
  <2>4. b[1] \in Byte
    <3>. DEFINE m == bits(b, 12, 12)
    <3>1. m \in SectionLengths /\ b \in [0 .. m + 3 + Slack + 7 -> Byte]
      BY DEF InBlock
    <3>2. m \in Nat
      <4>. HIDE DEF m
      <4>. QED
        BY <3>1 DEF SectionLengths
    <3>. HIDE DEF m
    <3>3. 1 \in 0 .. m + 3 + Slack + 7
      BY <1>6, <3>2
    <3>. QED
      BY <3>1, <3>3
  <2>. QED
    BY <1>3, <2>3, <2>4
<1>8. x <= 15 /\ n < 4096
  <2>0. 240 + x \in Byte
    BY <1>7
  <2>. HIDE DEF x, n
  <2>1. 240 + x <= 255
    BY <1>1, <2>0 DEF Byte
  <2>. QED
    BY <1>1, <2>1
<1>9. size = n + 3 + Slack
  <2>1. size = 256 * (x % 16) + (n % 256) + 3 + Slack /\ x % 16 = x
    BY <1>1, <1>3, <1>5, <1>8
  <2>. HIDE DEF size, x, n
  <2>. QED
    BY <1>1, <1>6, <2>1
<1>10. At(b, 3, body)
  <2>. SUFFICES ASSUME NEW k \in 1 .. Len(body) PROVE b[3 + k - 1] = body[k]
    BY DEF At
  <2>. DEFINE address == 3 + k - 1
  <2>1. address \in 0 .. size + 7 /\ address < Len(s) /\ address + 1 = 3 + k
    BY <1>1, <1>3, <1>6, <1>9
  <2>. HIDE DEF address
  <2>2. b[address] = s[address + 1]
    BY <1>4, <2>1
  <2>. QED
    BY <1>3, <2>1, <2>2 DEF address
<1>11. bits(b, 12, 12) = n
  <2>1. bits(b, 8 * 1 + 4, 12) = 256 * (b[1] % 16) + b[1 + 1]
    <3>1. n % 256 \in Byte /\ 1 \in Nat /\ 1 + 1 = 2
      BY <1>1 DEF Byte
    <3>2. b[1] \in Byte /\ b[1 + 1] \in Byte
      BY <1>7, <3>1
    <3>. QED
      BY <3>1, <3>2, Fields
  <2>2. 8 * 1 + 4 = 12 /\ 1 + 1 = 2 /\ (240 + x) % 16 = x
    BY <1>1, <1>8
  <2>. HIDE DEF n, x
  <2>. QED
    BY <1>1, <1>7, <2>1, <2>2
<1>12. b[1] \div 128 = 1
  BY <1>1, <1>7, <1>8
<1>. QED
  BY <1>7, <1>8, <1>10, <1>11, <1>12

(* The copies of the layout are the same.                                  *)
LEMMA SameLayout ==
  /\ \A f, n : P!Pair(f, n) = Pair(f, n) /\ E!Pair(f, n) = Pair(f, n)
  /\ \A n : P!Filler(n) = Filler(n) /\ E!Filler(n) = Filler(n)
  /\ \A i, s : P!Section(i, s) = Section(i, s) /\ E!Section(i, s) = Section(i, s)
  /\ \A s : P!FlattenSeq(s) = FlattenSeq(s) /\ E!FlattenSeq(s) = FlattenSeq(s)
  /\ P!Damaged = Damaged /\ E!Damaged = Damaged /\ P!Byte = Byte /\ E!Byte = Byte
<1>1. /\ \A f, n : P!Pair(f, n) = Pair(f, n) /\ E!Pair(f, n) = Pair(f, n)
      /\ \A n : P!Filler(n) = Filler(n) /\ E!Filler(n) = Filler(n)
  BY DEF P!Pair, E!Pair, Pair, P!Filler, E!Filler, Filler
<1>2. \A i, s : P!Section(i, s) = Section(i, s) /\ E!Section(i, s) = Section(i, s)
  BY <1>1 DEF P!Section, E!Section, Section
<1>3. \A s : P!FlattenSeq(s) = FlattenSeq(s)
  BY DEF P!FlattenSeq, FlattenSeq
<1>4. \A s : E!FlattenSeq(s) = FlattenSeq(s)
  BY DEF E!FlattenSeq, FlattenSeq
<1>5. P!Damaged = Damaged /\ E!Damaged = Damaged /\ P!Byte = Byte /\ E!Byte = Byte
  BY DEF P!Damaged, E!Damaged, Damaged, P!Byte, E!Byte, Byte
<1>. QED
  BY <1>1, <1>2, <1>3, <1>4, <1>5

(* The entry of a stream lies at byte q.                                   *)
StreamAt(b, q, e) ==
  /\ bits(b, 8 * q, 8) = e.stream_type
  /\ bits(b, 8 * q + 11, 13) = e.elementary_PID
  /\ bits(b, 8 * q + 28, 12) = e.info

LEMMA StreamRead ==
  ASSUME NEW e \in P!TableStream
  PROVE  /\ Bytes(P!StreamBytes(e), 5 + e.info) /\ e.info \in Nat
         /\ \A b, q : q \in Nat /\ At(b, q, P!StreamBytes(e)) => StreamAt(b, q, e)
<1>. DEFINE w == <<e.stream_type>>
            x == Pair(224, e.elementary_PID)
            y == Pair(240, e.info)
            z == Filler(e.info)
            v == w \o x \o y \o z
            n == 5 + e.info
<1>1. /\ e.stream_type \in Byte /\ e.elementary_PID \in Nat /\ e.elementary_PID < 8192
      /\ e.info \in Nat /\ e.info < 4096
  <2>1. 2^13 = 8192 /\ 2^12 = 4096
    OBVIOUS
  <2>2. /\ e.stream_type \in Byte /\ e.elementary_PID \in 0 .. 2^13 - 1
        /\ e.info \in 0 .. 2^12 - 1
    BY SameLayout DEF P!TableStream
  <2>. QED
    BY <2>1, <2>2
<1>2. Bytes(w, 1)
  <2>1. e.stream_type \in Nat
    BY <1>1 DEF Byte
  <2>. QED
    BY <2>1 DEF Bytes
<1>3. Bytes(x, 2) /\ Bytes(y, 2)
  BY <1>1, PairBytes
<1>4. Bytes(z, e.info)
  BY <1>1, FillerBytes
<1>5. P!StreamBytes(e) = v
  BY SameLayout DEF P!StreamBytes
<1>. HIDE DEF w, x, y, z, n
<1>6. Bytes(w \o x, 3)
  BY <1>2, <1>3, Longer
<1>7. Bytes(w \o x \o y, 5)
  BY <1>3, <1>6, Longer
<1>8. Bytes(v, n)
  BY <1>4, <1>7, Longer DEF n
<1>9. ASSUME NEW b, NEW q \in Nat, At(b, q, v) PROVE StreamAt(b, q, e)
  <2>1. At(b, q, w \o x \o y)
    BY <1>4, <1>7, <1>9, Parts
  <2>2. At(b, q, w \o x) /\ At(b, q + 3, y) /\ q + 3 \in Nat
    BY <1>3, <1>6, <2>1, Parts
  <2>3. At(b, q, w) /\ At(b, q + 1, x) /\ q + 1 \in Nat
    BY <1>2, <1>3, <2>2, Parts
  <2>4. bits(b, 8 * q, 8) = e.stream_type
    BY <1>1, <2>3, ByteRead DEF w
  <2>5. bits(b, 8 * q + 11, 13) = e.elementary_PID
    <3>1. 8 * q + 11 = 8 * (q + 1) + 3
      OBVIOUS
    <3>. QED
      BY <1>1, <2>3, <3>1, PairRead13 DEF x
  <2>6. bits(b, 8 * q + 28, 12) = e.info
    <3>1. 8 * q + 28 = 8 * (q + 3) + 4 /\ 240 \in {64, 240}
      OBVIOUS
    <3>. QED
      BY <1>1, <2>2, <3>1, PairRead12 DEF y
  <2>. QED
    BY <2>4, <2>5, <2>6 DEF StreamAt
<1>. HIDE DEF v
<1>. QED
  BY <1>1, <1>5, <1>8, <1>9 DEF n

(* A table lies in its section; off[k] is how far the first k streams go.  *)
PmtLaid(table, b, off) ==
  LET N == Len(table.streams) IN
  /\ off \in [0 .. N -> Nat] /\ off[0] = 0 /\ table.info \in Nat /\ N \in Nat
  /\ table.streams \in Seq(P!TableStream)
  /\ bits(b, 12, 12) = 13 + table.info + off[N]
  /\ bits(b, 24, 16) = table.program_number
  /\ bits(b, 67, 13) = table.PCR_PID
  /\ bits(b, 84, 12) = table.info
  /\ \A k \in 1 .. N :
       /\ off[k] = off[k - 1] + 5 + table.streams[k].info
       /\ table.streams[k].info \in Nat
       /\ off[k] <= off[N]
       /\ StreamAt(b, 12 + table.info + off[k - 1], table.streams[k])

LEMMA PmtRead ==
  ASSUME NEW table \in P!Table, NEW b, b = InMemory(P!PmtBytes(table)), InBlock(b)
  PROVE  \E off : PmtLaid(table, b, off)
<1>. DEFINE N == Len(table.streams)
            c == [k \in DOMAIN table.streams |-> P!StreamBytes(table.streams[k])]
            r == Pair(0, table.program_number)
            s == <<193, 0, 0>>
            t == Pair(224, table.PCR_PID)
            u == Pair(240, table.info)
            v == Filler(table.info)
            w == FlattenSeq(c)
            body == r \o s \o t \o u \o v \o w
            n == 9 + table.info
<1>1. /\ table.streams \in Seq(P!TableStream)
      /\ table.program_number \in Nat /\ table.program_number < 65536
      /\ table.PCR_PID \in Nat /\ table.PCR_PID < 8192
      /\ table.info \in Nat /\ table.info < 4096
  <2>1. 2^16 = 65536 /\ 2^13 = 8192 /\ 2^12 = 4096
    OBVIOUS
  <2>2. /\ table.streams \in Seq(P!TableStream)
        /\ table.program_number \in 0 .. 2^16 - 1 /\ table.PCR_PID \in 0 .. 2^13 - 1
        /\ table.info \in 0 .. 2^12 - 1
    BY DEF P!Table
  <2>. QED
    BY <2>1, <2>2
<1>2. N \in Nat /\ DOMAIN table.streams = 1 .. N
      /\ \A k \in 1 .. N : table.streams[k] \in P!TableStream
  BY <1>1
<1>3. c \in Seq(Seq(Nat)) /\ Len(c) = N
      /\ \A k \in 1 .. N : c[k] = P!StreamBytes(table.streams[k])
  <2>1. \A k \in 1 .. N : P!StreamBytes(table.streams[k]) \in Seq(Nat)
    BY <1>2, StreamRead DEF Bytes
  <2>. HIDE DEF N
  <2>. QED
    BY <1>2, <2>1
<1>. HIDE DEF c
<1>4. w \in Seq(Nat) /\ Len(w) \in Nat /\ Bytes(w, Len(w))
  <2>1. w \in Seq(Nat)
    BY <1>3, PlacesExist
  <2>. HIDE DEF w
  <2>. QED
    BY <2>1 DEF Bytes
<1>5. PICK off : JoinedAt(c, w, off)
  BY <1>3, PlacesExist
<1>6. Bytes(r, 2) /\ Bytes(t, 2) /\ Bytes(u, 2)
  BY <1>1, PairBytes
<1>7. Bytes(v, table.info) /\ Bytes(s, 3)
  <2>1. s \in Seq(Nat) /\ Len(s) = 3
    OBVIOUS
  <2>. HIDE DEF s
  <2>2. Bytes(s, 3)
    BY <2>1 DEF Bytes
  <2>. QED
    BY <1>1, <2>2, FillerBytes
<1>8. P!PmtBytes(table) = Section(2, body)
  BY SameLayout DEF P!PmtBytes, c
<1>. HIDE DEF r, s, t, u, v, w, N, n
<1>9. Bytes(r \o s, 5)
  BY <1>6, <1>7, Longer
<1>10. Bytes(r \o s \o t, 7)
  BY <1>6, <1>9, Longer
<1>11. Bytes(r \o s \o t \o u, 9)
  BY <1>6, <1>10, Longer
<1>12. Bytes(r \o s \o t \o u \o v, n)
  BY <1>7, <1>11, Longer DEF n
<1>13. Bytes(body, n + Len(w)) /\ n \in Nat
  <2>1. n \in Nat
    BY <1>12 DEF Bytes
  <2>. QED
    BY <1>4, <1>12, <2>1, Longer
<1>14. bits(b, 12, 12) = n + Len(w) + 4 /\ At(b, 3, body)
  <2>1. 2 \in Byte
    BY DEF Byte
  <2>2. body \in Seq(Nat) /\ Len(body) = n + Len(w)
    BY <1>13 DEF Bytes
  <2>. HIDE DEF body
  <2>. QED
    BY <1>8, <2>1, <2>2, SectionRead
<1>15. At(b, 3, r \o s \o t \o u \o v) /\ At(b, 12 + table.info, w)
  <2>1. 12 + table.info = 3 + n
    BY <1>1 DEF n
  <2>. QED
    BY <1>4, <1>12, <1>14, <2>1, Parts
<1>16. At(b, 3, r \o s \o t \o u)
  BY <1>7, <1>11, <1>15, Parts
<1>17. At(b, 3, r \o s \o t) /\ At(b, 10, u)
  BY <1>6, <1>10, <1>16, Parts
<1>18. At(b, 3, r \o s) /\ At(b, 8, t)
  BY <1>6, <1>9, <1>17, Parts
<1>19. At(b, 3, r)
  BY <1>6, <1>7, <1>18, Parts
<1>20. /\ bits(b, 24, 16) = table.program_number /\ bits(b, 67, 13) = table.PCR_PID
       /\ bits(b, 84, 12) = table.info
  <2>1. ASSUME NEW a \in Nat, a = 3, NEW o, o = 24 PROVE bits(b, o, 16) = table.program_number
    <3>1. At(b, a, r) /\ o = 8 * a
      BY <1>19, <2>1
    <3>. QED
      BY <1>1, <3>1, PairRead16 DEF r
  <2>2. ASSUME NEW a \in Nat, a = 8, NEW o, o = 67 PROVE bits(b, o, 13) = table.PCR_PID
    <3>1. At(b, a, t) /\ o = 8 * a + 3
      BY <1>18, <2>2
    <3>. QED
      BY <1>1, <3>1, PairRead13 DEF t
  <2>3. ASSUME NEW a \in Nat, a = 10, NEW o, o = 84 PROVE bits(b, o, 12) = table.info
    <3>1. At(b, a, u) /\ o = 8 * a + 4 /\ 240 \in {64, 240}
      BY <1>17, <2>3
    <3>. QED
      BY <1>1, <3>1, PairRead12 DEF u
  <2>4. 3 \in Nat /\ 8 \in Nat /\ 10 \in Nat
    OBVIOUS
  <2>. QED
    BY <2>1, <2>2, <2>3, <2>4
<1>21. off \in [0 .. N -> Nat] /\ off[0] = 0 /\ off[N] = Len(w)
  BY <1>3, <1>5 DEF JoinedAt
<1>22. ASSUME NEW k \in 1 .. N
       PROVE  /\ off[k] = off[k - 1] + 5 + table.streams[k].info
              /\ table.streams[k].info \in Nat
              /\ off[k] <= off[N]
              /\ StreamAt(b, 12 + table.info + off[k - 1], table.streams[k])
  <2>. DEFINE a == 12 + table.info
              e == table.streams[k]
  <2>1. a \in Nat /\ At(b, a, w)
    BY <1>1, <1>15
  <2>2. c[k] = P!StreamBytes(e) /\ e \in P!TableStream
    BY <1>2, <1>3
  <2>. HIDE DEF a
  <2>3. /\ off[k - 1] \in Nat /\ off[k] \in Nat /\ off[k] = off[k - 1] + Len(c[k])
        /\ off[k] <= off[N] /\ At(b, a + off[k - 1], c[k])
    <3>1. k \in 1 .. Len(c) /\ c \in Seq(Seq(Nat)) /\ w \in Seq(Nat)
      BY <1>3, <1>4
    <3>2. MemberAt(b, a, c, off, k)
      BY <1>5, <2>1, <3>1, AtPlaced
    <3>. QED
      BY <1>3, <3>2 DEF MemberAt
  <2>. HIDE DEF e
  <2>4. e.info \in Nat /\ Len(c[k]) = 5 + e.info
    BY <2>2, StreamRead DEF Bytes
  <2>5. off[k] = off[k - 1] + 5 + e.info
    BY <2>3, <2>4
  <2>6. StreamAt(b, a + off[k - 1], e)
    <3>1. a + off[k - 1] \in Nat
      BY <2>1, <2>3
    <3>. QED
      BY <2>2, <2>3, <3>1, StreamRead
  <2>. QED
    BY <2>3, <2>4, <2>5, <2>6 DEF a, e
<1>23. bits(b, 12, 12) = 13 + table.info + off[N]
  BY <1>1, <1>4, <1>13, <1>14, <1>21 DEF n
<1>24. PmtLaid(table, b, off)
  BY <1>1, <1>2, <1>20, <1>21, <1>22, <1>23 DEF PmtLaid, N
<1>. QED
  BY <1>24

(* What has been read of a table when the decoder is at bit o.             *)
StreamOf(e) == [stream_type |-> e.stream_type, elementary_PID |-> e.elementary_PID]

PmtGot(table, b, got, o) ==
  LET n == Len(got.streams) IN
  /\ got.program_number = table.program_number /\ got.PCR_PID = table.PCR_PID
  /\ n \in 0 .. Len(table.streams)
  /\ \A k \in 1 .. n : got.streams[k] = StreamOf(table.streams[k])
  /\ \E off : PmtLaid(table, b, off) /\ o = 8 * (12 + table.info + off[n])

PmtRight ==
  pc \in PmtStates /\ sent # Damaged =>
    /\ sent \in P!Table /\ buf = InMemory(P!PmtBytes(sent))
    /\ pc = "pmt streams" => PmtGot(sent, buf, pmt, boff)
    /\ P!PmtExact

(* Positions in bits and in bytes.                                         *)
LEMMA Octets ==
  \A x, y, z \in Nat :
    /\ (8 * (12 + x + y)) \div 8 = 12 + x + y
    /\ 8 * (12 + x + y) + 8 * 5 + 8 * z = 8 * (12 + x + (y + 5 + z))
    /\ 8 * 12 + 8 * x = 8 * (12 + x + 0)
OBVIOUS

(* One more stream.                                                        *)
LEMMA OneStreamMore ==
  ASSUME NEW table, NEW b, NEW got, NEW o, PmtGot(table, b, got, o),
         got \in TS_PMT, o \div 8 < bits(b, 12, 12) - 4,
         NEW next,
         next = [got EXCEPT !.streams =
                   Append(@, [stream_type    |-> bits(b, o, 8),
                              elementary_PID |-> bits(b, o + 11, 13)])]
  PROVE  PmtGot(table, b, next, o + 8 * 5 + 8 * bits(b, o + 28, 12))
<1>. DEFINE n == Len(got.streams)
            N == Len(table.streams)
            e == table.streams[n + 1]
            got1 == [stream_type |-> bits(b, o, 8), elementary_PID |-> bits(b, o + 11, 13)]
            o1 == o + 8 * 5 + 8 * bits(b, o + 28, 12)
<1>1. PICK off : PmtLaid(table, b, off) /\ o = 8 * (12 + table.info + off[n])
  BY DEF PmtGot
<1>2. n \in 0 .. N /\ N \in Nat /\ off \in [0 .. N -> Nat] /\ table.info \in Nat
  BY <1>1 DEF PmtGot, PmtLaid
<1>3. bits(b, 12, 12) = 13 + table.info + off[N]
  BY <1>1 DEF PmtLaid
<1>. HIDE DEF N, n
<1>4. n \in 0 .. N - 1 /\ n + 1 \in 1 .. N /\ n + 1 \in 0 .. N /\ (n + 1) - 1 = n
      /\ off[n] \in Nat /\ off[N] \in Nat
  <2>1. off[n] \in Nat /\ off[N] \in Nat
    BY <1>2
  <2>2. o \div 8 = 12 + table.info + off[n]
    BY <1>1, <1>2, <2>1, Octets
  <2>3. n # N
    BY <1>2, <1>3, <2>1, <2>2
  <2>. QED
    BY <1>2, <2>1, <2>3
<1>5. /\ off[n + 1] = off[n] + 5 + e.info /\ e.info \in Nat
      /\ StreamAt(b, 12 + table.info + off[n], e)
  <2>1. \A k \in 1 .. N :
          /\ off[k] = off[k - 1] + 5 + table.streams[k].info
          /\ table.streams[k].info \in Nat
          /\ StreamAt(b, 12 + table.info + off[k - 1], table.streams[k])
    BY <1>1 DEF PmtLaid, N
  <2>. QED
    BY <1>4, <2>1
<1>6. got1 = StreamOf(e) /\ bits(b, o + 28, 12) = e.info
  BY <1>1, <1>5 DEF StreamAt, StreamOf
<1>7. o1 = 8 * (12 + table.info + off[n + 1])
  <2>1. o1 = 8 * (12 + table.info + off[n]) + 8 * 5 + 8 * e.info
    BY <1>1, <1>6
  <2>2. /\ table.info \in Nat /\ off[n] \in Nat /\ e.info \in Nat
        /\ off[n + 1] = off[n] + 5 + e.info
    BY <1>2, <1>4, <1>5
  <2>. DEFINE i == table.info
              f == off[n]
              x == e.info
  <2>. HIDE DEF e, o1, i, f, x
  <2>3. 8 * (12 + i + f) + 8 * 5 + 8 * x = 8 * (12 + i + (f + 5 + x))
    BY <2>2, Octets DEF i, f, x
  <2>. QED
    BY <2>1, <2>2, <2>3 DEF i, f, x
<1>8. /\ Len(next.streams) = n + 1
      /\ next.program_number = got.program_number /\ next.PCR_PID = got.PCR_PID
      /\ \A k \in 1 .. n : next.streams[k] = got.streams[k]
      /\ next.streams[n + 1] = got1
  <2>1. got.streams \in Seq(PmtStream)
    BY DEF TS_PMT
  <2>. HIDE DEF got1
  <2>2. next = [got EXCEPT !.streams = Append(got.streams, got1)]
    BY DEF got1
  <2>3. next.streams = Append(got.streams, got1)
        /\ next.program_number = got.program_number /\ next.PCR_PID = got.PCR_PID
    BY <2>2 DEF TS_PMT
  <2>4. /\ Len(Append(got.streams, got1)) = n + 1
        /\ \A k \in 1 .. n : Append(got.streams, got1)[k] = got.streams[k]
        /\ Append(got.streams, got1)[n + 1] = got1
    BY <2>1 DEF n
  <2>. QED
    BY <2>3, <2>4
<1>9. \A k \in 1 .. n + 1 : next.streams[k] = StreamOf(table.streams[k])
  <2>1. \A k \in 1 .. n : next.streams[k] = StreamOf(table.streams[k])
    BY <1>8 DEF PmtGot, n
  <2>2. next.streams[n + 1] = StreamOf(table.streams[n + 1])
    BY <1>6, <1>8
  <2>3. \A k \in 1 .. n + 1 : k \in 1 .. n \/ k = n + 1
    BY <1>4
  <2>. QED
    BY <2>1, <2>2, <2>3
<1>10. next.program_number = table.program_number /\ next.PCR_PID = table.PCR_PID
  BY <1>8 DEF PmtGot
<1>. HIDE DEF o1, got1, e
<1>11. PmtGot(table, b, next, o1)
  BY <1>1, <1>4, <1>7, <1>8, <1>9, <1>10 DEF PmtGot, N
<1>. QED
  BY <1>11 DEF o1

(* At the end of the loop all of them have been read.                      *)
LEMMA NoStreamMore ==
  ASSUME NEW table, NEW b, NEW got, NEW o, PmtGot(table, b, got, o),
         got \in TS_PMT, o \div 8 >= bits(b, 12, 12) - 4
  PROVE  /\ got.program_number = table.program_number /\ got.PCR_PID = table.PCR_PID
         /\ got.streams = [k \in DOMAIN table.streams |-> StreamOf(table.streams[k])]
<1>. DEFINE n == Len(got.streams)
            N == Len(table.streams)
<1>1. PICK off : PmtLaid(table, b, off) /\ o = 8 * (12 + table.info + off[n])
  BY DEF PmtGot
<1>2. n \in 0 .. N /\ N \in Nat /\ off \in [0 .. N -> Nat] /\ table.info \in Nat
  BY <1>1 DEF PmtGot, PmtLaid
<1>3. bits(b, 12, 12) = 13 + table.info + off[N]
  BY <1>1 DEF PmtLaid
<1>a. \A k \in 1 .. N :
        /\ off[k] = off[k - 1] + 5 + table.streams[k].info
        /\ table.streams[k].info \in Nat
        /\ off[k] <= off[N]
  BY <1>1 DEF PmtLaid
<1>b. DOMAIN table.streams = 1 .. N
  BY <1>1 DEF PmtLaid
<1>. HIDE DEF N, n
<1>4. off[n] \in Nat /\ off[N] \in Nat
  BY <1>2
<1>5. n = N
  <2>. SUFFICES ASSUME n # N PROVE FALSE
    OBVIOUS
  <2>1. n + 1 \in 1 .. N /\ (n + 1) - 1 = n /\ n + 1 \in 0 .. N
    BY <1>2
  <2>2. /\ off[n + 1] = off[n] + 5 + table.streams[n + 1].info
        /\ table.streams[n + 1].info \in Nat
        /\ off[n + 1] <= off[N] /\ off[n + 1] \in Nat
    BY <1>2, <1>a, <2>1
  <2>3. o \div 8 = 12 + table.info + off[n]
    BY <1>1, <1>2, <1>4, Octets
  <2>4. 12 + table.info + off[n] >= (13 + table.info + off[N]) - 4
    BY <1>3, <2>3
  <2>. DEFINE i == table.info
              x == table.streams[n + 1].info
              f == off[n]
              g == off[n + 1]
              h == off[N]
  <2>5. i \in Nat /\ x \in Nat /\ f \in Nat /\ g \in Nat /\ h \in Nat
    BY <1>2, <1>4, <2>2
  <2>6. g = f + 5 + x /\ g <= h /\ 12 + i + f >= (13 + i + h) - 4
    BY <2>2, <2>4
  <2>. HIDE DEF i, x, f, g, h
  <2>. QED
    BY <2>5, <2>6
<1>6. got.streams \in Seq(PmtStream) /\ Len(got.streams) = n
  BY DEF TS_PMT, n
<1>7. \A k \in 1 .. n : got.streams[k] = StreamOf(table.streams[k])
  BY DEF PmtGot, n
<1>8. got.streams = [k \in 1 .. n |-> got.streams[k]]
  BY <1>6
<1>9. [k \in 1 .. n |-> got.streams[k]]
        = [k \in DOMAIN table.streams |-> StreamOf(table.streams[k])]
  BY <1>5, <1>7, <1>b
<1>. QED
  BY <1>8, <1>9 DEF PmtGot

(* A step of the decoder.                                                  *)
LEMMA PmtRightStep ==
  ASSUME Decoding, PmtPlaced, PmtRight, P!Next
  PROVE  PmtRight'
<1>. SUFFICES ASSUME sent' # Damaged PROVE
        /\ sent' \in P!Table /\ buf' = InMemory(P!PmtBytes(sent'))
        /\ pc' = "pmt streams" => PmtGot(sent', buf', pmt', boff')
        /\ P!PmtExact'
  BY DEF PmtRight
<1>0. pc \in PmtStates /\ pc # "tot" /\ sent' = sent /\ buf' = buf
  BY DEF P!Next, P!ReadHeader, P!ReadStream, P!EndOfStreams, P!ReadOutside, PmtStates
<1>1. sent # Damaged /\ sent \in P!Table /\ buf = InMemory(P!PmtBytes(sent)) /\ InBlock(buf)
  BY <1>0 DEF PmtRight, Decoding
<1>2. PICK off0 : PmtLaid(sent, buf, off0)
  BY <1>1, PmtRead
<1>3. P!section_length = bits(buf, 12, 12)
  BY <1>1, BlockHasBytes
<1>4. P!end_of_streams = bits(buf, 12, 12) - 4
  <2>. DEFINE N == Len(sent.streams)
  <2>1. /\ bits(buf, 12, 12) = 13 + sent.info + off0[N] /\ sent.info \in Nat
        /\ N \in Nat /\ off0 \in [0 .. N -> Nat]
    BY <1>2 DEF PmtLaid
  <2>. HIDE DEF N
  <2>2. bits(buf, 12, 12) >= 4
    BY <2>1
  <2>. QED
    BY <1>1, <1>3, <2>2, EndOfLoop
<1>5. \A b, o, n : P!bits(b, o, n) = bits(b, o, n)
  BY SameOperators
<1>6. CASE P!ReadHeader
  <2>1. /\ pmt' = [program_number |-> bits(buf, 24, 16), PCR_PID |-> bits(buf, 67, 13),
                   end_of_streams |-> P!end_of_streams, streams |-> <<>>]
        /\ boff' = 8 * 12 + 8 * bits(buf, 84, 12) /\ pc' = "pmt streams"
    BY <1>5, <1>6 DEF P!ReadHeader, P!HeaderSize
  <2>2. /\ bits(buf, 24, 16) = sent.program_number /\ bits(buf, 67, 13) = sent.PCR_PID
        /\ bits(buf, 84, 12) = sent.info /\ sent.info \in Nat /\ off0[0] = 0
        /\ Len(sent.streams) \in Nat
    BY <1>2 DEF PmtLaid
  <2>3. boff' = 8 * (12 + sent.info + off0[0])
    <3>1. boff' = 8 * 12 + 8 * sent.info
      BY <2>1, <2>2
    <3>. QED
      BY <2>2, <3>1, Octets
  <2>4. /\ Len(pmt'.streams) = 0 /\ pmt'.program_number = sent.program_number
        /\ pmt'.PCR_PID = sent.PCR_PID
    BY <2>1, <2>2
  <2>5. 0 \in 0 .. Len(sent.streams) /\ \A k \in 1 .. 0 : FALSE
    BY <2>2
  <2>6. PmtGot(sent, buf, pmt', boff')
    BY <1>2, <2>3, <2>4, <2>5 DEF PmtGot
  <2>. QED
    BY <1>0, <1>1, <2>1, <2>6 DEF P!PmtExact
<1>7. CASE P!ReadStream
  <2>1. /\ pmt' = [pmt EXCEPT !.streams =
                     Append(@, [stream_type    |-> bits(buf, boff, 8),
                                elementary_PID |-> bits(buf, boff + 11, 13)])]
        /\ boff' = boff + 8 * 5 + 8 * bits(buf, boff + 28, 12)
        /\ pc = "pmt streams" /\ pc' = "pmt streams"
        /\ boff \div 8 < pmt.end_of_streams
    BY <1>5, <1>7 DEF P!ReadStream, P!StreamEntrySize, P!SkipInfo
  <2>2. pmt \in TS_PMT /\ pmt.end_of_streams = P!end_of_streams
    BY <2>1 DEF PmtPlaced
  <2>3. PmtGot(sent, buf, pmt, boff)
    BY <1>0, <1>1, <2>1 DEF PmtRight
  <2>4. PmtGot(sent, buf, pmt', boff')
    BY <1>4, <2>1, <2>2, <2>3, OneStreamMore
  <2>. QED
    BY <1>0, <1>1, <2>1, <2>4 DEF P!PmtExact
<1>8. CASE P!EndOfStreams
  <2>1. /\ pmt' = pmt /\ pc = "pmt streams" /\ pc' = "pmt done"
        /\ boff \div 8 >= pmt.end_of_streams
    BY <1>8 DEF P!EndOfStreams
  <2>2. pmt \in TS_PMT /\ pmt.end_of_streams = P!end_of_streams
    BY <2>1 DEF PmtPlaced
  <2>3. PmtGot(sent, buf, pmt, boff)
    BY <1>0, <1>1, <2>1 DEF PmtRight
  <2>4. /\ pmt.program_number = sent.program_number /\ pmt.PCR_PID = sent.PCR_PID
        /\ pmt.streams = [k \in DOMAIN sent.streams |-> StreamOf(sent.streams[k])]
    <3>1. boff \div 8 >= bits(buf, 12, 12) - 4
      BY <1>4, <2>1, <2>2
    <3>. QED
      BY <2>2, <2>3, <3>1, NoStreamMore
  <2>. QED
    BY <1>0, <1>1, <2>1, <2>4 DEF P!PmtExact, StreamOf
<1>9. CASE P!ReadOutside
  <2>1. pc' = "pmt outside"
    BY <1>9 DEF P!ReadOutside
  <2>. QED
    BY <1>0, <1>1, <2>1 DEF P!PmtExact
<1>. QED
  BY <1>6, <1>7, <1>8, <1>9 DEF P!Next

(* Two digits of a time.                                                   *)
LEMMA BcdIsRead ==
  ASSUME NEW n \in 0 .. 99
  PROVE  E!Bcd(n) \in Byte /\ T!hex_to_digi(E!Bcd(n)) = n
<1>. DEFINE h == n \div 10
            l == n % 10
            x == 16 * h + l
<1>1. h \in 0 .. 9 /\ l \in 0 .. 9 /\ 10 * h + l = n
  OBVIOUS
<1>. HIDE DEF h, l
<1>2. x \in Byte /\ x \div 16 = h /\ x % 16 = l
  BY <1>1 DEF Byte
<1>3. E!Bcd(n) = x
  BY DEF E!Bcd, h, l
<1>. HIDE DEF x
<1>4. T!hex_to_digi(x) = 10 * h + l
  <2>1. h <= 9 /\ ~(h > 9) /\ l <= 9 /\ ~(l > 9)
    BY <1>1
  <2>. QED
    BY <1>2, <2>1 DEF T!hex_to_digi
<1>. QED
  BY <1>1, <1>2, <1>3, <1>4

(* The calendar is that of KeepsCalendar.                                  *)
LEMMA CalendarIs ==
  ASSUME NEW d \in Nat, d < 65536
  PROVE  Calendar[d] = DateOf(T!mjd_to_tm(d))
<1>. DEFINE last == 2^16 - 1
            S == {i \in 0 .. last : Calendar[i] = DateOf(T!mjd_to_tm(i))}
<1>1. last \in Nat /\ Days = 1 .. last /\ d \in 0 .. last
      /\ \A m \in Nat : m < last => m < 65535
  <2>1. last = 65535
    OBVIOUS
  <2>2. Days = 1 .. last
    BY DEF Days
  <2>. HIDE DEF last
  <2>3. last \in Nat /\ d <= last
    BY <2>1
  <2>4. \A m \in Nat : m < last => m < 65535
    BY <2>1
  <2>5. d \in 0 .. last
    BY <2>3
  <2>. QED
    BY <2>2, <2>3, <2>4, <2>5
<1>. HIDE DEF last
<1>2. 0 \in S
  <2>1. Calendar[0] = T!DayZero /\ T!DayZero = DateOf(T!mjd_to_tm(0)) /\ 0 \in 0 .. last
    BY <1>1, DecodersAssumption, KeepsCalendar
  <2>. QED
    BY <2>1
<1>3. ASSUME NEW i \in 0 .. last - 1, i \in S PROVE i + 1 \in S
  <2>1. /\ i \in Nat /\ i < 65535 /\ i + 1 \in Days /\ i + 1 \in 0 .. last
        /\ (i + 1) - 1 = i
    BY <1>1
  <2>2. Calendar[i + 1] = T!NextDay(Calendar[(i + 1) - 1])
    BY <2>1, DecodersAssumption
  <2>3. Calendar[i] = DateOf(T!mjd_to_tm(i))
    BY <1>3
  <2>4. T!NextDay(DateOf(T!mjd_to_tm(i))) = DateOf(T!mjd_to_tm(i + 1))
    BY <2>1, KeepsCalendar
  <2>. QED
    BY <2>1, <2>2, <2>3, <2>4
<1>. HIDE DEF S
<1>4. \A i \in 0 .. last : i \in S
  BY <1>1, <1>2, <1>3, ByInduction
<1>. QED
  BY <1>1, <1>4 DEF S

(* What a time is read as.                                                 *)
TimeIs(tm, e) ==
  /\ <<tm.tm_year + 1900, tm.tm_mon + 1, tm.tm_mday>> = Calendar[e.day]
  /\ <<tm.tm_hour, tm.tm_min, tm.tm_sec>> = e.time

(* An event with n bytes of descriptors lies at byte q.                    *)
EventAt(b, q, e, n) ==
  /\ bits(b, 8 * q, 16) = e.event_id
  /\ TimeIs(T!time_to_tm(b, q + 2), e)
  /\ T!hex_to_digi(bits(b, 8 * q + 56, 8)) = e.duration[1]
  /\ T!hex_to_digi(bits(b, 8 * q + 64, 8)) = e.duration[2]
  /\ T!hex_to_digi(bits(b, 8 * q + 72, 8)) = e.duration[3]
  /\ bits(b, 8 * q + 84, 12) = n

LEMMA TimeBytesRead ==
  ASSUME NEW time \in E!Times
  PROVE  /\ Bytes(E!TimeBytes(time), 3)
         /\ \A b, q : q \in Nat /\ At(b, q, E!TimeBytes(time)) =>
              /\ b[q] \in Byte /\ b[q + 1] \in Byte /\ b[q + 2] \in Byte
              /\ T!hex_to_digi(b[q]) = time[1] /\ T!hex_to_digi(b[q + 1]) = time[2]
              /\ T!hex_to_digi(b[q + 2]) = time[3]
<1>. DEFINE s == E!TimeBytes(time)
<1>1. \A k \in 1 .. 3 : time[k] \in 0 .. 99
  BY DEF E!Times
<1>2. \A k \in 1 .. 3 : E!Bcd(time[k]) \in Byte /\ T!hex_to_digi(E!Bcd(time[k])) = time[k]
  BY <1>1, BcdIsRead
<1>3. s = [k \in 1 .. 3 |-> E!Bcd(time[k])]
  BY DEF E!TimeBytes
<1>. HIDE DEF s
<1>4. Len(s) = 3 /\ s \in Seq(Nat) /\ \A k \in 1 .. 3 : s[k] = E!Bcd(time[k])
  <2>1. \A k \in 1 .. 3 : E!Bcd(time[k]) \in Nat
    BY <1>2 DEF Byte
  <2>. QED
    BY <1>3, <2>1
<1>5. Bytes(s, 3)
  BY <1>4 DEF Bytes
<1>6. ASSUME NEW b, NEW q \in Nat, At(b, q, s)
      PROVE  /\ b[q] \in Byte /\ b[q + 1] \in Byte /\ b[q + 2] \in Byte
             /\ T!hex_to_digi(b[q]) = time[1] /\ T!hex_to_digi(b[q + 1]) = time[2]
             /\ T!hex_to_digi(b[q + 2]) = time[3]
  <2>1. \A k \in 1 .. 3 : b[q + k - 1] = E!Bcd(time[k])
    BY <1>4, <1>6 DEF At
  <2>2. q + 1 - 1 = q /\ q + 2 - 1 = q + 1 /\ q + 3 - 1 = q + 2 /\ 1 \in 1 .. 3 /\ 2 \in 1 .. 3
        /\ 3 \in 1 .. 3
    OBVIOUS
  <2>3. b[q] = E!Bcd(time[1]) /\ b[q + 1] = E!Bcd(time[2]) /\ b[q + 2] = E!Bcd(time[3])
    BY <2>1, <2>2
  <2>. QED
    BY <1>2, <2>2, <2>3
<1>. QED
  BY <1>5, <1>6 DEF s

(* The fields of an event, whatever its descriptors are.                   *)
LEMMA EventRead ==
  ASSUME NEW e \in E!TableEvent, NEW d, NEW n, Bytes(d, n)
  PROVE  LET s == Pair(0, e.event_id) \o Pair(0, e.day) \o E!TimeBytes(e.time)
                  \o E!TimeBytes(e.duration) \o Pair(64, n) \o d
         IN /\ Bytes(s, 12 + n)
            /\ \A b, q : n < 4096 /\ q \in Nat /\ At(b, q, s) =>
                 EventAt(b, q, e, n) /\ At(b, q + 12, d)
<1>. DEFINE r == Pair(0, e.event_id)
            t == Pair(0, e.day)
            u == E!TimeBytes(e.time)
            v == E!TimeBytes(e.duration)
            w == Pair(64, n)
            s == r \o t \o u \o v \o w \o d
            m == 12 + n
<1>1. /\ e.event_id \in Nat /\ e.event_id < 65536 /\ e.day \in Nat /\ e.day < 65536
      /\ e.time \in E!Times /\ e.duration \in E!Times
  <2>1. /\ e.event_id \in 0 .. 2^16 - 1 /\ e.day \in 0 .. 2^16 - 1
        /\ e.time \in E!Times /\ e.duration \in E!Times
    BY DEF E!TableEvent
  <2>2. 2^16 = 65536
    OBVIOUS
  <2>. QED
    BY <2>1, <2>2
<1>2. n \in Nat
  BY DEF Bytes
<1>3. Bytes(r, 2) /\ Bytes(t, 2) /\ Bytes(w, 2)
  <2>1. 0 \in Nat /\ 64 \in Nat
    OBVIOUS
  <2>. QED
    BY <1>1, <1>2, <2>1, PairBytes
<1>4. Bytes(u, 3) /\ Bytes(v, 3)
  BY <1>1, TimeBytesRead
<1>. HIDE DEF r, t, u, v, w, m
<1>5. Bytes(r \o t, 4)
  BY <1>3, Longer
<1>6. Bytes(r \o t \o u, 7)
  BY <1>4, <1>5, Longer
<1>7. Bytes(r \o t \o u \o v, 10)
  <2>1. Bytes(v, 3) /\ 10 = 7 + 3
    BY <1>4
  <2>. QED
    BY <1>6, <2>1, Longer
<1>8. Bytes(r \o t \o u \o v \o w, 12)
  BY <1>3, <1>7, Longer
<1>9. Bytes(s, m)
  BY <1>8, Longer DEF m
<1>10. ASSUME n < 4096, NEW b, NEW q \in Nat, At(b, q, s)
       PROVE  EventAt(b, q, e, n) /\ At(b, q + 12, d)
  <2>1. At(b, q, r \o t \o u \o v \o w) /\ At(b, q + 12, d)
    BY <1>8, <1>10, Parts
  <2>2. At(b, q, r \o t \o u \o v) /\ At(b, q + 10, w) /\ q + 10 \in Nat
    BY <1>3, <1>7, <2>1, Parts
  <2>3. At(b, q, r \o t \o u) /\ At(b, q + 7, v) /\ q + 7 \in Nat
    BY <1>4, <1>6, <2>2, Parts
  <2>4. At(b, q, r \o t) /\ At(b, q + 4, u) /\ q + 4 \in Nat
    BY <1>4, <1>5, <2>3, Parts
  <2>5. At(b, q, r) /\ At(b, q + 2, t) /\ q + 2 \in Nat
    BY <1>3, <2>4, Parts
  <2>6. bits(b, 8 * q, 16) = e.event_id
    BY <1>1, <2>5, PairRead16 DEF r
  <2>7. bits(b, 8 * q + 84, 12) = n
    <3>1. 8 * q + 84 = 8 * (q + 10) + 4 /\ 64 \in {64, 240}
      OBVIOUS
    <3>. QED
      BY <1>2, <1>10, <2>2, <3>1, PairRead12 DEF w
  <2>8. /\ b[q + 7] \in Byte /\ b[(q + 7) + 1] \in Byte /\ b[(q + 7) + 2] \in Byte
        /\ T!hex_to_digi(b[q + 7]) = e.duration[1]
        /\ T!hex_to_digi(b[(q + 7) + 1]) = e.duration[2]
        /\ T!hex_to_digi(b[(q + 7) + 2]) = e.duration[3]
    BY <1>1, <2>3, TimeBytesRead DEF v
  <2>9. /\ T!hex_to_digi(bits(b, 8 * q + 56, 8)) = e.duration[1]
        /\ T!hex_to_digi(bits(b, 8 * q + 64, 8)) = e.duration[2]
        /\ T!hex_to_digi(bits(b, 8 * q + 72, 8)) = e.duration[3]
    <3>1. /\ 8 * q + 56 = 8 * (q + 7) /\ 8 * q + 64 = 8 * ((q + 7) + 1)
          /\ 8 * q + 72 = 8 * ((q + 7) + 2) /\ (q + 7) + 1 \in Nat /\ (q + 7) + 2 \in Nat
      OBVIOUS
    <3>2. /\ bits(b, 8 * (q + 7), 8) = b[q + 7]
          /\ bits(b, 8 * ((q + 7) + 1), 8) = b[(q + 7) + 1]
          /\ bits(b, 8 * ((q + 7) + 2), 8) = b[(q + 7) + 2]
      BY <2>3, <2>8, <3>1, Fields
    <3>. QED
      BY <2>8, <3>1, <3>2
  <2>10. TimeIs(T!time_to_tm(b, q + 2), e)
    <3>. DEFINE p == q + 2
                tm == T!time_to_tm(b, p)
    <3>1. p + 1 = q + 3 /\ p + 2 = q + 4 /\ (q + 4) + 1 = p + 3 /\ (q + 4) + 2 = p + 4
          /\ p \in Nat /\ p + 0 = p
      OBVIOUS
    <3>2. /\ b[q + 4] \in Byte /\ b[(q + 4) + 1] \in Byte /\ b[(q + 4) + 2] \in Byte
          /\ T!hex_to_digi(b[q + 4]) = e.time[1]
          /\ T!hex_to_digi(b[(q + 4) + 1]) = e.time[2]
          /\ T!hex_to_digi(b[(q + 4) + 2]) = e.time[3]
      BY <1>1, <2>4, TimeBytesRead DEF u
    <3>3. /\ b[p] = 0 + e.day \div 256 /\ b[p + 1] = e.day % 256
          /\ b[p] \in Byte /\ b[p + 1] \in Byte
      <4>1. Fits(0, e.day)
        BY <1>1 DEF Fits
      <4>. QED
        BY <1>1, <2>5, <4>1, PairIs DEF t
    <3>4. \A k \in 0 .. 4 : b[p + k] \in Byte
      <4>1. \A k \in 0 .. 4 : k = 0 \/ k = 1 \/ k = 2 \/ k = 3 \/ k = 4
        OBVIOUS
      <4>. QED
        BY <3>1, <3>2, <3>3, <4>1
    <3>5. 256 * b[p] + b[p + 1] = e.day
      <4>1. 256 * (0 + e.day \div 256) + (e.day % 256) = e.day
        BY <1>1
      <4>. QED
        BY <3>3, <4>1
    <3>. HIDE DEF p
    <3>6. /\ DateOf(tm) = DateOf(T!mjd_to_tm(256 * b[p] + b[p + 1]))
          /\ tm.tm_hour = T!hex_to_digi(b[p + 2])
          /\ tm.tm_min = T!hex_to_digi(b[p + 3])
          /\ tm.tm_sec = T!hex_to_digi(b[p + 4])
      BY <3>1, <3>4, TimeOfBytes
    <3>. HIDE DEF tm
    <3>7. DateOf(tm) = Calendar[e.day]
      BY <1>1, <3>5, <3>6, CalendarIs
    <3>8. <<tm.tm_hour, tm.tm_min, tm.tm_sec>> = e.time
      <4>1. e.time \in [1 .. 3 -> 0 .. 99]
        BY <1>1 DEF E!Times
      <4>2. e.time = <<e.time[1], e.time[2], e.time[3]>>
        BY <4>1
      <4>. QED
        BY <3>1, <3>2, <3>6, <4>2
    <3>9. TimeIs(tm, e)
      BY <3>7, <3>8 DEF TimeIs, DateOf
    <3>. QED
      BY <3>9 DEF tm, p
  <2>. QED
    BY <2>1, <2>6, <2>7, <2>9, <2>10 DEF EventAt
<1>. HIDE DEF s
<1>11. Bytes(s, m) /\ \A b, q : n < 4096 /\ q \in Nat /\ At(b, q, s) =>
                       EventAt(b, q, e, n) /\ At(b, q + 12, d)
  BY <1>9, <1>10
<1>. QED
  BY <1>11 DEF s, m, r, t, u, v, w

(* A descriptor lies at byte q.                                            *)
DescriptorAt(b, q, d) ==
  /\ bits(b, 8 * q, 8) = d.descriptor_tag
  /\ bits(b, 8 * q + 8, 8) = d.descriptor_length

LEMMA DescriptorRead ==
  ASSUME NEW d \in Descriptor
  PROVE  /\ Bytes(E!DescriptorBytes(d), 2 + d.descriptor_length)
         /\ d.descriptor_length \in Nat
         /\ \A b, q : q \in Nat /\ At(b, q, E!DescriptorBytes(d)) => DescriptorAt(b, q, d)
<1>. DEFINE n == d.descriptor_length
            x == d.descriptor_tag
            s == <<x, n>>
            t == Filler(n)
            m == 2 + n
<1>1. x \in Byte /\ n \in Byte /\ x \in Nat /\ n \in Nat
  BY DEF Descriptor, Byte
<1>. HIDE DEF n, x
<1>2. Bytes(s, 2)
  BY <1>1 DEF Bytes
<1>3. Bytes(t, n)
  BY <1>1, FillerBytes
<1>4. E!DescriptorBytes(d) = s \o t
  BY SameLayout DEF E!DescriptorBytes, n, x
<1>. HIDE DEF s, t, m
<1>5. Bytes(s \o t, m)
  BY <1>2, <1>3, Longer DEF m
<1>6. ASSUME NEW b, NEW q \in Nat, At(b, q, s \o t) PROVE DescriptorAt(b, q, d)
  <2>1. At(b, q, s)
    BY <1>2, <1>3, <1>6, Parts
  <2>2. b[q] = x /\ b[q + 1] = n
    BY <2>1, AtTwo DEF s
  <2>3. 8 * (q + 1) = 8 * q + 8 /\ q + 1 \in Nat
    OBVIOUS
  <2>4. bits(b, 8 * q, 8) = x /\ bits(b, 8 * (q + 1), 8) = n
    BY <1>1, <2>2, <2>3, Fields
  <2>. QED
    BY <2>3, <2>4 DEF DescriptorAt, n, x
<1>7. /\ Bytes(E!DescriptorBytes(d), m) /\ n \in Nat
      /\ \A b, q : q \in Nat /\ At(b, q, E!DescriptorBytes(d)) => DescriptorAt(b, q, d)
  BY <1>1, <1>4, <1>5, <1>6
<1>. QED
  BY <1>7 DEF m, n

(* An event lies at byte q; doff[j] is how far its first j descriptors go. *)
EventLaid(b, q, e, doff) ==
  LET M == Len(e.desc) IN
  /\ M \in Nat /\ doff \in [0 .. M -> Nat] /\ doff[0] = 0
  /\ e.desc \in Seq(Descriptor)
  /\ EventAt(b, q, e, doff[M])
  /\ \A j \in 1 .. M :
       /\ doff[j] = doff[j - 1] + 2 + e.desc[j].descriptor_length
       /\ e.desc[j].descriptor_length \in Nat
       /\ doff[j] <= doff[M]
       /\ DescriptorAt(b, q + 12 + doff[j - 1], e.desc[j])

LEMMA EventLies ==
  ASSUME NEW e \in E!TableEvent
  PROVE  \E n \in Nat :
           /\ Bytes(E!EventBytes(e), 12 + n)
           /\ \A b, q : n < 4096 /\ q \in Nat /\ At(b, q, E!EventBytes(e)) =>
                \E doff : EventLaid(b, q, e, doff) /\ doff[Len(e.desc)] = n
<1>. DEFINE M == Len(e.desc)
            c == [k \in DOMAIN e.desc |-> E!DescriptorBytes(e.desc[k])]
            d == FlattenSeq(c)
            n == Len(d)
            s == Pair(0, e.event_id) \o Pair(0, e.day) \o E!TimeBytes(e.time)
                  \o E!TimeBytes(e.duration) \o Pair(64, n) \o d
<1>1. e.desc \in Seq(Descriptor) /\ DOMAIN e.desc = 1 .. M /\ M \in Nat
      /\ \A k \in 1 .. M : e.desc[k] \in Descriptor
  <2>1. e.desc \in Seq(Descriptor)
    BY SameLayout DEF E!TableEvent, Descriptor
  <2>. QED
    BY <2>1
<1>2. c \in Seq(Seq(Nat)) /\ Len(c) = M
      /\ \A k \in 1 .. M : c[k] = E!DescriptorBytes(e.desc[k])
  <2>1. \A k \in 1 .. M : E!DescriptorBytes(e.desc[k]) \in Seq(Nat)
    BY <1>1, DescriptorRead DEF Bytes
  <2>. HIDE DEF M
  <2>. QED
    BY <1>1, <2>1
<1>. HIDE DEF c
<1>3. d \in Seq(Nat) /\ \E doff : JoinedAt(c, d, doff)
  BY <1>2, PlacesExist
<1>4. E!EventBytes(e) = s
  BY SameLayout DEF E!EventBytes, c
<1>. HIDE DEF d
<1>5. n \in Nat /\ Bytes(d, n)
  BY <1>3 DEF Bytes
<1>. HIDE DEF n
<1>6. /\ Bytes(s, 12 + n)
      /\ \A b, q : n < 4096 /\ q \in Nat /\ At(b, q, s) =>
           EventAt(b, q, e, n) /\ At(b, q + 12, d)
  BY <1>5, EventRead
<1>. HIDE DEF s, M
<1>7. ASSUME n < 4096, NEW b, NEW q \in Nat, At(b, q, s)
      PROVE  \E doff : EventLaid(b, q, e, doff) /\ doff[M] = n
  <2>1. EventAt(b, q, e, n) /\ At(b, q + 12, d)
    BY <1>6, <1>7
  <2>2. PICK doff : JoinedAt(c, d, doff)
    BY <1>3
  <2>3. doff \in [0 .. M -> Nat] /\ doff[0] = 0 /\ doff[M] = n
    BY <1>2, <2>2 DEF JoinedAt, n
  <2>4. ASSUME NEW j \in 1 .. M
        PROVE  /\ doff[j] = doff[j - 1] + 2 + e.desc[j].descriptor_length
               /\ e.desc[j].descriptor_length \in Nat
               /\ doff[j] <= doff[M]
               /\ DescriptorAt(b, q + 12 + doff[j - 1], e.desc[j])
    <3>. DEFINE a == q + 12
                x == e.desc[j]
    <3>1. a \in Nat /\ At(b, a, d)
      BY <2>1
    <3>2. c[j] = E!DescriptorBytes(x) /\ x \in Descriptor
      BY <1>1, <1>2
    <3>. HIDE DEF a
    <3>3. MemberAt(b, a, c, doff, j)
      <4>1. j \in 1 .. Len(c) /\ c \in Seq(Seq(Nat)) /\ d \in Seq(Nat)
        BY <1>2, <1>3
      <4>. QED
        BY <2>2, <3>1, <4>1, AtPlaced
    <3>4. /\ doff[j - 1] \in Nat /\ doff[j] \in Nat /\ doff[j] = doff[j - 1] + Len(c[j])
          /\ doff[j] <= doff[M] /\ At(b, a + doff[j - 1], c[j])
      BY <1>2, <3>3 DEF MemberAt
    <3>. HIDE DEF x
    <3>5. x.descriptor_length \in Nat /\ Len(c[j]) = 2 + x.descriptor_length
      BY <3>2, DescriptorRead DEF Bytes
    <3>6. doff[j] = doff[j - 1] + 2 + x.descriptor_length
      BY <3>4, <3>5
    <3>7. DescriptorAt(b, a + doff[j - 1], x)
      <4>1. a + doff[j - 1] \in Nat
        BY <3>1, <3>4
      <4>. QED
        BY <3>2, <3>4, <4>1, DescriptorRead
    <3>. QED
      BY <3>4, <3>5, <3>6, <3>7 DEF a, x
  <2>5. EventLaid(b, q, e, doff)
    BY <1>1, <2>1, <2>3, <2>4 DEF EventLaid, M
  <2>. QED
    BY <2>3, <2>5
<1>. QED
  BY <1>4, <1>5, <1>6, <1>7 DEF M

(* A table lies in its section; off[k] is how far its first k events go.   *)
EitLaid(table, b, off) ==
  LET N == Len(table.events) IN
  /\ N \in Nat /\ off \in [0 .. N -> Nat] /\ off[0] = 0
  /\ bits(b, 12, 12) = 15 + off[N]
  /\ \A k \in 1 .. N :
       /\ off[k] <= off[N]
       /\ \E doff : /\ EventLaid(b, 14 + off[k - 1], table.events[k], doff)
                    /\ off[k] = off[k - 1] + 12 + doff[Len(table.events[k].desc)]

LEMMA EitRead ==
  ASSUME NEW table \in E!Table, NEW b, b = InMemory(E!EitBytes(table)), InBlock(b)
  PROVE  \E off : EitLaid(table, b, off)
<1>. DEFINE N == Len(table.events)
            c == [k \in DOMAIN table.events |-> E!EventBytes(table.events[k])]
            r == Pair(0, table.service_id)
            s == <<193, 0, 0, 0, 1, 0, 2, 0, 78>>
            w == FlattenSeq(c)
            body == r \o s \o w
<1>1. /\ table.events \in Seq(E!TableEvent)
      /\ table.service_id \in Nat /\ table.table_id \in Byte
  <2>1. /\ table.events \in Seq(E!TableEvent)
        /\ table.service_id \in 0 .. 2^16 - 1 /\ table.table_id \in Byte
    BY SameLayout DEF E!Table
  <2>. QED
    BY <2>1
<1>2. N \in Nat /\ DOMAIN table.events = 1 .. N
      /\ \A k \in 1 .. N : table.events[k] \in E!TableEvent
  BY <1>1
<1>3. c \in Seq(Seq(Nat)) /\ Len(c) = N
      /\ \A k \in 1 .. N : c[k] = E!EventBytes(table.events[k])
  <2>1. \A k \in 1 .. N : E!EventBytes(table.events[k]) \in Seq(Nat)
    BY <1>2, EventLies DEF Bytes
  <2>. HIDE DEF N
  <2>. QED
    BY <1>2, <2>1
<1>. HIDE DEF c
<1>4. w \in Seq(Nat) /\ Len(w) \in Nat /\ Bytes(w, Len(w))
  <2>1. w \in Seq(Nat)
    BY <1>3, PlacesExist
  <2>. HIDE DEF w
  <2>. QED
    BY <2>1 DEF Bytes
<1>5. PICK off : JoinedAt(c, w, off)
  BY <1>3, PlacesExist
<1>6. Bytes(r, 2)
  BY <1>1, PairBytes
<1>7. Bytes(s, 9)
  <2>1. s \in Seq(Nat) /\ Len(s) = 9
    OBVIOUS
  <2>. HIDE DEF s
  <2>. QED
    BY <2>1 DEF Bytes
<1>8. E!EitBytes(table) = Section(table.table_id, body)
  BY SameLayout DEF E!EitBytes, c
<1>. HIDE DEF r, s, w, N
<1>9. Bytes(r \o s, 11)
  BY <1>6, <1>7, Longer
<1>10. Bytes(body, 11 + Len(w))
  BY <1>4, <1>9, Longer
<1>11. /\ bits(b, 12, 12) = 11 + Len(w) + 4 /\ At(b, 3, body)
       /\ 11 + Len(w) + 4 < 4096
  <2>1. body \in Seq(Nat) /\ Len(body) = 11 + Len(w)
    BY <1>10 DEF Bytes
  <2>. HIDE DEF body
  <2>. QED
    BY <1>1, <1>8, <2>1, SectionRead
<1>12. At(b, 14, w)
  <2>1. ASSUME NEW a \in Nat, a = 3, NEW k, k = 14 PROVE At(b, k, w)
    <3>1. k = a + 11 /\ At(b, a, r \o s \o w)
      BY <1>11, <2>1
    <3>. QED
      BY <1>4, <1>9, <3>1, Parts
  <2>2. 3 \in Nat
    OBVIOUS
  <2>. QED
    BY <2>1, <2>2
<1>13. off \in [0 .. N -> Nat] /\ off[0] = 0 /\ off[N] = Len(w)
  BY <1>3, <1>5 DEF JoinedAt
<1>14. ASSUME NEW k \in 1 .. N
       PROVE  /\ off[k] <= off[N]
              /\ \E doff : /\ EventLaid(b, 14 + off[k - 1], table.events[k], doff)
                           /\ off[k] = off[k - 1] + 12 + doff[Len(table.events[k].desc)]
  <2>. DEFINE e == table.events[k]
  <2>1. MemberAt(b, 14, c, off, k)
    <3>1. k \in 1 .. Len(c) /\ c \in Seq(Seq(Nat)) /\ w \in Seq(Nat) /\ 14 \in Nat
      BY <1>3, <1>4
    <3>. QED
      BY <1>5, <1>12, <3>1, AtPlaced
  <2>2. /\ off[k - 1] \in Nat /\ off[k] \in Nat /\ off[k] = off[k - 1] + Len(c[k])
        /\ off[k] <= off[N] /\ At(b, 14 + off[k - 1], c[k])
    BY <1>3, <2>1 DEF MemberAt
  <2>3. e \in E!TableEvent /\ c[k] = E!EventBytes(e)
    BY <1>2, <1>3
  <2>. HIDE DEF e
  <2>4. PICK n \in Nat :
          /\ Bytes(c[k], 12 + n)
          /\ \A bb, q : n < 4096 /\ q \in Nat /\ At(bb, q, c[k]) =>
               \E doff : EventLaid(bb, q, e, doff) /\ doff[Len(e.desc)] = n
    BY <2>3, EventLies
  <2>5. Len(c[k]) = 12 + n
    BY <2>4 DEF Bytes
  <2>6. n < 4096 /\ off[k] = off[k - 1] + 12 + n /\ 14 + off[k - 1] \in Nat
    <3>. DEFINE f == off[k - 1]
                g == off[k]
                h == off[N]
    <3>1. f \in Nat /\ g \in Nat /\ h \in Nat /\ g = f + (12 + n) /\ g <= h
          /\ 11 + h + 4 < 4096
      BY <1>4, <1>11, <1>13, <2>2, <2>5
    <3>. HIDE DEF f, g, h
    <3>2. n < 4096 /\ g = f + 12 + n /\ 14 + f \in Nat
      BY <3>1
    <3>. QED
      BY <3>2 DEF f, g
  <2>7. \E doff : EventLaid(b, 14 + off[k - 1], e, doff) /\ doff[Len(e.desc)] = n
    BY <2>2, <2>4, <2>6
  <2>. QED
    BY <2>2, <2>6, <2>7 DEF e
<1>15. bits(b, 12, 12) = 15 + off[N]
  BY <1>4, <1>11, <1>13
<1>16. EitLaid(table, b, off)
  BY <1>2, <1>13, <1>14, <1>15 DEF EitLaid, N
<1>. QED
  BY <1>16

(* What is read of an event, without and with its descriptors.             *)
HeadIs(got, e) ==
  /\ got.event_id = e.event_id
  /\ TimeIs(got.start_time_tm, e)
  /\ got.duration_sec = 3600 * e.duration[1] + 60 * e.duration[2] + e.duration[3]

EventIs(got, e) == HeadIs(got, e) /\ got.desc = e.desc

EventsAre(evs, table) ==
  /\ Len(evs) \in 0 .. Len(table.events)
  /\ \A k \in 1 .. Len(evs) : EventIs(evs[k], table.events[k])

(* The decoder is at bit o between two events, l bytes count as read.      *)
AtEvent(table, b, n, o, l) ==
  \E off : EitLaid(table, b, off) /\ o = 8 * (14 + off[n]) /\ l = 16 + off[n]

(* It is in the event that follows n others and has read m descriptors.    *)
Here(table, b, n, off, doff) ==
  LET N == Len(table.events)
      e == table.events[n + 1]
      M == Len(e.desc)
  IN /\ EitLaid(table, b, off) /\ EventLaid(b, 14 + off[n], e, doff)
     /\ n \in Nat /\ n + 1 \in 1 .. N
     /\ off[n] \in Nat /\ off[N] \in Nat /\ doff[M] \in Nat
     /\ off[n + 1] = off[n] + 12 + doff[M] /\ off[n + 1] <= off[N]
     /\ bits(b, 12, 12) = 15 + off[N]

AtDescriptor(table, b, n, o, l, got, m) ==
  LET e == table.events[n + 1] IN
  \E off, doff :
    /\ Here(table, b, n, off, doff)
    /\ l = 16 + off[n]
    /\ Len(got.desc) \in 0 .. Len(e.desc)
    /\ m = doff[Len(got.desc)]
    /\ o = 8 * (14 + off[n] + 12 + m)
    /\ HeadIs(got, e) /\ got.descriotors_loop_length = doff[Len(e.desc)]
    /\ \A i \in 1 .. Len(got.desc) : got.desc[i] = e.desc[i]

(* Another event follows just when not all have been read.                 *)
LEMMA EventFollows ==
  ASSUME NEW table, NEW b, NEW n, NEW o, NEW l, AtEvent(table, b, n, o, l),
         n \in 0 .. Len(table.events), n # Len(table.events)
  PROVE  /\ l < bits(b, 12, 12)
         /\ \E off, doff : /\ Here(table, b, n, off, doff)
                           /\ o = 8 * (14 + off[n]) /\ l = 16 + off[n]
<1>. DEFINE N == Len(table.events)
            e == table.events[n + 1]
<1>1. PICK off : EitLaid(table, b, off) /\ o = 8 * (14 + off[n]) /\ l = 16 + off[n]
  BY DEF AtEvent
<1>2. /\ N \in Nat /\ off \in [0 .. N -> Nat] /\ bits(b, 12, 12) = 15 + off[N]
      /\ \A k \in 1 .. N :
           /\ off[k] <= off[N]
           /\ \E doff : /\ EventLaid(b, 14 + off[k - 1], table.events[k], doff)
                        /\ off[k] = off[k - 1] + 12 + doff[Len(table.events[k].desc)]
  BY <1>1 DEF EitLaid
<1>. HIDE DEF N
<1>3. n \in Nat /\ n + 1 \in 1 .. N /\ (n + 1) - 1 = n /\ n \in 0 .. N /\ N \in 0 .. N
  <2>1. n \in 0 .. N /\ n # N
    BY DEF N
  <2>. QED
    BY <1>2, <2>1
<1>4. off[n] \in Nat /\ off[N] \in Nat /\ off[n + 1] <= off[N]
  BY <1>2, <1>3
<1>5. PICK doff : /\ EventLaid(b, 14 + off[(n + 1) - 1], e, doff)
                  /\ off[n + 1] = off[(n + 1) - 1] + 12 + doff[Len(e.desc)]
  BY <1>2, <1>3
<1>. HIDE DEF e
<1>6. EventLaid(b, 14 + off[n], e, doff) /\ off[n + 1] = off[n] + 12 + doff[Len(e.desc)]
  BY <1>3, <1>5
<1>7. doff[Len(e.desc)] \in Nat
  <2>. DEFINE M == Len(e.desc)
  <2>1. M \in Nat /\ doff \in [0 .. M -> Nat]
    BY <1>6 DEF EventLaid
  <2>. HIDE DEF M
  <2>2. doff[M] \in Nat
    BY <2>1
  <2>. QED
    BY <2>2 DEF M
<1>8. Here(table, b, n, off, doff)
  BY <1>1, <1>2, <1>3, <1>4, <1>6, <1>7 DEF Here, e, N
<1>9. l < bits(b, 12, 12)
  <2>. DEFINE f == off[n]
              g == off[n + 1]
              h == off[N]
              x == doff[Len(e.desc)]
  <2>1. f \in Nat /\ h \in Nat /\ x \in Nat /\ g = f + 12 + x /\ g <= h
        /\ l = 16 + f /\ bits(b, 12, 12) = 15 + h
    BY <1>1, <1>2, <1>4, <1>6, <1>7
  <2>. HIDE DEF f, g, h, x
  <2>. QED
    BY <2>1
<1>. QED
  BY <1>1, <1>8, <1>9

LEMMA NoEventFollows ==
  ASSUME NEW table, NEW b, NEW n, NEW o, NEW l, AtEvent(table, b, n, o, l),
         n = Len(table.events)
  PROVE  ~(l < bits(b, 12, 12))
<1>1. PICK off : EitLaid(table, b, off) /\ l = 16 + off[n]
  BY DEF AtEvent
<1>2. /\ n \in Nat /\ off \in [0 .. n -> Nat] /\ bits(b, 12, 12) = 15 + off[n]
  BY <1>1 DEF EitLaid
<1>3. off[n] \in Nat
  BY <1>2
<1>. QED
  BY <1>1, <1>2, <1>3

(* The event that is read is the one that follows.                         *)
EventReads(b, o, e, n) ==
  /\ bits(b, o, 16) = e.event_id
  /\ TimeIs(E!time_to_tm(b, (o + 16) \div 8), e)
  /\ E!hex_to_digi(E!bits(b, o + 56, 8)) = e.duration[1]
  /\ E!hex_to_digi(E!bits(b, (o + 56) + 8, 8)) = e.duration[2]
  /\ E!hex_to_digi(E!bits(b, (o + 56) + 16, 8)) = e.duration[3]
  /\ bits(b, o + 84, 12) = n

LEMMA EventIsRead ==
  ASSUME NEW b, NEW q \in Nat, NEW e, NEW n, EventAt(b, q, e, n),
         NEW o, o = 8 * q
  PROVE  EventReads(b, o, e, n)
<1>1. /\ (o + 16) \div 8 = q + 2 /\ o + 56 = 8 * q + 56 /\ (o + 56) + 8 = 8 * q + 64
      /\ (o + 56) + 16 = 8 * q + 72 /\ o + 84 = 8 * q + 84
  OBVIOUS
<1>2. /\ E!time_to_tm(b, q + 2) = T!time_to_tm(b, q + 2)
      /\ \A x : E!hex_to_digi(x) = T!hex_to_digi(x)
      /\ \A p, g : E!bits(b, p, g) = bits(b, p, g)
  BY SameDates, SameOperators
<1>. QED
  BY <1>1, <1>2 DEF EventAt, EventReads

(* How far the descriptors of an event go.                                 *)
DescriptorNext(b, q, e, doff, j) ==
  LET M == Len(e.desc) IN
  /\ doff[j] \in Nat /\ doff[M] \in Nat
  /\ j = M \/ doff[j] < doff[M]
  /\ j # M =>
       /\ j + 1 \in 1 .. M
       /\ DescriptorAt(b, q + 12 + doff[j], e.desc[j + 1])
       /\ e.desc[j + 1] \in Descriptor
       /\ doff[j + 1] = doff[j] + 2 + e.desc[j + 1].descriptor_length
       /\ doff[j + 1] <= doff[M]

LEMMA DescriptorFollows ==
  ASSUME NEW b, NEW q \in Nat, NEW e, NEW doff, EventLaid(b, q, e, doff),
         NEW j \in 0 .. Len(e.desc)
  PROVE  DescriptorNext(b, q, e, doff, j)
<1>. DEFINE M == Len(e.desc)
<1>1. /\ M \in Nat /\ doff \in [0 .. M -> Nat] /\ e.desc \in Seq(Descriptor)
      /\ \A i \in 1 .. M :
           /\ doff[i] = doff[i - 1] + 2 + e.desc[i].descriptor_length
           /\ e.desc[i].descriptor_length \in Nat
           /\ doff[i] <= doff[M]
           /\ DescriptorAt(b, q + 12 + doff[i - 1], e.desc[i])
  BY DEF EventLaid
<1>2. j \in 0 .. M /\ M \in 0 .. M /\ j \in Nat
  BY <1>1
<1>a. \A i \in 1 .. M : e.desc[i] \in Descriptor
  BY <1>1
<1>. HIDE DEF M
<1>3. doff[j] \in Nat /\ doff[M] \in Nat
  BY <1>1, <1>2
<1>4. ASSUME j # M
      PROVE  /\ j + 1 \in 1 .. M
             /\ DescriptorAt(b, q + 12 + doff[j], e.desc[j + 1])
             /\ e.desc[j + 1] \in Descriptor
             /\ doff[j + 1] = doff[j] + 2 + e.desc[j + 1].descriptor_length
             /\ doff[j + 1] <= doff[M]
             /\ doff[j] < doff[M]
  <2>1. j + 1 \in 1 .. M /\ (j + 1) - 1 = j /\ j + 1 \in 0 .. M
    BY <1>1, <1>2, <1>4
  <2>2. /\ doff[j + 1] = doff[(j + 1) - 1] + 2 + e.desc[j + 1].descriptor_length
        /\ e.desc[j + 1].descriptor_length \in Nat
        /\ doff[j + 1] <= doff[M]
        /\ DescriptorAt(b, q + 12 + doff[(j + 1) - 1], e.desc[j + 1])
    BY <1>1, <2>1
  <2>3. e.desc[j + 1] \in Descriptor
    BY <1>a, <2>1
  <2>4. doff[j] < doff[M]
    <3>. DEFINE f == doff[j]
                g == doff[j + 1]
                h == doff[M]
                x == e.desc[j + 1].descriptor_length
    <3>1. f \in Nat /\ h \in Nat /\ x \in Nat /\ g = f + 2 + x /\ g <= h
      BY <1>3, <2>1, <2>2
    <3>. HIDE DEF f, g, h, x
    <3>2. f < h
      BY <3>1
    <3>. QED
      BY <3>2 DEF f, h
  <2>. QED
    BY <2>1, <2>2, <2>3, <2>4
<1>. QED
  BY <1>3, <1>4 DEF M, DescriptorNext

(* What is read at bit o of an event, and of one of its descriptors.       *)
EventGot(got, b, o) ==
  got = [event_id                |-> E!bits(b, o, 16),
         start_time_tm           |-> E!time_to_tm(b, (o + 16) \div 8),
         duration_sec            |-> E!hex_to_digi(E!bits(b, o + 56, 8)) * 3600
                                     + E!hex_to_digi(E!bits(b, (o + 56) + 8, 8)) * 60
                                     + E!hex_to_digi(E!bits(b, (o + 56) + 16, 8)),
         descriotors_loop_length |-> E!bits(b, o + 84, 12),
         desc                    |-> <<>>]

DescriptorGot(next, got, b, o, len) ==
  /\ len = E!bits(b, o + 8, 8)
  /\ next = [got EXCEPT !.desc = Append(@, [descriptor_tag    |-> E!bits(b, o, 8),
                                            descriptor_length |-> len])]

(* Positions in bits and in bytes.                                         *)
LEMMA EventOctets ==
  /\ \A f \in Nat :
       /\ (8 * (14 + f)) \div 8 = 14 + f
       /\ 8 * (14 + f) + 8 * 12 = 8 * (14 + f + 12 + 0)
  /\ \A f, m, k \in Nat :
       /\ (8 * (14 + f + 12 + m)) \div 8 = 14 + f + 12 + m
       /\ 8 * (14 + f + 12 + m) + 8 * (2 + k) = 8 * (14 + f + 12 + (m + 2 + k))
OBVIOUS

LEMMA SecondsOfDigits ==
  \A x, y, z \in 0 .. 99 : x * 3600 + y * 60 + z = 3600 * x + 60 * y + z
OBVIOUS

(* An event is read where it lies, inside of the block.                    *)
LEMMA EventStarts ==
  ASSUME NEW table, NEW b, NEW n \in 0 .. Len(table.events), NEW o, NEW l,
         AtEvent(table, b, n, o, l), n # Len(table.events),
         NEW got, EventGot(got, b, o),
         table.events[n + 1] \in E!TableEvent
  PROVE  /\ AtDescriptor(table, b, n, o + 8 * 12, l, got, 0)
         /\ ~(got.descriotors_loop_length > bits(b, 12, 12))
         /\ (o \div 8) + 12 <= bits(b, 12, 12) + 3 + Slack
<1>. DEFINE e == table.events[n + 1]
            M == Len(e.desc)
            N == Len(table.events)
<1>1. PICK off, doff : /\ Here(table, b, n, off, doff)
                       /\ o = 8 * (14 + off[n]) /\ l = 16 + off[n]
  BY EventFollows
<1>2. /\ EventLaid(b, 14 + off[n], e, doff) /\ n \in Nat
      /\ off[n] \in Nat /\ off[N] \in Nat /\ doff[M] \in Nat
      /\ off[n + 1] = off[n] + 12 + doff[M] /\ off[n + 1] <= off[N]
      /\ bits(b, 12, 12) = 15 + off[N]
  BY <1>1 DEF Here
<1>3. M \in Nat /\ doff[0] = 0 /\ EventAt(b, 14 + off[n], e, doff[M])
  BY <1>2 DEF EventLaid
<1>4. e.duration[1] \in 0 .. 99 /\ e.duration[2] \in 0 .. 99 /\ e.duration[3] \in 0 .. 99
  <2>1. e.duration \in [1 .. 3 -> 0 .. 99]
    BY DEF E!TableEvent, E!Times
  <2>. HIDE DEF e
  <2>. QED
    BY <2>1
<1>. HIDE DEF e, M, N
<1>5. EventReads(b, o, e, doff[M])
  <2>. DEFINE q == 14 + off[n]
  <2>1. q \in Nat
    BY <1>2
  <2>2. EventAt(b, q, e, doff[M])
    BY <1>3
  <2>3. o = 8 * q
    BY <1>1
  <2>. HIDE DEF q
  <2>. QED
    BY <2>1, <2>2, <2>3, EventIsRead
<1>6. /\ got.event_id = e.event_id /\ TimeIs(got.start_time_tm, e)
      /\ got.duration_sec = e.duration[1] * 3600 + e.duration[2] * 60 + e.duration[3]
      /\ got.descriotors_loop_length = doff[M] /\ got.desc = <<>>
  BY <1>5, SameOperators DEF EventGot, EventReads
<1>7. got.duration_sec = 3600 * e.duration[1] + 60 * e.duration[2] + e.duration[3]
  <2>. DEFINE x == e.duration[1]
              y == e.duration[2]
              z == e.duration[3]
  <2>1. x \in 0 .. 99 /\ y \in 0 .. 99 /\ z \in 0 .. 99
    BY <1>4
  <2>2. got.duration_sec = x * 3600 + y * 60 + z
    BY <1>6
  <2>. HIDE DEF x, y, z
  <2>3. x * 3600 + y * 60 + z = 3600 * x + 60 * y + z
    BY <2>1, SecondsOfDigits
  <2>. QED
    BY <2>2, <2>3 DEF x, y, z
<1>8. HeadIs(got, e)
  BY <1>6, <1>7 DEF HeadIs
<1>9. o + 8 * 12 = 8 * (14 + off[n] + 12 + 0)
      /\ (o \div 8) + 12 <= bits(b, 12, 12) + 3 + Slack
      /\ ~(doff[M] > bits(b, 12, 12))
  <2>. DEFINE f == off[n]
              g == off[n + 1]
              h == off[N]
              x == doff[M]
  <2>1. f \in Nat /\ h \in Nat /\ x \in Nat /\ g = f + 12 + x /\ g <= h
        /\ o = 8 * (14 + f) /\ bits(b, 12, 12) = 15 + h
    BY <1>1, <1>2
  <2>. HIDE DEF f, g, h, x
  <2>2. o \div 8 = 14 + f
    BY <2>1, EventOctets
  <2>3. o + 8 * 12 = 8 * (14 + f + 12 + 0)
    BY <2>1, EventOctets
  <2>a. Slack \in Nat
    BY LayoutAssumption
  <2>4. (o \div 8) + 12 <= bits(b, 12, 12) + 3 + Slack
    BY <2>1, <2>2, <2>a
  <2>5. ~(x > bits(b, 12, 12))
    BY <2>1
  <2>. QED
    BY <2>3, <2>4, <2>5 DEF f, x
<1>10. Len(got.desc) = 0 /\ 0 \in 0 .. M /\ \A i \in 1 .. 0 : FALSE
  BY <1>3, <1>6
<1>11. AtDescriptor(table, b, n, o + 8 * 12, l, got, 0)
  BY <1>1, <1>3, <1>6, <1>8, <1>9, <1>10 DEF AtDescriptor, e, M
<1>. QED
  BY <1>6, <1>9, <1>11

(* The loop over the descriptors goes on just when not all have been read. *)
LEMMA DescriptorsLeft ==
  ASSUME NEW table, NEW b, NEW n, NEW o, NEW l, NEW got, NEW m,
         AtDescriptor(table, b, n, o, l, got, m)
  PROVE  Len(got.desc) = Len(table.events[n + 1].desc) \/ m < got.descriotors_loop_length
<1>. DEFINE e == table.events[n + 1]
            M == Len(e.desc)
            j == Len(got.desc)
<1>1. PICK off, doff :
        /\ Here(table, b, n, off, doff) /\ j \in 0 .. M /\ m = doff[j]
        /\ got.descriotors_loop_length = doff[M]
  BY DEF AtDescriptor
<1>2. EventLaid(b, 14 + off[n], e, doff) /\ 14 + off[n] \in Nat
  BY <1>1 DEF Here
<1>. HIDE DEF e, j
<1>3. j = M \/ doff[j] < doff[M]
  <2>. DEFINE q == 14 + off[n]
  <2>1. EventLaid(b, q, e, doff) /\ q \in Nat /\ j \in 0 .. Len(e.desc)
    BY <1>1, <1>2
  <2>. HIDE DEF q
  <2>2. DescriptorNext(b, q, e, doff, j)
    BY <2>1, DescriptorFollows
  <2>. QED
    BY <2>2 DEF DescriptorNext
<1>. QED
  BY <1>1, <1>3 DEF e, j

LEMMA DescriptorStarts ==
  ASSUME NEW table, NEW b, NEW n, NEW o, NEW l, NEW got \in EitEvent, NEW m,
         AtDescriptor(table, b, n, o, l, got, m),
         m < got.descriotors_loop_length,
         NEW len, NEW next, DescriptorGot(next, got, b, o, len)
  PROVE  /\ AtDescriptor(table, b, n, o + 8 * (2 + len), l, next, m + 2 + len)
         /\ (o \div 8) + 2 <= bits(b, 12, 12) + 3 + Slack
         /\ (o \div 8) + (2 + len) <= bits(b, 12, 12) + 3 + Slack
<1>. DEFINE e == table.events[n + 1]
            M == Len(e.desc)
            j == Len(got.desc)
            N == Len(table.events)
            d == e.desc[j + 1]
            read == [descriptor_tag |-> E!bits(b, o, 8), descriptor_length |-> len]
<1>1. PICK off, doff :
        /\ Here(table, b, n, off, doff) /\ l = 16 + off[n]
        /\ j \in 0 .. M /\ m = doff[j] /\ o = 8 * (14 + off[n] + 12 + m)
        /\ HeadIs(got, e) /\ got.descriotors_loop_length = doff[M]
        /\ \A i \in 1 .. j : got.desc[i] = e.desc[i]
  BY DEF AtDescriptor
<1>2. /\ EventLaid(b, 14 + off[n], e, doff)
      /\ off[n] \in Nat /\ off[N] \in Nat /\ doff[M] \in Nat
      /\ off[n + 1] = off[n] + 12 + doff[M] /\ off[n + 1] <= off[N]
      /\ bits(b, 12, 12) = 15 + off[N]
  BY <1>1 DEF Here
<1>. HIDE DEF e, j, N
<1>3. j # M
  BY <1>1, <1>2
<1>4. 14 + off[n] \in Nat
  BY <1>2
<1>5. /\ doff[j] \in Nat /\ j + 1 \in 1 .. M
      /\ DescriptorAt(b, 14 + off[n] + 12 + doff[j], d) /\ d \in Descriptor
      /\ doff[j + 1] = doff[j] + 2 + d.descriptor_length
      /\ doff[j + 1] <= doff[M]
  <2>. DEFINE q == 14 + off[n]
  <2>1. q \in Nat /\ EventLaid(b, q, e, doff) /\ j \in 0 .. Len(e.desc) /\ j # Len(e.desc)
    BY <1>1, <1>2, <1>3, <1>4
  <2>. HIDE DEF q
  <2>2. /\ doff[j] \in Nat /\ j + 1 \in 1 .. Len(e.desc)
        /\ DescriptorAt(b, q + 12 + doff[j], e.desc[j + 1]) /\ e.desc[j + 1] \in Descriptor
        /\ doff[j + 1] = doff[j] + 2 + e.desc[j + 1].descriptor_length
        /\ doff[j + 1] <= doff[Len(e.desc)]
    <3>1. DescriptorNext(b, q, e, doff, j)
      BY <2>1, DescriptorFollows
    <3>. QED
      BY <2>1, <3>1 DEF DescriptorNext
  <2>. QED
    BY <2>2 DEF q
<1>. HIDE DEF M
<1>6. d.descriptor_length \in Nat
      /\ d = [descriptor_tag |-> d.descriptor_tag, descriptor_length |-> d.descriptor_length]
  BY <1>5 DEF Descriptor, Byte
<1>. HIDE DEF d
<1>7. E!bits(b, o, 8) = d.descriptor_tag /\ E!bits(b, o + 8, 8) = d.descriptor_length
  BY <1>1, <1>5, SameOperators DEF DescriptorAt
<1>8. len = d.descriptor_length /\ read = d
  BY <1>6, <1>7 DEF DescriptorGot
<1>9. /\ m + 2 + len = doff[j + 1]
      /\ o + 8 * (2 + len) = 8 * (14 + off[n] + 12 + (m + 2 + len))
      /\ (o \div 8) + 2 <= bits(b, 12, 12) + 3 + Slack
      /\ (o \div 8) + (2 + len) <= bits(b, 12, 12) + 3 + Slack
  <2>. DEFINE f == off[n]
              g == off[n + 1]
              h == off[N]
              x == doff[M]
              y == doff[j + 1]
  <2>1. f \in Nat /\ h \in Nat /\ x \in Nat /\ g = f + 12 + x /\ g <= h
        /\ bits(b, 12, 12) = 15 + h
    BY <1>2
  <2>2. m \in Nat /\ len \in Nat /\ y = m + 2 + len /\ y <= x
        /\ o = 8 * (14 + f + 12 + m)
    BY <1>1, <1>5, <1>6, <1>8
  <2>. HIDE DEF f, g, h, x, y
  <2>3. o \div 8 = 14 + f + 12 + m
    BY <2>1, <2>2, EventOctets
  <2>4. o + 8 * (2 + len) = 8 * (14 + f + 12 + (m + 2 + len))
    BY <2>1, <2>2, EventOctets
  <2>a. Slack \in Nat
    BY LayoutAssumption
  <2>5. (o \div 8) + 2 <= bits(b, 12, 12) + 3 + Slack
        /\ (o \div 8) + (2 + len) <= bits(b, 12, 12) + 3 + Slack
    BY <2>1, <2>2, <2>3, <2>a
  <2>. QED
    BY <2>2, <2>4, <2>5 DEF f, y
<1>10. /\ Len(next.desc) = j + 1
       /\ next.event_id = got.event_id /\ next.start_time_tm = got.start_time_tm
       /\ next.duration_sec = got.duration_sec
       /\ next.descriotors_loop_length = got.descriotors_loop_length
       /\ \A i \in 1 .. j : next.desc[i] = got.desc[i]
       /\ next.desc[j + 1] = d
  <2>. DEFINE s == Append(got.desc, d)
  <2>1. got.desc \in Seq(Descriptor)
    BY DEF EitEvent
  <2>2. next = [got EXCEPT !.desc = s]
    BY <1>8 DEF DescriptorGot
  <2>3. Len(s) = j + 1 /\ \A i \in 1 .. j : s[i] = got.desc[i] /\ s[j + 1] = d
    BY <2>1 DEF j
  <2>4. s[j + 1] = d
    BY <2>1 DEF j
  <2>. HIDE DEF s
  <2>5. /\ next.desc = s
        /\ next.event_id = got.event_id /\ next.start_time_tm = got.start_time_tm
        /\ next.duration_sec = got.duration_sec
        /\ next.descriotors_loop_length = got.descriotors_loop_length
    BY <2>2 DEF EitEvent
  <2>. QED
    BY <2>3, <2>4, <2>5
<1>11. \A i \in 1 .. j + 1 : next.desc[i] = e.desc[i]
  <2>1. j \in Nat
    BY <1>1
  <2>2. \A i \in 1 .. j + 1 : i \in 1 .. j \/ i = j + 1
    BY <2>1
  <2>3. d = e.desc[j + 1]
    BY DEF d
  <2>. QED
    BY <1>1, <1>10, <2>2, <2>3
<1>12. HeadIs(next, e)
  BY <1>1, <1>10 DEF HeadIs
<1>13. j + 1 \in 0 .. M
  BY <1>1, <1>5
<1>14. AtDescriptor(table, b, n, o + 8 * (2 + len), l, next, m + 2 + len)
  BY <1>1, <1>9, <1>10, <1>11, <1>12, <1>13 DEF AtDescriptor, e, M
<1>. QED
  BY <1>9, <1>14

(* Where the descriptors end the next event follows.                       *)
LEMMA EventEnds ==
  ASSUME NEW table, NEW b, NEW evs \in Seq(EitEvent), NEW o, NEW l, NEW got \in EitEvent,
         NEW m, EventsAre(evs, table), AtDescriptor(table, b, Len(evs), o, l, got, m),
         Len(got.desc) = Len(table.events[Len(evs) + 1].desc)
  PROVE  /\ EventsAre(Append(evs, got), table)
         /\ AtEvent(table, b, Len(Append(evs, got)), o, l + 12 + got.descriotors_loop_length)
<1>. DEFINE n == Len(evs)
            N == Len(table.events)
            e == table.events[n + 1]
            M == Len(e.desc)
            after == Append(evs, got)
<1>1. PICK off, doff :
        /\ Here(table, b, n, off, doff) /\ l = 16 + off[n]
        /\ m = doff[M] /\ o = 8 * (14 + off[n] + 12 + m)
        /\ HeadIs(got, e) /\ got.descriotors_loop_length = doff[M]
        /\ \A i \in 1 .. M : got.desc[i] = e.desc[i]
  BY DEF AtDescriptor
<1>2. /\ EitLaid(table, b, off) /\ EventLaid(b, 14 + off[n], e, doff)
      /\ n \in Nat /\ n + 1 \in 1 .. N /\ off[n] \in Nat /\ doff[M] \in Nat
      /\ off[n + 1] = off[n] + 12 + doff[M]
  BY <1>1 DEF Here
<1>3. got.desc = e.desc
  <2>. DEFINE s == got.desc
              t == e.desc
  <2>1. s \in Seq(Descriptor) /\ Len(s) = M
    BY DEF EitEvent
  <2>2. t \in Seq(Descriptor) /\ Len(t) = M
    BY <1>2 DEF EventLaid
  <2>3. \A i \in 1 .. M : s[i] = t[i]
    BY <1>1
  <2>. HIDE DEF e, s, t, M
  <2>4. s = t
    BY <2>1, <2>2, <2>3
  <2>. QED
    BY <2>4 DEF s, t
<1>4. /\ Len(after) = n + 1 /\ \A k \in 1 .. n : after[k] = evs[k]
      /\ after[n + 1] = got
  OBVIOUS
<1>5. EventIs(got, e)
  BY <1>1, <1>3 DEF EventIs
<1>6. \A k \in 1 .. n : EventIs(evs[k], table.events[k])
  BY DEF EventsAre
<1>a. N \in Nat
  BY <1>2 DEF EitLaid
<1>b. e = table.events[n + 1]
  OBVIOUS
<1>. HIDE DEF after, n, e, N, M
<1>7. EventsAre(after, table)
  <2>1. \A k \in 1 .. n + 1 : k \in 1 .. n \/ k = n + 1
    BY <1>2
  <2>2. \A k \in 1 .. n + 1 : EventIs(after[k], table.events[k])
    BY <1>4, <1>5, <1>6, <1>b, <2>1
  <2>3. n + 1 \in 0 .. N
    BY <1>2, <1>a
  <2>. QED
    BY <1>4, <2>2, <2>3 DEF EventsAre, N
<1>8. /\ o = 8 * (14 + off[n + 1])
      /\ l + 12 + got.descriotors_loop_length = 16 + off[n + 1]
  <2>. DEFINE f == off[n]
              x == doff[M]
  <2>1. f \in Nat /\ x \in Nat /\ off[n + 1] = f + 12 + x
        /\ o = 8 * (14 + f + 12 + x) /\ l = 16 + f /\ got.descriotors_loop_length = x
    BY <1>1, <1>2
  <2>. HIDE DEF f, x
  <2>2. 14 + f + 12 + x = 14 + (f + 12 + x) /\ (16 + f) + 12 + x = 16 + (f + 12 + x)
    BY <2>1
  <2>. QED
    BY <2>1, <2>2
<1>9. AtEvent(table, b, n + 1, o, l + 12 + got.descriotors_loop_length)
  BY <1>2, <1>8 DEF AtEvent
<1>. QED
  BY <1>4, <1>7, <1>9 DEF after, n

(* What has been read of a table with no more events and descriptors than  *)
(* are read of one.                                                        *)
EitReading ==
  /\ pc = "eit header" => events = <<>>
  /\ pc = "events" =>
       /\ EventsAre(events, sent)
       /\ AtEvent(sent, buf, Len(events), boff, loaded)
  /\ pc = "descriptors" =>
       /\ EventsAre(events, sent)
       /\ AtDescriptor(sent, buf, Len(events), boff, loaded, curr_ev, loaded_desc)
  /\ pc = "eit done" =>
       /\ EventsAre(events, sent)
       /\ Len(events) = Len(sent.events)
  /\ pc # "eit outside"

EitRight ==
  pc \in EitStates /\ sent # Damaged =>
    /\ sent \in E!Table /\ buf = InMemory(E!EitBytes(sent))
    /\ E!FitsLimits => EitReading

LEMMA Indices == \A S : \A s \in Seq(S) : Len(s) \in Nat /\ DOMAIN s = 1 .. Len(s)
OBVIOUS

(* That is what has to be read.                                            *)
LEMMA RightIsExact == EitTypeOK /\ EitRight => E!EitExact
<1>1. (\A k \in DOMAIN events : EventIs(events[k], sent.events[k])) =>
        \A k \in DOMAIN events :
          LET e  == sent.events[k]
              tm == events[k].start_time_tm
          IN /\ events[k].event_id = e.event_id
             /\ <<tm.tm_year + 1900, tm.tm_mon + 1, tm.tm_mday>> = Calendar[e.day]
             /\ <<tm.tm_hour, tm.tm_min, tm.tm_sec>> = e.time
             /\ events[k].duration_sec =
                  3600 * e.duration[1] + 60 * e.duration[2] + e.duration[3]
             /\ events[k].desc = e.desc
  BY DEF EventIs, HeadIs, TimeIs
<1>2. ASSUME pc \in {"eit done", "eit outside"} /\ sent # Damaged /\ E!FitsLimits =>
               /\ pc # "eit outside"
               /\ Len(events) = Len(sent.events)
               /\ \A k \in DOMAIN events : EventIs(events[k], sent.events[k])
      PROVE  E!EitExact
  <2>1. E!Damaged = Damaged
    BY DEF E!Damaged, Damaged
  <2>. QED
    BY <1>1, <1>2, <2>1, Zenon DEF E!EitExact
<1>. SUFFICES ASSUME EitTypeOK, EitRight, sent # Damaged, E!FitsLimits,
                     pc \in {"eit done", "eit outside"}
              PROVE  /\ pc # "eit outside"
                     /\ Len(events) = Len(sent.events)
                     /\ \A k \in DOMAIN events : EventIs(events[k], sent.events[k])
  BY <1>2, Zenon
<1>3. pc \in EitStates
  BY Zenon DEF EitStates
<1>4. EitReading
  BY <1>3, Zenon DEF EitRight
<1>5. pc # "eit outside" /\ EventsAre(events, sent) /\ Len(events) = Len(sent.events)
  BY <1>4, Zenon DEF EitReading
<1>6. DOMAIN events = 1 .. Len(events)
  <2>1. events \in Seq(EitEvent)
    BY <1>3, Zenon DEF EitTypeOK
  <2>. QED
    BY <2>1, Indices, Zenon
<1>. QED
  BY <1>5, <1>6, Zenon DEF EventsAre

(* Nothing has been read before the first event.                           *)
LEMMA BeforeEvents ==
  ASSUME NEW table \in E!Table, NEW b, b = InMemory(E!EitBytes(table)), InBlock(b),
         NEW o, o = 8 * 14, NEW l, l = 11 + 5
  PROVE  EventsAre(<<>>, table) /\ AtEvent(table, b, 0, o, l)
<1>1. PICK off : EitLaid(table, b, off)
  BY EitRead
<1>2. off[0] = 0 /\ Len(table.events) \in Nat
  BY <1>1 DEF EitLaid
<1>3. o = 8 * (14 + off[0]) /\ l = 16 + off[0]
  BY <1>2
<1>4. AtEvent(table, b, 0, o, l)
  BY <1>1, <1>3 DEF AtEvent
<1>5. Len(<<>>) \in 0 .. Len(table.events) /\ \A k \in 1 .. Len(<<>>) : FALSE
  BY <1>2
<1>6. EventsAre(<<>>, table)
  BY <1>5 DEF EventsAre
<1>. QED
  BY <1>4, <1>6

(* Where an event has been begun there is one.                             *)
LEMMA InEvent ==
  ASSUME NEW table, NEW b, NEW n, NEW o, NEW l, NEW got, NEW m,
         AtDescriptor(table, b, n, o, l, got, m)
  PROVE  /\ n \in Nat /\ n + 1 \in 1 .. Len(table.events)
         /\ Len(got.desc) \in 0 .. Len(table.events[n + 1].desc)
BY DEF AtDescriptor, Here

(* A table has no more events and descriptors than are read of one.        *)
LEMMA InLimits ==
  ASSUME E!FitsLimits, sent \in E!Table
  PROVE  /\ sent.events \in Seq(E!TableEvent)
         /\ Len(sent.events) \in Nat /\ Len(sent.events) <= MAX_EVENTS
         /\ \A k \in 1 .. Len(sent.events) :
              /\ sent.events[k] \in E!TableEvent
              /\ Len(sent.events[k].desc) \in Nat /\ Len(sent.events[k].desc) <= MAX_DESC
<1>1. sent.events \in Seq(E!TableEvent)
  BY DEF E!Table
<1>2. /\ Len(sent.events) \in Nat /\ DOMAIN sent.events = 1 .. Len(sent.events)
      /\ \A k \in 1 .. Len(sent.events) : sent.events[k] \in E!TableEvent
  BY <1>1
<1>3. \A e \in E!TableEvent : Len(e.desc) \in Nat
  <2>1. \A e \in E!TableEvent :
          e.desc \in Seq([descriptor_tag : E!Byte, descriptor_length : E!Byte])
    BY DEF E!TableEvent
  <2>. QED
    BY <2>1, Indices, Zenon
<1>. QED
  BY <1>1, <1>2, <1>3 DEF E!FitsLimits

(* A step of the decoder.                                                  *)
LEMMA EitRightStep ==
  ASSUME Decoding, EitTypeOK, EitRight, E!Next
  PROVE  EitRight'
<1>. SUFFICES ASSUME sent' # Damaged
              PROVE  /\ sent' \in E!Table /\ buf' = InMemory(E!EitBytes(sent'))
                     /\ E!FitsLimits' => EitReading'
  BY DEF EitRight
<1>0. pc \in EitStates /\ buf' = buf /\ sent' = sent /\ InBlock(buf)
  <2>1. sent' = sent
    BY DEF E!Next, E!ReadHeader, E!ReadEvent, E!EndOfEvents, E!ReadDescriptor, E!LinkEvent,
           E!ReadOutside, E!FreeEit, E!Unread
  <2>. QED
    BY <2>1, EitStepStates
<1>1. /\ sent \in E!Table /\ buf = InMemory(E!EitBytes(sent))
      /\ E!FitsLimits => EitReading
  BY <1>0 DEF EitRight
<1>2. E!FitsLimits' => E!FitsLimits
  BY <1>0 DEF E!FitsLimits
<1>. SUFFICES ASSUME E!FitsLimits, EitReading PROVE EitReading'
  BY <1>0, <1>1, <1>2
<1>3. /\ sent.events \in Seq(E!TableEvent)
      /\ Len(sent.events) \in Nat /\ Len(sent.events) <= MAX_EVENTS
      /\ \A k \in 1 .. Len(sent.events) :
           /\ sent.events[k] \in E!TableEvent
           /\ Len(sent.events[k].desc) \in Nat /\ Len(sent.events[k].desc) <= MAX_DESC
  BY <1>1, InLimits
<1>4. events \in Seq(EitEvent) /\ Len(events) \in Nat
  <2>1. events \in Seq(EitEvent)
    BY <1>0 DEF EitTypeOK
  <2>. QED
    BY <2>1
<1>5. /\ E!section_length = bits(buf, 12, 12)
      /\ \A n : (boff \div 8) + n <= bits(buf, 12, 12) + 3 + Slack => E!Inside(n)
  BY <1>0, BlockHasBytes DEF E!Inside
<1>6. MAX_EVENTS \in Nat /\ MAX_DESC \in Nat
  BY Limits
<1>7. ASSUME pc = "events", loaded < bits(buf, 12, 12)
      PROVE  /\ Len(events) # Len(sent.events)
             /\ AtDescriptor(sent, buf, Len(events), boff + 8 * 12, loaded, E!EventRead, 0)
             /\ ~(E!EventRead.descriotors_loop_length > bits(buf, 12, 12))
             /\ (boff \div 8) + 12 <= bits(buf, 12, 12) + 3 + Slack
  <2>1. /\ AtEvent(sent, buf, Len(events), boff, loaded)
        /\ Len(events) \in 0 .. Len(sent.events)
    BY <1>7 DEF EitReading, EventsAre
  <2>2. Len(events) # Len(sent.events)
    BY <1>7, <2>1, NoEventFollows
  <2>3. sent.events[Len(events) + 1] \in E!TableEvent
    <3>1. Len(events) + 1 \in 1 .. Len(sent.events)
      BY <1>3, <2>1, <2>2
    <3>. QED
      BY <1>3, <3>1
  <2>4. EventGot(E!EventRead, buf, boff)
    BY DEF EventGot, E!EventRead, E!Seconds
  <2>. QED
    BY <2>1, <2>2, <2>3, <2>4, EventStarts
<1>8. ASSUME pc = "descriptors", loaded_desc < curr_ev.descriotors_loop_length,
             NEW next, DescriptorGot(next, curr_ev, buf, boff, E!DescriptorLength)
      PROVE  /\ AtDescriptor(sent, buf, Len(events), boff + 8 * (2 + E!DescriptorLength),
                             loaded, next, loaded_desc + 2 + E!DescriptorLength)
             /\ (boff \div 8) + 2 <= bits(buf, 12, 12) + 3 + Slack
             /\ (boff \div 8) + (2 + E!DescriptorLength) <= bits(buf, 12, 12) + 3 + Slack
  <2>1. AtDescriptor(sent, buf, Len(events), boff, loaded, curr_ev, loaded_desc)
    BY <1>8 DEF EitReading
  <2>2. curr_ev \in EitEvent
    BY <1>0, <1>8 DEF EitTypeOK
  <2>. QED
    BY <1>8, <2>1, <2>2, DescriptorStarts
<1>9. CASE E!ReadHeader
  <2>1. /\ pc = "eit header" /\ boff' = 8 * 14 /\ loaded' = 11 + 5 /\ events' = events
        /\ pc' \in {"events", "refused"}
    BY <1>9, Zenon DEF E!ReadHeader, E!HeaderSize, E!LoadedAtFirst
  <2>2. events = <<>>
    BY <2>1 DEF EitReading
  <2>3. EventsAre(<<>>, sent) /\ AtEvent(sent, buf, 0, boff', loaded')
    BY <1>0, <1>1, <2>1, BeforeEvents
  <2>4. EventsAre(events', sent') /\ AtEvent(sent', buf', Len(events'), boff', loaded')
    <3>1. Len(<<>>) = 0
      OBVIOUS
    <3>2. events' = <<>>
      BY <2>1, <2>2
    <3>. QED
      BY <1>0, <2>3, <3>1, <3>2
  <2>. QED
    BY <2>1, <2>4, Zenon DEF EitReading
<1>10. CASE E!ReadEvent
  <2>1. /\ pc = "events" /\ loaded < bits(buf, 12, 12)
    BY <1>5, <1>10 DEF E!ReadEvent, E!MoreEvents
  <2>2. /\ AtDescriptor(sent, buf, Len(events), boff + 8 * 12, loaded, E!EventRead, 0)
        /\ ~(E!EventRead.descriotors_loop_length > bits(buf, 12, 12))
    BY <1>7, <2>1
  <2>3. /\ boff' = boff + 8 * 12 /\ pc' = "descriptors" /\ curr_ev' = E!EventRead
        /\ loaded_desc' = 0 /\ loaded' = loaded /\ events' = events
    BY <1>5, <1>10, <2>2 DEF E!ReadEvent, E!EventSize
  <2>4. EventsAre(events, sent)
    BY <2>1 DEF EitReading
  <2>5. /\ EventsAre(events', sent')
        /\ AtDescriptor(sent', buf', Len(events'), boff', loaded', curr_ev', loaded_desc')
    BY <1>0, <2>2, <2>3, <2>4
  <2>. QED
    BY <2>3, <2>5, Zenon DEF EitReading
<1>11. CASE E!EndOfEvents
  <2>1. /\ pc = "events" /\ pc' = "eit done" /\ events' = events
        /\ ~(Len(events) < MAX_EVENTS /\ loaded < bits(buf, 12, 12))
    BY <1>5, <1>11 DEF E!EndOfEvents, E!MoreEvents, E!here
  <2>2. /\ EventsAre(events, sent) /\ AtEvent(sent, buf, Len(events), boff, loaded)
        /\ Len(events) \in 0 .. Len(sent.events)
    BY <2>1 DEF EitReading, EventsAre
  <2>3. Len(events) = Len(sent.events)
    <3>. SUFFICES ASSUME Len(events) # Len(sent.events) PROVE FALSE
      OBVIOUS
    <3>1. loaded < bits(buf, 12, 12)
      BY <2>2, EventFollows
    <3>2. Len(events) < MAX_EVENTS
      BY <1>3, <1>4, <1>6, <2>2
    <3>. QED
      BY <2>1, <3>1, <3>2
  <2>4. EventsAre(events', sent') /\ Len(events') = Len(sent'.events)
    BY <1>0, <2>1, <2>2, <2>3
  <2>. QED
    BY <2>1, <2>4, Zenon DEF EitReading
<1>12. CASE E!ReadDescriptor
  <2>1. /\ pc = "descriptors" /\ pc' = pc /\ loaded_desc < curr_ev.descriotors_loop_length
        /\ DescriptorGot(curr_ev', curr_ev, buf, boff, E!DescriptorLength)
        /\ boff' = boff + 8 * (2 + E!DescriptorLength)
        /\ loaded_desc' = loaded_desc + 2 + E!DescriptorLength
        /\ loaded' = loaded /\ events' = events
    BY <1>12 DEF E!ReadDescriptor, E!MoreDescriptors, E!DescriptorSize, DescriptorGot,
                 E!DescriptorLength
  <2>2. AtDescriptor(sent, buf, Len(events), boff', loaded', curr_ev', loaded_desc')
    BY <1>8, <2>1
  <2>3. EventsAre(events, sent)
    BY <2>1 DEF EitReading
  <2>4. /\ EventsAre(events', sent')
        /\ AtDescriptor(sent', buf', Len(events'), boff', loaded', curr_ev', loaded_desc')
    BY <1>0, <2>1, <2>2, <2>3
  <2>. QED
    BY <2>1, <2>4, Zenon DEF EitReading
<1>13. CASE E!LinkEvent
  <2>1. /\ pc = "descriptors" /\ pc' = "events" /\ events' = Append(events, curr_ev)
        /\ loaded' = loaded + 12 + curr_ev.descriotors_loop_length /\ boff' = boff
        /\ ~(/\ Len(curr_ev.desc) < MAX_DESC
             /\ loaded_desc < curr_ev.descriotors_loop_length)
    BY <1>13 DEF E!LinkEvent, E!MoreDescriptors, E!LoadedAfter, E!EventSize
  <2>2. /\ EventsAre(events, sent)
        /\ AtDescriptor(sent, buf, Len(events), boff, loaded, curr_ev, loaded_desc)
    BY <2>1 DEF EitReading
  <2>3. curr_ev \in EitEvent
    BY <1>0, <2>1 DEF EitTypeOK
  <2>4. Len(curr_ev.desc) = Len(sent.events[Len(events) + 1].desc)
    <3>. DEFINE x == Len(curr_ev.desc)
                y == Len(sent.events[Len(events) + 1].desc)
    <3>1. Len(events) + 1 \in 1 .. Len(sent.events) /\ x \in 0 .. y
      BY <2>2, InEvent
    <3>2. y \in Nat /\ y <= MAX_DESC
      BY <1>3, <3>1
    <3>3. x = y \/ loaded_desc < curr_ev.descriotors_loop_length
      BY <2>2, DescriptorsLeft
    <3>4. ~(x < MAX_DESC) \/ ~(loaded_desc < curr_ev.descriotors_loop_length)
      BY <2>1
    <3>. HIDE DEF x, y
    <3>5. x = y
      BY <1>6, <3>1, <3>2, <3>3, <3>4
    <3>. QED
      BY <3>5 DEF x, y
  <2>5. /\ EventsAre(Append(events, curr_ev), sent)
        /\ AtEvent(sent, buf, Len(Append(events, curr_ev)), boff,
                   loaded + 12 + curr_ev.descriotors_loop_length)
    BY <1>4, <2>2, <2>3, <2>4, EventEnds
  <2>6. EventsAre(events', sent') /\ AtEvent(sent', buf', Len(events'), boff', loaded')
    BY <1>0, <2>1, <2>5
  <2>. QED
    BY <2>1, <2>6, Zenon DEF EitReading
<1>14. ASSUME E!ReadOutside PROVE FALSE
  <2>1. CASE pc = "events" /\ E!MoreEvents /\ ~E!Inside(E!EventSize)
    <3>1. loaded < bits(buf, 12, 12) /\ ~E!Inside(12)
      BY <1>5, <2>1 DEF E!MoreEvents, E!EventSize
    <3>2. (boff \div 8) + 12 <= bits(buf, 12, 12) + 3 + Slack
      BY <1>7, <2>1, <3>1
    <3>. QED
      BY <1>5, <3>1, <3>2
  <2>2. CASE /\ pc = "descriptors"
             /\ E!MoreDescriptors
             /\ \/ ~E!Inside(E!DescriptorSize)
                \/ ~E!Inside(E!DescriptorSize + E!DescriptorLength)
    <3>. DEFINE next == [curr_ev EXCEPT !.desc =
                           Append(@, [descriptor_tag    |-> E!bits(buf, boff, 8),
                                      descriptor_length |-> E!DescriptorLength])]
    <3>1. /\ loaded_desc < curr_ev.descriotors_loop_length
          /\ ~E!Inside(2) \/ ~E!Inside(2 + E!DescriptorLength)
      BY <2>2 DEF E!MoreDescriptors, E!DescriptorSize
    <3>2. DescriptorGot(next, curr_ev, buf, boff, E!DescriptorLength)
      BY DEF DescriptorGot, E!DescriptorLength
    <3>. HIDE DEF next
    <3>3. /\ (boff \div 8) + 2 <= bits(buf, 12, 12) + 3 + Slack
          /\ (boff \div 8) + (2 + E!DescriptorLength) <= bits(buf, 12, 12) + 3 + Slack
      BY <1>8, <2>2, <3>1, <3>2
    <3>. QED
      BY <1>5, <3>1, <3>3
  <2>. QED
    BY <1>14, <2>1, <2>2 DEF E!ReadOutside
<1>15. CASE E!FreeEit
  <2>1. pc' = "eit freed"
    BY <1>15 DEF E!FreeEit
  <2>. QED
    BY <2>1, Zenon DEF EitReading
<1>. QED
  BY <1>9, <1>10, <1>11, <1>12, <1>13, <1>14, <1>15 DEF E!Next

(* The time of every day has been printed.                                 *)
Timed ==
  pc = "tot" =>
    /\ mjd \in 0 .. 2^16 - 1
    /\ date = DateOf(T!mjd_to_tm(mjd))
    /\ T!TextFits /\ T!TimeIsRight

IInv ==
  /\ Decoding
  /\ PmtPlaced
  /\ EitTypeOK
  /\ EitInPlace
  /\ Allocated
  /\ Timed
  /\ PmtRight
  /\ EitRight

(* A decoder's states are its own.                                         *)
LEMMA Apart ==
  /\ pc = "tot" => pc \notin PmtStates /\ pc \notin EitStates
  /\ pc \in PmtStates => pc # "tot" /\ pc \notin EitStates
  /\ pc \in EitStates => pc # "tot" /\ pc \notin PmtStates
BY DEF PmtStates, EitStates

(* What is said of a decoder does not concern the others.                  *)
LEMMA Idle ==
  /\ pc \notin PmtStates => PmtPlaced
  /\ pc \notin EitStates => EitTypeOK /\ EitInPlace /\ Allocated
  /\ pc' \notin PmtStates => PmtPlaced'
  /\ pc' \notin EitStates => EitTypeOK' /\ EitInPlace' /\ Allocated'
  /\ pc \notin PmtStates => PmtRight
  /\ pc \notin EitStates => EitRight
  /\ pc' \notin PmtStates => PmtRight'
  /\ pc' \notin EitStates => EitRight'
<1>1. /\ pc \notin PmtStates => PmtPlaced
      /\ pc' \notin PmtStates => PmtPlaced'
  BY DEF PmtPlaced, PmtStates
<1>2. /\ pc \notin EitStates => EitTypeOK /\ EitInPlace /\ Allocated
      /\ pc' \notin EitStates => EitTypeOK' /\ EitInPlace' /\ Allocated'
  BY DEF EitTypeOK, EitInPlace, Allocated, EitStates
<1>3. /\ pc \notin PmtStates => PmtRight
      /\ pc' \notin PmtStates => PmtRight'
  BY Zenon DEF PmtRight
<1>4. /\ pc \notin EitStates => EitRight
      /\ pc' \notin EitStates => EitRight'
  BY Zenon DEF EitRight
<1>. QED
  BY <1>1, <1>2, <1>3, <1>4

(* What is said of a table with a time, if it is of day d.                 *)
TotIsRight(d, h, time, got) ==
  /\ got.disable = 0 <=> OfTot(h)
  /\ OfTot(h) =>
       LET tm     == got.tm
           fields == <<tm.tm_hour, tm.tm_min, tm.tm_sec>>
       IN /\ T!tm_to_text(tm) # T!NoText /\ ~T!Empty(tm)
          /\ d = <<tm.tm_year + 1900, tm.tm_mon + 1, tm.tm_mday>>
          /\ \A k \in 1 .. 3 : T!IsBcd(time[k]) => time[k] = T!Bcd(fields[k])

LEMMA TimeOfDay ==
  ASSUME NEW day \in 0 .. 2^16 - 1, NEW h \in TotHeader, NEW time \in [1 .. 3 -> Byte]
  PROVE  TotIsRight(DateOf(T!mjd_to_tm(day)), h, time, T!Received(day, h, time))
<1>. DEFINE got == T!Received(day, h, time)
            d == DateOf(T!mjd_to_tm(day))
            fields == <<got.tm.tm_hour, got.tm.tm_min, got.tm.tm_sec>>
<1>1. /\ got.disable = 0 <=> OfTot(h)
      /\ OfTot(h) => /\ got.tm \in Tm
                     /\ DateOf(got.tm) = d
                     /\ got.tm.tm_hour = T!hex_to_digi(time[1])
                     /\ got.tm.tm_min = T!hex_to_digi(time[2])
                     /\ got.tm.tm_sec = T!hex_to_digi(time[3])
  BY TotIsRead
<1>. HIDE DEF got, d
<1>2. ASSUME OfTot(h) PROVE T!tm_to_text(got.tm) # T!NoText /\ ~T!Empty(got.tm)
  BY <1>1, <1>2, TextOfTime
<1>3. ASSUME OfTot(h) PROVE \A k \in 1 .. 3 : fields[k] = T!hex_to_digi(time[k])
  BY <1>1, <1>3
<1>4. \A k \in 1 .. 3 : T!IsBcd(time[k]) => time[k] = T!Bcd(T!hex_to_digi(time[k]))
  BY DigitsOfBcd
<1>5. ASSUME OfTot(h)
      PROVE  d = <<got.tm.tm_year + 1900, got.tm.tm_mon + 1, got.tm.tm_mday>>
  BY <1>1, <1>5 DEF DateOf
<1>. HIDE DEF fields
<1>6. ASSUME OfTot(h)
      PROVE  \A k \in 1 .. 3 : T!IsBcd(time[k]) => time[k] = T!Bcd(fields[k])
  BY <1>3, <1>4, <1>6
<1>7. TotIsRight(d, h, time, got)
  BY <1>1, <1>2, <1>5, <1>6 DEF TotIsRight, fields
<1>. QED
  BY <1>7 DEF d, got

(* It is what is said of the state.                                        *)
LEMMA RightInState ==
  /\ TotIsRight(date, header, clock, tot) => T!TextFits /\ T!TimeIsRight
  /\ TotIsRight(date', header', clock', tot') => T!TextFits' /\ T!TimeIsRight'
BY DEF TotIsRight, T!TextFits, T!TimeIsRight, T!IsTot, OfTot

(* It holds at first.                                                      *)
LEMMA InitIInv == Init => IInv
<1>1. ASSUME PmtReceived PROVE IInv
  <2>1. pc = "pmt header" /\ boff = 0
    BY <1>1 DEF PmtReceived, P!Init
  <2>2. InBlock(buf)
    BY <1>1, DecodersAssumption DEF PmtReceived
  <2>3. pc \in PmtStates
    BY <2>1 DEF PmtStates
  <2>4. PmtPlaced
    BY <2>1 DEF PmtPlaced
  <2>5. PmtRight
    <3>1. sent # Damaged => sent \in P!Table /\ buf = InMemory(P!PmtBytes(sent))
      BY <1>1, DecodersAssumption DEF PmtReceived
    <3>2. P!PmtExact
      BY <2>1, Zenon DEF P!PmtExact
    <3>. QED
      BY <2>1, <3>1, <3>2, Zenon DEF PmtRight
  <2>. QED
    BY <2>2, <2>3, <2>4, <2>5, Apart, Idle DEF IInv, Decoding, Timed
<1>2. ASSUME EitReceived PROVE IInv
  <2>1. /\ pc = "eit header" /\ boff = 0 /\ loaded = 0 /\ loaded_desc = 0
        /\ events = <<>> /\ allocated = 0
    BY <1>2 DEF EitReceived, E!Init
  <2>2. InBlock(buf)
    BY <1>2, DecodersAssumption DEF EitReceived
  <2>3. pc \in EitStates
    BY <2>1 DEF EitStates
  <2>4. EitTypeOK
    <3>1. /\ boff \in Nat /\ boff % 8 = 0 /\ loaded \in Nat /\ loaded_desc \in Nat
      <4>1. boff = 0 /\ loaded = 0 /\ loaded_desc = 0
        BY <2>1
      <4>. QED
        BY <4>1
    <3>2. events \in Seq(EitEvent) /\ Len(events) <= MAX_EVENTS
      <4>1. events = <<>>
        BY <2>1
      <4>. QED
        BY <4>1, Limits
    <3>3. \A k \in DOMAIN events : Len(events[k].desc) <= MAX_DESC
      <4>1. events = <<>>
        BY <2>1
      <4>. QED
        BY <4>1
    <3>4. pc # "descriptors"
      BY <2>1
    <3>. QED
      BY <3>1, <3>2, <3>3, <3>4 DEF EitTypeOK
  <2>5. EitInPlace
    BY <2>1 DEF EitInPlace
  <2>6. Allocated
    BY <2>1 DEF Allocated
  <2>7. EitRight
    <3>1. sent # Damaged => sent \in E!Table /\ buf = InMemory(E!EitBytes(sent))
      BY <1>2, DecodersAssumption DEF EitReceived
    <3>2. EitReading
      BY <2>1, Zenon DEF EitReading
    <3>. QED
      BY <3>1, <3>2, Zenon DEF EitRight
  <2>. QED
    BY <2>2, <2>3, <2>4, <2>5, <2>6, <2>7, Apart, Idle DEF IInv, Decoding, Timed
<1>3. ASSUME FirstDay PROVE IInv
  <2>1. pc = "tot" /\ T!Init
    BY <1>3 DEF FirstDay
  <2>2. /\ mjd = 0 /\ header = [table_id |-> 115, syntax |-> 0, rest |-> 2]
        /\ clock = <<0, 0, 0>> /\ tot = T!Received(mjd, header, clock)
    BY <2>1 DEF T!Init
  <2>3. header \in TotHeader
    <3>1. 115 \in Byte /\ 0 \in Bit /\ 2 \in 0 .. T!RestMax
      <4>1. T!RestMax = 4086
        <5>1. 2^12 = 4096
          OBVIOUS
        <5>. QED
          BY <5>1 DEF T!RestMax
      <4>. QED
        BY <4>1 DEF Byte, Bit
    <3>. QED
      BY <2>2, <3>1 DEF TotHeader
  <2>4. clock \in [1 .. 3 -> Byte]
    <3>1. 0 \in Byte
      BY DEF Byte
    <3>. QED
      BY <2>2, <3>1
  <2>5. mjd \in 0 .. 2^16 - 1
    <3>1. 2^16 = 65536
      OBVIOUS
    <3>2. mjd = 0
      BY <2>2
    <3>. QED
      BY <3>1, <3>2
  <2>6. date = DateOf(T!mjd_to_tm(mjd))
    BY <2>1, <2>2, KeepsCalendar DEF T!Init
  <2>7. T!TextFits /\ T!TimeIsRight
    <3>1. TotIsRight(DateOf(T!mjd_to_tm(mjd)), header, clock, tot)
      BY <2>2, <2>3, <2>4, <2>5, TimeOfDay
    <3>. QED
      BY <2>6, <3>1, RightInState
  <2>. QED
    BY <2>1, <2>5, <2>6, <2>7, Apart, Idle DEF IInv, Decoding, Timed
<1>. QED
  BY <1>1, <1>2, <1>3 DEF Init

(* Every step keeps it.                                                    *)
LEMMA NextIInv == IInv /\ [Next]_vars => IInv'
<1>. SUFFICES ASSUME IInv, [Next]_vars PROVE IInv'
  OBVIOUS
<1>. USE DEF IInv
<1>1. CASE DecodePmt
  <2>1. P!Next
    BY <1>1 DEF DecodePmt
  <2>2. pc # "tot" /\ buf' = buf /\ pc' \in PmtStates /\ PmtPlaced'
    <3>1. buf' = buf /\ pc' \in PmtStates /\ PmtPlaced'
      BY <2>1, PmtStep
    <3>2. pc # "tot"
      BY <2>1 DEF P!Next, P!ReadHeader, P!ReadStream, P!EndOfStreams, P!ReadOutside
    <3>. QED
      BY <3>1, <3>2
  <2>3. InBlock(buf)'
    BY <2>2 DEF Decoding, InBlock
  <2>4. pc' # "tot" /\ pc' \notin EitStates
    BY <2>2 DEF PmtStates, EitStates
  <2>5. EitTypeOK' /\ EitInPlace' /\ Allocated' /\ EitRight'
    BY <2>4, Idle
  <2>6. PmtRight'
    BY <2>1, PmtRightStep
  <2>. QED
    BY <2>2, <2>3, <2>4, <2>5, <2>6 DEF Decoding, Timed
<1>2. CASE DecodeEit
  <2>1. E!Next
    BY <1>2 DEF DecodeEit
  <2>2. pc' \in EitStates /\ buf' = buf /\ InBlock(buf)
    BY <2>1, EitStepStates
  <2>3. EitTypeOK' /\ EitInPlace' /\ Allocated'
    BY <2>1, EitTypeStep, EitPlaceStep, AllocatedStep
  <2>4. InBlock(buf)'
    BY <2>2 DEF InBlock
  <2>5. pc' # "tot" /\ pc' \notin PmtStates
    BY <2>2 DEF PmtStates, EitStates
  <2>6. PmtPlaced' /\ PmtRight'
    BY <2>5, Idle
  <2>7. EitRight'
    BY <2>1, EitRightStep
  <2>. QED
    BY <2>2, <2>3, <2>4, <2>5, <2>6, <2>7 DEF Decoding, Timed
<1>3. CASE NextDay
  <2>1. /\ pc = "tot" /\ pc' = pc
        /\ T!Day(HeaderOf[mjd + 1], ClockOf[mjd + 1])
    BY <1>3 DEF NextDay, common
  <2>2. /\ mjd < 2^16 - 1 /\ mjd' = mjd + 1
        /\ header' = HeaderOf[mjd + 1] /\ clock' = ClockOf[mjd + 1]
        /\ tot' = T!Received(mjd', header', clock')
    BY <2>1 DEF T!Day
  <2>3. mjd \in 0 .. 2^16 - 1
    BY <2>1 DEF Timed
  <2>4. mjd + 1 \in Days /\ mjd' \in 0 .. 2^16 - 1
    <3>. DEFINE last == 2^16 - 1
    <3>1. last \in Nat
      OBVIOUS
    <3>2. mjd < last /\ mjd' = mjd + 1 /\ mjd \in 0 .. last
      BY <2>2, <2>3
    <3>. HIDE DEF last
    <3>3. mjd + 1 \in 1 .. last /\ mjd' \in 0 .. last
      BY <3>1, <3>2
    <3>. QED
      BY <3>3 DEF last, Days
  <2>5. header' \in TotHeader /\ clock' \in [1 .. 3 -> Byte]
    BY <2>2, <2>4, DecodersAssumption
  <2>6. date' = DateOf(T!mjd_to_tm(mjd'))
    <3>1. date' = T!NextDay(date) /\ date = DateOf(T!mjd_to_tm(mjd))
      BY <2>1 DEF T!Day, Timed
    <3>2. mjd \in Nat /\ mjd < 65535
      <4>1. 2^16 - 1 = 65535
        OBVIOUS
      <4>. QED
        BY <2>2, <2>3, <4>1
    <3>3. T!NextDay(DateOf(T!mjd_to_tm(mjd))) = DateOf(T!mjd_to_tm(mjd + 1))
      BY <3>2, KeepsCalendar
    <3>. QED
      BY <2>2, <3>1, <3>3
  <2>7. T!TextFits' /\ T!TimeIsRight'
    <3>1. TotIsRight(DateOf(T!mjd_to_tm(mjd')), header', clock', tot')
      BY <2>2, <2>4, <2>5, TimeOfDay
    <3>. QED
      BY <2>6, <3>1, RightInState
  <2>8. pc' = "tot"
    BY <2>1
  <2>9. pc' \notin PmtStates /\ pc' \notin EitStates
    BY <2>8 DEF PmtStates, EitStates
  <2>10. /\ PmtPlaced' /\ EitTypeOK' /\ EitInPlace' /\ Allocated'
         /\ PmtRight' /\ EitRight'
    BY <2>9, Idle
  <2>. QED
    BY <2>4, <2>6, <2>7, <2>8, <2>10 DEF Decoding, Timed
<1>4. CASE UNCHANGED vars
  <2>1. UNCHANGED <<buf, pc, boff, sent, pmt, loaded, loaded_desc, curr_ev, events, allocated,
                    mjd, date, header, clock, tot>>
    BY <1>4 DEF vars, common, forPmt, forEit, forTot
  <2>2. Decoding' /\ PmtPlaced'
    BY <2>1 DEF Decoding, InBlock, PmtPlaced, P!end_of_streams, P!section_length
  <2>3. EitTypeOK'
    BY <2>1 DEF EitTypeOK
  <2>4. EitInPlace'
    BY <2>1 DEF EitInPlace, Cut
  <2>5. Allocated'
    BY <2>1 DEF Allocated, OfWrongEvent, E!section_length
  <2>6. Timed'
    BY <2>1 DEF Timed, T!TextFits, T!TimeIsRight, T!IsTot
  <2>7. PmtRight'
    BY <2>1 DEF PmtRight, P!PmtExact
  <2>8. EitRight'
    BY <2>1 DEF EitRight, EitReading, E!FitsLimits
  <2>. QED
    BY <2>2, <2>3, <2>4, <2>5, <2>6, <2>7, <2>8
<1>. QED
  BY <1>1, <1>2, <1>3, <1>4 DEF Next

(* The three decoders keep their invariant.                                *)
THEOREM Invariant == Spec => []IInv
BY InitIInv, NextIInv, PTL DEF Spec

(***************************************************************************)
(* Whatever lengths a damaged section has in it, st_pmt takes no entry for *)
(* a stream that is not in the section, and does not leave the block: the  *)
(* three bytes by which the end of its loop lies too early are enough for  *)
(* the five of an entry.                                                   *)
(***************************************************************************)
THEOREM ReadsInside == Spec => PmtReadsInside
<1>. DEFINE Step ==
       pc = "pmt streams" /\ P!section_length >= 4 =>
         /\ pc' # "pmt outside"
         /\ pmt' # pmt => (boff \div 8) + P!StreamEntrySize <= P!section_length + 3
<1>1. IInv /\ [Next]_vars => [Step]_(P!vars)
  <2>. SUFFICES ASSUME IInv, [Next]_vars PROVE [Step]_(P!vars)
    OBVIOUS
  <2>1. CASE DecodePmt
    <3>1. P!Next /\ Decoding /\ PmtPlaced
      BY <2>1 DEF DecodePmt, IInv
    <3>2. Step
      BY <3>1, PmtStep
    <3>. QED
      BY <3>2
  <2>2. CASE DecodeEit
    <3>1. pc \in EitStates
      BY <2>2, EitStepStates DEF DecodeEit, IInv
    <3>2. pc # "pmt streams"
      BY <3>1 DEF EitStates
    <3>. QED
      BY <3>2
  <2>3. CASE NextDay
    <3>1. pc # "pmt streams"
      BY <2>3 DEF NextDay
    <3>. QED
      BY <3>1
  <2>4. CASE UNCHANGED vars
    <3>1. UNCHANGED P!vars
      BY <2>4 DEF vars, common, forPmt, P!vars
    <3>. QED
      BY <3>1
  <2>. QED
    BY <2>1, <2>2, <2>3, <2>4 DEF Next
<1>2. Spec => [][Step]_(P!vars)
  BY <1>1, Invariant, PTL DEF Spec
<1>. QED
  BY <1>2 DEF PmtReadsInside, P!PmtReadsInside

(***************************************************************************)
(* Whatever is in a section, st_eit counts the bytes that it has passed,   *)
(* until an event has as many descriptors as are read of one, or one that  *)
(* is longer than the loop it stands in.                                   *)
(***************************************************************************)
THEOREM InPlace == Spec => []InPlaceUntilCut
<1>1. IInv => InPlaceUntilCut
  BY DEF IInv, EitInPlace, Cut, InPlaceUntilCut, E!InPlaceUntilCut
<1>. QED
  BY <1>1, Invariant, PTL

(***************************************************************************)
(* free_eit frees every element of the lists that st_eit has built, and    *)
(* nothing twice; the one that is lost is an event whose descriptors are   *)
(* longer than the section.                                                *)
(***************************************************************************)
THEOREM FreesAllButOne == Spec => []OnlyWrongEventLeaks
<1>1. IInv => OnlyWrongEventLeaks
  <2>1. 8 * E!HeaderSize = 112
    BY DEF E!HeaderSize
  <2>. QED
    BY <2>1 DEF IInv, Allocated, OfWrongEvent, OnlyWrongEventLeaks, E!OnlyWrongEventLeaks
<1>. QED
  BY <1>1, Invariant, PTL

(***************************************************************************)
(* Of every day that 16 bits can name and whatever the bytes of the clock  *)
(* are, the time fits into the 20 bytes that it is printed to, and does    *)
(* not count as empty.                                                     *)
(***************************************************************************)
THEOREM TimesFit == Spec => []TextFits
<1>1. IInv => TextFits
  BY DEF IInv, Timed, TextFits
<1>. QED
  BY <1>1, Invariant, PTL

(***************************************************************************)
(* On every day that 16 bits can name, and with any header and any clock,  *)
(* the date of a TOT is the calendar's and every field of two decimal      *)
(* digits is the clock's; a table that is no TOT is refused, no other is.  *)
(***************************************************************************)
THEOREM TimesAreRight == Spec => []TimeIsRight
<1>1. IInv => TimeIsRight
  BY DEF IInv, Timed, TimeIsRight
<1>. QED
  BY <1>1, Invariant, PTL

(***************************************************************************)
(* Of every undamaged PMT, with any number of streams, program_info and    *)
(* descriptions of any length that fit into a section, each stream is      *)
(* read, in order, and nothing else: the end of the loop that lies three   *)
(* bytes too early cuts none off, and the CRC is not taken for one.        *)
(***************************************************************************)
THEOREM PmtIsExact == Spec => []PmtExact
<1>1. IInv => PmtExact
  <2>1. P!Damaged = Damaged
    BY DEF P!Damaged, Damaged
  <2>2. ASSUME PmtRight, pc \in PmtStates, sent # Damaged PROVE P!PmtExact
    BY <2>2 DEF PmtRight
  <2>3. ASSUME pc \notin PmtStates PROVE P!PmtExact
    BY <2>3, Zenon DEF P!PmtExact, PmtStates
  <2>4. ASSUME sent = Damaged PROVE P!PmtExact
    BY <2>1, <2>4, Zenon DEF P!PmtExact
  <2>. QED
    BY <2>2, <2>3, <2>4 DEF IInv, PmtExact
<1>. QED
  BY <1>1, Invariant, PTL

(***************************************************************************)
(* Of every undamaged EIT with no more events and descriptors than the     *)
(* limits every event is read, with its day, its time, its duration and    *)
(* all of its descriptors, and nothing else; nothing is read outside of    *)
(* the block.                                                              *)
(***************************************************************************)
THEOREM EitIsExact == Spec => []EitExact
<1>1. IInv => EitExact
  BY RightIsExact DEF IInv, EitExact
<1>. QED
  BY <1>1, Invariant, PTL
=============================================================================
