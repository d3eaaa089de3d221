-------------------------------- MODULE Dates --------------------------------
(***************************************************************************)
(* Dates and times of a transport stream: mjd_to_tm, hex_to_digi,          *)
(* time_to_tm and tm_to_text of m2tlib/util.c.                             *)
(***************************************************************************)
EXTENDS Bits

(* Division of the C language, which rounds towards zero.                  *)
Quotient(a, b)  == IF a >= 0 THEN a \div b ELSE -((-a) \div b)
Remainder(a, b) == a - b * Quotient(a, b)

(* struct tm, as far as it is used.  tm_mon starts with 0, tm_mday with 1. *)
mjd_to_tm(mjd) ==
  LET jd   == mjd + 2400001
      a    == Quotient(4 * jd - 17918, 146097)
      b    == Quotient(3 * a + 2, 4)
      jd4  == 4 * (jd + b - 37)
      dtmp == 10 * Quotient(Remainder(jd4 - 237, 1461), 4) + 5
  IN [tm_year |-> Quotient(jd4, 1461) - 4712 - 1900,
      tm_mon  |-> Remainder(Quotient(dtmp, 306) + 2, 12),
      tm_mday |-> Quotient(Remainder(dtmp, 306), 10) + 1]

(* The byte is printed in hexadecimal, without a leading zero, and read as *)
(* a decimal number up to the first digit that is none.                    *)
hex_to_digi_Half(x) == (x \div 16) * 10
hex_to_digi(x) ==
  LET high == x \div 16
      low  == x % 16
  IN CASE high > 9               -> 0
       [] high <= 9 /\ low > 9   -> high
       [] high <= 9 /\ low <= 9  -> 10 * high + low

(* Five bytes at an address: the modified Julian date in 16 bits, then     *)
(* hour, minute and second in two decimal digits each.                     *)
time_to_tm(buf, byte) ==
  LET date == mjd_to_tm(bits(buf, 8 * byte, 16))
      Digits(k) == hex_to_digi(bits(buf, 8 * (byte + k), 8))
  IN [tm_year |-> date.tm_year, tm_mon |-> date.tm_mon, tm_mday |-> date.tm_mday,
      tm_hour |-> Digits(2), tm_min |-> Digits(3), tm_sec |-> Digits(4)]

(* The decimal digits of a number, and those of a field of at least two    *)
(* (%m, %d, %H, %M, %S).                                                   *)
DigitCount(n)  == CHOOSE d \in 1 .. 9 : n < 10^d /\ (d = 1 \/ 10^(d - 1) <= n)
FieldLength(n) == IF n < 10 THEN 2 ELSE DigitCount(n)

(* A text is the six numbers in it.  strftime is given 20 bytes; a text    *)
(* that does not fit with its end is lost.                                 *)
TextSize_NoEnd == 19
TextSize       == 20
NoText   == <<>>

TextLength(tm) ==
  DigitCount(tm.tm_year + 1900) + 5 + FieldLength(tm.tm_mon + 1)
  + FieldLength(tm.tm_mday) + FieldLength(tm.tm_hour) + FieldLength(tm.tm_min)
  + FieldLength(tm.tm_sec)

tm_to_text(tm) ==
  IF TextLength(tm) < TextSize
  THEN <<tm.tm_year + 1900, tm.tm_mon + 1, tm.tm_mday, tm.tm_hour, tm.tm_min,
         tm.tm_sec>>
  ELSE NoText

(* first_tot counts as empty while its day is 0.                           *)
Empty(tm) == tm.tm_mday = 0

-----------------------------------------------------------------------------
(* The reference: the calendar.                                            *)

LeapYear(y) == (y % 4 = 0 /\ y % 100 # 0) \/ y % 400 = 0

DaysIn(y, m) ==
  CASE m \in {4, 6, 9, 11} -> 30
    [] m = 2               -> IF LeapYear(y) THEN 29 ELSE 28
    [] OTHER               -> 31

(* A date is year, month and day.                                          *)
DayZero == <<1858, 11, 17>>

NextDay(date) ==
  LET y == date[1]
      m == date[2]
      d == date[3]
  IN CASE d < DaysIn(y, m)             -> <<y, m, d + 1>>
       [] d = DaysIn(y, m) /\ m < 12   -> <<y, m + 1, 1>>
       [] d = DaysIn(y, m) /\ m = 12   -> <<y + 1, 1, 1>>

(* Two decimal digits in a byte.                                           *)
Bcd(n) == 16 * (n \div 10) + (n % 10)
=============================================================================
