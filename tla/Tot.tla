-------------------------------- MODULE Tot ----------------------------------
(***************************************************************************)
(* The decoder of the time offset table, st_tot of m2tlib/tot.c, given one *)
(* section a day by a broadcaster who keeps a calendar and a clock.        *)
(***************************************************************************)
EXTENDS Dates, Layout

VARIABLES
  mjd, date,    \* the day: its number and the calendar's name for it
  header,       \* table_id, syntax and the length of what follows the time
  clock,        \* the three bytes of the time of day that are sent
  tot           \* what st_tot makes of the section

vars == <<mjd, date, header, clock, tot>>

(* A table is refused for its id, its syntax or its length.                *)
Disabled_LongToo(buf) == bits(buf, 0, 8) # 115 \/ bits(buf, 8, 1) = 1

Disabled(buf) ==
  \/ bits(buf, 0, 8) # 115
  \/ bits(buf, 8, 1) = 1
  \/ bits(buf, 12, 12) > 1021

st_tot(buf) ==
  IF Disabled(buf) THEN [disable |-> 1]
  ELSE [disable |-> 0, tm |-> time_to_tm(buf, 3)]

-----------------------------------------------------------------------------
(* The broadcaster.                                                        *)

(* Five bytes of time, what follows, and the CRC, in at most 4095 bytes.   *)
RestMax == 2^12 - 1 - 5 - 4

TotBytes(day, h, time) ==
  LET section == Section(h.table_id, Pair(0, day) \o time \o Filler(h.rest))
  IN IF h.syntax = 1 THEN section
     ELSE [section EXCEPT ![2] = @ - 128]

Received(day, h, time) ==
  LET section == TotBytes(day, h, time)
  IN st_tot(Memory(section, Len(section)))

Init ==
  /\ mjd = 0
  /\ date = DayZero
  /\ header = [table_id |-> 115, syntax |-> 0, rest |-> 2]
  /\ clock = <<0, 0, 0>>
  /\ tot = Received(mjd, header, clock)

(* The number of a day has 16 bits: the last one is 22 April 2038.         *)
Day(h, time) ==
  /\ mjd < 2^16 - 1
  /\ mjd' = mjd + 1
  /\ date' = NextDay(date)
  /\ header' = h
  /\ clock' = time
  /\ tot' = Received(mjd', h, time)

-----------------------------------------------------------------------------

IsTot == header.table_id = 115 /\ header.syntax = 0 /\ header.rest + 9 <= 1021

IsBcd(byte) == byte \div 16 <= 9 /\ byte % 16 <= 9

(***************************************************************************)
(* On every day that 16 bits can name the date is the calendar's, and the  *)
(* time is the clock's in each of its fields that has two decimal digits.  *)
(* A table that is no TOT is refused, and no other.                        *)
(***************************************************************************)
TimeIsRight ==
  /\ tot.disable = 0 <=> IsTot
  /\ IsTot =>
       LET tm     == tot.tm
           fields == <<tm.tm_hour, tm.tm_min, tm.tm_sec>>
       IN /\ date = <<tm.tm_year + 1900, tm.tm_mon + 1, tm.tm_mday>>
          /\ \A k \in 1 .. 3 : IsBcd(clock[k]) => clock[k] = Bcd(fields[k])

(***************************************************************************)
(* A time can always be printed into the 20 bytes that are kept for it and *)
(* never counts as none at all, also if the bytes of the clock are no      *)
(* digits.                                                                 *)
(***************************************************************************)
TextFits ==
  IsTot => tm_to_text(tot.tm) # NoText /\ ~Empty(tot.tm)
=============================================================================
