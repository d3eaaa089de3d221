----------------------------- MODULE MCDecoders ------------------------------
(* The tables of an alphabet, sections with one byte changed, and the time *)
(* of every day.                                                           *)
EXTENDS Decoders

CONSTANTS MaxStreams, MaxEvents

SequencesUpTo(S, max) == UNION {[1 .. n -> S] : n \in 0 .. max}

Streams ==
  {[stream_type |-> 2, elementary_PID |-> 257, info |-> 0],
   [stream_type |-> 15, elementary_PID |-> 8190, info |-> 1],
   [stream_type |-> 27, elementary_PID |-> 273, info |-> 6]}

PmtTables ==
  [program_number : {1032}, PCR_PID : {511}, info : {0, 3},
   streams : SequencesUpTo(Streams, MaxStreams)]

Tags(n) == [descriptor_tag |-> 77, descriptor_length |-> n]

(* An event with n descriptors, or with one long one.                      *)
Event(id, descriptors) ==
  [event_id |-> id, day |-> 49273, time |-> <<12, 45, 59>>, duration |-> <<1, 2, 30>>,
   desc |-> descriptors]

Events ==
  {Event(7, <<>>), Event(8, <<Tags(0)>>), Event(9, <<Tags(5), Tags(0)>>),
   Event(10, <<Tags(1), Tags(0), Tags(2)>>)}

EitTables ==
  [table_id : {78, 95}, service_id : {1032},
   events : SequencesUpTo(Events, MaxEvents)]

SomePmt ==
  P!PmtBytes([program_number |-> 1032, PCR_PID |-> 511, info |-> 2,
              streams |-> <<[stream_type |-> 2, elementary_PID |-> 257, info |-> 3],
                            [stream_type |-> 15, elementary_PID |-> 258, info |-> 0]>>])

SomeEit ==
  E!EitBytes([table_id |-> 78, service_id |-> 1032,
              events |-> <<Event(9, <<Tags(3), Tags(0)>>), Event(8, <<Tags(4)>>)>>])

(* A section with one byte changed.                                        *)
Changed(section) ==
  {[sent |-> Damaged, buf |-> InMemory([section EXCEPT ![k] = value])] :
     k \in DOMAIN section, value \in {0, 1, 3, 12, 30, 80, 255}}

MCPmtSections ==
  {[sent |-> table, buf |-> InMemory(P!PmtBytes(table))] : table \in PmtTables}
  \cup Changed(SomePmt)

MCEitSections ==
  {[sent |-> table, buf |-> InMemory(E!EitBytes(table))] : table \in EitTables}
  \cup Changed(SomeEit)

(* The assumption on Calendar says that this is the calendar.              *)
MCCalendar ==
  [day \in {0} \cup Days |->
     LET tm == T!mjd_to_tm(day)
     IN <<tm.tm_year + 1900, tm.tm_mon + 1, tm.tm_mday>>]

(* A clock whose digits run through all their values on even days and      *)
(* whose bytes do so on odd ones, with tables that are no TOT in between.  *)
MCClockOf ==
  [day \in Days |->
     IF day % 2 = 0
     THEN <<T!Bcd(day % 24), T!Bcd(day % 60), T!Bcd((day \div 7) % 60)>>
     ELSE <<(day \div 2) % 256, (day \div 5) % 256, (day \div 11) % 256>>]

MCHeaderOf ==
  [day \in Days |->
     [table_id |-> IF day % 11 = 5 THEN 112 ELSE 115,
      syntax   |-> IF day % 13 = 6 THEN 1 ELSE 0,
      rest     |-> IF day % 4001 = 7 THEN 1013 ELSE IF day % 4001 = 9 THEN 1012 ELSE 2]]
=============================================================================
