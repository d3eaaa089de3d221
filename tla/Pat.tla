--------------------------------- MODULE Pat ---------------------------------
(***************************************************************************)
(* The decoder of the program association table: m2tlib/pat.c.  A section  *)
(* is its header (SectionHeader of TSHead).  Its content stands for the    *)
(* transport_stream_id and for the bytes behind the header, from which     *)
(* Loop gives the program number at each place of the program loop.        *)
(***************************************************************************)
EXTENDS TSHead

CONSTANT Loop   \* the program numbers that the bytes of a section spell

(* The places for programs in the longest section.                         *)
MaxPrograms == (SectionLengthMax - 9) \div 4

ASSUME PatAssumption == Loop \in [Contents -> [1 .. MaxPrograms -> UINT16]]

-----------------------------------------------------------------------------

(* The quotient of int arithmetic, rounded towards zero and stored in 16   *)
(* bits: a section_length below 6 gives 65535 or 65534.                    *)
num_of_pids_OneShort(section_length) == (section_length - 10) \div 4

num_of_pids(section_length) ==
  LET n == section_length - 9
  IN IF n >= 0 THEN n \div 4 ELSE (2^16 - (-n) \div 4) % 2^16

(* The loop runs out of the block of cap bytes that the section lies in.   *)
LoopOutside(sec, cap) ==
  \/ sec.section_length + 3 > cap
  \/ 4 * num_of_pids(sec.section_length) > sec.section_length

(* The linked list of programs is a sequence; of a loop that runs out of   *)
(* the block nothing is known.                                             *)
st_pat(sec, cap) ==
  LET outside == LoopOutside(sec, cap)
      num     == num_of_pids(sec.section_length)
  IN [transport_stream_id |-> sec.content,
      num_of_pids         |-> num,
      outside             |-> outside,
      pids                |-> IF outside THEN <<>>
                              ELSE [i \in 1 .. num |-> Loop[sec.content][i]]]

TS_PAT ==
  [transport_stream_id : Contents, num_of_pids : UINT16, outside : BOOLEAN,
   pids : Seq(UINT16)]
=============================================================================
