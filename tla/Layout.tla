------------------------------- MODULE Layout --------------------------------
(***************************************************************************)
(* How a section lies in memory, for the decoders that read it with        *)
(* getBit: the reference that their results are compared with.             *)
(***************************************************************************)
EXTENDS Bits, SequencesExt

CONSTANT Slack    \* the bytes of a block behind its section: 188 (packet.c)

(* The header of every section fits into its block.                        *)
ASSUME LayoutAssumption == Slack \in Nat /\ Slack >= 11

(* The lengths that twelve bits can say.                                   *)
SectionLengths == 0 .. 2^12 - 1

Damaged == [damaged |-> TRUE]

(* A field in the low bits of two bytes, behind the flags in the first.    *)
Pair(flags, n) == <<flags + n \div 256, n % 256>>

(* Bytes nobody looks at.                                                  *)
Filler(n) == [k \in 1 .. n |-> 171]

(* table_id, syntax and length, the body and four bytes of CRC.            *)
Section(table_id, body) ==
  <<table_id>> \o Pair(240, Len(body) + 4) \o body \o Filler(4)

(* A block is cleared before the section is copied into it; the bytes      *)
(* behind it are somebody else's.                                          *)
Foreign == 85

Memory(section, size) ==
  [address \in 0 .. size + 7 |->
     CASE address < Len(section)                     -> section[address + 1]
       [] address >= Len(section) /\ address < size  -> 0
       [] address >= Len(section) /\ address >= size -> Foreign]
=============================================================================
