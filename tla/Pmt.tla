-------------------------------- MODULE Pmt ----------------------------------
(***************************************************************************)
(* The decoder of the program map table: st_pmt of m2tlib/pmt.c.  It is    *)
(* part of the library and not called by the program.  One pass of its     *)
(* loop is one step.                                                       *)
(*                                                                         *)
(* buf holds a section in a block that is Slack bytes longer; what is      *)
(* behind the block belongs to somebody else.  A field that is not wholly  *)
(* in the block leads to "pmt outside".                                    *)
(*                                                                         *)
(* sent is a history variable: the table that the section carries, or      *)
(* Damaged if it was changed on its way.  buf, pc, boff and sent are       *)
(* shared with Eit.                                                        *)
(***************************************************************************)
EXTENDS Layout

VARIABLES buf, pc, boff, pmt, sent

vars == <<buf, pc, boff, pmt, sent>>

NoPmt == [none |-> TRUE]

section_length == bits(buf, 12, 12)
BlockSize      == section_length + 3 + Slack

HeaderSize      == 12   \* bytes before the descriptors of the program
StreamEntrySize == 5    \* bytes of a stream without its descriptors

Inside(size) == (boff \div 8) + size <= BlockSize

-----------------------------------------------------------------------------

Init ==
  /\ pc = "pmt header"
  /\ boff = 0
  /\ pmt = NoPmt

(* The last byte of the loop; the subtraction is made in 64 bits, where a  *)
(* length below 4 gives a number that no offset reaches.                   *)
Endless == 2^30

end_of_streams_PastCrc == section_length + 3
end_of_streams == IF section_length < 4 THEN Endless ELSE section_length - 4

ReadHeader ==
  /\ pc = "pmt header"
  /\ pmt' = [program_number |-> bits(buf, 24, 16),
             PCR_PID        |-> bits(buf, 67, 13),
             end_of_streams |-> end_of_streams,
             streams        |-> <<>>]
  /\ boff' = 8 * HeaderSize + 8 * bits(buf, 84, 12)
  /\ pc' = "pmt streams"
  /\ UNCHANGED <<buf, sent>>

(* The descriptors of a stream are passed over.                            *)
SkipInfo_Kept(ES_info_length) == 0
SkipInfo(ES_info_length)      == 8 * ES_info_length

ReadStream ==
  /\ pc = "pmt streams"
  /\ boff \div 8 < pmt.end_of_streams
  /\ Inside(StreamEntrySize)
  /\ pmt' = [pmt EXCEPT !.streams =
               Append(@, [stream_type    |-> bits(buf, boff, 8),
                          elementary_PID |-> bits(buf, boff + 11, 13)])]
  /\ boff' = boff + 8 * StreamEntrySize + SkipInfo(bits(buf, boff + 28, 12))
  /\ UNCHANGED <<buf, pc, sent>>

EndOfStreams ==
  /\ pc = "pmt streams"
  /\ boff \div 8 >= pmt.end_of_streams
  /\ pc' = "pmt done"
  /\ UNCHANGED <<buf, boff, pmt, sent>>

ReadOutside ==
  /\ pc = "pmt streams"
  /\ boff \div 8 < pmt.end_of_streams
  /\ ~Inside(StreamEntrySize)
  /\ pc' = "pmt outside"
  /\ UNCHANGED <<buf, boff, pmt, sent>>

Next ==
  \/ ReadHeader
  \/ ReadStream
  \/ EndOfStreams
  \/ ReadOutside

-----------------------------------------------------------------------------
(* The reference: a table and its section.  A stream is its type, its PID  *)
(* and the number of bytes of its descriptors.                             *)

TableStream ==
  [stream_type : Byte, elementary_PID : 0 .. 2^13 - 1, info : 0 .. 2^12 - 1]

Table ==
  [program_number : 0 .. 2^16 - 1, PCR_PID : 0 .. 2^13 - 1, info : 0 .. 2^12 - 1,
   streams : Seq(TableStream)]

StreamBytes(s) ==
  <<s.stream_type>> \o Pair(224, s.elementary_PID) \o Pair(240, s.info)
  \o Filler(s.info)

PmtBytes(table) ==
  Section(2,
    Pair(0, table.program_number) \o <<193, 0, 0>> \o Pair(224, table.PCR_PID)
    \o Pair(240, table.info) \o Filler(table.info)
    \o FlattenSeq([k \in DOMAIN table.streams |-> StreamBytes(table.streams[k])]))

(***************************************************************************)
(* Of an undamaged section every stream is read, in its place, and nothing *)
(* else: the descriptors in between, whatever they contain and how long    *)
(* they are, and the CRC behind the last stream are no streams, although   *)
(* the end of the loop is taken three bytes too early.                     *)
(***************************************************************************)
PmtExact ==
  pc = "pmt done" /\ sent # Damaged =>
    /\ pmt.program_number = sent.program_number
    /\ pmt.PCR_PID = sent.PCR_PID
    /\ pmt.streams = [k \in DOMAIN sent.streams |->
                        [stream_type    |-> sent.streams[k].stream_type,
                         elementary_PID |-> sent.streams[k].elementary_PID]]

(***************************************************************************)
(* Whatever lengths a damaged section has in it, every entry that is taken *)
(* for a stream lies in the section, and the block is never left: only a   *)
(* section_length below 4 makes the end of the loop wrap.                  *)
(***************************************************************************)
PmtReadsInside ==
  [][pc = "pmt streams" /\ section_length >= 4 =>
       /\ pc' # "pmt outside"
       /\ pmt' # pmt => (boff \div 8) + StreamEntrySize <= section_length + 3]_vars
=============================================================================
