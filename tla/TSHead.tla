------------------------------- MODULE TSHead -------------------------------
(***************************************************************************)
(* A 188-byte transport stream packet and what st_head (m2tlib/head.c) and *)
(* extract_adaptation_field (m2tlib/head_adapt.c) read out of it.          *)
(*                                                                         *)
(* A packet is a record of the fields the program looks at.  `sync' says   *)
(* whether the first byte is 0x47.  `af' is the adaptation field as it     *)
(* lies on the wire, `sec' is what the section decoders read when the      *)
(* payload of this packet is at the start of a reassembled section.  Two   *)
(* packets are the same 188 bytes exactly when the records are equal.      *)
(***************************************************************************)
EXTENDS Integers, Sequences

CONSTANTS
  PIDs,       \* the PIDs that occur; the other elements of the 8192 stay zero
  Contents    \* what a section carries: the time of a TOT, the ids of a PAT

PAT_PID  == 0       \* 0x00
TOT_PID  == 20      \* 0x14
NULL_PID == 8191    \* 0x1FFF
PacketSize == 188

ASSUME PIDsAssumption ==
  /\ PIDs \subseteq 0 .. NULL_PID
  /\ {PAT_PID, TOT_PID, NULL_PID} \subseteq PIDs

Bit == {0, 1}
UINT16_MAX == 65535
UINT16 == 0 .. UINT16_MAX

SectionLengthMax == 4095    \* 12 bits

(* The optional parts of an adaptation field: a flag for each, the length  *)
(* bytes of the private data and of the extension, and the bytes that the  *)
(* flags of the extension ask for (2 ltw, 3 piecewise rate, 5 splice).     *)
AdaptationField ==
  [length : 0 .. 255, discontinuity : Bit, pcr : Bit, opcr : Bit,
   splice : Bit, private : Bit, private_length : 0 .. 255,
   extension : Bit, extension_length : 0 .. 255, extension_need : 0 .. 10]

(* A section header as getBit finds it, and the contents behind it.        *)
SectionHeader ==
  [table_id : 0 .. 255, section_syntax_indicator : Bit,
   section_length : 0 .. SectionLengthMax, content : Contents]

Packet ==
  [sync : BOOLEAN, tei : Bit, pusi : Bit, pid : PIDs, tsc : 0 .. 3,
   afc : 0 .. 3, cc : 0 .. 15, af : AdaptationField, sec : SectionHeader]

-----------------------------------------------------------------------------

(* Bytes of the field taken by the flags byte and by the parts before the  *)
(* extension, in the order extract_adaptation_field walks over them.       *)
BasicBytes(af) ==
  1 + 6 * af.pcr + 6 * af.opcr + af.splice
    + af.private * (1 + af.private_length)

(* Some optional part runs over the end of the field (`tail').             *)
Overruns(af) ==
  \/ BasicBytes(af) > af.length
  \/ /\ af.extension = 1
     /\ \/ BasicBytes(af) + 2 > af.length
        \/ BasicBytes(af) + 1 + af.extension_length > af.length
        \/ af.extension_need > 0 /\ af.extension_need > af.extension_length - 1

(* The discontinuity flag that extract_adaptation_field leaves in the      *)
(* structure: everything is zeroed when the field is empty, longer than a  *)
(* packet can hold, or truncated.                                          *)
extract_adaptation_field(af) ==
  IF af.length \in 1 .. 183 /\ ~Overruns(af) THEN af.discontinuity ELSE 0

(* ptr->adapt.discontinuity_counter: the field exists if control bit 2 is set *)
Discontinuity(buf) ==
  IF buf.afc \in {2, 3} THEN extract_adaptation_field(buf.af) ELSE 0

HasPayload(buf) == buf.afc \in {1, 3}

(* ptr->payload_start_pos, with one byte more on a packet that starts a    *)
(* section.                                                                *)
payload_start_pos(buf) ==
  buf.pusi + CASE buf.afc = 2 -> 0
               [] buf.afc = 3 -> 4 + buf.af.length
               [] OTHER       -> 4
=============================================================================
