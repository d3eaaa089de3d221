----------------------------- MODULE PacketList -----------------------------
(***************************************************************************)
(* The section reassembler: m2tlib/packet.c with the filter its caller     *)
(* puts before it (tsanalytics.c).  packet_list has an element per PID; an *)
(* element collects the payloads of successive packets in a block it       *)
(* allocated for the section announced by the packet that starts it.       *)
(*                                                                         *)
(* A block is the sequence of the packets whose payload was copied into    *)
(* it.  `section' is what the last call of st_packet gave its caller.      *)
(* `offered' is a history variable: the packets given to st_packet since   *)
(* the list was last emptied, one sequence per PID.                        *)
(*                                                                         *)
(* Two things are left open.  The CRC of a section matches or not, freely. *)
(* A first packet carries the three bytes of the section header (and the   *)
(* five of the time) as a whole or not at all: the packets a run uses have *)
(* no payload of 1 to 7 bytes.                                             *)
(***************************************************************************)
EXTENDS TSHead, Subsequences, SequencesExt

VARIABLES packet_list, section, offered

vars == <<packet_list, section, offered>>

(* The slack that calloc adds to the size of the section (packet.c).       *)
Slack == PacketSize

(* cap is the size of the block that payload points to, 0 for NULL; leaked *)
(* says that a block of this PID was allocated, never freed, and can no    *)
(* longer be reached.                                                      *)
PACKET_LIST ==
  [enable : Bit, payload : Seq(Packet), size : UINT16,
   copybytes : UINT16, cap : Nat, crc_check : Bit, loading : Bit,
   leaked : Bit]

NoSection == [ok |-> FALSE]

Section ==
  [ok : {TRUE}, pid : PIDs, payload : Seq(Packet), size : UINT16,
   crc_check : Bit]

ZeroElement(enable) ==
  [enable |-> enable, payload |-> <<>>, size |-> 0, copybytes |-> 0,
   cap |-> 0, crc_check |-> 0, loading |-> 0, leaked |-> 0]

-----------------------------------------------------------------------------
(* One call of st_packet on element e with packet buf.                     *)

(* 188-head.payload_start_pos is unsigned: past the end of the packet it   *)
(* wraps to a number far above 188.                                        *)
BadCopySize_Never(buf) == FALSE
BadCopySize(buf) == payload_start_pos(buf) > PacketSize
copy_size(buf)   == PacketSize - payload_start_pos(buf)

(* A packet from the middle of a section whose start was not seen.         *)
Orphan_Never(e, buf) == FALSE
Orphan(e, buf) == buf.pusi = 0 /\ e.loading = 0

(* A starting packet throws away what was collected, takes the size from   *)
(* the section header and allocates twice; the flag loading is not touched.*)
NewBlock(e, size) ==
  [enable |-> e.enable, payload |-> <<>>, size |-> size, copybytes |-> 0,
   cap |-> size + Slack, crc_check |-> e.crc_check, loading |-> e.loading,
   leaked |-> 1]

BeginSection_SmallBlock(e, buf) ==
  [NewBlock(e, buf.sec.section_length + 3) EXCEPT
     !.cap = buf.sec.section_length + 3]

BeginSection_KeepsCount(e, buf) ==
  [NewBlock(e, buf.sec.section_length + 3) EXCEPT !.copybytes = e.copybytes]

BeginSection(e, buf) == NewBlock(e, buf.sec.section_length + 3)

Prepared(e, buf) == IF buf.pusi = 1 THEN BeginSection(e, buf) ELSE e

Copied(e, buf) ==
  [enable |-> e.enable,
   payload |-> IF copy_size(buf) > 0 THEN Append(e.payload, buf) ELSE e.payload,
   size |-> e.size, copybytes |-> e.copybytes + copy_size(buf), cap |-> e.cap,
   crc_check |-> e.crc_check, loading |-> e.loading, leaked |-> e.leaked]

Filled(e) == e.copybytes > e.size

(* Sections this short have no contents (packet.c compares size with 7).   *)
TooShort(e) == e.size < 7

(* A section that is handed over: every PID but the PAT gets its CRC       *)
(* compared first.                                                         *)
Done_KeepsLoading(e, buf, crc) ==
  IF TooShort(e) \/ buf.pid = PAT_PID THEN e ELSE [e EXCEPT !.crc_check = crc]

Done(e, buf, crc) ==
  IF TooShort(e) \/ buf.pid = PAT_PID
  THEN [e EXCEPT !.loading = 0]
  ELSE [e EXCEPT !.loading = 0, !.crc_check = crc]

st_packet(e, buf, crc) ==
  LET prepared == Prepared(e, buf)
      copied   == Copied(prepared, buf)
  IN CASE Orphan(e, buf) -> e
       [] ~Orphan(e, buf) /\ BadCopySize(buf) -> prepared
       [] ~Orphan(e, buf) /\ ~BadCopySize(buf) /\ Filled(copied)
            -> Done(copied, buf, crc)
       [] OTHER -> [copied EXCEPT !.loading = 1]

(* st_packet returns 1.                                                    *)
Returns(e, buf) ==
  LET copied == Copied(Prepared(e, buf), buf)
  IN ~Orphan(e, buf) /\ ~BadCopySize(buf) /\ Filled(copied) /\ ~TooShort(copied)

-----------------------------------------------------------------------------

(* Only the PAT and the TOT are read from a file.                          *)
Init ==
  /\ packet_list =
       [p \in PIDs |-> ZeroElement(IF p \in {PAT_PID, TOT_PID} THEN 1 ELSE 0)]
  /\ section = NoSection
  /\ offered = [p \in PIDs |-> <<>>]

(* The packets that the main loop passes on: no error, a payload, and a    *)
(* PID that is still read.                                                 *)
Passed_Damaged(buf) ==
  buf.sync /\ buf.afc # 2 /\ packet_list[buf.pid].enable = 1

Passed(buf) ==
  /\ buf.sync
  /\ buf.tei = 0
  /\ buf.afc # 2
  /\ packet_list[buf.pid].enable = 1

(* The first PAT is also the last one: the caller disables its PID.        *)
AfterUse_StaysEnabled(e, buf) == e
AfterUse(e, buf) ==
  IF Returns(packet_list[buf.pid], buf) /\ buf.pid = PAT_PID
  THEN [e EXCEPT !.enable = 0]
  ELSE e

Offer(buf, crc) ==
  LET e == st_packet(packet_list[buf.pid], buf, crc) IN
  /\ Passed(buf)
  /\ packet_list' = [packet_list EXCEPT ![buf.pid] = AfterUse(e, buf)]
  /\ section' = IF Returns(packet_list[buf.pid], buf)
                THEN [ok |-> TRUE, pid |-> buf.pid, payload |-> e.payload,
                      size |-> e.size, crc_check |-> e.crc_check]
                ELSE NoSection
  /\ offered' = [offered EXCEPT ![buf.pid] = Append(@, buf)]

free_packet_list(e) ==
  [ZeroElement(e.enable) EXCEPT !.leaked = e.leaked]

free_packet_list_all ==
  /\ packet_list' = [p \in PIDs |-> free_packet_list(packet_list[p])]
  /\ section' = NoSection
  /\ offered' = [p \in PIDs |-> <<>>]

Next ==
  \/ \E buf \in Packet, crc \in Bit : Offer(buf, crc)
  \/ free_packet_list_all

Spec == Init /\ [][Next]_vars

-----------------------------------------------------------------------------
(* The reference: the packets of a PID with the whole sequence at hand.    *)

(* The packets from the last start on; empty if no section was started.    *)
SinceStart(s) ==
  LET starts == {i \in 1 .. Len(s) : s[i].pusi = 1}
  IN IF starts = {} THEN <<>>
     ELSE SubSeq(s, CHOOSE i \in starts : \A j \in starts : j <= i, Len(s))

Useful(buf) == ~BadCopySize(buf) /\ copy_size(buf) > 0

Fragments(s) == Subsequence(s, {i \in DOMAIN s : Useful(s[i])})

(* The bytes of the payloads in s, each as the packet it lies in and its   *)
(* offset there.                                                           *)
PayloadBytes(s) ==
  {y \in (1 .. Len(s)) \X (0 .. PacketSize - 1) :
     y[2] >= payload_start_pos(s[y[1]])}

Bytes(s) == Cardinality(PayloadBytes(s))

Announced(s) == Head(s).sec.section_length + 3

(***************************************************************************)
(* Every element of packet_list has the type of the structure, with the    *)
(* 16-bit fields in range.                                                 *)
(***************************************************************************)
TypeOK ==
  /\ packet_list \in [PIDs -> PACKET_LIST]
  /\ section \in Section \cup {NoSection}
  /\ offered \in [PIDs -> Seq(Packet)]

(***************************************************************************)
(* The copies of a section never run over its block: copybytes stays       *)
(* within what calloc returned, whatever lengths the packets announce and  *)
(* however starts, continuations and unusable packets follow each other.   *)
(***************************************************************************)
NoOverrun ==
  \A p \in PIDs : packet_list[p].copybytes <= packet_list[p].cap

(* The bytes counted are the bytes of the packets in the block.            *)
CountIsContents ==
  \A p \in PIDs : packet_list[p].copybytes = Bytes(packet_list[p].payload)

(***************************************************************************)
(* A section handed to a decoder consists of exactly the payloads since    *)
(* the last start of its PID, in order, with the size that start           *)
(* announced; it is handed over with the first packet that exceeds this    *)
(* size, not later.                                                        *)
(***************************************************************************)
DeliveredIsSinceStart ==
  section.ok =>
    LET recent == SinceStart(offered[section.pid])
        block  == section.payload
    IN /\ recent # <<>>
       /\ block = Fragments(recent)
       /\ section.size = Announced(recent)
       /\ Bytes(block) > section.size
       /\ Bytes(Front(block)) <= section.size

(***************************************************************************)
(* No section is forgotten: as long as the packets since a readable start  *)
(* do not exceed the announced size the element goes on loading, and once  *)
(* they do it stops.                                                       *)
(***************************************************************************)
LoadingUntilFilled ==
  \A p \in PIDs :
    LET recent == SinceStart(offered[p]) IN
    recent # <<>> /\ ~BadCopySize(Head(recent))
      => (packet_list[p].loading = 1
            <=> Bytes(Fragments(recent)) <= Announced(recent))

(***************************************************************************)
(* The comments in st_packet on a payload of more than 188 bytes and on    *)
(* starts: such a packet is abnormal and reading is given up, and what the *)
(* section before has left in the element is initialized by a start.  So   *)
(* no section is handed over whose start was given up.                     *)
(***************************************************************************)
StartGivenUpIsNotRead ==
  section.ok => ~BadCopySize(Head(SinceStart(offered[section.pid])))

(***************************************************************************)
(* The comments in st_packet on size and on completion: the packet is      *)
(* section_length + 3 bytes, and with these it is complete.                *)
(***************************************************************************)
CompleteWhenAllBytesAreThere ==
  \A p \in PIDs :
    packet_list[p].copybytes >= packet_list[p].size
      => packet_list[p].loading = 0
=============================================================================
