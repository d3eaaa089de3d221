--------------------------- MODULE MCPacketList ----------------------------
(* The reassembler on the two PIDs that are read and on one that is not.   *)
EXTENDS PacketList

CONSTANTS
  MaxOffered,     \* packets between two calls of free_packet_list_all
  Content

MCPIDs == {PAT_PID, TOT_PID, 256, NULL_PID}
MCContents == {Content}

NoField == [length |-> 0, discontinuity |-> 0, pcr |-> 0, opcr |-> 0,
            splice |-> 0, private |-> 0, private_length |-> 0,
            extension |-> 0, extension_length |-> 0, extension_need |-> 0]

Continued(length) ==
  [sync |-> TRUE, tei |-> 0, pusi |-> 0, pid |-> TOT_PID, tsc |-> 0,
   afc |-> IF length = 0 THEN 1 ELSE 3, cc |-> 0,
   af |-> [NoField EXCEPT !.length = length],
   sec |-> [table_id |-> 115, section_syntax_indicator |-> 0,
            section_length |-> 9, content |-> Content]]

Start(section_length, length) ==
  [Continued(length) EXCEPT !.pusi = 1, !.sec.section_length = section_length]

(* A start has 183 bytes: sections that end in it, that just fill it, that *)
(* need one and two more packets, and one with no contents.  Then starts   *)
(* and continuations with a long adaptation field, with no byte left and   *)
(* with a field that runs over the end of the packet.                      *)
MCPackets ==
  LET tot == {Start(12, 0), Start(3, 0), Start(180, 0), Start(364, 0),
              Start(365, 0), Start(180, 175), Start(12, 183), Start(12, 184),
              Continued(0), Continued(100), Continued(184), Continued(185)}
  IN tot \cup {[Start(12, 0) EXCEPT !.pid = PAT_PID],
               [Start(200, 0) EXCEPT !.pid = PAT_PID],
               [Continued(0) EXCEPT !.pid = PAT_PID],
               [Start(12, 0) EXCEPT !.pid = 256],
               [Start(12, 0) EXCEPT !.tei = 1],
               [Start(12, 0) EXCEPT !.afc = 2]}

Bounded == Len(offered[PAT_PID]) + Len(offered[TOT_PID]) < MaxOffered

(* The list is emptied when the file ends; a run may stop there.           *)
MCNext ==
  \/ \E buf \in MCPackets, crc \in Bit : Bounded /\ Offer(buf, crc)
  \/ free_packet_list_all

MCSpec == Init /\ [][MCNext]_vars
=============================================================================
