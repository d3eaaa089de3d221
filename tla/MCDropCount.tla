---------------------------- MODULE MCDropCount -----------------------------
(* The continuity checker on one elementary stream PID and on null packets,*)
(* for streams of up to MaxSeen packets in all.                            *)
EXTENDS DropCount

CONSTANTS MaxSeen, Content

MCPIDs == {PAT_PID, TOT_PID, 256, NULL_PID}
MCContents == {Content, "other"}

NoField == [length |-> 0, discontinuity |-> 0, pcr |-> 0, opcr |-> 0,
            splice |-> 0, private |-> 0, private_length |-> 0,
            extension |-> 0, extension_length |-> 0, extension_need |-> 0]
(* A discontinuity with its clock reference, and one cut short before it.  *)
JumpField == [NoField EXCEPT !.length = 7, !.discontinuity = 1, !.pcr = 1]
CutField  == [JumpField EXCEPT !.length = 6]

Es(cc, content) ==
  [sync |-> TRUE, tei |-> 0, pusi |-> 0, pid |-> 256, tsc |-> 0, afc |-> 1,
   cc |-> cc, af |-> NoField,
   sec |-> [table_id |-> 0, section_syntax_indicator |-> 0,
            section_length |-> 0, content |-> content]]

(* Counters around the wrap, a packet with the same counter and another    *)
(* payload, one with errors, one without payload, and a jump.              *)
MCPackets ==
  {Es(15, Content), Es(0, Content), Es(0, "other"),
   [Es(1, Content) EXCEPT !.tei = 1, !.tsc = 2],
   [Es(0, Content) EXCEPT !.afc = 2],
   [Es(0, Content) EXCEPT !.afc = 3, !.af = JumpField],
   [Es(0, Content) EXCEPT !.afc = 3, !.af = CutField],
   [Es(3, Content) EXCEPT !.pid = NULL_PID]}

Bounded(p) == Len(seen[256]) + Len(seen[NULL_PID]) < MaxSeen

MCNext ==
  /\ ~Marked
  /\ \/ \E buf \in MCPackets : Bounded(buf.pid) /\ Count(buf)
     \/ mark_last_drop_count

MCSpec == Init /\ [][MCNext]_vars
=============================================================================
