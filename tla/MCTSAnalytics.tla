--------------------------- MODULE MCTSAnalytics ---------------------------
(* Whole files of packets of an alphabet.  A file of a real size is out of *)
(* reach, so there are three alphabets, which differ in what their packets *)
(* make meet, and a bound on the packets of a file for each.               *)
EXTENDS TSAnalytics

CONSTANTS
  MaxWide, MaxRuns, MaxTimes,   \* the packets of a file
  Tails                         \* the bytes behind the last packet

MCPIDs == {PAT_PID, TOT_PID, 256, NULL_PID}
MCContents == {"a", "b"}

(* The programs of a PAT: with the network first, and with it behind.      *)
MCLoop ==
  [c \in MCContents |-> [i \in 1 .. MaxPrograms |->
     CASE c = "a" -> i - 1
       [] c = "b" -> IF i % 3 = 2 THEN 0 ELSE i]]

FilesOf(alphabet, max) ==
  [packets : UNION {[1 .. n -> alphabet] : n \in 0 .. max}, tail : Tails]

NoField == [length |-> 0, discontinuity |-> 0, pcr |-> 0, opcr |-> 0,
            splice |-> 0, private |-> 0, private_length |-> 0,
            extension |-> 0, extension_length |-> 0, extension_need |-> 0]

Es(cc) ==
  [sync |-> TRUE, tei |-> 0, pusi |-> 0, pid |-> 256, tsc |-> 0, afc |-> 1,
   cc |-> cc, af |-> NoField,
   sec |-> [table_id |-> 0, section_syntax_indicator |-> 0,
            section_length |-> 0, content |-> "a"]]

Bad == [Es(0) EXCEPT !.sync = FALSE]
Damaged(packet) == [packet EXCEPT !.tei = 1, !.tsc = 1]

(* A section in its first packet.  A PAT or a TOT of section_length 180    *)
(* just fills that packet, one of 200 needs the next one.                  *)
Tot(content, length, cc) ==
  [Es(cc) EXCEPT !.pusi = 1, !.pid = TOT_PID,
                 !.sec = [table_id |-> 115, section_syntax_indicator |-> 0,
                          section_length |-> length, content |-> content]]
More(cc) == [Tot("b", 0, cc) EXCEPT !.pusi = 0]
Pat(content, length) ==
  [Tot(content, length, 0) EXCEPT !.pid = PAT_PID,
     !.sec.table_id = 0, !.sec.section_syntax_indicator = 1]
Long(packet, length) == [packet EXCEPT !.afc = 3, !.af.length = length]

(* Everything once, for short files.                                       *)
Wide ==
  {Bad, Es(0), Es(1), Damaged(Es(1)), Damaged(Pat("a", 20)),
   [Tot("b", 11, 1) EXCEPT !.afc = 2],
   [Es(0) EXCEPT !.pid = NULL_PID],
   Pat("a", 20), Pat("b", 17), Pat("a", 5),
   Tot("a", 11, 0), Tot("b", 11, 1), Tot("a", 200, 0), Long(Tot("b", 200, 1), 184),
   More(1), [Tot("b", 11, 1) EXCEPT !.sec.table_id = 112]}

(* Long runs of errors, repeated packets and lost ones, after a PAT.       *)
Runs == {Bad, Es(0), Es(2), Pat("a", 13)}

(* Times and drops in every order.                                         *)
Times == {Tot("a", 11, 0), Tot("b", 11, 1), Damaged(Tot("b", 11, 1)),
          Tot("b", 200, 1), [Tot("b", 11, 1) EXCEPT !.sec.table_id = 112],
          More(2), Es(3)}

WideFiles == FilesOf(Wide, MaxWide) \cup FilesOf(Runs, MaxRuns)
TimeFiles == FilesOf(Times, MaxTimes)
=============================================================================
