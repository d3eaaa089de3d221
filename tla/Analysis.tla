------------------------------ MODULE Analysis ------------------------------
(***************************************************************************)
(* What the program promises, without saying how: from a file it gets to   *)
(* one outcome.  It hashes all of the file.  If the file is a transport    *)
(* stream it counts, for each PID and by looking at the whole stream, the  *)
(* gaps, the damaged and the scrambled packets.  It may fail to open its   *)
(* files.  It may crash only over a file that is not clean.                *)
(***************************************************************************)
EXTENDS Streams

CONSTANTS Files, SyncLimit

VARIABLES file, outcome

(* Two more consecutive packets without 0x47 than SyncLimit end at i.      *)
NotTSAt(packets, i) ==
  /\ i >= SyncLimit + 2
  /\ \A j \in i - SyncLimit - 1 .. i : ~packets[j].sync

IsTS(packets) == ~ \E i \in 1 .. Len(packets) : NotTSAt(packets, i)

(* Whole and readable: the packets that start a PAT or a TOT have no       *)
(* adaptation field and announce a section with contents, and the file has *)
(* a PAT that fits into one of them.                                       *)
CleanStart(buf) ==
  buf.sync /\ buf.tei = 0 /\ buf.pusi = 1 /\ buf.afc = 1
    /\ buf.sec.section_length >= 9

Clean(packets) ==
  /\ \E i \in 1 .. Len(packets) :
       packets[i].pid = PAT_PID /\ CleanStart(packets[i])
         /\ packets[i].sec.section_length < 180
  /\ \A i \in 1 .. Len(packets) :
       packets[i].pid \in {PAT_PID, TOT_PID} /\ packets[i].pusi = 1
         => CleanStart(packets[i])

Total(packets, p) ==
  LET s == Stream(packets, p)
  IN [drop       |-> Cardinality(Gaps(s)),
      error      |-> Cardinality(Errors(s)),
      scrambling |-> Cardinality(Scrambled(s))]

SyncErrors(packets) == {i \in 1 .. Len(packets) : ~packets[i].sync}

Hashed == IF file.tail > 0 THEN Append(file.packets, [tail |-> file.tail])
                           ELSE file.packets

Report ==
  [is     |-> "reported",
   hashed |-> Hashed,
   TSInfo |-> IF IsTS(file.packets)
              THEN [sync_error |-> Cardinality(SyncErrors(file.packets)),
                    drop_pid   |-> [p \in PIDs |-> Total(file.packets, p)]]
              ELSE [none |-> TRUE]]

Init ==
  /\ file \in Files
  /\ outcome = [is |-> "running"]

Next ==
  /\ outcome = [is |-> "running"]
  /\ \/ outcome' = [is |-> "failed"]
     \/ ~Clean(file.packets) /\ outcome' = [is |-> "crashed"]
     \/ outcome' = Report
  /\ UNCHANGED file

(* What the program never does otherwise, and that it comes to an end.     *)
Safety == Init /\ [][Next]_<<file, outcome>>

Spec == Safety /\ WF_<<file, outcome>>(Next)

Ends == <>(outcome # [is |-> "running"])
=============================================================================
