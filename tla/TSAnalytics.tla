---------------------------- MODULE TSAnalytics -----------------------------
(***************************************************************************)
(* The program: tsanalytics.c reads a file packet by packet and composes   *)
(* the hashes, the continuity checker (DropCount), the section reassembler *)
(* (PacketList), the decoders of the PAT (Pat) and the TOT (tot.c), the    *)
(* two drop lists (DropList) and the printed lists (Report).  One pass of  *)
(* the main loop is one step; the paths through its body are the actions.  *)
(*                                                                         *)
(* History variables, which the code does not have: seen and offered (see  *)
(* DropCount and PacketList), tots, the accepted TOTs with the position    *)
(* they were completed at, and abnormal, the packets that went to the drop *)
(* lists with theirs.                                                      *)
(***************************************************************************)
EXTENDS Pat, Totals

CONSTANTS
  Files,        \* the files that may be analysed
  SyncLimit,    \* sync_err_repeat_limit: 100
  Percent,      \* the parts a file is divided into: 100
  MAX_COUNT, LIST_LIMIT,  \* see DropList
  MAX_PRINTED   \* see Report

VARIABLES
  file,             \* the input file
  pc,               \* where the program is
  p_cnt,            \* packets read
  digest,           \* what the four hash functions were given
  sync_error, sync_err_repeat, this_is_not_TS,
  ts_drop_count, packet_list, section,
  pat,              \* TS_PAT pat, uninitialized until a PAT is read
  current_tot, first_tot, last_tot,
  drop_list_tot, drop_list_per,
  reported,         \* what was printed
  seen, offered, tots, abnormal

input    == <<file, pc, p_cnt, digest>>
sync     == <<sync_error, sync_err_repeat, this_is_not_TS>>
sections == <<packet_list, section, offered>>
counts   == <<ts_drop_count, seen>>
times    == <<current_tot, first_tot, last_tot, tots>>
lists    == <<drop_list_tot, drop_list_per, abnormal>>

vars == <<input, sync, sections, counts, pat, times, lists, reported>>

Unknown == "unknown"
NoPat   == [none |-> TRUE]
Nothing == [printed |-> FALSE]
NoInfo  == [none |-> TRUE]

File == [packets : Seq(Packet), tail : 0 .. PacketSize - 1]

ASSUME TSAnalyticsAssumption ==
  /\ Files \subseteq File
  /\ SyncLimit \in Nat
  /\ Percent \in Nat \ {0}
  /\ MAX_COUNT \in Nat
  /\ LIST_LIMIT \in Nat \ {0}
  /\ MAX_PRINTED \in Nat \ {0}
  /\ Unknown \notin Contents

packet_count == Len(file.packets)
last_bytes   == file.tail

-----------------------------------------------------------------------------
(* The components.                                                         *)

DC == INSTANCE DropCount
PL == INSTANCE PacketList
R  == INSTANCE Report

(* An entry of a drop list as the list sees it: a key for every packet     *)
(* that was abnormal, taken from the histories.                            *)
TotAt(pos) ==
  LET before == {i \in DOMAIN tots : tots[i].pos < pos}
  IN IF before = {} THEN Unknown ELSE tots[Cardinality(before)].time

PercentAt(pos) ==
  CHOOSE k \in 0 .. Percent - 1 :
    k * packet_count <= pos * Percent /\ pos * Percent < (k + 1) * packet_count

Keyed(Key(_)) ==
  [i \in DOMAIN abnormal |->
     [key |-> Key(abnormal[i].pos), now |-> abnormal[i].now]]

TotList == INSTANCE DropList WITH
  Keys <- Contents \cup {Unknown}, drop_list <- drop_list_tot,
  added <- Keyed(TotAt)

PerList == INSTANCE DropList WITH
  Keys <- 0 .. Percent - 1, drop_list <- drop_list_per,
  added <- Keyed(PercentAt)

-----------------------------------------------------------------------------

Init ==
  /\ file \in Files
  /\ pc = "open"
  /\ p_cnt = 0
  /\ digest = <<>>
  /\ sync_error = 0 /\ sync_err_repeat = 0 /\ this_is_not_TS = 0
  /\ DC!Init
  /\ PL!Init
  /\ pat = NoPat
  /\ current_tot = Unknown /\ first_tot = Unknown /\ last_tot = Unknown
  /\ drop_list_tot = <<>> /\ drop_list_per = <<>>
  /\ reported = Nothing
  /\ tots = <<>> /\ abnormal = <<>>

(* The input cannot be opened, or the output cannot: the program ends with *)
(* a message.                                                              *)
Open ==
  /\ pc = "open"
  /\ pc' \in {"loop", "failed"}
  /\ UNCHANGED <<file, p_cnt, digest, sync, sections, counts, pat, times,
                 lists, reported>>

-----------------------------------------------------------------------------
(* The main loop.                                                          *)

AtEnd_LastPacket == p_cnt + 1 = packet_count
AtEnd            == p_cnt = packet_count

buf == file.packets[p_cnt + 1]

(* Every packet is hashed, whatever becomes of it.                         *)
Read(next) ==
  /\ pc = "loop"
  /\ pc' = next
  /\ p_cnt < packet_count
  /\ p_cnt' = p_cnt + 1
  /\ digest' = Append(digest, buf)
  /\ UNCHANGED <<file, reported>>

Analysing_Always == TRUE
Analysing        == this_is_not_TS = 0

HashOnly ==
  /\ Read("loop")
  /\ ~Analysing
  /\ UNCHANGED <<sync, sections, counts, pat, times, lists>>

(* The limit is compared before the error is counted.                      *)
OverLimit_Inclusive == sync_err_repeat >= SyncLimit
OverLimit           == sync_err_repeat > SyncLimit

SyncError ==
  /\ Read("loop")
  /\ Analysing
  /\ ~buf.sync
  /\ sync_error' = sync_error + 1
  /\ this_is_not_TS' = IF OverLimit THEN 1 ELSE this_is_not_TS
  /\ sync_err_repeat' = sync_err_repeat + 1
  /\ UNCHANGED <<sections, counts, pat, times, lists>>

RepeatAfterSync_Kept == sync_err_repeat
RepeatAfterSync      == 0

(* The keys that are current when the packet is added to the lists: the    *)
(* packet has not been looked into for a new time yet.                     *)
TotKey_Updated == current_tot'
TotKey         == current_tot

PercentKey_OneBased == ((p_cnt + 1) * Percent) \div packet_count
PercentKey          == (p_cnt * Percent) \div packet_count

(* The packet goes through the checker; if something is wrong with it, it  *)
(* is added to both lists.                                                 *)
CountDrops ==
  /\ DC!Count(buf)
  /\ LET e   == ts_drop_count'[buf.pid]
         now == [drop |-> e.now_drop, error |-> e.now_error,
                 scrambling |-> e.now_scrambling]
     IN IF DC!Abnormal(e)
        THEN /\ drop_list_tot' =
                  TotList!add_drop_list(drop_list_tot, TotKey, now)
             /\ drop_list_per' =
                  PerList!add_drop_list(drop_list_per, PercentKey, now)
             /\ abnormal' = Append(abnormal, [pos |-> p_cnt, now |-> now])
        ELSE UNCHANGED lists

Synced(next) ==
  /\ Read(next)
  /\ Analysing
  /\ buf.sync
  /\ sync_err_repeat' = RepeatAfterSync
  /\ UNCHANGED <<sync_error, this_is_not_TS>>

(* Damaged, without payload, or of a PID that is not read.                 *)
NotCollected ==
  /\ Synced("loop")
  /\ ~PL!Passed(buf)
  /\ UNCHANGED <<sections, pat, times>>
  /\ CountDrops

(* Not the end of a section.                                               *)
Collected ==
  /\ Synced("loop")
  /\ \E crc \in Bit : PL!Offer(buf, crc)
  /\ ~section'.ok
  /\ UNCHANGED <<pat, times>>
  /\ CountDrops

(* The header that the decoders find at the start of the section.          *)
Decoded == section'.payload[1].sec

PatComplete ==
  /\ Synced("loop")
  /\ \E crc \in Bit : PL!Offer(buf, crc)
  /\ section'.ok
  /\ buf.pid = PAT_PID
  /\ pat' = st_pat(Decoded, packet_list'[buf.pid].cap)
  /\ UNCHANGED times
  /\ CountDrops

(* A decoder leaves the block: its header was not the one the block was    *)
(* allocated for, the programs are more than the section has room for, or  *)
(* the length wraps in crc32_check.                                        *)
ReadsOutside ==
  \/ buf.pid = PAT_PID /\ LoopOutside(Decoded, packet_list'[buf.pid].cap)
  \/ /\ buf.pid = TOT_PID
     /\ \/ Decoded.section_length + 3 > packet_list'[buf.pid].cap
        \/ Decoded.section_length = 0

DecoderCrash ==
  /\ Synced("crashed")
  /\ \E crc \in Bit : PL!Offer(buf, crc)
  /\ section'.ok
  /\ ReadsOutside
  /\ UNCHANGED <<pat, times>>
  /\ CountDrops

(* st_tot leaves disable at 0; nobody looks at crc_check.                  *)
Enabled(sec) ==
  /\ sec.table_id = 115
  /\ sec.section_syntax_indicator # 1
  /\ sec.section_length <= 1021

FirstTot_Overwritten(time) == time
FirstTot(time) == IF first_tot = Unknown THEN time ELSE first_tot

TotComplete ==
  /\ Synced("loop")
  /\ \E crc \in Bit : PL!Offer(buf, crc)
  /\ section'.ok
  /\ buf.pid = TOT_PID
  /\ Enabled(Decoded)
  /\ current_tot' = Decoded.content
  /\ first_tot' = FirstTot(Decoded.content)
  /\ last_tot' = Decoded.content
  /\ tots' = Append(tots, [pos |-> p_cnt, time |-> Decoded.content])
  /\ UNCHANGED pat
  /\ CountDrops

TotDisabled ==
  /\ Synced("loop")
  /\ \E crc \in Bit : PL!Offer(buf, crc)
  /\ section'.ok
  /\ buf.pid = TOT_PID
  /\ ~Enabled(Decoded)
  /\ UNCHANGED <<pat, times>>
  /\ CountDrops

-----------------------------------------------------------------------------
(* After the loop.                                                         *)

HashTail_WholeBuffer ==
  IF last_bytes > 0 THEN Append(digest, [tail |-> PacketSize]) ELSE digest
HashTail_Never == digest
HashTail ==
  IF last_bytes > 0 THEN Append(digest, [tail |-> last_bytes]) ELSE digest

Finish ==
  /\ pc = "loop"
  /\ AtEnd
  /\ DC!mark_last_drop_count
  /\ digest' = HashTail
  /\ PL!free_packet_list_all
  /\ pc' = "print"
  /\ UNCHANGED <<file, p_cnt, sync, pat, times, lists, reported>>

(* What the report says of the contents.  A PAT that was never read is     *)
(* whatever the memory held, and so is a list of programs that was read    *)
(* from behind its block.                                                  *)
Garbage     == "garbage"
GarbageList == <<[garbage |-> TRUE]>>

TSInfo ==
  [first_tot           |-> first_tot,
   last_tot            |-> last_tot,
   transport_stream_id |->
     IF pat = NoPat THEN Garbage ELSE pat.transport_stream_id,
   programs            |->
     IF pat = NoPat \/ pat.outside THEN GarbageList ELSE R!programs(pat.pids),
   drop_pid            |-> R!conv_json_drop_pid(ts_drop_count),
   drop_percent        |-> R!conv_json_drop_key(drop_list_per),
   drop_tot            |-> R!conv_json_drop_key(drop_list_tot)]

PrintReport ==
  /\ pc = "print"
  /\ pc' = "done"
  /\ reported' =
       [printed |-> TRUE,
        TSInfo  |-> IF this_is_not_TS = 0 THEN TSInfo ELSE NoInfo]
  /\ UNCHANGED <<file, p_cnt, digest, sync, sections, counts, pat, times,
                 lists>>

(* Following the list of programs of an uninitialized PAT.                 *)
Crash ==
  /\ pc = "print"
  /\ this_is_not_TS = 0
  /\ pat = NoPat
  /\ pc' = "crashed"
  /\ UNCHANGED <<file, p_cnt, digest, sync, sections, counts, pat, times,
                 lists, reported>>

Next ==
  \/ Open
  \/ HashOnly
  \/ SyncError
  \/ NotCollected
  \/ Collected
  \/ PatComplete
  \/ TotComplete
  \/ TotDisabled
  \/ DecoderCrash
  \/ Finish
  \/ PrintReport
  \/ Crash

(* The program is one thread that never waits for anybody.                 *)
Spec == Init /\ [][Next]_vars /\ WF_vars(Next)

-----------------------------------------------------------------------------
(* The abstract specification.                                             *)

Outcome ==
  CASE pc \in {"failed", "crashed"} -> [is |-> pc]
    [] pc = "done" ->
         [is     |-> "reported",
          hashed |-> digest,
          TSInfo |-> IF reported.TSInfo # NoInfo
                     THEN [sync_error |-> sync_error,
                           drop_pid   |-> [p \in PIDs |->
                             [drop       |-> ts_drop_count[p].drop,
                              error      |-> ts_drop_count[p].error,
                              scrambling |-> ts_drop_count[p].scrambling]]]
                     ELSE [none |-> TRUE]]
    [] OTHER -> [is |-> "running"]

A == INSTANCE Analysis WITH outcome <- Outcome

(***************************************************************************)
(* The program does nothing but what Analysis promises: with state kept    *)
(* from packet to packet it reports what a reader of the whole file        *)
(* counts; a clean file is never the end of it.                            *)
(***************************************************************************)
ImplementsAnalysis == A!Safety

(***************************************************************************)
(* And it comes to an end, with a report, a message or a crash, over every *)
(* file: also over one without a packet, and after the sync is lost.       *)
(***************************************************************************)
AnalysisEnds == A!Ends

(***************************************************************************)
(* Every packet is in the list of the TOT that was valid before it, the    *)
(* one that README.md says the drop came after, with its own counts.       *)
(***************************************************************************)
TotListSpec == TotList!Spec

(***************************************************************************)
(* Every packet is in the list of its place in the file: the percentage    *)
(* that its position has reached and not the next one.                     *)
(***************************************************************************)
PercentListSpec == PerList!Spec

-----------------------------------------------------------------------------

(***************************************************************************)
(* The variables have the types of the program's.                          *)
(***************************************************************************)
TypeOK ==
  /\ file \in Files
  /\ pc \in {"open", "loop", "print", "done", "failed", "crashed"}
  /\ p_cnt \in 0 .. packet_count
  /\ digest \in Seq(Packet \cup [tail : 1 .. PacketSize - 1])
  /\ sync_error \in Nat /\ sync_err_repeat \in Nat /\ this_is_not_TS \in Bit
  /\ DC!TypeOK
  /\ PL!TypeOK
  /\ pat \in TS_PAT \cup {NoPat}
  /\ {current_tot, first_tot, last_tot} \subseteq Contents \cup {Unknown}
  /\ drop_list_tot \in Seq(TotList!DROP_LIST)
  /\ drop_list_per \in Seq(PerList!DROP_LIST)
  /\ reported.printed \in BOOLEAN
  /\ tots \in Seq([pos : Nat, time : Contents])
  /\ abnormal \in Seq([pos : Nat, now : TotList!Verdict])

(***************************************************************************)
(* The hashes cover every byte read so far in order, and the whole file    *)
(* once the loop is over, also when the file was found not to be a         *)
(* transport stream half-way and nothing else is done with it.             *)
(***************************************************************************)
HashCoversFile ==
  /\ pc \in {"open", "failed", "loop"} => digest = SubSeq(file.packets, 1, p_cnt)
  /\ pc \in {"print", "done"} => digest = A!Hashed

(***************************************************************************)
(* A file stops being analysed at the first run of SyncLimit + 2 packets   *)
(* without 0x47, however the errors before it were spread.                 *)
(***************************************************************************)
NotTSExact ==
  this_is_not_TS = 1 <=> \E i \in 1 .. p_cnt : A!NotTSAt(file.packets, i)

(* The packets read before the file was found not to be a stream.          *)
AnalysedPackets ==
  SubSeq(file.packets, 1,
    CHOOSE n \in 0 .. p_cnt :
      /\ \A i \in 1 .. n - 1 : ~A!NotTSAt(file.packets, i)
      /\ n = p_cnt \/ A!NotTSAt(file.packets, n))

(* The packets of a PID that may be part of a section.                     *)
Collectable(packet, p) ==
  packet.sync /\ packet.pid = p /\ packet.tei = 0 /\ packet.afc # 2

PassedOn(packets, p) ==
  A!Subsequence(packets, {i \in DOMAIN packets : Collectable(packets[i], p)})

(* The reassembler is offered all of them for the TOT, all of them for the *)
(* PAT until one is read and none behind it, and none of any other PID.    *)
OfferedAre(packets) ==
  /\ offered[TOT_PID] = PassedOn(packets, TOT_PID)
  /\ IF pat = NoPat
     THEN offered[PAT_PID] = PassedOn(packets, PAT_PID)
     ELSE \E i \in 1 .. Len(packets) :
            /\ Collectable(packets[i], PAT_PID)
            /\ offered[PAT_PID] = PassedOn(SubSeq(packets, 1, i), PAT_PID)
  /\ \A p \in PIDs \ {PAT_PID, TOT_PID} : offered[p] = <<>>

(***************************************************************************)
(* No packet is lost or judged twice between the parts: what the checker   *)
(* saw of a PID is the stream of this PID in the file, in order, the       *)
(* packets without 0x47 are in sync_error, and until the list is emptied   *)
(* the reassembler was given every undamaged packet with a payload of the  *)
(* TOT, those of the PAT until one was read, and nothing else.             *)
(***************************************************************************)
EveryPacketOnce ==
  /\ \A p \in PIDs : seen[p] = A!Stream(AnalysedPackets, p)
  /\ sync_error = Cardinality(A!SyncErrors(AnalysedPackets))
  /\ pc \in {"open", "loop"} => OfferedAre(AnalysedPackets)

(***************************************************************************)
(* The three breakdowns in the report are of the same packets: the sums of *)
(* drop, error and scrambling over the PIDs, over the times and over the   *)
(* percentages agree (as long as no counter has reached its maximum).      *)
(***************************************************************************)
BreakdownsAgree ==
  Len(abnormal) < MAX_COUNT =>
    \A flag \in TotList!Flags :
      LET sum == SumOver(PIDs, ts_drop_count, flag)
      IN /\ sum = SumOver(DOMAIN drop_list_tot, drop_list_tot, flag)
         /\ sum = SumOver(DOMAIN drop_list_per, drop_list_per, flag)

(***************************************************************************)
(* The times printed come from the accepted TOTs: the current and the last *)
(* one from the latest, the first one from the earliest, and all three are *)
(* unknown until there is one.                                             *)
(***************************************************************************)
TimesAreOfTots ==
  IF tots = <<>>
  THEN {current_tot, first_tot, last_tot} = {Unknown}
  ELSE /\ first_tot = tots[1].time
       /\ last_tot = tots[Len(tots)].time
       /\ current_tot = tots[Len(tots)].time

(***************************************************************************)
(* The PAT reported is the first of the file; a later one never replaces   *)
(* it.                                                                     *)
(***************************************************************************)
FirstPatStays == [][pat # NoPat => pat' = pat]_vars

InfoPrinted == reported.printed /\ reported.TSInfo # NoInfo

(***************************************************************************)
(* The lists of drops are JSON: between any two entries there is one       *)
(* comma and none behind the last.  They leave nothing out: every PID with *)
(* a packet is there, ascending, and every node that is not behind the     *)
(* print limit.                                                            *)
(***************************************************************************)
DropListsAreJson ==
  InfoPrinted =>
    /\ reported.TSInfo.drop_pid = R!Separated(R!PidEntries(ts_drop_count))
    /\ reported.TSInfo.drop_percent = R!Separated(R!Shown(drop_list_per))
    /\ reported.TSInfo.drop_tot = R!Separated(R!Shown(drop_list_tot))

(* What the PATs in the packets read so far spell.                         *)
PatSections ==
  {file.packets[i].sec : i \in {k \in 1 .. p_cnt : file.packets[k].pid = PAT_PID}}

ProgramNumbers(sec) ==
  [k \in 1 .. (sec.section_length - 9) \div 4 |-> Loop[sec.content][k]]

(***************************************************************************)
(* The list of programs is that of a PAT in the file, all of it and in its *)
(* order, without the network.  It is JSON, except that a PAT with         *)
(* programs whose last entry is the network leaves a comma at the end.     *)
(***************************************************************************)
ProgramsAreOfPat ==
  InfoPrinted /\ pat # NoPat /\ ~pat.outside =>
    \E sec \in PatSections :
      LET numbers == ProgramNumbers(sec)
          list    == R!Separated(R!ProgramEntries(numbers))
      IN reported.TSInfo.programs =
           IF R!EndsInNetwork(numbers) THEN Append(list, R!Comma) ELSE list

(***************************************************************************)
(* What README.md says of transport_stream_id: it is the id of the channel *)
(* the file was recorded from, so it comes from a PAT, in every file with  *)
(* at least one packet of a transport stream.                              *)
(***************************************************************************)
ReportedIdWasRead ==
  InfoPrinted /\ p_cnt > sync_error
    => reported.TSInfo.transport_stream_id # Garbage

(***************************************************************************)
(* What the comment in head.c says of a section whose CRC does not match:  *)
(* it is reset like one without a start, so no time is taken from it.      *)
(***************************************************************************)
TimesPassedTheirCrc ==
  [][tots' # tots => section'.crc_check = 1]_vars
=============================================================================
