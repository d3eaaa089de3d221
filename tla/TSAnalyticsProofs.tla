------------------------- MODULE TSAnalyticsProofs --------------------------
(***************************************************************************)
(* The whole program, for every set of files, every limit and every        *)
(* division of the file: the main loop uses the reassembler, the           *)
(* continuity checker and the drop lists as their specifications say, so   *)
(* that what is proved of them holds in the program. On top of that: the   *)
(* hashes cover the file, every packet is judged once, the first PAT       *)
(* stays, the times are those of the accepted TOTs, the three breakdowns   *)
(* agree, and the program refines Analysis; what is printed is JSON and    *)
(* has the programs of a PAT of the file.                                  *)
(***************************************************************************)
EXTENDS TSAnalytics, ListLemmas, SequenceTheorems, FiniteSetTheorems, TLAPS

PLP == INSTANCE PacketListProofs
DCP == INSTANCE DropCountProofs

(* The main loop reads inside the file, where there are packets.           *)
Inside == file \in Files /\ p_cnt \in 0 .. packet_count

(* A pass of the loop has a packet to look at.                             *)
LEMMA ReadsAPacket ==
  ASSUME Inside, p_cnt < packet_count
  PROVE  buf \in Packet
<1>1. file \in File
  BY TSAnalyticsAssumption DEF Inside
<1>2. file.packets \in Seq(Packet)
  BY <1>1 DEF File
<1>3. p_cnt + 1 \in 1 .. Len(file.packets)
  BY <1>2 DEF Inside, packet_count
<1>. QED
  BY <1>2, <1>3 DEF buf

(* No step moves behind the last packet.                                   *)
LEMMA StaysInside == Inside /\ [Next]_vars => Inside'
<1>. SUFFICES ASSUME Inside, [Next]_vars PROVE Inside'
  OBVIOUS
<1>1. packet_count \in Nat
  BY TSAnalyticsAssumption DEF Inside, File, packet_count
<1>2. ASSUME NEW next, Read(next) PROVE Inside'
  BY <1>1, <1>2 DEF Inside, Read, packet_count
<1>3. CASE file' = file /\ p_cnt' = p_cnt
  BY <1>3 DEF Inside, packet_count
<1>. QED
  BY <1>2, <1>3 DEF Next, Open, HashOnly, SyncError, Synced, NotCollected,
       Collected, PatComplete, TotComplete, TotDisabled, DecoderCrash, Finish,
       PrintReport, Crash, vars, input

(* The main loop never reads behind the file.                              *)
LEMMA AlwaysInside == Spec => []Inside
<1>1. Init => Inside
  BY TSAnalyticsAssumption DEF Init, Inside, packet_count, File
<1>. QED
  BY <1>1, StaysInside, PTL DEF Spec

-----------------------------------------------------------------------------
(* Each step of the program is a step of its parts or leaves them alone.   *)

(* Whatever the path through the loop, packet_list changes by st_packet or *)
(* is emptied.                                                             *)
LEMMA StepOfReassembler ==
  ASSUME Inside, [Next]_vars
  PROVE  [PL!Next]_(PL!vars)
<1>1. ASSUME NEW next, Synced(next), \E crc \in Bit : PL!Offer(buf, crc)
      PROVE  PL!Next
  <2>1. buf \in Packet
    BY <1>1, ReadsAPacket DEF Synced, Read
  <2>. QED
    BY <1>1, <2>1 DEF PL!Next, PL!Bit, PL!Packet, PL!AdaptationField,
      PL!SectionHeader, PL!SectionLengthMax, Bit, Packet, AdaptationField,
      SectionHeader, SectionLengthMax
<1>2. CASE UNCHANGED sections
  BY <1>2 DEF sections, PL!vars
<1>3. CASE PL!free_packet_list_all
  BY <1>3 DEF PL!Next
<1>. QED
  BY <1>1, <1>2, <1>3 DEF Next, Open, HashOnly, SyncError, NotCollected,
       Collected, PatComplete, TotComplete, TotDisabled, DecoderCrash, Finish,
       PrintReport, Crash, vars

(***************************************************************************)
(* The program calls the reassembler as PacketList allows: with packets    *)
(* that passed the checks of the main loop, and with nothing in between.   *)
(***************************************************************************)
THEOREM UsesReassembler == Spec => PL!Spec
<1>1. Init => PL!Init
  BY DEF Init
<1>. QED
  BY <1>1, StepOfReassembler, AlwaysInside, PTL DEF Spec, PL!Spec

-----------------------------------------------------------------------------
(* PacketListProofs speaks of an instance of its own of PacketList: the    *)
(* two are the same formulas.                                              *)
LEMMA SameStep == [PL!Next]_(PL!vars) <=> [PLP!Next]_(PLP!vars)
BY DEF PL!payload_start_pos, PLP!payload_start_pos, PL!BadCopySize,
  PLP!BadCopySize, PL!copy_size, PLP!copy_size, PL!Orphan, PLP!Orphan,
  PL!NewBlock, PLP!NewBlock, PL!BeginSection, PLP!BeginSection, PL!Prepared,
  PLP!Prepared, PL!Copied, PLP!Copied, PL!Filled, PLP!Filled, PL!TooShort,
  PLP!TooShort, PL!Done, PLP!Done, PL!st_packet, PLP!st_packet, PL!Returns,
  PLP!Returns, PL!Passed, PLP!Passed, PL!AfterUse, PLP!AfterUse, PL!Offer,
  PLP!Offer, PL!free_packet_list, PLP!free_packet_list,
  PL!free_packet_list_all, PLP!free_packet_list_all, PL!Next, PLP!Next,
  PL!vars, PLP!vars, PL!ZeroElement, PLP!ZeroElement, PL!NoSection,
  PLP!NoSection, PL!Slack, PLP!Slack, PL!PacketSize, PLP!PacketSize,
  PL!PAT_PID, PLP!PAT_PID, PL!Packet, PLP!Packet, PL!AdaptationField,
  PLP!AdaptationField, PL!SectionHeader, PLP!SectionHeader,
  PL!SectionLengthMax, PLP!SectionLengthMax, PL!Bit, PLP!Bit

(* The same initial states.                                                *)
LEMMA SameInit == PL!Init <=> PLP!Init
BY DEF PL!Init, PLP!Init, PL!ZeroElement, PLP!ZeroElement, PL!NoSection,
  PLP!NoSection, PL!PAT_PID, PLP!PAT_PID, PL!TOT_PID, PLP!TOT_PID

(* The same behaviours.                                                    *)
LEMMA SameSpec == PL!Spec <=> PLP!Spec
BY SameStep, SameInit, PTL DEF PL!Spec, PLP!Spec

(* The assumption on the PIDs, as the instances state it.                  *)
LEMMA SamePIDs ==
  /\ PIDs \subseteq 0 .. PLP!NULL_PID
  /\ PIDs \subseteq 0 .. DCP!NULL_PID
  /\ {PLP!PAT_PID, PLP!TOT_PID, PLP!NULL_PID} \subseteq PIDs
  /\ {DCP!PAT_PID, DCP!TOT_PID, DCP!NULL_PID} \subseteq PIDs
<1>1. /\ PLP!PAT_PID = PAT_PID /\ PLP!TOT_PID = TOT_PID
      /\ DCP!PAT_PID = PAT_PID /\ DCP!TOT_PID = TOT_PID
  BY DEF PAT_PID, TOT_PID, PLP!PAT_PID, PLP!TOT_PID, DCP!PAT_PID, DCP!TOT_PID
<1>2. PLP!NULL_PID = NULL_PID /\ DCP!NULL_PID = NULL_PID
  BY DEF NULL_PID, PLP!NULL_PID, DCP!NULL_PID
<1>. QED
  BY <1>1, <1>2, PIDsAssumption

(***************************************************************************)
(* In the program, too, no copy of a section leaves its block.             *)
(***************************************************************************)
THEOREM NeverOverruns == Spec => []PL!NoOverrun
<1>1. PLP!Spec => []PLP!NoOverrun
  BY SamePIDs, PLP!NeverOverruns
<1>2. PL!NoOverrun <=> PLP!NoOverrun
  BY DEF PL!NoOverrun, PLP!NoOverrun
<1>. QED
  BY <1>1, <1>2, SameSpec, UsesReassembler, PTL

-----------------------------------------------------------------------------
(* The continuity checker: no element is marked before the loop is over.   *)

Unmarked ==
  /\ DOMAIN ts_drop_count = PIDs
  /\ pc \in {"open", "loop"} => \A p \in PIDs : ts_drop_count[p].last = 0

(* The checker does not touch the mark.                                    *)
LEMMA CountKeepsLast ==
  ASSUME Unmarked, DC!Count(buf)
  PROVE  /\ DOMAIN ts_drop_count' = PIDs
         /\ \A p \in PIDs : ts_drop_count'[p].last = ts_drop_count[p].last
<1>1. \A e, b : DC!drop_check_and_count(DC!CountedByCaller(e), b).last
                  = DC!CountedByCaller(e).last
  BY DEF DC!drop_check_and_count
<1>2. \A p \in PIDs : DC!CountedByCaller(ts_drop_count[p]).last
                        = ts_drop_count[p].last
  BY DEF DC!CountedByCaller
<1>. QED
  BY <1>1, <1>2 DEF DC!Count, Unmarked

(* Whatever the path through the loop, the checker judges the packet once  *)
(* or not at all.                                                          *)
LEMMA StepOfChecker ==
  ASSUME Inside, Unmarked, [Next]_vars
  PROVE  Unmarked' /\ [DC!Next]_(DC!vars)
<1>1. ASSUME NEW next, Synced(next), next \in {"loop", "crashed"}, CountDrops
      PROVE  Unmarked' /\ DC!Next
  <2>1. buf \in DC!Packet
    BY <1>1, ReadsAPacket DEF Synced, Read, DC!Bit, DC!Packet,
      DC!AdaptationField, DC!SectionHeader, DC!SectionLengthMax, Bit, Packet,
      AdaptationField, SectionHeader, SectionLengthMax
  <2>2. DC!Count(buf) /\ pc = "loop" /\ pc' = next
    BY <1>1 DEF CountDrops, Synced, Read
  <2>3. Unmarked'
    BY <2>2, CountKeepsLast DEF Unmarked
  <2>4. ~DC!Marked
    BY <2>2 DEF Unmarked, DC!Marked
  <2>. QED
    BY <2>1, <2>2, <2>3, <2>4 DEF DC!Next
<1>2. CASE Finish
  <2>1. Unmarked'
    BY <1>2 DEF Finish, DC!mark_last_drop_count, Unmarked
  <2>2. ~DC!Marked
    BY <1>2 DEF Finish, Unmarked, DC!Marked
  <2>. QED
    BY <1>2, <2>1, <2>2 DEF Finish, DC!Next
<1>3. ASSUME UNCHANGED counts, pc' \in {"open", "loop"} => pc \in {"open", "loop"}
      PROVE  Unmarked' /\ UNCHANGED DC!vars
  BY <1>3 DEF Unmarked, counts, DC!vars
<1>. QED
  BY <1>1, <1>2, <1>3 DEF Next, Open, HashOnly, SyncError, NotCollected,
       Collected, PatComplete, TotComplete, TotDisabled, DecoderCrash,
       Synced, Read, PrintReport, Crash, vars, input

(***************************************************************************)
(* The program calls the checker as DropCount allows: once for a packet    *)
(* whose sync byte is right, and for the mark only once, after the last.   *)
(***************************************************************************)
THEOREM UsesChecker == Spec => DC!Spec
<1>1. Init => DC!Init /\ Unmarked
  BY DEF Init, DC!Init, DC!ZeroEntry, Unmarked
<1>. QED
  BY <1>1, StepOfChecker, AlwaysInside, PTL DEF Spec, DC!Spec

(* DropCountProofs speaks of an instance of its own of DropCount.          *)
LEMMA SameCheckerStep == [DC!Next]_(DC!vars) <=> [DCP!Next]_(DCP!vars)
BY DEF DC!Next, DCP!Next, DC!vars, DCP!vars, DC!Count, DCP!Count,
  DC!CountedByCaller, DCP!CountedByCaller, DC!drop_check_and_count,
  DCP!drop_check_and_count, DC!HaveDrop, DCP!HaveDrop, DC!Compared,
  DCP!Compared, DC!Repeated, DCP!Repeated, DC!Repeat, DCP!Repeat, DC!Flag,
  DCP!Flag, DC!NowScrambling, DCP!NowScrambling, DC!Remembered,
  DCP!Remembered, DC!NextCounter, DCP!NextCounter, DC!HasPayload,
  DCP!HasPayload, DC!Discontinuity, DCP!Discontinuity,
  DC!extract_adaptation_field, DCP!extract_adaptation_field, DC!Overruns,
  DCP!Overruns, DC!BasicBytes, DCP!BasicBytes, DC!NULL_PID, DCP!NULL_PID,
  DC!Marked, DCP!Marked, DC!mark_last_drop_count, DCP!mark_last_drop_count,
  DC!LastPid, DCP!LastPid, DC!Packet, DCP!Packet, DC!AdaptationField,
  DCP!AdaptationField, DC!SectionHeader, DCP!SectionHeader,
  DC!SectionLengthMax, DCP!SectionLengthMax, DC!Bit, DCP!Bit

(* The same initial states.                                                *)
LEMMA SameCheckerInit == DC!Init <=> DCP!Init
BY DEF DC!Init, DCP!Init, DC!ZeroEntry, DCP!ZeroEntry, DC!NoPacket, DCP!NoPacket

(***************************************************************************)
(* In the program, too, a packet is compared only with the last packet of  *)
(* its PID, however packets of other PIDs and errors lie between them.     *)
(***************************************************************************)
THEOREM ComparesWithLastSeen == Spec => []DC!BeforeIsLastSeen
<1>1. DC!Spec <=> DCP!Spec
  BY SameCheckerStep, SameCheckerInit, PTL DEF DC!Spec, DCP!Spec
<1>2. DCP!Spec => []DCP!BeforeIsLastSeen
  BY SamePIDs, DCP!ComparesWithLastSeen
<1>3. DC!BeforeIsLastSeen <=> DCP!BeforeIsLastSeen
  BY DEF DC!BeforeIsLastSeen, DCP!BeforeIsLastSeen
<1>. QED
  BY <1>1, <1>2, <1>3, UsesChecker, PTL

-----------------------------------------------------------------------------
(* The hashes.                                                             *)

(* A prefix of a sequence grows by the next element.                       *)
LEMMA NextPrefix ==
  ASSUME NEW S, NEW s \in Seq(S), NEW n \in 0 .. Len(s) - 1
  PROVE  Append(SubSeq(s, 1, n), s[n + 1]) = SubSeq(s, 1, n + 1)
<1>. DEFINE a == Append(SubSeq(s, 1, n), s[n + 1])
            b == SubSeq(s, 1, n + 1)
<1>1. /\ a \in Seq(S) /\ b \in Seq(S)
      /\ Len(a) = n + 1 /\ Len(b) = n + 1
  OBVIOUS
<1>2. \A i \in 1 .. n + 1 : a[i] = b[i]
  OBVIOUS
<1>. QED
  BY <1>1, <1>2, SeqEqual

(***************************************************************************)
(* The hashes cover every byte of the file, in order and once, with the    *)
(* incomplete packet at its end, whatever becomes of the analysis.         *)
(***************************************************************************)
THEOREM HashesCoverFile == Spec => []HashCoversFile
<1>. DEFINE IInv == Inside /\ HashCoversFile
<1>1. Init => HashCoversFile
  <2>. SUFFICES ASSUME Init PROVE HashCoversFile
    OBVIOUS
  <2>1. file.packets \in Seq(Packet)
    BY TSAnalyticsAssumption DEF Init, File
  <2>. QED
    BY <2>1 DEF Init, HashCoversFile
<1>2. IInv /\ [Next]_vars => HashCoversFile'
  <2>. SUFFICES ASSUME Inside, HashCoversFile, [Next]_vars PROVE HashCoversFile'
    OBVIOUS
  <2>1. file.packets \in Seq(Packet)
    BY TSAnalyticsAssumption DEF Inside, File
  <2>2. ASSUME NEW next \in {"loop", "crashed"}, Read(next) PROVE HashCoversFile'
    <3>1. p_cnt \in 0 .. Len(file.packets) - 1
      BY <2>1, <2>2 DEF Inside, Read, packet_count
    <3>2. digest' = SubSeq(file.packets, 1, p_cnt + 1)
      BY <2>1, <2>2, <3>1, NextPrefix DEF Read, HashCoversFile, buf
    <3>. QED
      BY <2>2, <3>2 DEF Read, HashCoversFile
  <2>3. CASE Finish
    <3>1. digest = SubSeq(file.packets, 1, Len(file.packets))
      BY <2>3 DEF Finish, AtEnd, HashCoversFile, packet_count
    <3>2. digest = file.packets
      BY <2>1, <3>1
    <3>. QED
      BY <2>3, <3>2 DEF Finish, HashTail, last_bytes, HashCoversFile, A!Hashed
  <2>4. CASE Open \/ PrintReport \/ Crash \/ UNCHANGED vars
    BY <2>4 DEF Open, PrintReport, Crash, vars, input, HashCoversFile, A!Hashed
  <2>. QED
    BY <2>2, <2>3, <2>4 DEF Next, HashOnly, SyncError, Synced, NotCollected,
       Collected, PatComplete, TotComplete, TotDisabled, DecoderCrash
<1>. QED
  BY <1>1, <1>2, AlwaysInside, PTL DEF Spec

-----------------------------------------------------------------------------
(* What the reassembler hands over: the PAT and the times.                 *)

(* What is proved of the reassembler, as facts about the program.          *)
Handed == PLP!TypeOK /\ PLP!HandedOver

(* What is proved of the reassembler holds of the program.                 *)
LEMMA ReassemblerFacts ==
  Spec => []Handed /\ [][PLP!StayDisabled]_(PLP!vars)
<1>1. PLP!Spec => []PLP!TypeOK
  BY SamePIDs, PLP!TypeCorrect
<1>2. PLP!Spec => []PLP!HandedOver
  BY SamePIDs, PLP!HandsOverPackets
<1>3. PLP!Spec => [][PLP!StayDisabled]_(PLP!vars)
  BY SamePIDs, PLP!DisabledForGood
<1>. QED
  BY <1>1, <1>2, <1>3, SameSpec, UsesReassembler, PTL DEF Handed

(* A section that was handed over: its PID, and a header to decode.        *)
LEMMA HandedSection ==
  ASSUME Handed', NEW crc \in Bit, PL!Offer(buf, crc), section'.ok
  PROVE  /\ section'.pid = buf.pid
         /\ Decoded.content \in Contents
<1>1. section'.pid = buf.pid
  BY DEF PL!Offer, PL!NoSection
<1>2. section' \in PLP!Section
  BY DEF Handed, PLP!TypeOK, PLP!NoSection
<1>3. section'.payload \in Seq(PLP!Packet) /\ section'.payload # <<>>
  BY <1>2 DEF Handed, PLP!HandedOver, PLP!Section
<1>4. section'.payload[1] \in PLP!Packet
  BY <1>3
<1>. QED
  BY <1>1, <1>4 DEF Decoded, PLP!Packet, PLP!SectionHeader

(* Once there is a PAT, packets of PID 0 are no longer collected.          *)
PatDisables == pat # NoPat => packet_list[PAT_PID].enable = 0

(* A PAT is read only while there is none.                                 *)
LEMMA PatStep ==
  ASSUME PatDisables, Handed', [Next]_vars, [PLP!StayDisabled]_(PLP!vars)
  PROVE  PatDisables' /\ (pat # NoPat => pat' = pat)
<1>0. PAT_PID \in PIDs
  BY PIDsAssumption
<1>1. packet_list[PAT_PID].enable = 0 => packet_list'[PAT_PID].enable = 0
  BY <1>0 DEF PLP!StayDisabled, PLP!vars
<1>2. CASE PatComplete
  <2>1. PICK crc \in Bit : PL!Offer(buf, crc)
    BY <1>2 DEF PatComplete
  <2>2. section'.ok /\ section'.pid = PAT_PID
    BY <1>2, <2>1, HandedSection DEF PatComplete
  <2>3. packet_list'[PAT_PID].enable = 0
    BY <2>2 DEF Handed, PLP!HandedOver, PLP!PAT_PID, PAT_PID
  <2>4. packet_list[PAT_PID].enable = 1
    BY <1>2, <2>1 DEF PatComplete, PL!Offer, PL!Passed
  <2>. QED
    BY <2>3, <2>4 DEF PatDisables
<1>3. CASE pat' = pat
  BY <1>1, <1>3 DEF PatDisables
<1>. QED
  BY <1>2, <1>3 DEF Next, Open, HashOnly, SyncError, NotCollected, Collected,
       TotComplete, TotDisabled, DecoderCrash, Finish, PrintReport, Crash, vars

(***************************************************************************)
(* The PAT that is reported is the first one read.                         *)
(***************************************************************************)
THEOREM FirstPatIsKept == Spec => FirstPatStays
<1>1. Init => PatDisables
  BY DEF Init, PatDisables
<1>. QED
  BY <1>1, PatStep, ReassemblerFacts, PTL DEF Spec, FirstPatStays

TimesKnown ==
  /\ TimesAreOfTots
  /\ tots \in Seq([pos : Nat, time : Contents])

(* Appending does not change the first element.                            *)
LEMMA FirstStays ==
  ASSUME NEW S, NEW s \in Seq(S), s # <<>>, NEW x \in S
  PROVE  s[1] \in S /\ Append(s, x)[1] = s[1]
<1>1. Len(s) \in Nat /\ Len(s) >= 1
  OBVIOUS
<1>. QED
  BY <1>1

(* Only an accepted TOT changes the times, and it changes all it should.   *)
LEMMA TimesStep ==
  ASSUME Inside, TimesKnown, Handed', [Next]_vars
  PROVE  TimesKnown'
<1>1. CASE TotComplete
  <2>. DEFINE tot == [pos |-> p_cnt, time |-> Decoded.content]
  <2>1. Decoded.content \in Contents
    BY <1>1, HandedSection DEF TotComplete
  <2>2. tot \in [pos : Nat, time : Contents]
    BY <2>1, TSAnalyticsAssumption DEF Inside, packet_count, File
  <2>3. /\ tots' = Append(tots, tot)
        /\ current_tot' = tot.time /\ last_tot' = tot.time
        /\ first_tot' = FirstTot(tot.time)
    BY <1>1 DEF TotComplete
  <2>. HIDE DEF tot
  <2>4. /\ tots' \in Seq([pos : Nat, time : Contents])
        /\ tots' # <<>> /\ tots'[Len(tots')] = tot
    BY <2>2, <2>3 DEF TimesKnown
  <2>5. first_tot' = tots'[1].time
    <3>1. CASE tots = <<>>
      BY <2>3, <3>1 DEF TimesKnown, TimesAreOfTots, FirstTot
    <3>2. CASE tots # <<>>
      <4>1. tots[1] \in [pos : Nat, time : Contents] /\ tots'[1] = tots[1]
        BY <2>2, <2>3, <3>2, FirstStays DEF TimesKnown
      <4>2. first_tot # Unknown
        BY <3>2, <4>1, TSAnalyticsAssumption DEF TimesKnown, TimesAreOfTots
      <4>. QED
        BY <2>3, <3>2, <4>1, <4>2 DEF TimesKnown, TimesAreOfTots, FirstTot
    <3>. QED
      BY <3>1, <3>2
  <2>. QED
    BY <2>3, <2>4, <2>5 DEF TimesKnown, TimesAreOfTots
<1>2. CASE UNCHANGED times
  BY <1>2 DEF times, TimesKnown, TimesAreOfTots
<1>. QED
  BY <1>1, <1>2 DEF Next, Open, HashOnly, SyncError, NotCollected, Collected,
       PatComplete, TotDisabled, DecoderCrash, Finish, PrintReport, Crash, vars, times

(***************************************************************************)
(* The times printed are those of the first and of the last TOT accepted.  *)
(***************************************************************************)
THEOREM TimesCorrect == Spec => []TimesAreOfTots
<1>1. Init => TimesKnown
  BY DEF Init, TimesKnown, TimesAreOfTots
<1>2. TimesKnown => TimesAreOfTots
  BY DEF TimesKnown
<1>. QED
  BY <1>1, <1>2, TimesStep, AlwaysInside, ReassemblerFacts, PTL DEF Spec

-----------------------------------------------------------------------------
(* The sync detection.  The program knows of the run of bad packets only   *)
(* by a counter that is compared before it is increased.                   *)

Bad(i) == ~file.packets[i].sync

(* While the file is analysed, sync_err_repeat is the length of the run of *)
(* bad packets that ends at the last one read, and no run was too long.    *)
RunCounted ==
  IF this_is_not_TS = 0
  THEN /\ sync_err_repeat \in 0 .. p_cnt
       /\ sync_err_repeat <= SyncLimit + 1
       /\ \A j \in p_cnt - sync_err_repeat + 1 .. p_cnt : Bad(j)
       /\ sync_err_repeat < p_cnt => ~Bad(p_cnt - sync_err_repeat)
       /\ \A i \in 1 .. p_cnt : ~A!NotTSAt(file.packets, i)
  ELSE /\ this_is_not_TS = 1
       /\ \E i \in 1 .. p_cnt : A!NotTSAt(file.packets, i)

(* A run that is not at the limit yet does not end the analysis, one that  *)
(* is does.                                                                *)
LEMMA NextOfRun ==
  ASSUME Inside, RunCounted, this_is_not_TS = 0, p_cnt < packet_count, Bad(p_cnt + 1)
  PROVE  A!NotTSAt(file.packets, p_cnt + 1) <=> sync_err_repeat > SyncLimit
<1>1. /\ p_cnt \in Nat /\ SyncLimit \in Nat /\ sync_err_repeat \in 0 .. p_cnt
      /\ sync_err_repeat <= SyncLimit + 1
      /\ \A j \in p_cnt - sync_err_repeat + 1 .. p_cnt : Bad(j)
      /\ sync_err_repeat < p_cnt => ~Bad(p_cnt - sync_err_repeat)
  BY TSAnalyticsAssumption DEF Inside, RunCounted
<1>2. A!NotTSAt(file.packets, p_cnt + 1) <=>
        /\ p_cnt + 1 >= SyncLimit + 2
        /\ \A j \in p_cnt - SyncLimit .. p_cnt + 1 : Bad(j)
  BY <1>1 DEF A!NotTSAt, Bad
<1>3. CASE sync_err_repeat > SyncLimit
  <2>1. /\ sync_err_repeat = SyncLimit + 1 /\ p_cnt >= SyncLimit + 1
        /\ p_cnt - sync_err_repeat + 1 = p_cnt - SyncLimit
    BY <1>1, <1>3
  <2>2. \A j \in p_cnt - SyncLimit .. p_cnt + 1 :
          j \in p_cnt - sync_err_repeat + 1 .. p_cnt \/ j = p_cnt + 1
    BY <1>1, <2>1
  <2>. QED
    BY <1>1, <1>2, <1>3, <2>1, <2>2
<1>4. CASE sync_err_repeat <= SyncLimit
  BY <1>1, <1>2, <1>4
<1>. QED
  BY <1>1, <1>3, <1>4

(* Each pass of the loop keeps the meaning of the counter.                 *)
LEMMA RunStep ==
  ASSUME Inside, RunCounted, [Next]_vars
  PROVE  RunCounted'
<1>1. p_cnt \in Nat /\ SyncLimit \in Nat /\ packet_count \in Nat
  BY TSAnalyticsAssumption DEF Inside, packet_count, File
<1>2. CASE SyncError
  <2>1. /\ this_is_not_TS = 0 /\ Bad(p_cnt + 1) /\ p_cnt < packet_count
        /\ p_cnt' = p_cnt + 1 /\ file' = file
        /\ sync_err_repeat' = sync_err_repeat + 1
        /\ this_is_not_TS' = IF sync_err_repeat > SyncLimit THEN 1 ELSE 0
    BY <1>2 DEF SyncError, Read, Analysing, Bad, buf, OverLimit
  <2>2. A!NotTSAt(file.packets, p_cnt + 1) <=> sync_err_repeat > SyncLimit
    BY <2>1, NextOfRun
  <2>3. CASE sync_err_repeat > SyncLimit
    BY <1>1, <2>1, <2>2, <2>3 DEF RunCounted, Bad
  <2>4. CASE ~(sync_err_repeat > SyncLimit)
    <3>1. /\ sync_err_repeat \in 0 .. p_cnt
          /\ \A j \in p_cnt - sync_err_repeat + 1 .. p_cnt : Bad(j)
          /\ sync_err_repeat < p_cnt => ~Bad(p_cnt - sync_err_repeat)
          /\ \A i \in 1 .. p_cnt : ~A!NotTSAt(file.packets, i)
      BY <2>1 DEF RunCounted
    <3>2. /\ sync_err_repeat' \in 0 .. p_cnt' /\ sync_err_repeat' <= SyncLimit + 1
          /\ p_cnt' - sync_err_repeat' = p_cnt - sync_err_repeat
      BY <1>1, <2>1, <2>4, <3>1
    <3>3. \A j \in p_cnt' - sync_err_repeat' + 1 .. p_cnt' : Bad(j)
      BY <1>1, <2>1, <3>1, <3>2
    <3>4. \A i \in 1 .. p_cnt' : ~A!NotTSAt(file.packets, i)
      BY <1>1, <2>1, <2>2, <2>4, <3>1
    <3>. QED
      BY <1>1, <2>1, <2>4, <3>1, <3>2, <3>3, <3>4 DEF RunCounted, Bad
  <2>. QED
    BY <2>3, <2>4
<1>3. ASSUME NEW next, Synced(next) PROVE RunCounted'
  <2>1. /\ this_is_not_TS = 0 /\ ~Bad(p_cnt + 1)
        /\ p_cnt' = p_cnt + 1 /\ file' = file
        /\ sync_err_repeat' = 0 /\ this_is_not_TS' = 0
    BY <1>3 DEF Synced, Read, Analysing, Bad, buf, RepeatAfterSync
  <2>2. ~A!NotTSAt(file.packets, p_cnt + 1)
    BY <1>1, <2>1 DEF A!NotTSAt, Bad
  <2>. QED
    BY <1>1, <2>1, <2>2 DEF RunCounted, Bad
<1>4. CASE HashOnly
  BY <1>1, <1>4 DEF HashOnly, Read, Analysing, sync, RunCounted
<1>5. CASE UNCHANGED <<file, p_cnt, sync>>
  BY <1>5 DEF sync, RunCounted, Bad
<1>. QED
  BY <1>2, <1>3, <1>4, <1>5 DEF Next, Open, NotCollected, Collected,
       PatComplete, TotComplete, TotDisabled, DecoderCrash, Finish,
       PrintReport, Crash, vars, input, sync

(***************************************************************************)
(* Whatever the file and the limit are, the analysis ends at the first run *)
(* of SyncLimit + 2 packets without 0x47 and at nothing else.              *)
(***************************************************************************)
THEOREM SyncDetectionExact == Spec => []NotTSExact
<1>1. Init => RunCounted
  BY TSAnalyticsAssumption DEF Init, RunCounted
<1>2. RunCounted => NotTSExact
  BY DEF RunCounted, NotTSExact
<1>. QED
  BY <1>1, <1>2, RunStep, AlwaysInside, PTL DEF Spec

-----------------------------------------------------------------------------
(***************************************************************************)
(* In the program, too, the counters of each PID are those of the stream   *)
(* that reached the checker.                                               *)
(***************************************************************************)
THEOREM CountsExactInProgram == Spec => []DC!CountsExact
<1>1. DCP!Spec => []DCP!CountsExact
  BY SamePIDs, DCP!CountsExactTheorem
<1>2. DC!CountsExact <=> DCP!CountsExact
  <2>0. \A S : DC!Cardinality(S) = DCP!Cardinality(S)
    BY DEF DC!Cardinality, DCP!Cardinality
  <2>1. /\ \A b : DC!Discontinuity(b) = DCP!Discontinuity(b)
        /\ \A b : DC!HasPayload(b) <=> DCP!HasPayload(b)
        /\ \A cc : DC!NextCounter(cc) = DCP!NextCounter(cc)
        /\ DC!NULL_PID = DCP!NULL_PID
    BY DEF DC!NextCounter, DCP!NextCounter, DC!HasPayload, DCP!HasPayload,
      DC!Discontinuity, DCP!Discontinuity, DC!extract_adaptation_field,
      DCP!extract_adaptation_field, DC!Overruns, DCP!Overruns,
      DC!BasicBytes, DCP!BasicBytes, DC!NULL_PID, DCP!NULL_PID
  <2>2. \A s, i : DC!Copies(s, i) = DCP!Copies(s, i)
    BY DEF DC!Copies, DCP!Copies
  <2>3. ASSUME NEW s, NEW i PROVE DC!Gap(s, i) <=> DCP!Gap(s, i)
    <3>1. /\ DC!Discontinuity(s[i]) = DCP!Discontinuity(s[i])
          /\ DC!HasPayload(s[i]) <=> DCP!HasPayload(s[i])
          /\ DC!NextCounter(s[i - 1].cc) = DCP!NextCounter(s[i - 1].cc)
          /\ DC!Copies(s, i) = DCP!Copies(s, i)
          /\ DC!NULL_PID = DCP!NULL_PID
          /\ DC!Cardinality(DC!Copies(s, i)) = DCP!Cardinality(DCP!Copies(s, i))
      BY <2>0, <2>1, <2>2
    <3>. QED
      BY <3>1, Zenon DEF DC!Gap, DCP!Gap
  <2>4. \A s : DC!Gaps(s) = DCP!Gaps(s)
    BY <2>3 DEF DC!Gaps, DCP!Gaps
  <2>5. \A s : DC!Errors(s) = DCP!Errors(s) /\ DC!Scrambled(s) = DCP!Scrambled(s)
    BY DEF DC!Errors, DCP!Errors, DC!Scrambled, DCP!Scrambled
  <2>6. ASSUME NEW p
        PROVE  /\ DC!Cardinality(DC!Gaps(seen[p]))
                    = DCP!Cardinality(DCP!Gaps(seen[p]))
               /\ DC!Cardinality(DC!Errors(seen[p]))
                    = DCP!Cardinality(DCP!Errors(seen[p]))
               /\ DC!Cardinality(DC!Scrambled(seen[p]))
                    = DCP!Cardinality(DCP!Scrambled(seen[p]))
    BY <2>0, <2>4, <2>5
  <2>. QED
    BY <2>6, Zenon DEF DC!CountsExact, DCP!CountsExact
<1>3. DC!Spec <=> DCP!Spec
  BY SameCheckerStep, SameCheckerInit, PTL DEF DC!Spec, DCP!Spec
<1>. QED
  BY <1>1, <1>2, <1>3, UsesChecker, PTL

(***************************************************************************)
(* In the program, too, the mark is on the greatest PID that is printed.   *)
(***************************************************************************)
THEOREM MarkInProgram == Spec => []DC!MarkedIsLastPrinted
<1>1. DCP!Spec => []DCP!MarkedIsLastPrinted
  BY SamePIDs, DCP!MarkTheorem
<1>2. DC!MarkedIsLastPrinted <=> DCP!MarkedIsLastPrinted
  BY DEF DC!MarkedIsLastPrinted, DCP!MarkedIsLastPrinted, DC!Marked, DCP!Marked
<1>3. DC!Spec <=> DCP!Spec
  BY SameCheckerStep, SameCheckerInit, PTL DEF DC!Spec, DCP!Spec
<1>. QED
  BY <1>1, <1>2, <1>3, UsesChecker, PTL

-----------------------------------------------------------------------------
(* The drop lists.  The program keeps one key at a time; the histories     *)
(* know the key of every packet that went to the lists.                    *)

Verdicts == TotList!Verdict

(* The histories hold positions that were read already.                    *)
Behind ==
  /\ TimesKnown
  /\ \A i \in DOMAIN tots : tots[i].pos < p_cnt
  /\ abnormal \in Seq([pos : Nat, now : Verdicts])
  /\ \A i \in DOMAIN abnormal : abnormal[i].pos < p_cnt

(* What the checker says of a packet is a verdict.                         *)
LEMMA CheckerTypes == Spec => []DCP!TypeOK
<1>1. DC!Spec <=> DCP!Spec
  BY SameCheckerStep, SameCheckerInit, PTL DEF DC!Spec, DCP!Spec
<1>2. DCP!Spec => []DCP!TypeOK
  BY SamePIDs, DCP!TypeCorrect
<1>. QED
  BY <1>1, <1>2, UsesChecker, PTL

Now(e) == [drop |-> e.now_drop, error |-> e.now_error,
           scrambling |-> e.now_scrambling]

(* What the checker finds wrong goes to both lists, under the keys of the  *)
(* time before the packet.                                                 *)
LEMMA CountsInLists ==
  ASSUME Inside, DCP!TypeOK', p_cnt < packet_count, CountDrops
  PROVE  \/ UNCHANGED lists
         \/ \E now \in Verdicts :
              /\ drop_list_tot' =
                   TotList!add_drop_list(drop_list_tot, current_tot, now)
              /\ drop_list_per' =
                   PerList!add_drop_list(drop_list_per, PercentKey, now)
              /\ abnormal' = Append(abnormal, [pos |-> p_cnt, now |-> now])
<1>. DEFINE e == ts_drop_count'[buf.pid]
            now == Now(e)
<1>1. buf.pid \in PIDs
  BY ReadsAPacket DEF Packet
<1>2. e \in DCP!TS_DROP_COUNT
  BY <1>1 DEF DCP!TypeOK
<1>3. now \in Verdicts
  BY <1>2 DEF Now, Verdicts, TotList!Verdict, DCP!TS_DROP_COUNT, DCP!Bit
<1>4. \/ UNCHANGED lists
      \/ /\ drop_list_tot' =
              TotList!add_drop_list(drop_list_tot, current_tot, now)
         /\ drop_list_per' =
              PerList!add_drop_list(drop_list_per, PercentKey, now)
         /\ abnormal' = Append(abnormal, [pos |-> p_cnt, now |-> now])
  BY DEF CountDrops, TotKey, Now
<1>. HIDE DEF now
<1>. QED
  BY <1>3, <1>4

(* The accepted TOTs after a step.                                         *)
TotsGrow ==
  \/ tots' = tots
  \/ tots' = Append(tots, [pos |-> p_cnt, time |-> Decoded.content])

(* A sequence of entries with positions, and one for the packet read.      *)
LEMMA AppendedEntry ==
  ASSUME NEW S, NEW s \in Seq(S), NEW x
  PROVE  /\ Len(s) \in Nat
         /\ DOMAIN s = 1 .. Len(s)
         /\ DOMAIN Append(s, x) = DOMAIN s \cup {Len(s) + 1}
         /\ Append(s, x)[Len(s) + 1] = x
         /\ \A i \in DOMAIN s : Append(s, x)[i] = s[i]
         /\ x \in S => Append(s, x) \in Seq(S)
OBVIOUS

(* Positions of a history stay behind the packet that is read next,        *)
(* whether an entry for this packet is added or not.                       *)
LEMMA PositionsBehind ==
  ASSUME NEW S, NEW s \in Seq(S), \A y \in S : y.pos \in Nat,
         NEW n \in Nat, \A i \in DOMAIN s : s[i].pos < n,
         NEW x, x.pos = n
  PROVE  /\ \A i \in DOMAIN s : s[i].pos < n + 1
         /\ \A i \in DOMAIN Append(s, x) : Append(s, x)[i].pos < n + 1
<1>1. \A i \in DOMAIN s : s[i].pos \in Nat
  OBVIOUS
<1>2. \A i \in DOMAIN s : s[i].pos < n + 1
  BY <1>1
<1>. QED
  BY <1>2, AppendedEntry

(* No pass of the loop touches the histories behind the packet it reads.   *)
LEMMA BehindStep ==
  ASSUME Inside, Behind, Handed', DCP!TypeOK', [Next]_vars
  PROVE  Behind' /\ TotsGrow
<1>1. TimesKnown'
  BY TimesStep DEF Behind
<1>2. p_cnt \in Nat
  BY TSAnalyticsAssumption DEF Inside, packet_count, File
<1>3. ASSUME NEW next, Synced(next), CountDrops, tots' = tots \/ TotComplete
      PROVE  /\ Behind'
             /\ TotsGrow
  <2>1. p_cnt' = p_cnt + 1 /\ p_cnt < packet_count
    BY <1>3 DEF Synced, Read
  <2>. DEFINE tot == [pos |-> p_cnt, time |-> Decoded.content]
              Tot == [pos : Nat, time : Contents]
              Entry == [pos : Nat, now : Verdicts]
  <2>2. tots' = tots \/ tots' = Append(tots, tot)
    BY <1>3 DEF TotComplete
  <2>3. tot.pos = p_cnt /\ tots \in Seq(Tot) /\ \A y \in Tot : y.pos \in Nat
    BY DEF Behind, TimesKnown
  <2>4. \A i \in DOMAIN tots' : tots'[i].pos < p_cnt'
    <3>1. \A i \in DOMAIN tots : tots[i].pos < p_cnt
      BY DEF Behind
    <3>. HIDE DEF tot, Tot
    <3>. QED
      BY <1>2, <2>1, <2>2, <2>3, <3>1, PositionsBehind
  <2>5. /\ abnormal' \in Seq(Entry)
        /\ \A i \in DOMAIN abnormal' : abnormal'[i].pos < p_cnt'
    <3>1. \/ abnormal' = abnormal
          \/ \E now \in Verdicts :
               abnormal' = Append(abnormal, [pos |-> p_cnt, now |-> now])
      BY <1>3, <2>1, CountsInLists DEF lists
    <3>2. PICK entry \in Entry : /\ entry.pos = p_cnt
                                 /\ \/ abnormal' = abnormal
                                    \/ abnormal' = Append(abnormal, entry)
      <4>1. CASE abnormal' = abnormal
        <5>1. [pos |-> p_cnt, now |-> [drop |-> 0, error |-> 0, scrambling |-> 0]]
                \in Entry
          BY <1>2 DEF Verdicts, TotList!Verdict
        <5>. QED
          BY <4>1, <5>1
      <4>2. ASSUME NEW now \in Verdicts,
                   abnormal' = Append(abnormal, [pos |-> p_cnt, now |-> now])
            PROVE  \E entry \in Entry :
                     entry.pos = p_cnt /\ abnormal' = Append(abnormal, entry)
        <5>1. [pos |-> p_cnt, now |-> now] \in Entry
          BY <1>2
        <5>. QED
          BY <4>2, <5>1
      <4>. QED
        BY <3>1, <4>1, <4>2
    <3>3. /\ abnormal \in Seq(Entry) /\ \A y \in Entry : y.pos \in Nat
          /\ \A i \in DOMAIN abnormal : abnormal[i].pos < p_cnt
      BY DEF Behind
    <3>. HIDE DEF Entry
    <3>4. abnormal' \in Seq(Entry)
      BY <3>2, <3>3, AppendedEntry
    <3>. QED
      BY <1>2, <2>1, <3>2, <3>3, <3>4, PositionsBehind
  <2>. QED
    BY <1>1, <2>2, <2>4, <2>5 DEF Behind, TotsGrow
<1>4. CASE UNCHANGED <<lists, times>> /\ p_cnt' \in {p_cnt, p_cnt + 1}
  <2>1. tots' = tots /\ abnormal' = abnormal
    BY <1>4 DEF lists, times
  <2>2. /\ \A i \in DOMAIN tots : tots[i].pos \in Nat
        /\ \A i \in DOMAIN abnormal : abnormal[i].pos \in Nat
    <3>. DEFINE Tot == [pos : Nat, time : Contents]
                Entry == [pos : Nat, now : Verdicts]
    <3>1. tots \in Seq(Tot) /\ abnormal \in Seq(Entry)
      BY DEF Behind, TimesKnown
    <3>2. (\A y \in Tot : y.pos \in Nat) /\ (\A y \in Entry : y.pos \in Nat)
      OBVIOUS
    <3>. HIDE DEF Tot, Entry
    <3>. QED
      BY <3>1, <3>2
  <2>. QED
    BY <1>1, <1>2, <1>4, <2>1, <2>2 DEF Behind, TotsGrow
<1>. QED
  BY <1>3, <1>4 DEF Next, Open, HashOnly, SyncError, NotCollected, Collected,
       PatComplete, TotComplete, TotDisabled, DecoderCrash, Finish,
       PrintReport, Crash, vars, times, input, Read

(* The time at a position behind which nothing was read yet is the current *)
(* one, and no later TOT changes it.                                       *)
LEMMA TimeAtPosition ==
  ASSUME Inside, Behind,
         TotsGrow
  PROVE  /\ TotAt(p_cnt) = current_tot
         /\ \A pos \in 0 .. p_cnt : TotAt(pos)' = TotAt(pos)
<1>. DEFINE before(pos) == {i \in DOMAIN tots : tots[i].pos < pos}
            tot == [pos |-> p_cnt, time |-> Decoded.content]
            n == Len(tots)
<1>1. /\ p_cnt \in Nat /\ n \in Nat /\ DOMAIN tots = 1 .. n
      /\ tots = <<>> <=> n = 0
      /\ tot.pos = p_cnt
      /\ tots' = tots \/ tots' = Append(tots, tot)
      /\ \A i \in 1 .. n : tots[i].pos < p_cnt
  BY TSAnalyticsAssumption DEF Inside, packet_count, File, Behind, TimesKnown,
    TotsGrow
<1>. HIDE DEF tot, n
<1>2. TotAt(p_cnt) = current_tot
  <2>1. before(p_cnt) = 1 .. n
    BY <1>1
  <2>2. Cardinality(1 .. n) = n
    BY <1>1, FS_Interval
  <2>3. TotAt(p_cnt) = IF 1 .. n = {} THEN Unknown ELSE tots[n].time
    BY <2>1, <2>2 DEF TotAt
  <2>4. 1 .. n = {} <=> n = 0
    BY <1>1
  <2>. QED
    BY <1>1, <2>3, <2>4 DEF Behind, TimesKnown, TimesAreOfTots, n
<1>3. ASSUME NEW pos \in 0 .. p_cnt
      PROVE  TotAt(pos)' = TotAt(pos)
  <2>1. \A i \in DOMAIN tots : i \in DOMAIN tots' /\ tots'[i] = tots[i]
    BY <1>1 DEF n, Behind, TimesKnown
  <2>2. \A i \in DOMAIN tots' : i \notin DOMAIN tots => tots'[i].pos = p_cnt
    BY <1>1 DEF n, Behind, TimesKnown
  <2>3. {i \in DOMAIN tots' : tots'[i].pos < pos} = before(pos)
    BY <1>1, <2>1, <2>2
  <2>4. before(pos) # {} => Cardinality(before(pos)) \in 1 .. n
    <3>1. IsFiniteSet(1 .. n) /\ Cardinality(1 .. n) = n
      BY <1>1, FS_Interval
    <3>2. before(pos) \in SUBSET (1 .. n)
      BY <1>1
    <3>. HIDE DEF before
    <3>3. /\ IsFiniteSet(before(pos))
          /\ Cardinality(before(pos)) <= n
          /\ Cardinality(before(pos)) \in Nat
      BY <3>1, <3>2, FS_Subset, FS_CardinalityType
    <3>4. before(pos) # {} => Cardinality(before(pos)) # 0
      BY <3>3, FS_EmptySet
    <3>. QED
      BY <1>1, <3>3, <3>4
  <2>5. TotAt(pos) = IF before(pos) = {} THEN Unknown
                     ELSE tots[Cardinality(before(pos))].time
    BY DEF TotAt
  <2>6. TotAt(pos)' = IF before(pos) = {} THEN Unknown
                      ELSE tots'[Cardinality(before(pos))].time
    BY <2>3 DEF TotAt
  <2>. HIDE DEF before
  <2>. QED
    BY <1>1, <2>1, <2>4, <2>5, <2>6
<1>. QED
  BY <1>2, <1>3

(* f is a function of the numbers up to n.                                 *)
UpTo(n, f) == f = [i \in 1 .. n |-> f[i]]

(* A function that has one argument more than a sequence.                  *)
LEMMA AppendedFunction ==
  ASSUME NEW n \in Nat, NEW f, NEW g, NEW x, UpTo(n, f), UpTo(n + 1, g),
         \A i \in 1 .. n : g[i] = f[i], g[n + 1] = x
  PROVE  g = Append(f, x)
<1>. DEFINE S == {g[i] : i \in 1 .. n + 1}
<1>1. g \in Seq(S) /\ Len(g) = n + 1
  BY DEF UpTo
<1>2. f \in Seq(S) /\ Len(f) = n
  <2>1. ASSUME NEW i \in 1 .. n PROVE f[i] \in S
    <3>1. i \in 1 .. n + 1 /\ g[i] = f[i]
      OBVIOUS
    <3>. QED
      BY <3>1
  <2>. HIDE DEF S
  <2>2. f \in [1 .. n -> S]
    BY <2>1 DEF UpTo
  <2>. QED
    BY <2>2
<1>3. x \in S
  OBVIOUS
<1>. HIDE DEF S
<1>4. Append(f, x) \in Seq(S) /\ Len(Append(f, x)) = n + 1
  BY <1>2, <1>3
<1>5. \A i \in 1 .. n + 1 : g[i] = Append(f, x)[i]
  <2>1. \A i \in 1 .. n : Append(f, x)[i] = f[i]
    BY <1>2, <1>3
  <2>2. Append(f, x)[n + 1] = x
    BY <1>2, <1>3
  <2>3. \A i \in 1 .. n + 1 : i \in 1 .. n \/ i = n + 1
    OBVIOUS
  <2>. QED
    BY <2>1, <2>2, <2>3
<1>. QED
  BY <1>1, <1>4, <1>5, SeqEqual

(* The calls as the list of the times sees them.                           *)
TimeIn(s, pos) ==
  LET before == {i \in DOMAIN s : s[i].pos < pos}
  IN IF before = {} THEN Unknown ELSE s[Cardinality(before)].time

Calls(s, a) ==
  [i \in DOMAIN a |-> [key |-> TimeIn(s, a[i].pos), now |-> a[i].now]]

(* The calls of the list of times, as computed from the histories.         *)
LEMMA CallsOfTimes ==
  /\ Keyed(TotAt) = Calls(tots, abnormal)
  /\ Keyed(TotAt)' = Calls(tots', abnormal')
BY DEF Keyed, TotAt, Calls, TimeIn

(* One call more, for the time that is current, or the same calls.         *)
LEMMA CallsGrow ==
  ASSUME Inside, Behind, TotsGrow
  PROVE  /\ abnormal' = abnormal => Calls(tots', abnormal') = Calls(tots, abnormal)
         /\ \A now \in Verdicts :
              abnormal' = Append(abnormal, [pos |-> p_cnt, now |-> now]) =>
                Calls(tots', abnormal') =
                  Append(Calls(tots, abnormal), [key |-> current_tot, now |-> now])
<1>1. /\ TimeIn(tots, p_cnt) = current_tot
      /\ \A pos \in 0 .. p_cnt : TimeIn(tots', pos) = TimeIn(tots, pos)
  BY TimeAtPosition DEF TotAt, TimeIn
<1>. DEFINE Entry == [pos : Nat, now : Verdicts]
            n == Len(abnormal)
<1>2. /\ abnormal \in Seq(Entry) /\ \A y \in Entry : y.pos \in Nat
      /\ \A i \in DOMAIN abnormal : abnormal[i].pos < p_cnt
      /\ p_cnt \in Nat
  BY TSAnalyticsAssumption DEF Inside, packet_count, File, Behind
<1>. HIDE DEF Entry
<1>3. n \in Nat /\ DOMAIN abnormal = 1 .. n
      /\ \A i \in 1 .. n : abnormal[i].pos \in 0 .. p_cnt
  BY <1>2
<1>. HIDE DEF n
<1>4. ASSUME abnormal' = abnormal
      PROVE  Calls(tots', abnormal') = Calls(tots, abnormal)
  BY <1>1, <1>3, <1>4 DEF Calls
<1>5. ASSUME NEW now \in Verdicts,
             abnormal' = Append(abnormal, [pos |-> p_cnt, now |-> now])
      PROVE  Calls(tots', abnormal') =
               Append(Calls(tots, abnormal), [key |-> current_tot, now |-> now])
  <2>. DEFINE entry == [pos |-> p_cnt, now |-> now]
              f == Calls(tots, abnormal)
              g == Calls(tots', abnormal')
              call == [key |-> current_tot, now |-> now]
  <2>1. /\ DOMAIN abnormal' = 1 .. n + 1
        /\ abnormal'[n + 1] = entry
        /\ \A i \in 1 .. n : abnormal'[i] = abnormal[i]
    BY <1>2, <1>3, <1>5 DEF n
  <2>2. UpTo(n, f) /\ UpTo(n + 1, g)
    BY <1>3, <2>1 DEF Calls, UpTo
  <2>3. \A i \in 1 .. n : g[i] = f[i]
    BY <1>1, <1>3, <2>1 DEF Calls
  <2>4. g[n + 1] = call
    <3>1. n + 1 \in 1 .. n + 1
      BY <1>3
    <3>. QED
      BY <1>1, <1>2, <2>1, <3>1 DEF Calls
  <2>. HIDE DEF f, g, call
  <2>5. g = Append(f, call)
    BY <1>3, <2>2, <2>3, <2>4, AppendedFunction
  <2>. QED
    BY <2>5 DEF f, g, call
<1>. QED
  BY <1>4, <1>5

(* Whatever the path through the loop, the list of the times gets the call *)
(* its specification speaks of, or none.                                   *)
LEMMA TotListStep ==
  ASSUME Inside, Behind, Handed', DCP!TypeOK', [Next]_vars
  PROVE  [TotList!Next]_(TotList!vars)
<1>1. TotsGrow
  BY BehindStep
<1>2. CASE UNCHANGED lists
  <2>1. drop_list_tot' = drop_list_tot /\ abnormal' = abnormal
    BY <1>2 DEF lists
  <2>2. Calls(tots', abnormal') = Calls(tots, abnormal)
    BY <1>1, <2>1, CallsGrow
  <2>3. Keyed(TotAt)' = Keyed(TotAt)
    BY <2>2, CallsOfTimes
  <2>. QED
    BY <2>1, <2>3 DEF TotList!vars
<1>3. ASSUME p_cnt < packet_count, CountDrops
      PROVE  [TotList!Next]_(TotList!vars)
  <2>1. ASSUME NEW now \in Verdicts,
               drop_list_tot' =
                 TotList!add_drop_list(drop_list_tot, current_tot, now),
               abnormal' = Append(abnormal, [pos |-> p_cnt, now |-> now])
        PROVE  TotList!Next
    <3>1. Calls(tots', abnormal') =
            Append(Calls(tots, abnormal), [key |-> current_tot, now |-> now])
      BY <1>1, <2>1, CallsGrow
    <3>2. Keyed(TotAt)' =
            Append(Keyed(TotAt), [key |-> current_tot, now |-> now])
      BY <3>1, CallsOfTimes
    <3>3. TotList!Add(current_tot, now)
      BY <2>1, <3>2 DEF TotList!Add
    <3>4. current_tot \in Contents \cup {Unknown}
      <4>1. CASE tots = <<>>
        BY <4>1 DEF Behind, TimesKnown, TimesAreOfTots
      <4>2. CASE tots # <<>>
        <5>. DEFINE Tot == [pos : Nat, time : Contents]
        <5>1. tots \in Seq(Tot) /\ \A y \in Tot : y.time \in Contents
          BY DEF Behind, TimesKnown
        <5>. HIDE DEF Tot
        <5>2. tots[Len(tots)] \in Tot
          BY <4>2, <5>1
        <5>. QED
          BY <4>2, <5>1, <5>2 DEF Behind, TimesKnown, TimesAreOfTots
      <4>. QED
        BY <4>1, <4>2
    <3>. QED
      BY <3>3, <3>4 DEF TotList!Next, Verdicts
  <2>. QED
    BY <1>2, <1>3, <2>1, CountsInLists
<1>. QED
  BY <1>2, <1>3 DEF Next, Open, HashOnly, SyncError, NotCollected, Collected,
       PatComplete, TotComplete, TotDisabled, DecoderCrash, Synced, Read,
       Finish, PrintReport, Crash, vars

(* The histories stay behind the position of the loop.                     *)
LEMMA AlwaysBehind == Spec => []Behind
<1>1. Init => Behind
  BY DEF Init, Behind, TimesKnown, TimesAreOfTots
<1>2. Inside /\ Behind /\ Handed' /\ DCP!TypeOK' /\ [Next]_vars => Behind'
  BY BehindStep
<1>. QED
  BY <1>1, <1>2, AlwaysInside, ReassemblerFacts, CheckerTypes, PTL DEF Spec

(***************************************************************************)
(* Every packet that is dropped, damaged or scrambled goes, once and with  *)
(* its own verdict, to the list of the TOT that was valid before it: the   *)
(* list in the program is the one that DropList specifies for these calls. *)
(***************************************************************************)
THEOREM ImplementsTotList == Spec => TotListSpec
<1>1. Init => TotList!Init
  <2>. SUFFICES ASSUME Init PROVE TotList!Init
    OBVIOUS
  <2>1. drop_list_tot = <<>> /\ abnormal = <<>>
    BY DEF Init
  <2>2. Keyed(TotAt) = <<>>
    BY <2>1, CallsOfTimes DEF Calls
  <2>. QED
    BY <2>1, <2>2 DEF TotList!Init
<1>2. Inside /\ Behind /\ Handed' /\ DCP!TypeOK' /\ [Next]_vars
        => [TotList!Next]_(TotList!vars)
  BY TotListStep
<1>. QED
  BY <1>1, <1>2, AlwaysInside, AlwaysBehind, ReassemblerFacts, CheckerTypes,
    PTL DEF Spec, TotListSpec, TotList!Spec

-----------------------------------------------------------------------------
(* The places: the percentage that the code divides out is the only one    *)
(* that the position has reached without the next.                         *)

LEMMA TimesMonotone ==
  ASSUME NEW a \in Int, NEW b \in Int, NEW n \in Nat, a <= b
  PROVE  a * n <= b * n
<1>1. b * n - a * n = (b - a) * n
  OBVIOUS
<1>2. b - a \in Nat
  OBVIOUS
<1>3. (b - a) * n \in Nat
  BY <1>2
<1>. QED
  BY <1>1, <1>3

(* What the division of percent gives.                                     *)
LEMMA Quotient ==
  ASSUME NEW a \in Nat, NEW n \in Nat \ {0}
  PROVE  /\ a \div n \in Nat
         /\ (a \div n) * n <= a
         /\ a < (a \div n + 1) * n
OBVIOUS

(* Two multiples that a number lies between are the same multiple.         *)
LEMMA OnePlace ==
  ASSUME NEW a \in Nat, NEW n \in Nat \ {0}, NEW j \in Nat, NEW k \in Nat,
         j * n <= a, a < (j + 1) * n, k * n <= a, a < (k + 1) * n
  PROVE  j = k
<1>1. /\ j * n \in Nat /\ k * n \in Nat
      /\ (j + 1) * n \in Nat /\ (k + 1) * n \in Nat
  OBVIOUS
<1>2. ~(j + 1 <= k)
  <2>1. j + 1 <= k => (j + 1) * n <= k * n
    BY TimesMonotone
  <2>. QED
    BY <1>1, <2>1
<1>3. ~(k + 1 <= j)
  <2>1. k + 1 <= j => (k + 1) * n <= j * n
    BY TimesMonotone
  <2>. QED
    BY <1>1, <2>1
<1>. QED
  BY <1>2, <1>3

(* The percentage that tsanalytics.c computes by a division is the one     *)
(* the specification chooses by its bounds.                                *)
LEMMA PlaceOfPosition ==
  ASSUME NEW n \in Nat \ {0}, NEW parts \in Nat \ {0}, NEW pos \in 0 .. n - 1
  PROVE  LET k == (pos * parts) \div n IN
         /\ k \in 0 .. parts - 1
         /\ (CHOOSE j \in 0 .. parts - 1 :
               j * n <= pos * parts /\ pos * parts < (j + 1) * n) = k
<1>. DEFINE a == pos * parts
            k == a \div n
            Place(j) == j * n <= a /\ a < (j + 1) * n
<1>1. a \in Nat
  OBVIOUS
<1>. HIDE DEF a
<1>2. k \in Nat /\ Place(k)
  BY <1>1, Quotient
<1>. HIDE DEF k
<1>3. k \in 0 .. parts - 1
  <2>1. a < n * parts
    <3>1. (pos + 1) * parts <= n * parts
      BY TimesMonotone
    <3>2. (pos + 1) * parts = a + parts
      BY DEF a
    <3>3. n * parts \in Nat
      OBVIOUS
    <3>. QED
      BY <1>1, <3>1, <3>2, <3>3
  <2>2. ~(parts <= k)
    <3>1. parts <= k => parts * n <= k * n
      BY <1>2, TimesMonotone
    <3>2. parts * n = n * parts /\ n * parts \in Nat /\ k * n \in Nat
      BY <1>2
    <3>. QED
      BY <1>1, <1>2, <2>1, <3>1, <3>2
  <2>. QED
    BY <1>2, <2>2
<1>4. \A j \in 0 .. parts - 1 : Place(j) => j = k
  BY <1>1, <1>2, OnePlace
<1>. HIDE DEF Place
<1>5. (CHOOSE j \in 0 .. parts - 1 : Place(j)) = k
  BY <1>2, <1>3, <1>4
<1>. QED
  BY <1>3, <1>5 DEF Place, k, a

(* The calls as the list of the percentages sees them.                     *)
PlaceIn(n, pos) == (pos * Percent) \div n

Places(n, a) ==
  [i \in DOMAIN a |-> [key |-> PlaceIn(n, a[i].pos), now |-> a[i].now]]

(* Positions of the file are in one percentage each.                       *)
LEMMA CallsOfPlaces ==
  ASSUME Inside, abnormal \in Seq([pos : Nat, now : Verdicts]),
         \A i \in DOMAIN abnormal : abnormal[i].pos < packet_count
  PROVE  Keyed(PercentAt) = Places(packet_count, abnormal)
<1>. DEFINE Entry == [pos : Nat, now : Verdicts]
            n == packet_count
<1>1. n \in Nat /\ Percent \in Nat \ {0}
  BY TSAnalyticsAssumption DEF Inside, packet_count, File
<1>2. abnormal \in Seq(Entry) /\ \A y \in Entry : y.pos \in Nat
  OBVIOUS
<1>. HIDE DEF Entry, n
<1>3. ASSUME NEW i \in DOMAIN abnormal
      PROVE  PercentAt(abnormal[i].pos) = PlaceIn(n, abnormal[i].pos)
  <2>1. n \in Nat \ {0} /\ abnormal[i].pos \in 0 .. n - 1
    BY <1>1, <1>2 DEF n
  <2>. QED
    BY <1>1, <2>1, PlaceOfPosition DEF PercentAt, PlaceIn, n
<1>. QED
  BY <1>3 DEF Keyed, Places, n

(* One call more.                                                          *)
LEMMA PlacesGrow ==
  ASSUME NEW S, NEW a \in Seq(S), NEW size, NEW x
  PROVE  Places(size, Append(a, x)) =
           Append(Places(size, a), [key |-> PlaceIn(size, x.pos), now |-> x.now])
<1>. DEFINE n == Len(a)
            longer == Append(a, x)
            f == Places(size, a)
            g == Places(size, longer)
            call == [key |-> PlaceIn(size, x.pos), now |-> x.now]
<1>1. /\ n \in Nat /\ DOMAIN a = 1 .. n
      /\ DOMAIN longer = 1 .. n + 1
      /\ longer[n + 1] = x
      /\ \A i \in 1 .. n : longer[i] = a[i]
  OBVIOUS
<1>. HIDE DEF n, longer
<1>2. UpTo(n, f) /\ UpTo(n + 1, g)
  BY <1>1 DEF Places, UpTo
<1>3. \A i \in 1 .. n : g[i] = f[i]
  BY <1>1 DEF Places
<1>4. g[n + 1] = call
  <2>1. n + 1 \in 1 .. n + 1
    BY <1>1
  <2>. QED
    BY <1>1, <2>1 DEF Places
<1>. HIDE DEF f, g, call
<1>5. g = Append(f, call)
  BY <1>1, <1>2, <1>3, <1>4, AppendedFunction
<1>. QED
  BY <1>5 DEF f, g, call, longer

(* The two ways to see the calls agree.                                    *)
Placed == Keyed(PercentAt) = Places(packet_count, abnormal)

(* The two ways to see the calls of the list of percentages agree in       *)
(* every state.                                                            *)
LEMMA AlwaysPlaced == Spec => []Placed
<1>1. Inside /\ Behind => Placed
  <2>. SUFFICES ASSUME Inside, Behind PROVE Placed
    OBVIOUS
  <2>. DEFINE Entry == [pos : Nat, now : Verdicts]
  <2>1. /\ abnormal \in Seq(Entry) /\ \A y \in Entry : y.pos \in Nat
        /\ \A i \in DOMAIN abnormal : abnormal[i].pos < p_cnt
        /\ p_cnt \in Nat /\ packet_count \in Nat /\ p_cnt <= packet_count
    BY TSAnalyticsAssumption DEF Inside, Behind, packet_count, File
  <2>2. \A i \in DOMAIN abnormal : abnormal[i].pos < packet_count
    <3>. HIDE DEF Entry
    <3>1. \A i \in DOMAIN abnormal : abnormal[i].pos \in Nat
      BY <2>1
    <3>. QED
      BY <2>1, <3>1
  <2>. QED
    BY <2>1, <2>2, CallsOfPlaces DEF Placed
<1>. QED
  BY <1>1, AlwaysInside, AlwaysBehind, PTL

(* The list of the percentages gets the call its specification speaks of,  *)
(* or none.                                                                *)
LEMMA PerListStep ==
  ASSUME Inside, Behind, Placed, Placed', DCP!TypeOK', [Next]_vars
  PROVE  [PerList!Next]_(PerList!vars)
<1>1. /\ packet_count' = packet_count
      /\ packet_count \in Nat /\ p_cnt \in Nat /\ Percent \in Nat \ {0}
  <2>1. file' = file
    BY DEF Next, Open, HashOnly, SyncError, NotCollected, Collected,
      PatComplete, TotComplete, TotDisabled, DecoderCrash, Synced, Read,
      Finish, PrintReport, Crash, vars, input
  <2>. QED
    BY <2>1, TSAnalyticsAssumption DEF Inside, packet_count, File
<1>2. CASE UNCHANGED lists
  <2>1. drop_list_per' = drop_list_per /\ abnormal' = abnormal
    BY <1>2 DEF lists
  <2>2. Keyed(PercentAt)' = Keyed(PercentAt)
    BY <1>1, <2>1 DEF Placed, Places
  <2>. QED
    BY <2>1, <2>2 DEF PerList!vars
<1>3. ASSUME p_cnt < packet_count, CountDrops
      PROVE  [PerList!Next]_(PerList!vars)
  <2>1. ASSUME NEW now \in Verdicts,
               drop_list_per' =
                 PerList!add_drop_list(drop_list_per, PercentKey, now),
               abnormal' = Append(abnormal, [pos |-> p_cnt, now |-> now])
        PROVE  PerList!Next
    <3>. DEFINE entry == [pos |-> p_cnt, now |-> now]
                call == [key |-> PercentKey, now |-> now]
    <3>1. abnormal \in Seq([pos : Nat, now : Verdicts])
      BY DEF Behind
    <3>2. Places(packet_count, Append(abnormal, entry)) =
            Append(Places(packet_count, abnormal),
                   [key |-> PlaceIn(packet_count, entry.pos), now |-> entry.now])
      BY <3>1, PlacesGrow
    <3>3. call = [key |-> PlaceIn(packet_count, entry.pos), now |-> entry.now]
      BY DEF PlaceIn, PercentKey
    <3>4. abnormal' = Append(abnormal, entry)
      BY <2>1
    <3>. HIDE DEF call, entry
    <3>6. Keyed(PercentAt)' = Append(Keyed(PercentAt), call)
      BY <1>1, <3>2, <3>3, <3>4 DEF Placed
    <3>7. PerList!Add(PercentKey, now)
      BY <2>1, <3>6 DEF PerList!Add, call
    <3>8. PercentKey \in 0 .. Percent - 1
      <4>1. packet_count \in Nat \ {0} /\ p_cnt \in 0 .. packet_count - 1
        BY <1>1, <1>3
      <4>. QED
        BY <1>1, <4>1, PlaceOfPosition DEF PercentKey
    <3>9. now \in PerList!Verdict
      BY <2>1 DEF Verdicts, TotList!Verdict, PerList!Verdict
    <3>. QED
      BY <3>7, <3>8, <3>9 DEF PerList!Next
  <2>. QED
    BY <1>2, <1>3, <2>1, CountsInLists
<1>. QED
  BY <1>2, <1>3 DEF Next, Open, HashOnly, SyncError, NotCollected, Collected,
       PatComplete, TotComplete, TotDisabled, DecoderCrash, Synced, Read,
       Finish, PrintReport, Crash, vars

(***************************************************************************)
(* Every packet that is dropped, damaged or scrambled goes, once and with  *)
(* its own verdict, to the part of the file that its position is in,       *)
(* whatever the length of the file and the number of parts are.            *)
(***************************************************************************)
THEOREM ImplementsPercentList == Spec => PercentListSpec
<1>1. Init => PerList!Init
  <2>. SUFFICES ASSUME Init PROVE PerList!Init
    OBVIOUS
  <2>1. drop_list_per = <<>> /\ abnormal = <<>>
    BY DEF Init
  <2>2. Keyed(PercentAt) = <<>>
    BY <2>1 DEF Keyed
  <2>. QED
    BY <2>1, <2>2 DEF PerList!Init
<1>2. Inside /\ Behind /\ Placed /\ Placed' /\ DCP!TypeOK' /\ [Next]_vars
        => [PerList!Next]_(PerList!vars)
  BY PerListStep
<1>. QED
  BY <1>1, <1>2, AlwaysInside, AlwaysBehind, AlwaysPlaced, CheckerTypes,
    PTL DEF Spec, PercentListSpec, PerList!Spec

-----------------------------------------------------------------------------
(* What the checker saw is the file.                                       *)

(* The streams of Analysis are written with the operators that the lemmas  *)
(* on subsequences are about.                                              *)
LEMMA SameSubsequence ==
  \A s, P : A!Subsequence(s, P) = PLP!Subsequence(s, P)
BY DEF A!Subsequence, PLP!Subsequence, A!Rank, PLP!Rank, A!Cardinality,
  PLP!Cardinality

(* What PacketListProofs proves of subsequences.                           *)
LEMMA LongerSubsequence ==
  ASSUME NEW s \in Seq(Packet), NEW x \in Packet,
         NEW P \in SUBSET (1 .. Len(s))
  PROVE  /\ A!Subsequence(Append(s, x), P) = A!Subsequence(s, P)
         /\ A!Subsequence(Append(s, x), P \cup {Len(s) + 1})
              = Append(A!Subsequence(s, P), x)
<1>1. s \in Seq(PLP!Packet) /\ x \in PLP!Packet
  BY DEF PLP!Bit, PLP!Packet, PLP!AdaptationField, PLP!SectionHeader,
    PLP!SectionLengthMax, Bit, Packet, AdaptationField, SectionHeader,
    SectionLengthMax
<1>2. /\ PLP!Subsequence(PLP!Longer(s, x), P) = PLP!Subsequence(s, P)
      /\ PLP!Subsequence(PLP!Longer(s, x), P \cup {Len(s) + 1})
           = PLP!Longer(PLP!Subsequence(s, P), x)
  BY <1>1, SamePIDs, PLP!SubsequenceOfLonger
<1>. QED
  BY <1>2, SameSubsequence, Zenon DEF PLP!Longer

(* The next packet of a file belongs to one stream at most, and is the     *)
(* last there.                                                             *)
LEMMA StreamGrows ==
  ASSUME NEW s \in Seq(Packet), NEW x \in Packet, NEW p
  PROVE  A!Stream(Append(s, x), p) =
           IF x.sync /\ x.pid = p THEN Append(A!Stream(s, p), x)
                                  ELSE A!Stream(s, p)
<1>. DEFINE longer == Append(s, x)
            P == {i \in DOMAIN s : s[i].sync /\ s[i].pid = p}
            Q == {i \in DOMAIN longer : longer[i].sync /\ longer[i].pid = p}
<1>1. /\ Len(s) \in Nat /\ DOMAIN s = 1 .. Len(s)
      /\ DOMAIN longer = 1 .. Len(s) + 1
      /\ longer[Len(s) + 1] = x
      /\ \A i \in 1 .. Len(s) : longer[i] = s[i]
  OBVIOUS
<1>2. P \in SUBSET (1 .. Len(s))
  BY <1>1
<1>3. A!Stream(s, p) = A!Subsequence(s, P)
      /\ A!Stream(longer, p) = A!Subsequence(longer, Q)
  BY DEF A!Stream
<1>4. Q = IF x.sync /\ x.pid = p THEN P \cup {Len(s) + 1} ELSE P
  <2>1. \A i \in 1 .. Len(s) + 1 : i \in 1 .. Len(s) \/ i = Len(s) + 1
    BY <1>1
  <2>2. \A i \in 1 .. Len(s) : i \in 1 .. Len(s) + 1 /\ i # Len(s) + 1
    BY <1>1
  <2>3. Len(s) + 1 \in 1 .. Len(s) + 1
    BY <1>1
  <2>. HIDE DEF longer
  <2>. QED
    BY <1>1, <2>1, <2>2, <2>3
<1>. HIDE DEF P, Q
<1>5. /\ A!Subsequence(longer, P) = A!Subsequence(s, P)
      /\ A!Subsequence(longer, P \cup {Len(s) + 1})
           = Append(A!Subsequence(s, P), x)
  BY <1>2, LongerSubsequence, Zenon
<1>. QED
  BY <1>3, <1>4, <1>5 DEF longer

(* The same for the packets of a PID that may be part of a section.        *)
LEMMA PassedOnGrows ==
  ASSUME NEW s \in Seq(Packet), NEW x \in Packet, NEW p
  PROVE  PassedOn(Append(s, x), p) =
           IF Collectable(x, p) THEN Append(PassedOn(s, p), x)
                                ELSE PassedOn(s, p)
<1>. DEFINE longer == Append(s, x)
            P == {i \in DOMAIN s : Collectable(s[i], p)}
            Q == {i \in DOMAIN longer : Collectable(longer[i], p)}
<1>1. /\ Len(s) \in Nat /\ DOMAIN s = 1 .. Len(s)
      /\ DOMAIN longer = 1 .. Len(s) + 1
      /\ longer[Len(s) + 1] = x
      /\ \A i \in 1 .. Len(s) : longer[i] = s[i]
  OBVIOUS
<1>2. P \in SUBSET (1 .. Len(s))
  BY <1>1
<1>3. PassedOn(s, p) = A!Subsequence(s, P)
      /\ PassedOn(longer, p) = A!Subsequence(longer, Q)
  BY DEF PassedOn
<1>4. Q = IF Collectable(x, p) THEN P \cup {Len(s) + 1} ELSE P
  <2>1. \A i \in 1 .. Len(s) + 1 : i \in 1 .. Len(s) \/ i = Len(s) + 1
    BY <1>1
  <2>2. \A i \in 1 .. Len(s) : i \in 1 .. Len(s) + 1 /\ i # Len(s) + 1
    BY <1>1
  <2>3. Len(s) + 1 \in 1 .. Len(s) + 1
    BY <1>1
  <2>. HIDE DEF longer
  <2>. QED
    BY <1>1, <2>1, <2>2, <2>3
<1>. HIDE DEF P, Q
<1>5. /\ A!Subsequence(longer, P) = A!Subsequence(s, P)
      /\ A!Subsequence(longer, P \cup {Len(s) + 1})
           = Append(A!Subsequence(s, P), x)
  BY <1>2, LongerSubsequence, Zenon
<1>. QED
  BY <1>3, <1>4, <1>5 DEF longer

(* One more packet is one more sync error or none.                         *)
LEMMA SyncErrorsGrow ==
  ASSUME NEW S, NEW s \in Seq(S), NEW x \in S
  PROVE  /\ Cardinality(A!SyncErrors(s)) \in Nat
         /\ Cardinality(A!SyncErrors(Append(s, x))) =
              IF x.sync THEN Cardinality(A!SyncErrors(s))
                        ELSE Cardinality(A!SyncErrors(s)) + 1
<1>. DEFINE longer == Append(s, x)
            P == A!SyncErrors(s)
<1>1. /\ Len(s) \in Nat
      /\ Len(longer) = Len(s) + 1
      /\ longer[Len(s) + 1] = x
      /\ \A i \in 1 .. Len(s) : longer[i] = s[i]
  OBVIOUS
<1>2. P \in SUBSET (1 .. Len(s)) /\ Len(s) + 1 \notin P
  BY <1>1 DEF A!SyncErrors
<1>3. IsFiniteSet(P)
  <2>1. IsFiniteSet(1 .. Len(s))
    BY <1>1, FS_Interval
  <2>. QED
    BY <1>2, <2>1, FS_Subset
<1>4. A!SyncErrors(longer) = IF x.sync THEN P ELSE P \cup {Len(s) + 1}
  <2>1. \A i \in 1 .. Len(s) + 1 : i \in 1 .. Len(s) \/ i = Len(s) + 1
    BY <1>1
  <2>2. \A i \in 1 .. Len(s) : i \in 1 .. Len(s) + 1 /\ i # Len(s) + 1
    BY <1>1
  <2>3. Len(s) + 1 \in 1 .. Len(s) + 1
    BY <1>1
  <2>. HIDE DEF longer
  <2>. QED
    BY <1>1, <2>1, <2>2, <2>3 DEF A!SyncErrors
<1>. HIDE DEF P
<1>5. Cardinality(P) \in Nat /\ Cardinality(P \cup {Len(s) + 1}) = Cardinality(P) + 1
  BY <1>2, <1>3, FS_CardinalityType, FS_AddElement
<1>. QED
  BY <1>4, <1>5 DEF P, longer

-----------------------------------------------------------------------------
(* What the reassembler is given.                                          *)

(* A call of st_packet leaves enable alone.                                *)
LEMMA KeepsEnable ==
  ASSUME NEW e, NEW b, NEW crc
  PROVE  PL!st_packet(e, b, crc).enable = e.enable
<1>. DEFINE p == PL!Prepared(e, b)
            copied == PL!Copied(p, b)
<1>1. p.enable = e.enable
  BY DEF PL!Prepared, PL!BeginSection, PL!NewBlock
<1>2. copied = [enable |-> copied.enable, payload |-> copied.payload,
                size |-> copied.size, copybytes |-> copied.copybytes,
                cap |-> copied.cap, crc_check |-> copied.crc_check,
                loading |-> copied.loading, leaked |-> copied.leaked]
        /\ copied.enable = p.enable
  BY DEF PL!Copied
<1>. HIDE DEF p, copied
<1>3. PL!Done(copied, b, crc).enable = copied.enable
  BY <1>2 DEF PL!Done
<1>4. [copied EXCEPT !.loading = 1].enable = copied.enable
  BY <1>2
<1>. QED
  BY <1>1, <1>2, <1>3, <1>4 DEF PL!st_packet, p, copied

(* The PIDs that are read: the TOT, and the PAT until there is one.        *)
Reading(p) == p = TOT_PID \/ (p = PAT_PID /\ pat = NoPat)

Enabling ==
  pc \in {"open", "loop"} =>
    \A p \in PIDs : packet_list[p].enable = 1 <=> Reading(p)

(* A call of st_packet turns its PID off if it completes a PAT, and only   *)
(* then.                                                                   *)
LEMMA OfferEnables ==
  ASSUME Handed, Handed', NEW crc \in Bit, buf.pid \in PIDs, PL!Offer(buf, crc)
  PROVE  /\ \A p \in PIDs : p # buf.pid => packet_list'[p] = packet_list[p]
         /\ ~(section'.ok /\ buf.pid = PAT_PID)
              => packet_list'[buf.pid].enable = packet_list[buf.pid].enable
         /\ section'.ok /\ buf.pid = PAT_PID => packet_list'[buf.pid].enable = 0
<1>. DEFINE e == PL!st_packet(packet_list[buf.pid], buf, crc)
<1>1. packet_list' = [packet_list EXCEPT ![buf.pid] = PL!AfterUse(e, buf)]
  BY DEF PL!Offer
<1>2. DOMAIN packet_list = PIDs
  BY DEF Handed, PLP!TypeOK
<1>3. e.enable = packet_list[buf.pid].enable
  BY KeepsEnable
<1>4. ASSUME ~(section'.ok /\ buf.pid = PAT_PID)
      PROVE  PL!AfterUse(e, buf) = e
  BY <1>4 DEF PL!AfterUse, PL!Offer, PL!PAT_PID, PAT_PID
<1>5. ASSUME section'.ok, buf.pid = PAT_PID
      PROVE  packet_list'[buf.pid].enable = 0
  <2>1. section'.pid = buf.pid
    BY <1>5 DEF PL!Offer, PL!NoSection
  <2>. QED
    BY <1>5, <2>1 DEF Handed, PLP!HandedOver, PLP!PAT_PID, PAT_PID
<1>. HIDE DEF e
<1>. QED
  BY <1>1, <1>2, <1>3, <1>4, <1>5

(* Only the step that reads a PAT changes what is read.                    *)
LEMMA EnablingStep ==
  ASSUME Inside, Handed, Handed', Enabling, [Next]_vars
  PROVE  Enabling'
<1>1. ASSUME pc' \in {"open", "loop"} => pc \in {"open", "loop"},
             UNCHANGED <<packet_list, pat>>
      PROVE  Enabling'
  BY <1>1 DEF Enabling, Reading
<1>2. ASSUME NEW next, Synced(next), NEW crc \in Bit, PL!Offer(buf, crc)
      PROVE  /\ buf.pid \in PIDs
             /\ \A p \in PIDs : packet_list[p].enable = 1 <=> Reading(p)
             /\ \A p \in PIDs : p # buf.pid => packet_list'[p] = packet_list[p]
             /\ ~(section'.ok /\ buf.pid = PAT_PID)
                  => packet_list'[buf.pid].enable = packet_list[buf.pid].enable
             /\ section'.ok /\ buf.pid = PAT_PID
                  => packet_list'[buf.pid].enable = 0
  <2>1. buf \in Packet /\ pc = "loop"
    BY <1>2, ReadsAPacket DEF Synced, Read
  <2>2. buf.pid \in PIDs
    BY <2>1 DEF Packet
  <2>. QED
    BY <1>2, <2>1, <2>2, OfferEnables DEF Enabling
<1>3. CASE Collected \/ TotComplete \/ TotDisabled
  <2>1. PICK crc \in Bit : PL!Offer(buf, crc)
    BY <1>3 DEF Collected, TotComplete, TotDisabled
  <2>2. Synced("loop") /\ pat' = pat /\ ~(section'.ok /\ buf.pid = PAT_PID)
    BY <1>3 DEF Collected, TotComplete, TotDisabled, PAT_PID, TOT_PID
  <2>3. \A p \in PIDs : packet_list'[p].enable = packet_list[p].enable
    BY <1>2, <2>1, <2>2
  <2>. QED
    BY <1>2, <2>1, <2>2, <2>3 DEF Enabling, Reading
<1>4. CASE PatComplete
  <2>1. PICK crc \in Bit : PL!Offer(buf, crc)
    BY <1>4 DEF PatComplete
  <2>2. Synced("loop") /\ section'.ok /\ buf.pid = PAT_PID
    BY <1>4 DEF PatComplete
  <2>3. pat' # NoPat
    <3>1. pat' = st_pat(Decoded, packet_list'[buf.pid].cap)
      BY <1>4 DEF PatComplete
    <3>2. \A sec, cap : st_pat(sec, cap) # NoPat
      BY DEF st_pat, NoPat
    <3>. QED
      BY <3>1, <3>2
  <2>4. /\ packet_list'[PAT_PID].enable = 0
        /\ \A p \in PIDs : p # PAT_PID =>
             /\ packet_list'[p] = packet_list[p]
             /\ packet_list[p].enable = 1 <=> p = TOT_PID
    BY <1>2, <2>1, <2>2 DEF Reading
  <2>5. PAT_PID # TOT_PID
    BY DEF PAT_PID, TOT_PID
  <2>. QED
    BY <2>3, <2>4, <2>5 DEF Enabling, Reading
<1>5. CASE HashOnly \/ SyncError \/ NotCollected
  <2>1. pc = "loop" /\ UNCHANGED <<packet_list, pat>>
    BY <1>5 DEF HashOnly, SyncError, NotCollected, Synced, Read, sections
  <2>. QED
    BY <1>1, <2>1
<1>6. CASE Open \/ UNCHANGED vars
  BY <1>1, <1>6 DEF Open, vars, input, sections
<1>7. CASE DecoderCrash \/ Finish \/ PrintReport \/ Crash
  BY <1>7 DEF DecoderCrash, Synced, Read, Finish, PrintReport, Crash, Enabling
<1>. QED
  BY <1>3, <1>4, <1>5, <1>6, <1>7 DEF Next

(* The TOT is always read, and the PAT until there is one.                 *)
LEMMA AlwaysEnabling == Spec => []Enabling
<1>1. Init => Enabling
  <2>1. ASSUME Init, NEW p \in PIDs
        PROVE  packet_list[p].enable = 1 <=> Reading(p)
    <3>1. packet_list[p] = PL!ZeroElement(IF p \in {PAT_PID, TOT_PID} THEN 1 ELSE 0)
      BY <2>1 DEF Init, PL!Init, PL!PAT_PID, PAT_PID, PL!TOT_PID, TOT_PID
    <3>2. packet_list[p].enable = 1 <=> p \in {PAT_PID, TOT_PID}
      BY <3>1 DEF PL!ZeroElement
    <3>3. pat = NoPat
      BY <2>1 DEF Init
    <3>. QED
      BY <3>2, <3>3 DEF Reading
  <2>. QED
    BY <2>1, Zenon DEF Enabling
<1>. QED
  BY <1>1, EnablingStep, AlwaysInside, ReassemblerFacts, PTL DEF Spec

(* The packet just read is offered if it may be part of a section of a PID *)
(* that is read, and there is no PAT without it.                           *)
OffersNext ==
  /\ \A p \in PIDs :
       offered'[p] = IF Reading(p) /\ Collectable(buf, p)
                     THEN Append(offered[p], buf) ELSE offered[p]
  /\ \/ pat' = pat
     \/ pat = NoPat /\ pat' # NoPat /\ Collectable(buf, PAT_PID)

(* So it is on every path through the loop.                                *)
LEMMA LoopOffers ==
  ASSUME Inside, Handed, Enabling,
         SyncError \/ NotCollected \/ Collected \/ PatComplete \/ TotComplete
           \/ TotDisabled
  PROVE  OffersNext
<1>1. buf \in Packet /\ pc = "loop"
  BY ReadsAPacket DEF SyncError, NotCollected, Collected, PatComplete,
    TotComplete, TotDisabled, Synced, Read
<1>2. /\ buf.pid \in PIDs
      /\ \A p \in PIDs : packet_list[p].enable = 1 <=> Reading(p)
  BY <1>1 DEF Packet, Enabling
<1>3. CASE SyncError
  BY <1>3 DEF SyncError, sections, OffersNext, Collectable
<1>4. CASE NotCollected
  <2>1. ~PL!Passed(buf) /\ offered' = offered /\ pat' = pat
    BY <1>4 DEF NotCollected, sections
  <2>2. \A p \in PIDs : ~(Reading(p) /\ Collectable(buf, p))
    BY <1>2, <2>1 DEF PL!Passed, Collectable
  <2>. QED
    BY <2>1, <2>2 DEF OffersNext
<1>5. ASSUME NEW crc \in Bit, PL!Offer(buf, crc),
             pat' = pat \/ (pat' # NoPat /\ buf.pid = PAT_PID)
      PROVE  OffersNext
  <2>1. /\ buf.sync /\ buf.tei = 0 /\ buf.afc # 2
        /\ packet_list[buf.pid].enable = 1
        /\ offered' = [offered EXCEPT ![buf.pid] = Append(offered[buf.pid], buf)]
    BY <1>5 DEF PL!Offer, PL!Passed
  <2>2. \A p : Collectable(buf, p) <=> buf.pid = p
    BY <2>1 DEF Collectable
  <2>3. DOMAIN offered = PIDs
    BY DEF Handed, PLP!TypeOK
  <2>4. Reading(buf.pid)
    BY <1>2, <2>1
  <2>5. \A p \in PIDs :
          offered'[p] = IF Reading(p) /\ Collectable(buf, p)
                        THEN Append(offered[p], buf) ELSE offered[p]
    BY <1>2, <2>1, <2>2, <2>3, <2>4
  <2>6. buf.pid = PAT_PID => pat = NoPat
    BY <2>4 DEF Reading, PAT_PID, TOT_PID
  <2>. QED
    BY <1>5, <2>2, <2>5, <2>6 DEF OffersNext
<1>6. CASE Collected \/ TotComplete \/ TotDisabled
  BY <1>5, <1>6 DEF Collected, TotComplete, TotDisabled
<1>7. CASE PatComplete
  <2>1. pat' = st_pat(Decoded, packet_list'[buf.pid].cap) /\ buf.pid = PAT_PID
    BY <1>7 DEF PatComplete
  <2>2. \A sec, cap : st_pat(sec, cap) # NoPat
    BY DEF st_pat, NoPat
  <2>. QED
    BY <1>5, <1>7, <2>1, <2>2 DEF PatComplete
<1>. QED
  BY <1>3, <1>4, <1>6, <1>7

(* OfferedAre for any sequences and any PAT.                               *)
GivenAre(given, read, packets) ==
  /\ given[TOT_PID] = PassedOn(packets, TOT_PID)
  /\ IF read = NoPat
     THEN given[PAT_PID] = PassedOn(packets, PAT_PID)
     ELSE \E i \in 1 .. Len(packets) :
            /\ Collectable(packets[i], PAT_PID)
            /\ given[PAT_PID] = PassedOn(SubSeq(packets, 1, i), PAT_PID)
  /\ \A p \in PIDs \ {PAT_PID, TOT_PID} : given[p] = <<>>

(* One packet more is offered at most once.                                *)
LEMMA GivenGrows ==
  ASSUME NEW s \in Seq(Packet), NEW x \in Packet, NEW before, NEW after,
         NEW old, NEW new, GivenAre(before, old, s),
         \A p \in PIDs :
           after[p] = IF /\ p = TOT_PID \/ (p = PAT_PID /\ old = NoPat)
                         /\ Collectable(x, p)
                      THEN Append(before[p], x) ELSE before[p],
         new = old \/ (old = NoPat /\ new # NoPat /\ Collectable(x, PAT_PID))
  PROVE  GivenAre(after, new, Append(s, x))
<1>. DEFINE longer == Append(s, x)
<1>1. PAT_PID \in PIDs /\ TOT_PID \in PIDs /\ PAT_PID # TOT_PID
  BY PIDsAssumption DEF PAT_PID, TOT_PID
<1>2. ASSUME NEW p
      PROVE  PassedOn(longer, p) = IF Collectable(x, p)
                                   THEN Append(PassedOn(s, p), x)
                                   ELSE PassedOn(s, p)
  BY PassedOnGrows
<1>3. /\ Len(s) \in Nat /\ Len(longer) = Len(s) + 1
      /\ longer[Len(s) + 1] = x
      /\ \A i \in 1 .. Len(s) : longer[i] = s[i] /\ i \in 1 .. Len(s) + 1
      /\ SubSeq(longer, 1, Len(s) + 1) = longer
      /\ Len(s) + 1 \in 1 .. Len(s) + 1
  OBVIOUS
<1>4. \A i \in 1 .. Len(s) : SubSeq(longer, 1, i) = SubSeq(s, 1, i)
  OBVIOUS
<1>. HIDE DEF longer
<1>5. after[TOT_PID] = PassedOn(longer, TOT_PID)
  BY <1>1, <1>2 DEF GivenAre
<1>6. ASSUME NEW p \in PIDs \ {PAT_PID, TOT_PID} PROVE after[p] = <<>>
  <2>1. before[p] = <<>>
    BY DEF GivenAre
  <2>2. after[p] = before[p]
    OBVIOUS
  <2>. QED
    BY <2>1, <2>2
<1>7. CASE old = NoPat
  <2>1. after[PAT_PID] = PassedOn(longer, PAT_PID)
    BY <1>1, <1>2, <1>7 DEF GivenAre
  <2>2. CASE new = NoPat
    BY <1>5, <1>6, <2>1, <2>2 DEF GivenAre, longer
  <2>3. CASE new # NoPat
    <3>1. Collectable(longer[Len(s) + 1], PAT_PID)
      BY <1>3, <1>7, <2>3
    <3>2. after[PAT_PID] = PassedOn(SubSeq(longer, 1, Len(s) + 1), PAT_PID)
      BY <1>3, <2>1
    <3>. QED
      BY <1>3, <1>5, <1>6, <2>3, <3>1, <3>2 DEF GivenAre, longer
  <2>. QED
    BY <2>2, <2>3
<1>8. CASE old # NoPat
  <2>1. PICK i \in 1 .. Len(s) :
          /\ Collectable(s[i], PAT_PID)
          /\ before[PAT_PID] = PassedOn(SubSeq(s, 1, i), PAT_PID)
    BY <1>8 DEF GivenAre
  <2>2. after[PAT_PID] = before[PAT_PID] /\ new # NoPat
    BY <1>1, <1>8
  <2>3. /\ i \in 1 .. Len(longer) /\ Collectable(longer[i], PAT_PID)
        /\ after[PAT_PID] = PassedOn(SubSeq(longer, 1, i), PAT_PID)
    BY <1>3, <1>4, <2>1, <2>2
  <2>. QED
    BY <1>5, <1>6, <2>2, <2>3 DEF GivenAre, longer
<1>. QED
  BY <1>7, <1>8

-----------------------------------------------------------------------------

(* The first n packets were judged: all that were read, or those up to the *)
(* one that ended the analysis.                                            *)
JudgedUpTo(n) ==
  /\ \A i \in 1 .. n - 1 : ~A!NotTSAt(file.packets, i)
  /\ IF this_is_not_TS = 0 THEN n = p_cnt ELSE A!NotTSAt(file.packets, n)
  /\ \A p \in PIDs : seen[p] = A!Stream(SubSeq(file.packets, 1, n), p)
  /\ sync_error = Cardinality(A!SyncErrors(SubSeq(file.packets, 1, n)))
  /\ pc \in {"open", "loop"} => OfferedAre(SubSeq(file.packets, 1, n))

Judged == \E n \in 0 .. p_cnt : JudgedUpTo(n)

(* Nothing was judged before the first packet.                             *)
LEMMA NothingJudged == Init => Judged
<1>. SUFFICES ASSUME Init PROVE JudgedUpTo(0)
  BY DEF Init, Judged
<1>1. SubSeq(file.packets, 1, 0) = <<>>
  <2>1. file.packets \in Seq(Packet)
    BY TSAnalyticsAssumption DEF Init, File
  <2>. QED
    BY <2>1
<1>2. A!Subsequence(<<>>, {}) = <<>>
  <2>1. /\ <<>> \in Seq({}) /\ {} \in SUBSET (1 .. Len(<<>>))
        /\ PLP!Cardinality({}) = 0
    <3>1. PLP!Cardinality({}) = Cardinality({})
      BY DEF PLP!Cardinality, Cardinality
    <3>. QED
      BY <3>1, FS_EmptySet
  <2>2. /\ PLP!Subsequence(<<>>, {}) \in Seq({})
        /\ Len(PLP!Subsequence(<<>>, {})) = 0
    BY <2>1, SamePIDs, PLP!SubsequenceType, Zenon
  <2>. QED
    BY <2>2, SameSubsequence
<1>5. ASSUME NEW p PROVE A!Stream(<<>>, p) = <<>> /\ PassedOn(<<>>, p) = <<>>
  <2>1. /\ {i \in DOMAIN <<>> : <<>>[i].sync /\ <<>>[i].pid = p} = {}
        /\ {i \in DOMAIN <<>> : Collectable(<<>>[i], p)} = {}
    OBVIOUS
  <2>. QED
    BY <1>2, <2>1 DEF A!Stream, PassedOn
<1>6. OfferedAre(<<>>)
  BY <1>5, PIDsAssumption DEF Init, PL!Init, OfferedAre
<1>3. Cardinality(A!SyncErrors(<<>>)) = 0
  <2>1. A!SyncErrors(<<>>) = {}
    BY DEF A!SyncErrors
  <2>. QED
    BY <2>1, FS_EmptySet
<1>4. \A i \in 1 .. 0 - 1 : ~A!NotTSAt(file.packets, i)
  OBVIOUS
<1>. QED
  BY <1>1, <1>3, <1>4, <1>5, <1>6 DEF Init, DC!Init, JudgedUpTo

(* Every pass of the loop judges the packet it reads, as long as there is  *)
(* an analysis.                                                            *)
LEMMA JudgedStep ==
  ASSUME Inside, Handed, Enabling, RunCounted, RunCounted', DCP!TypeOK, Judged,
         [Next]_vars
  PROVE  Judged'
<1>1. /\ p_cnt \in Nat /\ packet_count \in Nat /\ p_cnt <= packet_count
      /\ file.packets \in Seq(Packet)
      /\ DOMAIN seen = PIDs
  BY TSAnalyticsAssumption DEF Inside, packet_count, File, DCP!TypeOK
<1>2. ASSUME p_cnt < packet_count, p_cnt' = p_cnt + 1, file' = file,
             this_is_not_TS = 0,
             \A p \in PIDs : seen'[p] =
               IF buf.sync /\ buf.pid = p THEN Append(seen[p], buf) ELSE seen[p],
             sync_error' = IF buf.sync THEN sync_error ELSE sync_error + 1,
             pc' \in {"open", "loop"} => pc \in {"open", "loop"} /\ OffersNext
      PROVE  Judged'
  <2>. DEFINE before == SubSeq(file.packets, 1, p_cnt)
              after  == SubSeq(file.packets, 1, p_cnt + 1)
  <2>1. /\ buf \in Packet /\ before \in Seq(Packet)
        /\ after = Append(before, buf)
    <3>1. p_cnt \in 0 .. Len(file.packets) - 1
      BY <1>1, <1>2 DEF packet_count
    <3>2. after = Append(before, buf)
      BY <1>1, <3>1, NextPrefix DEF buf
    <3>3. before \in Seq(Packet)
      BY <1>1, <3>1
    <3>4. buf \in Packet
      BY <1>2, ReadsAPacket
    <3>. QED
      BY <3>2, <3>3, <3>4
  <2>2. JudgedUpTo(p_cnt)
    BY <1>2 DEF Judged, JudgedUpTo
  <2>. HIDE DEF before, after
  <2>3. ASSUME NEW p \in PIDs PROVE seen'[p] = A!Stream(after, p)
    <3>1. seen[p] = A!Stream(before, p)
      BY <2>2 DEF JudgedUpTo, before
    <3>2. A!Stream(Append(before, buf), p) =
            IF buf.sync /\ buf.pid = p THEN Append(A!Stream(before, p), buf)
                                       ELSE A!Stream(before, p)
      BY <2>1, StreamGrows
    <3>. QED
      BY <1>2, <2>1, <3>1, <3>2
  <2>4. sync_error' = Cardinality(A!SyncErrors(after))
    <3>1. sync_error = Cardinality(A!SyncErrors(before))
      BY <2>2 DEF JudgedUpTo, before
    <3>. QED
      BY <1>2, <2>1, <3>1, SyncErrorsGrow
  <2>5. \A i \in 1 .. p_cnt : ~A!NotTSAt(file.packets, i)
    BY <1>2 DEF RunCounted
  <2>6. this_is_not_TS' # 0 => A!NotTSAt(file.packets, p_cnt + 1)
    <3>1. this_is_not_TS' # 0
            => \E i \in 1 .. p_cnt + 1 : A!NotTSAt(file.packets, i)
      BY <1>2 DEF RunCounted
    <3>2. \A i \in 1 .. p_cnt + 1 : i \in 1 .. p_cnt \/ i = p_cnt + 1
      BY <1>1
    <3>. QED
      BY <2>5, <3>1, <3>2
  <2>8. ASSUME pc' \in {"open", "loop"} PROVE GivenAre(offered', pat', after)
    <3>1. GivenAre(offered, pat, before)
      BY <1>2, <2>2, <2>8 DEF JudgedUpTo, OfferedAre, GivenAre, before
    <3>2. \A p \in PIDs :
            offered'[p] = IF /\ p = TOT_PID \/ (p = PAT_PID /\ pat = NoPat)
                             /\ Collectable(buf, p)
                          THEN Append(offered[p], buf) ELSE offered[p]
      BY <1>2, <2>8 DEF OffersNext, Reading
    <3>3. pat' = pat \/ (pat = NoPat /\ pat' # NoPat /\ Collectable(buf, PAT_PID))
      BY <1>2, <2>8 DEF OffersNext
    <3>. QED
      BY <2>1, <3>1, <3>2, <3>3, GivenGrows
  <2>7. ASSUME NEW n, n = p_cnt + 1 PROVE JudgedUpTo(n)'
    <3>1. n - 1 = p_cnt
      BY <1>1, <2>7
    <3>. QED
      BY <1>2, <2>3, <2>4, <2>5, <2>6, <2>7, <2>8, <3>1
         DEF JudgedUpTo, OfferedAre, GivenAre, after
  <2>. QED
    <3>1. p_cnt + 1 \in 0 .. p_cnt + 1
      BY <1>1
    <3>. QED
      BY <1>2, <2>7, <3>1 DEF Judged
<1>3. ASSUME NEW next, Synced(next), CountDrops,
             pc' \in {"open", "loop"} => OffersNext
      PROVE  Judged'
  <2>1. DC!Count(buf) /\ buf.sync
    BY <1>3 DEF CountDrops, Synced
  <2>2. \A p \in PIDs : seen'[p] =
          IF buf.sync /\ buf.pid = p THEN Append(seen[p], buf) ELSE seen[p]
    BY <1>1, <2>1 DEF DC!Count
  <2>3. pc = "loop"
    BY <1>3 DEF Synced, Read
  <2>. QED
    BY <1>2, <1>3, <2>1, <2>2, <2>3 DEF Synced, Read, Analysing
<1>4. CASE SyncError
  <2>1. pc = "loop" /\ OffersNext
    BY <1>4, LoopOffers DEF SyncError, Read
  <2>. QED
    BY <1>2, <1>4, <2>1 DEF SyncError, Read, Analysing, counts
<1>5. ASSUME file' = file, p_cnt' \in {p_cnt, p_cnt + 1}, seen' = seen,
             sync_error' = sync_error, this_is_not_TS' = this_is_not_TS,
             p_cnt' = p_cnt \/ this_is_not_TS # 0,
             pc' \in {"open", "loop"}
               => pc \in {"open", "loop"} /\ UNCHANGED <<offered, pat>>
      PROVE  Judged'
  <2>1. PICK n \in 0 .. p_cnt : JudgedUpTo(n)
    BY DEF Judged
  <2>2. JudgedUpTo(n)'
    BY <1>5, <2>1 DEF JudgedUpTo, OfferedAre
  <2>3. n \in 0 .. p_cnt'
    BY <1>1, <1>5, <2>1
  <2>. QED
    BY <2>2, <2>3 DEF Judged
<1>6. CASE HashOnly
  BY <1>5, <1>6 DEF HashOnly, Read, Analysing, counts, sync, sections
<1>7. ASSUME UNCHANGED <<file, p_cnt, sync, seen>>,
             pc' \in {"open", "loop"}
               => pc \in {"open", "loop"} /\ UNCHANGED <<offered, pat>>
      PROVE  Judged'
  BY <1>5, <1>7 DEF sync
<1>8. CASE NotCollected \/ Collected \/ PatComplete \/ TotComplete \/ TotDisabled
  <2>1. OffersNext
    BY <1>8, LoopOffers
  <2>2. Synced("loop") /\ CountDrops
    BY <1>8 DEF NotCollected, Collected, PatComplete, TotComplete, TotDisabled
  <2>. QED
    BY <1>3, <2>1, <2>2
<1>9. CASE DecoderCrash
  <2>1. Synced("crashed") /\ CountDrops /\ pc' = "crashed"
    BY <1>9 DEF DecoderCrash, Synced, Read
  <2>. QED
    BY <1>3, <2>1
<1>10. CASE Open \/ UNCHANGED vars
  BY <1>7, <1>10 DEF Open, vars, input, sections, sync, counts
<1>11. CASE Finish \/ PrintReport \/ Crash
  BY <1>7, <1>11 DEF Finish, DC!mark_last_drop_count, PrintReport, Crash, counts
<1>. QED
  BY <1>4, <1>6, <1>8, <1>9, <1>10, <1>11 DEF Next

(* Only one number of packets can be the number of those judged.           *)
LEMMA JudgedIsAnalysed ==
  ASSUME Inside, RunCounted, NEW n \in 0 .. p_cnt, JudgedUpTo(n)
  PROVE  AnalysedPackets = SubSeq(file.packets, 1, n)
<1>. DEFINE End(m) == /\ \A i \in 1 .. m - 1 : ~A!NotTSAt(file.packets, i)
                      /\ m = p_cnt \/ A!NotTSAt(file.packets, m)
<1>1. p_cnt \in Nat /\ SyncLimit \in Nat /\ n \in 0 .. p_cnt
  BY TSAnalyticsAssumption DEF Inside, packet_count, File
<1>2. ~A!NotTSAt(file.packets, 0)
  BY <1>1 DEF A!NotTSAt
<1>3. End(n)
  BY DEF JudgedUpTo
<1>4. ASSUME NEW m \in 0 .. p_cnt, End(m) PROVE m = n
  <2>1. CASE this_is_not_TS = 0
    <3>1. n = p_cnt /\ \A i \in 1 .. p_cnt : ~A!NotTSAt(file.packets, i)
      BY <2>1 DEF JudgedUpTo, RunCounted
    <3>2. m = 0 \/ m \in 1 .. p_cnt
      BY <1>1
    <3>. QED
      BY <1>2, <1>4, <3>1, <3>2
  <2>2. CASE this_is_not_TS # 0
    <3>1. A!NotTSAt(file.packets, n) /\ n # 0
      BY <1>2, <2>2 DEF JudgedUpTo
    <3>2. ~(n < m)
      <4>1. n < m => n \in 1 .. m - 1
        BY <1>1, <3>1
      <4>. QED
        BY <1>4, <3>1, <4>1
    <3>3. ~(m < n)
      <4>1. m < n => m # p_cnt /\ (m = 0 \/ m \in 1 .. n - 1)
        BY <1>1
      <4>. QED
        BY <1>2, <1>3, <1>4, <4>1
    <3>. QED
      BY <1>1, <3>2, <3>3
  <2>. QED
    BY <2>1, <2>2
<1>. HIDE DEF End
<1>5. (CHOOSE m \in 0 .. p_cnt : End(m)) = n
  BY <1>3, <1>4
<1>. QED
  BY <1>5 DEF AnalysedPackets, End

(* While a file is analysed its packets are judged.                        *)
LEMMA AlwaysJudged == Spec => [](RunCounted /\ Judged)
<1>1. Init => RunCounted
  BY TSAnalyticsAssumption DEF Init, RunCounted
<1>. QED
  BY <1>1, NothingJudged, RunStep, JudgedStep, AlwaysInside, AlwaysEnabling,
    ReassemblerFacts, CheckerTypes, PTL DEF Spec

(***************************************************************************)
(* No packet is lost between the main loop and the checker or the          *)
(* reassembler, and none is judged twice, up to the packet that ends the   *)
(* analysis: to the reassembler go the undamaged packets with a payload of *)
(* the TOT, and of the PAT until one was read.                             *)
(***************************************************************************)
THEOREM JudgesEveryPacketOnce == Spec => []EveryPacketOnce
<1>1. Inside /\ RunCounted /\ Judged => EveryPacketOnce
  <2>. SUFFICES ASSUME Inside, RunCounted, Judged PROVE EveryPacketOnce
    OBVIOUS
  <2>1. PICK n \in 0 .. p_cnt : JudgedUpTo(n)
    BY DEF Judged
  <2>2. AnalysedPackets = SubSeq(file.packets, 1, n)
    BY <2>1, JudgedIsAnalysed
  <2>. QED
    BY <2>1, <2>2 DEF EveryPacketOnce, JudgedUpTo
<1>. QED
  BY <1>1, AlwaysInside, AlwaysJudged, PTL

-----------------------------------------------------------------------------
(* The PAT.  A packet that starts a PAT which fits into it is the whole of *)
(* the section.                                                            *)
ReadablePat(b) ==
  b.pid = PAT_PID /\ A!CleanStart(b) /\ b.sec.section_length < 180

(* A section announces a natural number of bytes.                          *)
LEMMA AnnouncedLength == \A b \in Packet : b.sec.section_length \in Nat
<1>1. SectionLengthMax \in Nat
  BY DEF SectionLengthMax
<1>. QED
  BY <1>1 DEF Packet, SectionHeader

(* Such a packet is handed to the decoder at once, whatever the element    *)
(* held before.                                                            *)
LEMMA PatReturns ==
  ASSUME NEW b \in Packet, A!CleanStart(b), b.sec.section_length < 180, NEW e
  PROVE  PL!Returns(e, b)
<1>. DEFINE p == PL!Prepared(e, b)
            copied == PL!Copied(p, b)
            n == b.sec.section_length
<1>1. n \in Nat /\ n >= 9 /\ n < 180 /\ b.pusi = 1 /\ b.afc = 1
  BY AnnouncedLength DEF A!CleanStart
<1>2. p = PL!NewBlock(e, n + 3)
  BY <1>1 DEF PL!Prepared, PL!BeginSection
<1>3. p.copybytes = 0 /\ p.size = n + 3
  BY <1>2 DEF PL!NewBlock
<1>4. PL!payload_start_pos(b) = 5
  BY <1>1 DEF PL!payload_start_pos
<1>5. ~PL!BadCopySize(b) /\ PL!copy_size(b) = 183
  BY <1>4 DEF PL!BadCopySize, PL!copy_size, PL!PacketSize
<1>. HIDE DEF p
<1>6. copied.copybytes = 183 /\ copied.size = n + 3
  BY <1>3, <1>5 DEF PL!Copied
<1>. HIDE DEF copied, n
<1>7. PL!Filled(copied) /\ ~PL!TooShort(copied)
  BY <1>1, <1>6 DEF PL!Filled, PL!TooShort
<1>8. ~PL!Orphan(e, b)
  BY <1>1 DEF PL!Orphan
<1>. QED
  BY <1>5, <1>7, <1>8 DEF PL!Returns, copied, p

(* While there is no PAT, PID 0 is collected; and if a readable one was    *)
(* among the packets, there is one.                                        *)
PatRead ==
  /\ pc \in {"print", "done"} => AtEnd
  /\ pc \in {"open", "loop"} /\ pat = NoPat => packet_list[PAT_PID].enable = 1
  /\ pc \in {"open", "loop", "print"} /\ this_is_not_TS = 0 /\ pat = NoPat
       => \A i \in 1 .. p_cnt : ~ReadablePat(file.packets[i])

(* Every pass of the loop looks at the PAT, if there is one to read.       *)
LEMMA PatReadStep ==
  ASSUME Inside, Handed, PatRead, [Next]_vars
  PROVE  PatRead'
<1>1. /\ p_cnt \in Nat /\ packet_count \in Nat /\ p_cnt <= packet_count
      /\ PAT_PID \in PIDs /\ DOMAIN packet_list = PIDs
  BY TSAnalyticsAssumption, PIDsAssumption DEF Inside, packet_count, File,
    Handed, PLP!TypeOK
<1>2. ASSUME Read("loop"), this_is_not_TS' = 0 => this_is_not_TS = 0,
             pat' = NoPat =>
               /\ pat = NoPat
               /\ packet_list'[PAT_PID].enable = packet_list[PAT_PID].enable
               /\ this_is_not_TS = 0 => ~ReadablePat(buf)
      PROVE  PatRead'
  <2>1. /\ pc = "loop" /\ pc' = "loop" /\ p_cnt' = p_cnt + 1 /\ file' = file
    BY <1>2 DEF Read
  <2>2. \A i \in 1 .. p_cnt + 1 : i \in 1 .. p_cnt \/ i = p_cnt + 1
    BY <1>1
  <2>. QED
    BY <1>2, <2>1, <2>2 DEF PatRead, buf
<1>3. CASE HashOnly
  BY <1>2, <1>3 DEF HashOnly, Analysing, sync, sections
<1>4. CASE SyncError
  BY <1>2, <1>4 DEF SyncError, Analysing, sections, ReadablePat, A!CleanStart
<1>5. CASE NotCollected
  <2>1. /\ Read("loop") /\ pat' = pat /\ packet_list' = packet_list
        /\ this_is_not_TS' = this_is_not_TS /\ ~PL!Passed(buf) /\ pc = "loop"
    BY <1>5 DEF NotCollected, Synced, Read, sections
  <2>2. pat = NoPat => ~ReadablePat(buf)
    BY <2>1 DEF PatRead, ReadablePat, PL!Passed, A!CleanStart
  <2>. QED
    BY <1>2, <2>1, <2>2
<1>6. CASE Collected
  <2>1. PICK crc \in Bit : PL!Offer(buf, crc)
    BY <1>6 DEF Collected
  <2>2. /\ Read("loop") /\ pat' = pat /\ ~section'.ok
        /\ this_is_not_TS' = this_is_not_TS
    BY <1>6 DEF Collected, Synced
  <2>3. ~PL!Returns(packet_list[buf.pid], buf)
    BY <2>1, <2>2 DEF PL!Offer
  <2>4. buf \in Packet
    BY <2>2, ReadsAPacket DEF Read
  <2>5. ~ReadablePat(buf)
    BY <2>3, <2>4, PatReturns DEF ReadablePat
  <2>6. packet_list'[PAT_PID].enable = packet_list[PAT_PID].enable
    <3>. DEFINE e == PL!st_packet(packet_list[buf.pid], buf, crc)
    <3>1. e.enable = packet_list[buf.pid].enable
      BY KeepsEnable
    <3>2. packet_list' = [packet_list EXCEPT ![buf.pid] = e]
      BY <2>1, <2>3 DEF PL!Offer, PL!AfterUse
    <3>. HIDE DEF e
    <3>. QED
      BY <1>1, <3>1, <3>2
  <2>. QED
    BY <1>2, <2>2, <2>5, <2>6
<1>7. CASE PatComplete
  <2>1. Read("loop") /\ this_is_not_TS' = this_is_not_TS
    BY <1>7 DEF PatComplete, Synced
  <2>2. pat' # NoPat
    <3>1. pat' = st_pat(Decoded, packet_list'[buf.pid].cap)
      BY <1>7 DEF PatComplete
    <3>2. \A sec, cap : st_pat(sec, cap) # NoPat
      BY DEF st_pat, NoPat
    <3>. QED
      BY <3>1, <3>2
  <2>. QED
    BY <1>2, <2>1, <2>2
<1>8. CASE TotComplete \/ TotDisabled
  <2>1. PICK crc \in Bit : PL!Offer(buf, crc)
    BY <1>8 DEF TotComplete, TotDisabled
  <2>2. /\ Read("loop") /\ pat' = pat /\ buf.pid = TOT_PID
        /\ this_is_not_TS' = this_is_not_TS
    BY <1>8 DEF TotComplete, TotDisabled, Synced
  <2>3. PAT_PID # TOT_PID
    BY DEF PAT_PID, TOT_PID
  <2>4. packet_list'[PAT_PID] = packet_list[PAT_PID]
    BY <1>1, <2>1, <2>2, <2>3 DEF PL!Offer
  <2>. QED
    BY <1>2, <2>2, <2>3, <2>4 DEF ReadablePat
<1>9. CASE DecoderCrash
  BY <1>9 DEF DecoderCrash, Synced, Read, PatRead
<1>10. CASE Finish
  BY <1>10 DEF Finish, PatRead, AtEnd, packet_count, sync
<1>11. CASE Open \/ PrintReport \/ Crash \/ UNCHANGED vars
  BY <1>11 DEF Open, PrintReport, Crash, vars, input, sync, sections, PatRead,
    AtEnd, packet_count
<1>. QED
  BY <1>3, <1>4, <1>5, <1>6, <1>7, <1>8, <1>9, <1>10, <1>11 DEF Next

(* The packets given to the reassembler are packets of the file.           *)
OfferedOfFile ==
  \A p \in PIDs : \A k \in DOMAIN offered[p] :
    \E i \in 1 .. p_cnt :
      file.packets[i] = offered[p][k] /\ file.packets[i].pid = p

(* The loop offers the packet it has just read.                            *)
LEMMA OfferedStep ==
  ASSUME Inside, Handed, OfferedOfFile, [Next]_vars
  PROVE  OfferedOfFile'
<1>1. /\ p_cnt \in Nat
      /\ offered \in [PIDs -> Seq(PLP!Packet)]
  BY TSAnalyticsAssumption DEF Inside, packet_count, File, Handed, PLP!TypeOK
<1>2. ASSUME NEW next, Synced(next), \E crc \in Bit : PL!Offer(buf, crc)
      PROVE  OfferedOfFile'
  <2>1. /\ p_cnt' = p_cnt + 1 /\ file' = file /\ p_cnt < packet_count
        /\ offered' = [offered EXCEPT ![buf.pid] = Append(@, buf)]
    BY <1>2 DEF Synced, Read, PL!Offer
  <2>. SUFFICES ASSUME NEW p \in PIDs, NEW k \in DOMAIN offered'[p]
                PROVE  \E i \in 1 .. p_cnt + 1 :
                         file.packets[i] = offered'[p][k]
                           /\ file.packets[i].pid = p
    BY <2>1 DEF OfferedOfFile
  <2>2. \A i \in 1 .. p_cnt : i \in 1 .. p_cnt + 1
    BY <1>1
  <2>3. CASE k \in DOMAIN offered[p] /\ offered'[p][k] = offered[p][k]
    BY <2>2, <2>3 DEF OfferedOfFile
  <2>4. CASE p = buf.pid /\ offered'[p][k] = buf
    <3>1. p_cnt + 1 \in 1 .. p_cnt + 1
      BY <1>1
    <3>. QED
      BY <2>4, <3>1 DEF buf
  <2>5. \/ k \in DOMAIN offered[p] /\ offered'[p][k] = offered[p][k]
        \/ p = buf.pid /\ offered'[p][k] = buf
    <3>1. CASE p # buf.pid
      BY <1>1, <2>1, <3>1
    <3>2. CASE p = buf.pid
      <4>1. offered'[p] = Append(offered[p], buf)
        BY <1>1, <2>1, <3>2
      <4>2. offered[p] \in Seq(PLP!Packet)
        BY <1>1
      <4>3. k = Len(offered[p]) + 1 \/ k \in DOMAIN offered[p]
        BY <4>1, <4>2, AppendedEntry
      <4>. QED
        BY <3>2, <4>1, <4>2, <4>3, AppendedEntry
    <3>. QED
      BY <3>1, <3>2
  <2>. QED
    BY <2>3, <2>4, <2>5
<1>3. ASSUME UNCHANGED <<file, offered>>, p_cnt' \in {p_cnt, p_cnt + 1}
      PROVE  OfferedOfFile'
  <2>1. \A i \in 1 .. p_cnt : i \in 1 .. p_cnt'
    BY <1>1, <1>3
  <2>. QED
    BY <1>3, <2>1 DEF OfferedOfFile
<1>4. CASE Finish
  BY <1>4 DEF Finish, PL!free_packet_list_all, OfferedOfFile
<1>. QED
  BY <1>2, <1>3, <1>4 DEF Next, Open, HashOnly, SyncError, NotCollected,
       Collected, PatComplete, TotComplete, TotDisabled, DecoderCrash,
       Synced, Read, PrintReport, Crash, vars, input, sections

(* What the program knows of the PAT and of the packets collected.         *)
LEMMA AlwaysOfFile == Spec => [](PatRead /\ OfferedOfFile)
<1>1. Init => PatRead /\ OfferedOfFile
  <2>. SUFFICES ASSUME Init PROVE PatRead /\ OfferedOfFile
    OBVIOUS
  <2>1. packet_list[PAT_PID].enable = 1
    BY PIDsAssumption DEF Init, PL!Init, PL!ZeroElement, PL!PAT_PID, PAT_PID
  <2>2. \A p \in PIDs : offered[p] = <<>>
    BY DEF Init, PL!Init
  <2>. QED
    BY <2>1, <2>2 DEF Init, PatRead, OfferedOfFile
<1>. QED
  BY <1>1, PatReadStep, OfferedStep, AlwaysInside, ReassemblerFacts, PTL DEF Spec

-----------------------------------------------------------------------------
(* The abstract specification.                                             *)

(* In a clean file no decoder leaves its block.                            *)
LEMMA CrashNotClean ==
  ASSUME Inside, Handed', PLP!StartDecoded', OfferedOfFile', DecoderCrash
  PROVE  ~A!Clean(file.packets)
<1>. SUFFICES ASSUME A!Clean(file.packets) PROVE FALSE
  OBVIOUS
<1>1. PICK crc \in Bit : PL!Offer(buf, crc)
  BY DEF DecoderCrash
<1>2. section'.ok /\ ReadsOutside /\ p_cnt' = p_cnt + 1 /\ file' = file
        /\ p_cnt < packet_count
  BY DEF DecoderCrash, Synced, Read
<1>3. section'.pid = buf.pid /\ buf.pid \in {PAT_PID, TOT_PID}
  BY <1>1, <1>2 DEF PL!Offer, PL!NoSection, ReadsOutside
<1>4. buf.pid \in PIDs
  BY <1>3, PIDsAssumption
<1>5. PICK j \in DOMAIN offered'[buf.pid] :
        LET start == offered'[buf.pid][j]
        IN /\ start.pusi = 1
           /\ packet_list'[buf.pid].cap =
                start.sec.section_length + 3 + PLP!Slack
           /\ PLP!Useful(start) => section'.payload[1] = start
  BY <1>2, <1>3 DEF PLP!StartDecoded
<1>6. PICK i \in 1 .. p_cnt + 1 :
        file.packets[i] = offered'[buf.pid][j] /\ file.packets[i].pid = buf.pid
  BY <1>2, <1>4 DEF OfferedOfFile
<1>. DEFINE start == file.packets[i]
            n == start.sec.section_length
<1>7. i \in 1 .. Len(file.packets) /\ start \in Packet
  <2>1. file.packets \in Seq(Packet) /\ p_cnt \in Nat
    BY TSAnalyticsAssumption DEF Inside, File, packet_count
  <2>. QED
    BY <1>2, <2>1 DEF packet_count
<1>. HIDE DEF start
<1>8. A!CleanStart(start)
  BY <1>3, <1>5, <1>6, <1>7 DEF A!Clean, start, A!PAT_PID, A!TOT_PID, PAT_PID,
    TOT_PID
<1>9. PLP!Useful(start)
  <2>1. PLP!payload_start_pos(start) = 5
    BY <1>8 DEF A!CleanStart, PLP!payload_start_pos
  <2>. QED
    BY <2>1 DEF PLP!Useful, PLP!BadCopySize, PLP!copy_size, PLP!PacketSize
<1>10. Decoded = start.sec /\ packet_list'[buf.pid].cap = n + 3 + 188
  BY <1>5, <1>6, <1>9 DEF Decoded, start, PLP!Slack, PLP!PacketSize
<1>11. n \in Nat /\ n >= 9
  BY <1>7, <1>8, AnnouncedLength DEF A!CleanStart
<1>. HIDE DEF n
<1>12. ~(n + 3 > n + 3 + 188) /\ n # 0
  BY <1>11
<1>13. ~(4 * num_of_pids(n) > n)
  BY <1>11 DEF num_of_pids
<1>. QED
  BY <1>2, <1>10, <1>12, <1>13 DEF ReadsOutside, LoopOutside, n

(* Without a PAT at the end of a stream, the file has none to read.        *)
LEMMA NoPatNotClean ==
  ASSUME Inside, PatRead, Crash
  PROVE  ~A!Clean(file.packets)
BY DEF PatRead, Crash, AtEnd, packet_count, A!Clean, ReadablePat, A!PAT_PID,
  PAT_PID

(* The checker's totals are those of Analysis.                             *)
LEMMA TotalsAreOfFile ==
  ASSUME DC!CountsExact, NEW p \in PIDs, NEW packets,
         seen[p] = A!Stream(packets, p)
  PROVE  [drop       |-> ts_drop_count[p].drop,
          error      |-> ts_drop_count[p].error,
          scrambling |-> ts_drop_count[p].scrambling] = A!Total(packets, p)
<1>. DEFINE s == seen[p]
<1>0. \A S : DC!Cardinality(S) = A!Cardinality(S)
  BY DEF DC!Cardinality, A!Cardinality
<1>1. /\ \A b : DC!Discontinuity(b) = A!Discontinuity(b)
      /\ \A b : DC!HasPayload(b) <=> A!HasPayload(b)
      /\ \A cc : DC!NextCounter(cc) = A!NextCounter(cc)
      /\ DC!NULL_PID = A!NULL_PID
  BY DEF DC!NextCounter, A!NextCounter, DC!HasPayload, A!HasPayload,
    DC!Discontinuity, A!Discontinuity, DC!extract_adaptation_field,
    A!extract_adaptation_field, DC!Overruns, A!Overruns, DC!BasicBytes,
    A!BasicBytes, DC!NULL_PID, A!NULL_PID
<1>2. ASSUME NEW i PROVE DC!Gap(s, i) <=> A!Gap(s, i)
  <2>1. DC!Copies(s, i) = A!Copies(s, i)
    BY DEF DC!Copies, A!Copies
  <2>2. /\ DC!Discontinuity(s[i]) = A!Discontinuity(s[i])
        /\ DC!HasPayload(s[i]) <=> A!HasPayload(s[i])
        /\ DC!NextCounter(s[i - 1].cc) = A!NextCounter(s[i - 1].cc)
        /\ DC!Copies(s, i) = A!Copies(s, i)
        /\ DC!NULL_PID = A!NULL_PID
        /\ DC!Cardinality(DC!Copies(s, i)) = A!Cardinality(A!Copies(s, i))
    BY <1>0, <1>1, <2>1
  <2>. HIDE DEF s
  <2>. QED
    BY <2>2, Zenon DEF DC!Gap, A!Gap
<1>3. /\ DC!Gaps(s) = A!Gaps(s)
      /\ DC!Errors(s) = A!Errors(s) /\ DC!Scrambled(s) = A!Scrambled(s)
  BY <1>2 DEF DC!Gaps, A!Gaps, DC!Errors, A!Errors, DC!Scrambled, A!Scrambled
<1>4. /\ ts_drop_count[p].drop = A!Cardinality(A!Gaps(s))
      /\ ts_drop_count[p].error = A!Cardinality(A!Errors(s))
      /\ ts_drop_count[p].scrambling = A!Cardinality(A!Scrambled(s))
  BY <1>0, <1>3 DEF DC!CountsExact
<1>. HIDE DEF s
<1>5. s = A!Stream(packets, p)
  BY DEF s
<1>. QED
  BY <1>4, <1>5 DEF A!Total

(* What is printed is what a reader of the whole file would report.        *)
LEMMA ReportIsOfFile ==
  ASSUME Inside, PatRead, HashCoversFile, RunCounted, Judged, DC!CountsExact,
         PrintReport
  PROVE  Outcome' = A!Report
<1>1. /\ pc = "print" /\ pc' = "done" /\ p_cnt = Len(file.packets)
      /\ file.packets \in Seq(Packet)
      /\ digest' = digest /\ sync_error' = sync_error
      /\ ts_drop_count' = ts_drop_count
      /\ reported'.TSInfo = IF this_is_not_TS = 0 THEN TSInfo ELSE NoInfo
  BY TSAnalyticsAssumption DEF Inside, File, PrintReport, PatRead, AtEnd,
    packet_count, sync, counts
<1>2. digest = A!Hashed
  BY <1>1 DEF HashCoversFile
<1>3. TSInfo # NoInfo
  BY DEF TSInfo, NoInfo
<1>4. this_is_not_TS = 0 <=> A!IsTS(file.packets)
  BY <1>1 DEF RunCounted, A!IsTS
<1>. DEFINE counted ==
       [sync_error |-> sync_error,
        drop_pid   |-> [p \in PIDs |->
          [drop       |-> ts_drop_count[p].drop,
           error      |-> ts_drop_count[p].error,
           scrambling |-> ts_drop_count[p].scrambling]]]
            told ==
       [sync_error |-> A!Cardinality(A!SyncErrors(file.packets)),
        drop_pid   |-> [p \in PIDs |-> A!Total(file.packets, p)]]
<1>5. Outcome' = [is |-> "reported", hashed |-> digest,
                  TSInfo |-> IF this_is_not_TS = 0 THEN counted
                                                   ELSE [none |-> TRUE]]
  BY <1>1, <1>3 DEF Outcome
<1>6. ASSUME this_is_not_TS = 0 PROVE counted = told
  <2>1. JudgedUpTo(p_cnt)
    BY <1>6 DEF Judged, JudgedUpTo
  <2>2. SubSeq(file.packets, 1, p_cnt) = file.packets
    BY <1>1
  <2>3. \A p \in PIDs : seen[p] = A!Stream(file.packets, p)
    BY <2>1, <2>2 DEF JudgedUpTo
  <2>4. sync_error = A!Cardinality(A!SyncErrors(file.packets))
    <3>1. \A S : A!Cardinality(S) = Cardinality(S)
      BY DEF A!Cardinality, Cardinality
    <3>. QED
      BY <2>1, <2>2, <3>1 DEF JudgedUpTo
  <2>5. \A p \in PIDs :
          [drop       |-> ts_drop_count[p].drop,
           error      |-> ts_drop_count[p].error,
           scrambling |-> ts_drop_count[p].scrambling]
            = A!Total(file.packets, p)
    BY <2>3, TotalsAreOfFile
  <2>. QED
    BY <2>4, <2>5
<1>7. A!Report = [is |-> "reported", hashed |-> A!Hashed,
                  TSInfo |-> IF A!IsTS(file.packets) THEN told
                                                     ELSE [none |-> TRUE]]
  BY DEF A!Report
<1>. HIDE DEF counted, told
<1>. QED
  BY <1>2, <1>4, <1>5, <1>6, <1>7

(* Each step of the program is one that Analysis allows, or nobody outside *)
(* sees it.                                                                *)
LEMMA AnalysisStep ==
  ASSUME Inside, Handed', PLP!StartDecoded', OfferedOfFile', PatRead,
         HashCoversFile, RunCounted, Judged, DC!CountsExact, [Next]_vars
  PROVE  [A!Next]_<<file, Outcome>>
<1>. DEFINE running == [is |-> "running"]
<1>1. pc \in {"open", "loop", "print"} => Outcome = running
  BY DEF Outcome
<1>2. pc' \in {"open", "loop", "print"} => Outcome' = running
  BY DEF Outcome
<1>3. pc' = "failed" => Outcome' = [is |-> "failed"]
  BY DEF Outcome
<1>4. pc' = "crashed" => Outcome' = [is |-> "crashed"]
  BY DEF Outcome
<1>5. CASE Open
  BY <1>1, <1>2, <1>3, <1>5 DEF Open, A!Next
<1>6. CASE DecoderCrash
  <2>1. ~A!Clean(file.packets)
    BY <1>6, CrashNotClean
  <2>2. pc = "loop" /\ pc' = "crashed" /\ file' = file
    BY <1>6 DEF DecoderCrash, Synced, Read
  <2>. QED
    BY <1>1, <1>4, <2>1, <2>2 DEF A!Next
<1>7. CASE Crash
  <2>1. ~A!Clean(file.packets)
    BY <1>7, NoPatNotClean
  <2>2. pc = "print" /\ pc' = "crashed" /\ file' = file
    BY <1>7 DEF Crash
  <2>. QED
    BY <1>1, <1>4, <2>1, <2>2 DEF A!Next
<1>8. CASE PrintReport
  <2>1. Outcome' = A!Report
    BY <1>8, ReportIsOfFile
  <2>2. pc = "print" /\ file' = file
    BY <1>8 DEF PrintReport
  <2>. QED
    BY <1>1, <2>1, <2>2 DEF A!Next
<1>9. CASE /\ pc = "loop" /\ pc' \in {"loop", "print"} /\ file' = file
  BY <1>1, <1>2, <1>9
<1>10. CASE UNCHANGED vars
  BY <1>10 DEF vars, input, sync, counts, Outcome
<1>. QED
  BY <1>5, <1>6, <1>7, <1>8, <1>9, <1>10 DEF Next, HashOnly, SyncError,
       NotCollected, Collected, PatComplete, TotComplete, TotDisabled, Synced,
       Read, Finish

(***************************************************************************)
(* Whatever the files, the limit and the division of the file are: the     *)
(* program reports what Analysis says of the file, fails to open it, or    *)
(* crashes over one that is not clean, and does nothing else.              *)
(***************************************************************************)
THEOREM KeepsToAnalysis == Spec => ImplementsAnalysis
<1>1. Init => A!Init
  BY DEF Init, A!Init, Outcome
<1>2. Spec => []PLP!StartDecoded
  <2>1. PLP!Spec => []PLP!StartDecoded
    BY SamePIDs, PLP!DecodesStart
  <2>. QED
    BY <2>1, SameSpec, UsesReassembler, PTL
<1>3. Inside /\ Handed' /\ PLP!StartDecoded' /\ OfferedOfFile' /\ PatRead
        /\ HashCoversFile /\ RunCounted /\ Judged /\ DC!CountsExact
        /\ [Next]_vars
      => [A!Next]_<<file, Outcome>>
  BY AnalysisStep
<1>. QED
  BY <1>1, <1>2, <1>3, AlwaysInside, ReassemblerFacts, AlwaysOfFile,
    HashesCoverFile, AlwaysJudged, CountsExactInProgram, PTL
    DEF Spec, ImplementsAnalysis, A!Safety

-----------------------------------------------------------------------------
(* The three breakdowns.                                                   *)

TLP == INSTANCE DropListProofs WITH
  Keys <- Contents \cup {Unknown}, drop_list <- drop_list_tot,
  added <- Keyed(TotAt)

QLP == INSTANCE DropListProofs WITH
  Keys <- 0 .. Percent - 1, drop_list <- drop_list_per,
  added <- Keyed(PercentAt)

(* DropListProofs speaks of instances of its own of DropList.              *)
LEMMA SameTotList == TotList!Spec <=> TLP!Spec
<1>1. TotList!Init <=> TLP!Init
  BY DEF TotList!Init, TLP!Init
<1>2. [TotList!Next]_(TotList!vars) <=> [TLP!Next]_(TLP!vars)
  BY DEF TotList!Next, TLP!Next, TotList!vars, TLP!vars, TotList!Add, TLP!Add,
    TotList!Verdict, TLP!Verdict, TotList!add_drop_list, TLP!add_drop_list,
    TotList!Slot, TLP!Slot, TotList!Matches, TLP!Matches, TotList!Extended,
    TLP!Extended, TotList!NewNode, TLP!NewNode, TotList!CountIn, TLP!CountIn,
    TotList!Counted, TLP!Counted
<1>. QED
  BY <1>1, <1>2, PTL DEF TotList!Spec, TLP!Spec

(* The same for the list of the percentages.                               *)
LEMMA SamePerList == PerList!Spec <=> QLP!Spec
<1>1. PerList!Init <=> QLP!Init
  BY DEF PerList!Init, QLP!Init
<1>2. [PerList!Next]_(PerList!vars) <=> [QLP!Next]_(QLP!vars)
  BY DEF PerList!Next, QLP!Next, PerList!vars, QLP!vars, PerList!Add, QLP!Add,
    PerList!Verdict, QLP!Verdict, PerList!add_drop_list, QLP!add_drop_list,
    PerList!Slot, QLP!Slot, PerList!Matches, QLP!Matches, PerList!Extended,
    QLP!Extended, PerList!NewNode, QLP!NewNode, PerList!CountIn, QLP!CountIn,
    PerList!Counted, QLP!Counted
<1>. QED
  BY <1>1, <1>2, PTL DEF PerList!Spec, QLP!Spec

(* What is proved of the drop lists holds of those of the program.         *)
ListFacts == TLP!TypeOK /\ QLP!TypeOK /\ TLP!TotalsKept /\ QLP!TotalsKept

(* The lists of the program are lists of DropList.                         *)
LEMMA AlwaysListFacts == Spec => []ListFacts
<1>1. MAX_COUNT \in Nat /\ LIST_LIMIT \in Nat \ {0}
  BY TSAnalyticsAssumption
<1>2. TLP!Spec => []TLP!TypeOK
  BY <1>1, TLP!TypeCorrect
<1>3. TLP!Spec => []TLP!TotalsKept
  BY <1>1, TLP!KeepsTotals
<1>4. QLP!Spec => []QLP!TypeOK
  BY <1>1, QLP!TypeCorrect
<1>5. QLP!Spec => []QLP!TotalsKept
  BY <1>1, QLP!KeepsTotals
<1>. QED
  BY <1>2, <1>3, <1>4, <1>5, SameTotList, SamePerList, ImplementsTotList,
    ImplementsPercentList, PTL DEF ListFacts, TotListSpec, PercentListSpec

(* The sums of the instances are those of the program.                     *)
LEMMA SameSums ==
  /\ \A S, f, flag : /\ TLP!Units(S, f, flag) = Units(S, f, flag)
                     /\ TLP!SumOver(S, f, flag) = SumOver(S, f, flag)
                     /\ QLP!SumOver(S, f, flag) = SumOver(S, f, flag)
  /\ \A S : /\ TLP!IsFiniteSet(S) <=> IsFiniteSet(S)
            /\ TLP!Cardinality(S) = Cardinality(S)
            /\ QLP!Cardinality(S) = Cardinality(S)
BY DEF TLP!SumOver, QLP!SumOver, SumOver, TLP!Units, QLP!Units, Units,
  TLP!Cardinality, QLP!Cardinality, Cardinality, TLP!IsFiniteSet, IsFiniteSet

(* The packets that went to the lists with a flag.                         *)
AbnormalHits(flag) == {i \in DOMAIN abnormal : abnormal[i].now[flag] = 1}

(* The counters of the PIDs have counted what went to the lists.           *)
PidTotals ==
  \A flag \in TotList!Flags :
    /\ IsFiniteSet(Units(PIDs, ts_drop_count, flag))
    /\ SumOver(PIDs, ts_drop_count, flag) = Cardinality(AbnormalHits(flag))

(* One verdict more.                                                       *)
LEMMA AbnormalHitsGrow ==
  ASSUME Behind, NEW flag \in TotList!Flags, NEW entry,
         entry.now \in Verdicts, abnormal' = Append(abnormal, entry)
  PROVE  /\ Cardinality(AbnormalHits(flag)) \in Nat
         /\ Cardinality(AbnormalHits(flag)')
              = Cardinality(AbnormalHits(flag)) + entry.now[flag]
<1>. DEFINE n == Len(abnormal)
            H == AbnormalHits(flag)
<1>1. /\ n \in Nat /\ DOMAIN abnormal = 1 .. n /\ DOMAIN abnormal' = 1 .. n + 1
      /\ abnormal'[n + 1] = entry
      /\ \A i \in 1 .. n : abnormal'[i] = abnormal[i]
  <2>1. abnormal \in Seq([pos : Nat, now : Verdicts])
    BY DEF Behind
  <2>. QED
    BY <2>1
<1>2. entry.now[flag] \in {0, 1}
  BY DEF Verdicts, TotList!Verdict, TotList!Flags
<1>. HIDE DEF n
<1>3. H \in SUBSET (1 .. n) /\ n + 1 \notin H
  BY <1>1 DEF AbnormalHits
<1>4. AbnormalHits(flag)' = IF entry.now[flag] = 1 THEN H \cup {n + 1} ELSE H
  <2>1. \A i : i \in 1 .. n + 1 <=> i \in 1 .. n \/ i = n + 1
    BY <1>1
  <2>2. \A i \in 1 .. n : i # n + 1
    BY <1>1
  <2>. QED
    BY <1>1, <2>1, <2>2 DEF AbnormalHits
<1>5. IsFiniteSet(H)
  <2>1. IsFiniteSet(1 .. n)
    BY <1>1, FS_Interval
  <2>. QED
    BY <1>3, <2>1, FS_Subset
<1>. HIDE DEF H
<1>6. /\ Cardinality(H) \in Nat
      /\ Cardinality(H \cup {n + 1}) = Cardinality(H) + 1
  BY <1>3, <1>5, FS_CardinalityType, FS_AddElement
<1>. QED
  BY <1>2, <1>4, <1>6 DEF H

(* The verdict on a packet is counted for its PID.                         *)
LEMMA VerdictIsCounted ==
  ASSUME DCP!TypeOK, DCP!TypeOK', buf.pid \in PIDs, DC!Count(buf),
         NEW flag \in TotList!Flags
  PROVE  LET now == Now(ts_drop_count'[buf.pid])
         IN /\ now \in Verdicts
            /\ ts_drop_count[buf.pid][flag] \in Nat
            /\ ts_drop_count'[buf.pid][flag]
                 = ts_drop_count[buf.pid][flag] + now[flag]
            /\ \A p \in PIDs : p # buf.pid =>
                 ts_drop_count'[p][flag] = ts_drop_count[p][flag]
            /\ ~DC!Abnormal(ts_drop_count'[buf.pid]) => now[flag] = 0
<1>. DEFINE e == ts_drop_count[buf.pid]
            f == ts_drop_count'[buf.pid]
<1>1. e \in DCP!TS_DROP_COUNT /\ f \in DCP!TS_DROP_COUNT
  BY DEF DCP!TypeOK
<1>2. f = DC!drop_check_and_count(DC!CountedByCaller(e), buf)
  BY DEF DC!Count, DCP!TypeOK
<1>3. \A p \in PIDs : p # buf.pid => ts_drop_count'[p] = ts_drop_count[p]
  BY DEF DC!Count, DCP!TypeOK
<1>. HIDE DEF e, f
<1>4. /\ f.drop = e.drop + f.now_drop
      /\ f.error = e.error + f.now_error
      /\ f.scrambling = e.scrambling + f.now_scrambling
  <2>. DEFINE c == DC!CountedByCaller(e)
  <2>1. c.drop = e.drop /\ c.error = e.error /\ c.scrambling = e.scrambling
    BY <1>1 DEF DC!CountedByCaller, DCP!TS_DROP_COUNT
  <2>. HIDE DEF c
  <2>2. /\ f.drop = c.drop + f.now_drop
        /\ f.error = c.error + f.now_error
        /\ f.scrambling = c.scrambling + f.now_scrambling
    BY <1>2 DEF DC!drop_check_and_count, c
  <2>. QED
    BY <2>1, <2>2
<1>5. /\ f.now_drop \in {0, 1} /\ f.now_error \in {0, 1}
      /\ f.now_scrambling \in {0, 1}
      /\ e.drop \in Nat /\ e.error \in Nat /\ e.scrambling \in Nat
  BY <1>1 DEF DCP!TS_DROP_COUNT, DCP!Bit
<1>6. ~DC!Abnormal(f) => f.now_drop = 0 /\ f.now_error = 0 /\ f.now_scrambling = 0
  BY <1>5 DEF DC!Abnormal
<1>. DEFINE now == Now(f)
<1>7. now \in Verdicts
  BY <1>5 DEF Now, Verdicts, TotList!Verdict
<1>8. /\ now["drop"] = f.now_drop /\ now["error"] = f.now_error
      /\ now["scrambling"] = f.now_scrambling
  BY DEF Now
<1>. HIDE DEF now
<1>9. /\ e[flag] \in Nat
      /\ f[flag] = e[flag] + now[flag]
      /\ ~DC!Abnormal(f) => now[flag] = 0
  <2>1. CASE flag = "drop"
    BY <1>4, <1>5, <1>6, <1>8, <2>1
  <2>2. CASE flag = "error"
    BY <1>4, <1>5, <1>6, <1>8, <2>2
  <2>3. CASE flag = "scrambling"
    BY <1>4, <1>5, <1>6, <1>8, <2>3
  <2>. QED
    BY <2>1, <2>2, <2>3 DEF TotList!Flags
<1>. QED
  BY <1>3, <1>7, <1>9 DEF e, f, now

(* Each pass of the loop counts a packet for its PID as the lists do.      *)
LEMMA PidTotalsStep ==
  ASSUME Inside, Behind, DCP!TypeOK, DCP!TypeOK', PidTotals, [Next]_vars
  PROVE  PidTotals'
<1>1. ASSUME p_cnt < packet_count, CountDrops PROVE PidTotals'
  <2>. SUFFICES ASSUME NEW flag \in TotList!Flags
                PROVE  /\ IsFiniteSet(Units(PIDs, ts_drop_count', flag))
                       /\ SumOver(PIDs, ts_drop_count', flag)
                            = Cardinality(AbnormalHits(flag)')
    BY DEF PidTotals
  <2>. DEFINE e == ts_drop_count'[buf.pid]
              now == Now(e)
              entry == [pos |-> p_cnt, now |-> now]
  <2>1. buf.pid \in PIDs /\ DC!Count(buf)
    BY <1>1, ReadsAPacket DEF Packet, CountDrops
  <2>2. /\ now \in Verdicts
        /\ ts_drop_count[buf.pid][flag] \in Nat
        /\ ts_drop_count'[buf.pid][flag]
             = ts_drop_count[buf.pid][flag] + now[flag]
        /\ \A p \in PIDs : p # buf.pid =>
             ts_drop_count'[p][flag] = ts_drop_count[p][flag]
        /\ ~DC!Abnormal(e) => now[flag] = 0
    BY <2>1, VerdictIsCounted
  <2>3. abnormal' = IF DC!Abnormal(e) THEN Append(abnormal, entry) ELSE abnormal
    BY <1>1 DEF CountDrops, lists, Now
  <2>4. entry.now = now
    OBVIOUS
  <2>5. now[flag] \in {0, 1}
    BY <2>2 DEF Verdicts, TotList!Verdict, TotList!Flags
  <2>. HIDE DEF now, entry, e
  <2>6. /\ Cardinality(AbnormalHits(flag)') = Cardinality(AbnormalHits(flag)) + now[flag]
    <3>1. CASE DC!Abnormal(e)
      BY <2>2, <2>3, <2>4, <3>1, AbnormalHitsGrow
    <3>2. CASE ~DC!Abnormal(e)
      <4>1. Cardinality(AbnormalHits(flag)) \in Nat
        <5>1. [pos |-> p_cnt, now |-> now].now \in Verdicts
          BY <2>2
        <5>2. abnormal \in Seq([pos : Nat, now : Verdicts])
          BY DEF Behind
        <5>3. AbnormalHits(flag) \in SUBSET (1 .. Len(abnormal))
          BY <5>2 DEF AbnormalHits
        <5>4. IsFiniteSet(1 .. Len(abnormal))
          BY <5>2, FS_Interval
        <5>. QED
          BY <5>3, <5>4, FS_Subset, FS_CardinalityType
      <4>2. AbnormalHits(flag)' = AbnormalHits(flag) /\ now[flag] = 0
        BY <2>2, <2>3, <3>2 DEF AbnormalHits
      <4>. QED
        BY <4>1, <4>2
    <3>. QED
      BY <3>1, <3>2
  <2>. DEFINE f == ts_drop_count
              g == ts_drop_count'
              x == buf.pid
              d == now[flag]
  <2>7. /\ IsFiniteSet(Units(PIDs, f, flag))
        /\ SumOver(PIDs, f, flag) = Cardinality(AbnormalHits(flag))
    BY DEF PidTotals
  <2>8. TLP!CountsOn(PIDs, f, g, flag, x, d)
    BY <2>1, <2>2 DEF TLP!CountsOn
  <2>9. PIDs \cup {x} = PIDs
    BY <2>1
  <2>. HIDE DEF f, g, x, d
  <2>10. TLP!Grown(PIDs, f, g, flag, x, d)
    <3>1. d \in {0, 1}
      BY <2>5 DEF d
    <3>2. TLP!IsFiniteSet(TLP!Units(PIDs, f, flag))
      BY <2>7, SameSums
    <3>3. MAX_COUNT \in Nat /\ LIST_LIMIT \in Nat \ {0}
      BY TSAnalyticsAssumption
    <3>4. TLP!Grows(PIDs, f, g, flag, x, d)
      BY <2>8, <3>1, <3>2 DEF TLP!Grows
    <3>. QED
      BY <3>3, <3>4, TLP!SumHasGrown
  <2>11. /\ IsFiniteSet(Units(PIDs, g, flag))
         /\ SumOver(PIDs, g, flag) = SumOver(PIDs, f, flag) + d
    BY <2>9, <2>10, SameSums DEF TLP!Grown
  <2>. QED
    BY <2>6, <2>7, <2>11 DEF f, g, d
<1>2. CASE UNCHANGED <<ts_drop_count, abnormal>>
  BY <1>2 DEF PidTotals, AbnormalHits
<1>3. CASE Finish
  <2>. SUFFICES ASSUME NEW flag \in TotList!Flags
                PROVE  Units(PIDs, ts_drop_count', flag)
                         = Units(PIDs, ts_drop_count, flag)
    BY <1>3 DEF Finish, lists, PidTotals, AbnormalHits, SumOver
  <2>1. \A p \in PIDs : ts_drop_count'[p][flag] = ts_drop_count[p][flag]
    <3>. SUFFICES ASSUME NEW p \in PIDs
                  PROVE  ts_drop_count'[p][flag] = ts_drop_count[p][flag]
      OBVIOUS
    <3>1. ts_drop_count'[p] =
            [ts_drop_count[p] EXCEPT !.last = DC!Flag(p = DC!LastPid)]
      BY <1>3 DEF Finish, DC!mark_last_drop_count
    <3>. QED
      BY <3>1 DEF TotList!Flags, DCP!TypeOK, DCP!TS_DROP_COUNT
  <2>. QED
    BY <2>1 DEF Units
<1>. QED
  BY <1>1, <1>2, <1>3 DEF Next, Open, HashOnly, SyncError, NotCollected,
       Collected, PatComplete, TotComplete, TotDisabled, DecoderCrash, Synced,
       Read, PrintReport, Crash, vars, counts, lists

(* The calls of a list have the verdicts of the history.                   *)
LEMMA HitsOfKeyed ==
  ASSUME Behind, NEW flag
  PROVE  /\ Len(Keyed(TotAt)) = Len(abnormal)
         /\ Len(Keyed(PercentAt)) = Len(abnormal)
         /\ TLP!FlagHits(flag) = AbnormalHits(flag)
         /\ QLP!FlagHits(flag) = AbnormalHits(flag)
<1>1. abnormal \in Seq([pos : Nat, now : Verdicts])
  BY DEF Behind
<1>2. DOMAIN abnormal = 1 .. Len(abnormal) /\ Len(abnormal) \in Nat
  BY <1>1
<1>3. /\ DOMAIN Keyed(TotAt) = 1 .. Len(abnormal)
      /\ \A i \in DOMAIN abnormal : Keyed(TotAt)[i].now = abnormal[i].now
      /\ DOMAIN Keyed(PercentAt) = 1 .. Len(abnormal)
      /\ \A i \in DOMAIN abnormal : Keyed(PercentAt)[i].now = abnormal[i].now
      /\ Len(Keyed(TotAt)) = Len(abnormal)
      /\ Len(Keyed(PercentAt)) = Len(abnormal)
  BY <1>2 DEF Keyed
<1>. QED
  BY <1>2, <1>3 DEF TLP!FlagHits, QLP!FlagHits, AbnormalHits

(***************************************************************************)
(* Whatever the file is, the three breakdowns are of the same packets, as  *)
(* long as there are fewer abnormal packets than a counter can hold.       *)
(***************************************************************************)
THEOREM BreakdownsOfSamePackets == Spec => []BreakdownsAgree
<1>1. Init => PidTotals
  <2>. SUFFICES ASSUME Init, NEW flag \in TotList!Flags
                PROVE  /\ Units(PIDs, ts_drop_count, flag) = {}
                       /\ AbnormalHits(flag) = {}
    BY FS_EmptySet DEF PidTotals, SumOver
  <2>1. \A p \in PIDs : ts_drop_count[p][flag] = 0
    <3>. SUFFICES ASSUME NEW p \in PIDs PROVE ts_drop_count[p][flag] = 0
      OBVIOUS
    <3>1. ts_drop_count[p] = DC!ZeroEntry
      BY DEF Init, DC!Init
    <3>2. CASE flag = "drop"
      BY <3>1, <3>2 DEF DC!ZeroEntry
    <3>3. CASE flag = "error"
      BY <3>1, <3>3 DEF DC!ZeroEntry
    <3>4. CASE flag = "scrambling"
      BY <3>1, <3>4 DEF DC!ZeroEntry
    <3>. QED
      BY <3>2, <3>3, <3>4 DEF TotList!Flags
  <2>2. Units(PIDs, ts_drop_count, flag) = {}
    BY <2>1 DEF Units
  <2>. QED
    BY <2>2 DEF Init, AbnormalHits
<1>2. Spec => []PidTotals
  BY <1>1, PidTotalsStep, AlwaysInside, AlwaysBehind, CheckerTypes, PTL DEF Spec
<1>3. Behind /\ ListFacts /\ PidTotals => BreakdownsAgree
  <2>. SUFFICES ASSUME Behind, ListFacts, PidTotals, Len(abnormal) < MAX_COUNT,
                       NEW flag \in TotList!Flags
                PROVE  /\ SumOver(PIDs, ts_drop_count, flag)
                            = SumOver(DOMAIN drop_list_tot, drop_list_tot, flag)
                       /\ SumOver(PIDs, ts_drop_count, flag)
                            = SumOver(DOMAIN drop_list_per, drop_list_per, flag)
    BY DEF BreakdownsAgree
  <2>1. flag \in TLP!Flags /\ flag \in QLP!Flags
    BY DEF TotList!Flags, TLP!Flags, QLP!Flags
  <2>2. /\ TLP!SumOver(DOMAIN drop_list_tot, drop_list_tot, flag)
             = TLP!Cardinality(TLP!FlagHits(flag))
        /\ QLP!SumOver(DOMAIN drop_list_per, drop_list_per, flag)
             = QLP!Cardinality(QLP!FlagHits(flag))
    BY <2>1, HitsOfKeyed DEF ListFacts, TLP!TotalsKept, QLP!TotalsKept
  <2>3. SumOver(PIDs, ts_drop_count, flag) = Cardinality(AbnormalHits(flag))
    BY DEF PidTotals
  <2>. QED
    BY <2>2, <2>3, HitsOfKeyed, SameSums
<1>. QED
  BY <1>2, <1>3, AlwaysBehind, AlwaysListFacts, PTL

-----------------------------------------------------------------------------
(* The types.                                                              *)

FileTail == [tail : 1 .. PacketSize - 1]

(* What no other invariant says of the variables.                          *)
Typed ==
  /\ pc \in {"open", "loop", "print", "done", "failed", "crashed"}
  /\ digest \in Seq(Packet \cup FileTail)
  /\ sync_error \in Nat /\ sync_err_repeat \in Nat /\ this_is_not_TS \in Bit
  /\ pat \in TS_PAT \cup {NoPat}
  /\ reported.printed \in BOOLEAN

(* The number of programs is one of 16 bits, also for a section shorter    *)
(* than its header, where it wraps; if the programs are within the section *)
(* they are no more than the longest section holds.                        *)
LEMMA ProgramsNumber ==
  ASSUME NEW n \in Int, 0 <= n, n <= 4095
  PROVE  /\ num_of_pids(n) \in Int
         /\ 0 <= num_of_pids(n) /\ num_of_pids(n) <= 65535
         /\ 4 * num_of_pids(n) <= n => num_of_pids(n) <= 1021
<1>1. 2^16 = 65536
  OBVIOUS
<1>2. CASE n >= 9
  <2>1. num_of_pids(n) = (n - 9) \div 4
    BY <1>2 DEF num_of_pids
  <2>. QED
    BY <1>2, <2>1
<1>3. CASE n < 9
  <2>1. num_of_pids(n) = (65536 - (9 - n) \div 4) % 65536
    <3>1. -(n - 9) = 9 - n /\ ~(n - 9 >= 0)
      BY <1>3
    <3>. QED
      BY <1>1, <3>1 DEF num_of_pids
  <2>2. (9 - n) \div 4 \in {0, 1, 2}
    BY <1>3
  <2>3. num_of_pids(n) \in {0, 65535, 65534}
    BY <2>1, <2>2
  <2>. QED
    BY <1>3, <2>3
<1>. QED
  BY <1>2, <1>3

(* A list of programs that lies in the section is one the bytes spell.     *)
LEMMA ProgramsRead ==
  ASSUME NEW numbers \in [1 .. MaxPrograms -> UINT16], NEW num \in Int,
         0 <= num, num <= 1021
  PROVE  [i \in 1 .. num |-> numbers[i]] \in Seq(UINT16)
<1>1. MaxPrograms = 1021
  <2>1. (4095 - 9) \div 4 = 1021
    OBVIOUS
  <2>. QED
    BY <2>1 DEF MaxPrograms, SectionLengthMax
<1>2. \A i \in 1 .. num : numbers[i] \in UINT16
  <2>1. \A i \in 1 .. num : i \in 1 .. MaxPrograms
    BY <1>1
  <2>. QED
    BY <2>1
<1>. QED
  BY <1>2

(* An interval whose end is a number that is not written out.              *)
LEMMA Interval ==
  ASSUME NEW n, NEW m \in Nat
  PROVE  n \in 0 .. m <=> n \in Int /\ 0 <= n /\ n <= m
OBVIOUS

(* The decoder of the PAT returns its structure.                           *)
LEMMA PatType ==
  ASSUME NEW sec \in SectionHeader, NEW cap
  PROVE  st_pat(sec, cap) \in TS_PAT
<1>. DEFINE num == num_of_pids(sec.section_length)
            outside == LoopOutside(sec, cap)
            pids == IF outside THEN <<>>
                    ELSE [i \in 1 .. num |-> Loop[sec.content][i]]
<1>1. sec.section_length \in 0 .. SectionLengthMax /\ sec.content \in Contents
  BY DEF SectionHeader
<1>2. /\ sec.section_length \in Int
      /\ 0 <= sec.section_length /\ sec.section_length <= 4095
  <2>1. SectionLengthMax \in Nat /\ SectionLengthMax <= 4095
    BY DEF SectionLengthMax
  <2>2. /\ sec.section_length \in Int /\ 0 <= sec.section_length
        /\ sec.section_length <= SectionLengthMax
    BY <1>1, <2>1, Interval
  <2>. HIDE DEF num, outside
  <2>. QED
    BY <2>1, <2>2
<1>3. /\ num \in Int /\ 0 <= num /\ num <= 65535
      /\ 4 * num <= sec.section_length => num <= 1021
  BY <1>2, ProgramsNumber
<1>4. ~outside => ~(4 * num > sec.section_length)
  BY DEF LoopOutside
<1>5. outside \in BOOLEAN
  BY DEF LoopOutside
<1>. HIDE DEF num, outside
<1>6. ~outside => num <= 1021
  BY <1>2, <1>3, <1>4
<1>7. pids \in Seq(UINT16)
  <2>1. CASE outside
    <3>1. <<>> \in Seq(UINT16)
      OBVIOUS
    <3>. QED
      BY <2>1, <3>1
  <2>2. CASE ~outside
    <3>1. Loop[sec.content] \in [1 .. MaxPrograms -> UINT16]
      BY <1>1, PatAssumption
    <3>2. [i \in 1 .. num |-> Loop[sec.content][i]] \in Seq(UINT16)
      BY <1>3, <1>6, <2>2, <3>1, ProgramsRead
    <3>. QED
      BY <2>2, <3>2
  <2>. QED
    BY <2>1, <2>2
<1>8. num \in UINT16
  <2>1. UINT16_MAX \in Nat /\ num <= UINT16_MAX
    BY <1>3 DEF UINT16_MAX
  <2>. QED
    BY <1>3, <2>1, Interval DEF UINT16
<1>9. st_pat(sec, cap) = [transport_stream_id |-> sec.content,
                          num_of_pids |-> num, outside |-> outside,
                          pids |-> pids]
  BY DEF st_pat, num, outside
<1>. HIDE DEF pids
<1>. QED
  BY <1>1, <1>5, <1>7, <1>8, <1>9 DEF TS_PAT

(* The section given to a decoder has a header.                            *)
LEMMA DecodedHeader ==
  ASSUME Handed', NEW crc \in Bit, PL!Offer(buf, crc), section'.ok
  PROVE  Decoded \in SectionHeader
<1>1. section' \in PLP!Section
  BY DEF Handed, PLP!TypeOK, PLP!NoSection
<1>2. section'.payload \in Seq(PLP!Packet) /\ section'.payload # <<>>
  BY <1>1 DEF Handed, PLP!HandedOver, PLP!Section
<1>3. section'.payload[1] \in PLP!Packet
  BY <1>2
<1>4. PLP!SectionHeader = SectionHeader
  BY DEF PLP!SectionHeader, SectionHeader, PLP!SectionLengthMax,
    SectionLengthMax, PLP!Bit, Bit
<1>. QED
  BY <1>3, <1>4 DEF Decoded, PLP!Packet

(* The packets of the instances are those of the program.                  *)
LEMMA SamePackets == PLP!Packet = PL!Packet /\ DCP!Packet = DC!Packet
<1>1. PLP!Packet = PL!Packet
  BY DEF PLP!Packet, PL!Packet, PLP!SectionHeader, PL!SectionHeader,
    PLP!SectionLengthMax, PL!SectionLengthMax, PLP!AdaptationField,
    PL!AdaptationField, PLP!Bit, PL!Bit
<1>2. DCP!Packet = DC!Packet
  BY DEF DCP!Packet, DC!Packet, DCP!SectionHeader, DC!SectionHeader,
    DCP!SectionLengthMax, DC!SectionLengthMax, DCP!AdaptationField,
    DC!AdaptationField, DCP!Bit, DC!Bit
<1>. QED
  BY <1>1, <1>2

(* Each step leaves the variables in their types.                          *)
LEMMA TypedStep ==
  ASSUME Inside, Handed', Typed, [Next]_vars
  PROVE  Typed'
<1>1. ASSUME NEW next \in {"loop", "crashed"}, Read(next)
      PROVE  /\ pc' \in {"open", "loop", "print", "done", "failed", "crashed"}
             /\ digest' \in Seq(Packet \cup FileTail)
             /\ reported' = reported
  <2>1. buf \in Packet
    BY <1>1, ReadsAPacket DEF Read
  <2>2. digest \in Seq(Packet \cup FileTail) /\ digest' = Append(digest, buf)
    BY <1>1 DEF Typed, Read
  <2>3. digest' \in Seq(Packet \cup FileTail)
    BY <2>1, <2>2, AppendedEntry
  <2>. QED
    BY <1>1, <2>3 DEF Read
<1>2. ASSUME NEW next \in {"loop", "crashed"}, Synced(next),
             pat' \in TS_PAT \cup {NoPat}
      PROVE  Typed'
  BY <1>1, <1>2 DEF Synced, Typed, RepeatAfterSync
<1>3. CASE PatComplete
  <2>1. PICK crc \in Bit : PL!Offer(buf, crc)
    BY <1>3 DEF PatComplete
  <2>2. Decoded \in SectionHeader
    BY <1>3, <2>1, DecodedHeader DEF PatComplete
  <2>3. pat' \in TS_PAT
    BY <1>3, <2>2, PatType DEF PatComplete
  <2>. QED
    BY <1>2, <1>3, <2>3 DEF PatComplete
<1>4. CASE NotCollected \/ Collected \/ TotComplete \/ TotDisabled \/ DecoderCrash
  <2>1. pat' = pat
    BY <1>4 DEF NotCollected, Collected, TotComplete, TotDisabled, DecoderCrash
  <2>. QED
    BY <1>2, <1>4, <2>1 DEF NotCollected, Collected, TotComplete, TotDisabled,
      DecoderCrash, Typed
<1>5. CASE HashOnly
  BY <1>1, <1>5 DEF HashOnly, Typed, sync
<1>6. CASE SyncError
  BY <1>1, <1>6 DEF SyncError, Typed, Bit
<1>7. CASE Finish
  <2>1. last_bytes \in 0 .. PacketSize - 1
    BY TSAnalyticsAssumption DEF Inside, File, last_bytes
  <2>2. last_bytes > 0 => [tail |-> last_bytes] \in FileTail
    <3>1. last_bytes > 0 => last_bytes \in 1 .. PacketSize - 1
      BY <2>1 DEF PacketSize
    <3>. QED
      BY <3>1 DEF FileTail
  <2>3. HashTail \in Seq(Packet \cup FileTail)
    <3>1. digest \in Seq(Packet \cup FileTail)
      BY DEF Typed
    <3>2. CASE last_bytes > 0
      <4>1. Append(digest, [tail |-> last_bytes]) \in Seq(Packet \cup FileTail)
        BY <2>2, <3>1, <3>2, AppendedEntry
      <4>. QED
        BY <3>2, <4>1 DEF HashTail
    <3>3. CASE ~(last_bytes > 0)
      BY <3>1, <3>3 DEF HashTail
    <3>. QED
      BY <3>2, <3>3
  <2>. QED
    BY <1>7, <2>3 DEF Finish, Typed, sync
<1>8. CASE Open
  BY <1>8 DEF Open, sync, Typed
<1>9. CASE PrintReport
  <2>1. reported'.printed = TRUE
    BY <1>9 DEF PrintReport
  <2>. QED
    BY <1>9, <2>1 DEF PrintReport, sync, Typed
<1>10. CASE Crash
  BY <1>10 DEF Crash, sync, Typed
<1>11. CASE UNCHANGED vars
  BY <1>11 DEF vars, input, sync, Typed
<1>. QED
  BY <1>3, <1>4, <1>5, <1>6, <1>7, <1>8, <1>9, <1>10, <1>11 DEF Next

(***************************************************************************)
(* The variables of the program have their types, those of the components  *)
(* included; in particular the counters of the drop lists are numbers, and *)
(* the number of programs is a 16-bit number also when it wraps.           *)
(***************************************************************************)
THEOREM TypeCorrect == Spec => []TypeOK
<1>1. Init => Typed
  <2>1. <<>> \in Seq(Packet \cup FileTail)
    OBVIOUS
  <2>. QED
    BY <2>1 DEF Init, Typed, Nothing, Bit
<1>2. Spec => []Typed
  BY <1>1, TypedStep, AlwaysInside, ReassemblerFacts, PTL DEF Spec
<1>3. DCP!TypeOK => DC!TypeOK
  <2>1. DCP!Packet = DC!Packet /\ DCP!NoPacket = DC!NoPacket /\ DCP!Bit = DC!Bit
    BY SamePackets DEF DCP!NoPacket, DC!NoPacket, DCP!Bit, DC!Bit
  <2>2. DCP!TS_DROP_COUNT = DC!TS_DROP_COUNT
    BY <2>1 DEF DCP!TS_DROP_COUNT, DC!TS_DROP_COUNT
  <2>. QED
    BY <2>1, <2>2 DEF DCP!TypeOK, DC!TypeOK
<1>4. PLP!TypeOK => PL!TypeOK
  <2>1. /\ PLP!Packet = PL!Packet /\ PLP!NoSection = PL!NoSection
        /\ PLP!Bit = PL!Bit /\ PLP!UINT16 = PL!UINT16
    BY SamePackets DEF PLP!NoSection, PL!NoSection, PLP!Bit, PL!Bit, PLP!UINT16,
      PL!UINT16, PLP!UINT16_MAX, PL!UINT16_MAX
  <2>2. PLP!PACKET_LIST = PL!PACKET_LIST /\ PLP!Section = PL!Section
    BY <2>1 DEF PLP!PACKET_LIST, PL!PACKET_LIST, PLP!Section, PL!Section
  <2>. QED
    BY <2>1, <2>2 DEF PLP!TypeOK, PL!TypeOK
<1>5. TimesKnown => {current_tot, first_tot, last_tot} \subseteq Contents \cup {Unknown}
  <2>. SUFFICES ASSUME TimesKnown
                PROVE  {current_tot, first_tot, last_tot}
                         \subseteq Contents \cup {Unknown}
    OBVIOUS
  <2>1. CASE tots = <<>>
    BY <2>1 DEF TimesKnown, TimesAreOfTots
  <2>2. CASE tots # <<>>
    <3>. DEFINE Tot == [pos : Nat, time : Contents]
    <3>1. tots \in Seq(Tot) /\ \A y \in Tot : y.time \in Contents
      BY DEF TimesKnown
    <3>. HIDE DEF Tot
    <3>2. tots[1] \in Tot /\ tots[Len(tots)] \in Tot
      BY <2>2, <3>1
    <3>. QED
      BY <2>2, <3>1, <3>2 DEF TimesKnown, TimesAreOfTots
  <2>. QED
    BY <2>1, <2>2
<1>6. ListFacts => /\ drop_list_tot \in Seq(TotList!DROP_LIST)
                   /\ drop_list_per \in Seq(PerList!DROP_LIST)
  BY DEF ListFacts, TLP!TypeOK, QLP!TypeOK, TLP!DROP_LIST, TotList!DROP_LIST,
    QLP!DROP_LIST, PerList!DROP_LIST
<1>7. /\ Inside /\ Typed /\ DCP!TypeOK /\ Handed /\ Behind /\ ListFacts
      => TypeOK
  BY <1>3, <1>4, <1>5, <1>6 DEF Inside, Typed, Handed, Behind, TimesKnown,
    Verdicts, FileTail, TypeOK
<1>. QED
  BY <1>2, <1>7, AlwaysInside, AlwaysBehind, AlwaysListFacts, CheckerTypes,
    ReassemblerFacts, PTL

------------------------------------------------------------------------------
-----------------------------------------------------------------------------
(* The lists of the report.                                                *)

LEMMA SameFlattenSeq == \A s : R!FlattenSeq(s) = FlattenSeq(s)
BY DEF R!FlattenSeq, FlattenSeq

(* The numbers from 1 on are in order.                                     *)
LEMMA Counting ==
  ASSUME NEW n \in Nat
  PROVE  /\ Enumerates([i \in 1 .. n |-> i], 1 .. n)
         /\ Len([i \in 1 .. n |-> i]) = n
         /\ [i \in 1 .. n |-> i] = <<>> <=> n = 0
<1>. DEFINE h == [i \in 1 .. n |-> i]
<1>1. h \in Seq(1 .. n) /\ Len(h) = n /\ \A i \in 1 .. n : h[i] = i
  OBVIOUS
<1>. HIDE DEF h
<1>2. Enumerates(h, 1 .. n)
  BY <1>1 DEF Enumerates
<1>3. h = <<>> <=> n = 0
  BY <1>1
<1>. QED
  BY <1>1, <1>2, <1>3 DEF h

(* Separated is the list with a comma between any two of its entries.      *)
LEMMA SeparatedIsBetween == \A w : R!Separated(w) = Between(w, R!Comma)
BY DEF R!Separated, Between

(* A drop list is printed as far as the limit, with commas in between.     *)
LEMMA KeysSeparated ==
  ASSUME NEW Y, NEW list \in Seq(Y)
  PROVE  R!conv_json_drop_key(list) = R!Separated(R!Shown(list))
<1>. DEFINE shown == R!Shown(list)
            n == IF Len(list) < MAX_PRINTED THEN Len(list) ELSE MAX_PRINTED
            h == [i \in 1 .. n |-> i]
            X == Y \cup {R!Comma}
            e == [i \in 1 .. n |-> list[i]]
            C == {i \in 1 .. n : R!Continues(list, i)}
            lines == [i \in 1 .. n |->
                        IF i \in 1 .. n
                        THEN IF i \in C THEN <<e[i], R!Comma>> ELSE <<e[i]>>
                        ELSE <<>>]
<1>1. /\ Len(list) \in Nat /\ MAX_PRINTED \in Nat /\ n \in Nat
      /\ n <= Len(list) /\ n <= MAX_PRINTED /\ (n = Len(list) \/ n = MAX_PRINTED)
  BY TSAnalyticsAssumption
<1>. HIDE DEF n
<1>2. shown = e
  BY <1>1 DEF R!Shown, n
<1>3. e \in [1 .. n -> X]
  BY <1>1
<1>4. \A i \in 1 .. n, j \in 1 .. n : i < j => i \in C
  BY <1>1 DEF R!Continues
<1>5. n \notin C
  BY <1>1 DEF R!Continues
<1>6. DOMAIN shown = 1 .. n /\ Len(shown) = n
  BY <1>1, <1>2
<1>7. R!conv_json_drop_key(list) = FlattenSeq(lines)
  <2>1. [i \in DOMAIN shown |->
           IF R!Continues(list, i) THEN <<list[i], R!Comma>> ELSE <<list[i]>>]
        = lines
    <3>. HIDE DEF shown
    <3>. QED
      BY <1>6
  <2>. HIDE DEF lines
  <2>. QED
    BY <2>1, SameFlattenSeq DEF R!conv_json_drop_key
<1>8. Enumerates(h, 1 .. n) /\ Len(h) = n /\ (h = <<>> <=> n = 0)
  BY <1>1, Counting
<1>9. R!Comma \in X
  OBVIOUS
<1>10. MarkedList(FlattenSeq(lines), X, e, R!Comma, C, h)
  <2>1. \A i \in 1 .. n :
          lines[i] = IF i \in 1 .. n
                     THEN IF i \in C THEN <<e[i], R!Comma>> ELSE <<e[i]>>
                     ELSE <<>>
    <3>. HIDE DEF e, C
    <3>. QED
      OBVIOUS
  <2>2. lines \in Seq(Seq(X)) /\ Len(lines) = n
    <3>1. \A i \in 1 .. n : e[i] \in X
      BY <1>3
    <3>. HIDE DEF e, C, X
    <3>. QED
      BY <1>1, <1>9, <3>1
  <2>. HIDE DEF e, C, h, X, lines
  <2>3. MarkedLines(lines, n, X, e, R!Comma, 1 .. n, C, h)
    BY <1>1, <1>3, <1>4, <1>8, <1>9, <2>1, <2>2 DEF MarkedLines
  <2>. QED
    BY <2>3, Marked
<1>11. \A k \in 1 .. Len(h) : shown[k] = e[h[k]]
  BY <1>1, <1>2, <1>8
<1>12. h = <<>> \/ h[Len(h)] \notin C
  <2>1. n # 0 => h[n] = n
    BY <1>1
  <2>. HIDE DEF h, C
  <2>. QED
    BY <1>5, <1>8, <2>1
<1>13. Len(h) \in Nat /\ (h # <<>> <=> Len(h) # 0) /\ Len(shown) = Len(h)
  <2>. HIDE DEF h, shown
  <2>. QED
    BY <1>1, <1>6, <1>8
<1>14. FlattenSeq(lines) = Between(shown, R!Comma)
  <2>. HIDE DEF h, C, X, e, lines, shown
  <2>. QED
    BY <1>10, <1>11, <1>12, <1>13, MarkedBetween
<1>. QED
  BY <1>7, <1>14, SeparatedIsBetween

(* The PIDs of a set, in the order of the loop over the counters.          *)
LEMMA AscendingEnumerates ==
  ASSUME NEW S, S \subseteq Int, IsFiniteSet(S)
  PROVE  Enumerates(R!Ascending(S), S)
<1>1. R!Ascending(S) = [i \in 1 .. Cardinality(S) |->
                          CHOOSE p \in S : Cardinality({q \in S : q < p}) = i - 1]
  BY DEF R!Ascending, R!Cardinality, Cardinality
<1>. QED
  BY <1>1, Ranked

(* The counters are printed with commas in between, if the mark of one     *)
(* with packets says that there is none behind it.                         *)
LEMMA PidsSeparated ==
  ASSUME NEW P, P \subseteq Int, IsFiniteSet(P),
         NEW counted, DOMAIN counted = P,
         \A p \in P : counted[p].total \in Nat /\ counted[p].last \in Bit,
         \A p \in P : counted[p].total > 0 =>
           (counted[p].last = 1 <=> \A q \in P : counted[q].total > 0 => q <= p)
  PROVE  R!conv_json_drop_pid(counted) = R!Separated(R!PidEntries(counted))
<1>. DEFINE order == R!Ascending(P)
            n == Len(order)
            E(p) == R!PidEntry(p, counted[p])
            X == {E(p) : p \in P} \cup {R!Comma}
            e == [i \in 1 .. n |-> E(order[i])]
            S == {i \in 1 .. n : counted[order[i]].total > 0}
            C == {i \in 1 .. n : counted[order[i]].last = 0}
            Used == {p \in P : counted[p].total > 0}
            h == R!Ascending(S)
            used == R!Ascending(Used)
            lines == [i \in 1 .. n |-> R!PidLine(order[i], counted[order[i]])]
<1>1. /\ order \in Seq(P) /\ n \in Nat /\ DOMAIN order = 1 .. n
      /\ \A i \in 1 .. n : order[i] \in P /\ order[i] \in Int
      /\ \A i, j \in 1 .. n : i < j => order[i] < order[j]
      /\ \A p \in P : \E i \in 1 .. n : order[i] = p
  <2>1. Enumerates(order, P)
    BY AscendingEnumerates
  <2>2. order \in Seq(P)
    BY <2>1 DEF Enumerates
  <2>. HIDE DEF order
  <2>3. n \in Nat /\ DOMAIN order = 1 .. n /\ \A i \in 1 .. n : order[i] \in P
    BY <2>2
  <2>4. \A i \in 1 .. n : order[i] \in Int
    BY <2>3
  <2>. QED
    BY <2>1, <2>2, <2>3, <2>4 DEF Enumerates
<1>. HIDE DEF order, n
<1>2. /\ h \in Seq(S) /\ Enumerates(h, S) /\ Len(h) \in Nat
      /\ (h # <<>> <=> Len(h) # 0) /\ DOMAIN h = 1 .. Len(h)
      /\ \A k \in 1 .. Len(h) : h[k] \in S /\ h[k] \in 1 .. n
      /\ \A j, k \in 1 .. Len(h) : j < k => h[j] < h[k]
      /\ \A i \in S : \E k \in 1 .. Len(h) : h[k] = i
  <2>1. IsFiniteSet(S)
    <3>1. IsFiniteSet(1 .. n)
      BY <1>1, FS_Interval
    <3>2. S \subseteq 1 .. n
      OBVIOUS
    <3>. HIDE DEF S
    <3>. QED
      BY <3>1, <3>2, FS_Subset
  <2>2. S \subseteq Int
    BY <1>1
  <2>3. \A i \in S : i \in 1 .. n
    OBVIOUS
  <2>. HIDE DEF S
  <2>4. Enumerates(h, S)
    BY <2>1, <2>2, AscendingEnumerates
  <2>5. h \in Seq(S)
    BY <2>4 DEF Enumerates
  <2>. HIDE DEF h
  <2>6. /\ Len(h) \in Nat /\ (h # <<>> <=> Len(h) # 0) /\ DOMAIN h = 1 .. Len(h)
        /\ \A k \in 1 .. Len(h) : h[k] \in S
    BY <2>5
  <2>. QED
    BY <2>3, <2>4, <2>5, <2>6 DEF Enumerates
<1>3. \A k \in 1 .. Len(h) : order[h[k]] \in Used
  BY <1>1, <1>2
<1>. HIDE DEF h
<1>4. /\ Len(used) = Len(h) /\ DOMAIN used = 1 .. Len(used)
      /\ \A k \in 1 .. Len(h) : used[k] = order[h[k]]
  <2>. DEFINE g == [k \in 1 .. Len(h) |-> order[h[k]]]
  <2>1. Used \subseteq Int /\ IsFiniteSet(Used)
    <3>1. Used \subseteq P
      OBVIOUS
    <3>. HIDE DEF Used
    <3>. QED
      BY <3>1, FS_Subset
  <2>2. \A p \in Used : \E k \in 1 .. Len(h) : order[h[k]] = p
    <3>. TAKE p \in Used
    <3>1. PICK i \in 1 .. n : order[i] = p
      BY <1>1
    <3>2. i \in S
      BY <3>1
    <3>. QED
      BY <1>2, <3>1, <3>2
  <2>3. \A j, k \in 1 .. Len(h) : j < k => order[h[j]] < order[h[k]]
    <3>. HIDE DEF S
    <3>. QED
      BY <1>1, <1>2
  <2>. HIDE DEF Used, S
  <2>4. /\ g \in Seq(Used) /\ Len(g) = Len(h) /\ DOMAIN g = 1 .. Len(g)
        /\ \A k \in 1 .. Len(h) : g[k] = order[h[k]]
    BY <1>2, <1>3
  <2>. HIDE DEF g
  <2>5. Enumerates(g, Used)
    <3>1. \A j, k \in 1 .. Len(g) : j < k => g[j] < g[k]
      BY <2>3, <2>4
    <3>2. \A p \in Used : \E k \in 1 .. Len(g) : g[k] = p
      BY <2>2, <2>4
    <3>. QED
      BY <2>4, <3>1, <3>2 DEF Enumerates
  <2>6. used = g
    BY <2>1, <2>5, AscendingEnumerates, OneOrder
  <2>. HIDE DEF used
  <2>. QED
    BY <2>4, <2>6
<1>5. R!conv_json_drop_pid(counted) = FlattenSeq(lines)
  BY <1>1, SameFlattenSeq DEF R!conv_json_drop_pid, order
<1>6. \A i \in S, j \in S : i < j => i \in C
  <2>. SUFFICES ASSUME NEW i \in S, NEW j \in S, i < j PROVE i \in C
    OBVIOUS
  <2>1. /\ order[i] \in P /\ order[j] \in P /\ order[i] < order[j]
        /\ order[i] \in Int /\ order[j] \in Int
        /\ counted[order[i]].total > 0 /\ counted[order[j]].total > 0
    BY <1>1
  <2>2. ~(order[j] <= order[i])
    BY <2>1
  <2>3. counted[order[i]].last # 1
    BY <2>1, <2>2
  <2>. QED
    BY <2>1, <2>3 DEF Bit
<1>7. h = <<>> \/ h[Len(h)] \notin C
  <2>. SUFFICES ASSUME h # <<>> PROVE counted[order[h[Len(h)]]].last = 1
    BY <1>2
  <2>. DEFINE l == Len(h)
              p == order[h[l]]
  <2>1. l \in 1 .. l /\ h[l] \in S /\ h[l] \in 1 .. n
    BY <1>2
  <2>2. p \in P /\ counted[p].total > 0
    BY <1>1, <2>1
  <2>3. ASSUME NEW q \in P, counted[q].total > 0 PROVE q <= p
    <3>1. PICK i \in 1 .. n : order[i] = q
      BY <1>1
    <3>2. i \in S
      BY <2>3, <3>1
    <3>3. PICK k \in 1 .. l : h[k] = i
      BY <1>2, <3>2
    <3>4. k = l \/ k < l
      <4>1. l \in Nat
        BY <1>2
      <4>. HIDE DEF l, p, S
      <4>. QED
        BY <4>1
    <3>5. p \in Int /\ q \in Int
      BY <2>2
    <3>6. CASE k = l
      BY <3>1, <3>3, <3>5, <3>6
    <3>7. CASE k < l
      <4>. HIDE DEF S
      <4>1. h[k] < h[l]
        BY <1>2, <2>1, <3>7
      <4>2. order[h[k]] < order[h[l]]
        BY <1>1, <2>1, <3>3, <4>1
      <4>. QED
        BY <3>1, <3>3, <3>5, <4>2
    <3>. QED
      BY <3>4, <3>6, <3>7
  <2>. QED
    BY <2>2, <2>3
<1>8. e \in [1 .. n -> X] /\ R!Comma \in X
  BY <1>1
<1>9. \A i \in 1 .. n :
        lines[i] = IF i \in S THEN IF i \in C THEN <<e[i], R!Comma>> ELSE <<e[i]>>
                              ELSE <<>>
  <2>. SUFFICES ASSUME NEW i \in 1 .. n
                PROVE  R!PidLine(order[i], counted[order[i]])
                       = IF i \in S THEN IF i \in C THEN <<e[i], R!Comma>> ELSE <<e[i]>>
                                    ELSE <<>>
    OBVIOUS
  <2>. DEFINE c == counted[order[i]]
  <2>1. /\ c.total \in Nat /\ c.last \in Bit
        /\ (i \in S <=> c.total > 0) /\ (i \in C <=> c.last = 0)
    BY <1>1
  <2>2. e[i] = R!PidEntry(order[i], c)
    OBVIOUS
  <2>. HIDE DEF c, S, C, e
  <2>3. R!PidLine(order[i], c)
        = IF i \in S THEN IF i \in C THEN <<e[i], R!Comma>> ELSE <<e[i]>> ELSE <<>>
    BY <2>1, <2>2 DEF R!PidLine
  <2>. QED
    BY <2>3 DEF c
<1>10. lines \in Seq(Seq(X)) /\ Len(lines) = n
  <2>1. \A i \in 1 .. n : e[i] \in X
    BY <1>8
  <2>. HIDE DEF e, C, S, X
  <2>2. \A i \in 1 .. n : lines[i] \in Seq(X)
    <3>. TAKE i \in 1 .. n
    <3>. HIDE DEF lines
    <3>1. e[i] \in X
      BY <2>1
    <3>2. <<e[i], R!Comma>> \in Seq(X) /\ <<e[i]>> \in Seq(X) /\ <<>> \in Seq(X)
      BY <1>8, <3>1
    <3>. QED
      BY <1>9, <3>2
  <2>. QED
    BY <1>1, <2>2
<1>11. MarkedList(FlattenSeq(lines), X, e, R!Comma, C, h)
  <2>1. S \subseteq 1 .. n
    OBVIOUS
  <2>. HIDE DEF e, C, S, X, lines
  <2>2. MarkedLines(lines, n, X, e, R!Comma, S, C, h)
    BY <1>1, <1>2, <1>6, <1>8, <1>9, <1>10, <2>1 DEF MarkedLines
  <2>. QED
    BY <2>2, Marked
<1>. DEFINE w == R!PidEntries(counted)
<1>12. Len(w) = Len(h) /\ \A k \in 1 .. Len(h) : w[k] = e[h[k]]
  <2>1. w = [k \in DOMAIN used |-> E(used[k])]
    BY DEF R!PidEntries
  <2>. HIDE DEF w, used
  <2>. QED
    BY <1>2, <1>4, <2>1
<1>13. FlattenSeq(lines) = Between(w, R!Comma)
  <2>. HIDE DEF C, X, e, lines, w
  <2>. QED
    BY <1>2, <1>7, <1>11, <1>12, MarkedBetween
<1>. QED
  BY <1>5, <1>13, SeparatedIsBetween

(* The programs are printed without the network and with commas in         *)
(* between; one behind the last program is left if the network is last.    *)
LEMMA ProgramsSeparated ==
  ASSUME NEW Y, NEW pids \in Seq(Y)
  PROVE  R!programs(pids)
         = IF R!EndsInNetwork(pids)
           THEN Append(R!Separated(R!ProgramEntries(pids)), R!Comma)
           ELSE R!Separated(R!ProgramEntries(pids))
<1>. DEFINE n == Len(pids)
            E(number) == R!ProgramEntry(number)
            X == {E(number) : number \in Y} \cup {R!Comma}
            e == [i \in 1 .. n |-> E(pids[i])]
            S == {i \in 1 .. n : pids[i] # 0}
            C == {i \in 1 .. n : i # n}
            lines == [i \in 1 .. n |-> R!ProgramLine(pids, i)]
            chosen == [i \in 1 .. n |-> IF i \in S THEN <<e[i]>> ELSE <<>>]
            w == R!ProgramEntries(pids)
<1>1. n \in Nat /\ DOMAIN pids = 1 .. n /\ \A i \in 1 .. n : pids[i] \in Y
  OBVIOUS
<1>. HIDE DEF n
<1>2. e \in [1 .. n -> X] /\ R!Comma \in X /\ \A i \in 1 .. n : e[i] \in X
  BY <1>1
<1>3. S \subseteq 1 .. n /\ \A i \in 1 .. n : i \in S <=> pids[i] # 0
  OBVIOUS
<1>4. \A i \in S, j \in S : i < j => i \in C
  BY <1>1
<1>5. /\ chosen \in Seq(Seq(X)) /\ Len(chosen) = n
      /\ \A i \in 1 .. n : chosen[i] = IF i \in S THEN <<e[i]>> ELSE <<>>
  <2>. HIDE DEF e, S, X
  <2>1. \A i \in 1 .. n : chosen[i] \in Seq(X)
    BY <1>2
  <2>. QED
    BY <1>1, <2>1
<1>6. w = FlattenSeq(chosen)
  <2>1. [i \in DOMAIN pids |-> IF pids[i] # 0 THEN <<E(pids[i])>> ELSE <<>>] = chosen
    <3>1. \A i \in 1 .. n : (IF pids[i] # 0 THEN <<E(pids[i])>> ELSE <<>>) = chosen[i]
      OBVIOUS
    <3>. QED
      BY <1>1, <3>1
  <2>. HIDE DEF chosen
  <2>. QED
    BY <2>1, SameFlattenSeq DEF R!ProgramEntries
<1>7. R!programs(pids) = FlattenSeq(lines)
  BY <1>1, SameFlattenSeq DEF R!programs
<1>8. PICK h : /\ Enumerates(h, S)
               /\ FlattenSeq(chosen) = [k \in 1 .. Len(h) |-> e[h[k]]]
  <2>. HIDE DEF e, S, X, chosen
  <2>1. ChosenLines(chosen, n, X, e, S)
    BY <1>1, <1>2, <1>3, <1>5 DEF ChosenLines
  <2>. QED
    BY <2>1, Selected DEF ElementsAt
<1>9. /\ Len(h) \in Nat /\ (h # <<>> <=> Len(h) # 0)
      /\ \A k \in 1 .. Len(h) : h[k] \in S /\ h[k] \in 1 .. n
      /\ \A j, k \in 1 .. Len(h) : j < k => h[j] < h[k]
      /\ \A i \in S : \E k \in 1 .. Len(h) : h[k] = i
  <2>. HIDE DEF S
  <2>1. h \in Seq(S)
    BY <1>8 DEF Enumerates
  <2>2. Len(h) \in Nat /\ (h # <<>> <=> Len(h) # 0) /\ \A k \in 1 .. Len(h) : h[k] \in S
    BY <2>1
  <2>. QED
    BY <1>3, <1>8, <2>2 DEF Enumerates
<1>10. Len(w) = Len(h) /\ \A k \in 1 .. Len(h) : w[k] = e[h[k]]
  <2>. HIDE DEF e, w, chosen
  <2>. QED
    BY <1>6, <1>8, <1>9
<1>11. \A i \in 1 .. n :
         lines[i] = IF i \in S THEN IF i \in C THEN <<e[i], R!Comma>> ELSE <<e[i]>>
                               ELSE <<>>
  <2>. SUFFICES ASSUME NEW i \in 1 .. n
                PROVE  R!ProgramLine(pids, i)
                       = IF i \in S THEN IF i \in C THEN <<e[i], R!Comma>> ELSE <<e[i]>>
                                    ELSE <<>>
    OBVIOUS
  <2>1. e[i] = R!ProgramEntry(pids[i]) /\ (i \in S <=> pids[i] # 0) /\ (i \in C <=> i # n)
    OBVIOUS
  <2>. HIDE DEF S, C, e
  <2>. QED
    BY <2>1 DEF R!ProgramLine, n
<1>12. lines \in Seq(Seq(X)) /\ Len(lines) = n
  <2>. HIDE DEF e, C, S, X
  <2>1. \A i \in 1 .. n : lines[i] \in Seq(X)
    <3>. TAKE i \in 1 .. n
    <3>. HIDE DEF lines
    <3>1. <<e[i], R!Comma>> \in Seq(X) /\ <<e[i]>> \in Seq(X) /\ <<>> \in Seq(X)
      BY <1>2
    <3>. QED
      BY <1>11, <3>1
  <2>. QED
    BY <1>1, <2>1
<1>13. MarkedList(FlattenSeq(lines), X, e, R!Comma, C, h)
  <2>. HIDE DEF e, C, S, X, lines
  <2>1. MarkedLines(lines, n, X, e, R!Comma, S, C, h)
    BY <1>1, <1>2, <1>3, <1>4, <1>8, <1>11, <1>12 DEF MarkedLines
  <2>. QED
    BY <2>1, Marked
<1>14. /\ h = <<>> \/ h[Len(h)] \notin C
            => FlattenSeq(lines) = Between(w, R!Comma)
       /\ h # <<>> /\ h[Len(h)] \in C
            => FlattenSeq(lines) = Append(Between(w, R!Comma), R!Comma)
  <2>. HIDE DEF C, X, e, lines, w, S
  <2>. QED
    BY <1>9, <1>10, <1>13, MarkedBetween
<1>15. R!EndsInNetwork(pids) <=> h # <<>> /\ h[Len(h)] \in C
  <2>1. w # <<>> <=> h # <<>>
    <3>1. w \in Seq(X)
      <4>. HIDE DEF X, e, S, chosen, w
      <4>1. \A k \in 1 .. Len(h) : e[h[k]] \in X
        BY <1>2, <1>9
      <4>. QED
        BY <1>6, <1>8, <1>9, <4>1
    <3>. HIDE DEF w, X, e
    <3>. QED
      BY <1>9, <1>10, <3>1
  <2>2. h # <<>> => (h[Len(h)] \in C <=> n \notin S)
    <3>. SUFFICES ASSUME h # <<>> PROVE h[Len(h)] = n <=> n \in S
      BY <1>9
    <3>. HIDE DEF S
    <3>. DEFINE l == Len(h)
    <3>1. l \in 1 .. l /\ l \in Nat /\ h[l] \in S /\ h[l] \in 1 .. n
      BY <1>9
    <3>2. ASSUME n \in S PROVE h[l] = n
      <4>1. PICK k \in 1 .. l : h[k] = n
        BY <1>9, <3>2
      <4>2. k < l => h[k] < h[l]
        BY <1>9, <3>1
      <4>. HIDE DEF l
      <4>. QED
        BY <1>1, <3>1, <4>1, <4>2
    <3>. QED
      BY <3>1, <3>2
  <2>3. h # <<>> => n \in 1 .. n
    BY <1>1, <1>9
  <2>4. pids # <<>> /\ R!Last(pids) = 0 <=> n \in 1 .. n /\ pids[n] = 0
    BY <1>1 DEF R!Last, n
  <2>5. R!EndsInNetwork(pids) <=> pids # <<>> /\ R!Last(pids) = 0 /\ w # <<>>
    BY DEF R!EndsInNetwork
  <2>. HIDE DEF w, S, C
  <2>. QED
    BY <1>3, <2>1, <2>2, <2>3, <2>4, <2>5
<1>16. R!Separated(w) = Between(w, R!Comma)
  BY SeparatedIsBetween
<1>. HIDE DEF C, lines
<1>. QED
  BY <1>7, <1>14, <1>15, <1>16

-----------------------------------------------------------------------------
(* The report is printed from the state that the loop has left.            *)

PrintedAtEnd ==
  /\ pc \in {"print", "done"} => DC!Marked
  /\ reported.printed => pc = "done" /\ reported.TSInfo \in {TSInfo, NoInfo}

LEMMA PrintedStep ==
  ASSUME PrintedAtEnd, DCP!TypeOK, [Next]_vars
  PROVE  PrintedAtEnd'
<1>1. ASSUME pc' \in {"open", "loop", "failed", "crashed"}, reported' = reported,
             pc # "done"
      PROVE  PrintedAtEnd'
  BY <1>1 DEF PrintedAtEnd
<1>2. CASE Finish
  <2>1. DC!Marked'
    <3>1. DCP!mark_last_drop_count
      BY <1>2 DEF Finish, DC!mark_last_drop_count, DCP!mark_last_drop_count,
        DC!LastPid, DCP!LastPid, DC!Flag, DCP!Flag
    <3>2. DCP!Marked'
      BY <3>1, SamePIDs, DCP!MarkIsSet
    <3>. QED
      BY <3>2 DEF DC!Marked, DCP!Marked
  <2>. QED
    BY <1>2, <2>1 DEF Finish, PrintedAtEnd
<1>3. CASE PrintReport
  <2>1. /\ pc = "print" /\ pc' = "done" /\ ts_drop_count' = ts_drop_count
        /\ first_tot' = first_tot /\ last_tot' = last_tot /\ pat' = pat
        /\ drop_list_per' = drop_list_per /\ drop_list_tot' = drop_list_tot
        /\ reported'.TSInfo \in {TSInfo, NoInfo}
    BY <1>3 DEF PrintReport, counts, times, lists
  <2>2. TSInfo' = TSInfo
    BY <2>1 DEF TSInfo
  <2>3. DC!Marked'
    BY <2>1 DEF PrintedAtEnd, DC!Marked
  <2>. QED
    BY <2>1, <2>2, <2>3 DEF PrintedAtEnd
<1>4. CASE UNCHANGED vars
  <2>1. /\ pc' = pc /\ ts_drop_count' = ts_drop_count /\ reported' = reported
        /\ first_tot' = first_tot /\ last_tot' = last_tot /\ pat' = pat
        /\ drop_list_per' = drop_list_per /\ drop_list_tot' = drop_list_tot
    BY <1>4 DEF vars, input, counts, times, lists
  <2>2. TSInfo' = TSInfo
    BY <2>1 DEF TSInfo
  <2>. QED
    BY <2>1, <2>2 DEF PrintedAtEnd, DC!Marked
<1>. QED
  BY <1>1, <1>2, <1>3, <1>4 DEF Next, Open, HashOnly, SyncError, NotCollected,
    Collected, PatComplete, TotComplete, TotDisabled, DecoderCrash, Synced,
    Read, Crash

LEMMA AlwaysPrintedAtEnd == Spec => []PrintedAtEnd
<1>1. Init => PrintedAtEnd
  BY DEF Init, PrintedAtEnd, Nothing
<1>. QED
  BY <1>1, PrintedStep, CheckerTypes, PTL DEF Spec

(* What the report says while it is there.                                 *)
LEMMA InfoIsTSInfo ==
  ASSUME PrintedAtEnd, InfoPrinted
  PROVE  DC!Marked /\ reported.TSInfo = TSInfo
BY DEF PrintedAtEnd, InfoPrinted

(***************************************************************************)
(* The three lists of drops are JSON in every report, whatever the limits  *)
(* are: one comma between any two entries, none behind the last, and       *)
(* nothing left out up to the limit of entries that are printed.           *)
(***************************************************************************)
THEOREM ListsAreJson == Spec => []DropListsAreJson
<1>1. ASSUME PrintedAtEnd, TypeOK, DC!MarkedIsLastPrinted, InfoPrinted
      PROVE  /\ reported.TSInfo.drop_pid = R!Separated(R!PidEntries(ts_drop_count))
             /\ reported.TSInfo.drop_percent = R!Separated(R!Shown(drop_list_per))
             /\ reported.TSInfo.drop_tot = R!Separated(R!Shown(drop_list_tot))
  <2>1. DC!Marked /\ reported.TSInfo = TSInfo
    BY <1>1, InfoIsTSInfo
  <2>2. /\ reported.TSInfo.drop_pid = R!conv_json_drop_pid(ts_drop_count)
        /\ reported.TSInfo.drop_percent = R!conv_json_drop_key(drop_list_per)
        /\ reported.TSInfo.drop_tot = R!conv_json_drop_key(drop_list_tot)
    BY <2>1 DEF TSInfo
  <2>3. PIDs \subseteq Int /\ IsFiniteSet(PIDs)
    <3>1. PIDs \subseteq 0 .. NULL_PID /\ NULL_PID \in Int
      BY PIDsAssumption DEF NULL_PID
    <3>2. IsFiniteSet(0 .. NULL_PID)
      BY <3>1, FS_Interval
    <3>3. 0 .. NULL_PID \subseteq Int
      BY <3>1
    <3>. QED
      BY <3>1, <3>2, <3>3, FS_Subset
  <2>4. /\ DOMAIN ts_drop_count = PIDs
        /\ \A p \in PIDs : ts_drop_count[p].total \in Nat /\ ts_drop_count[p].last \in Bit
    BY <1>1 DEF TypeOK, DC!TypeOK, DC!TS_DROP_COUNT, DC!Bit, Bit
  <2>5. \A p \in PIDs : ts_drop_count[p].total > 0 =>
          (ts_drop_count[p].last = 1 <=>
             \A q \in PIDs : ts_drop_count[q].total > 0 => q <= p)
    BY <1>1, <2>1 DEF DC!MarkedIsLastPrinted
  <2>6. R!conv_json_drop_pid(ts_drop_count) = R!Separated(R!PidEntries(ts_drop_count))
    BY <2>3, <2>4, <2>5, PidsSeparated
  <2>7. /\ drop_list_tot \in Seq(TotList!DROP_LIST)
        /\ drop_list_per \in Seq(PerList!DROP_LIST)
    BY <1>1 DEF TypeOK
  <2>. QED
    BY <2>2, <2>6, <2>7, KeysSeparated
<1>2. PrintedAtEnd /\ TypeOK /\ DC!MarkedIsLastPrinted => DropListsAreJson
  BY <1>1 DEF DropListsAreJson
<1>. QED
  BY <1>2, AlwaysPrintedAtEnd, TypeCorrect, MarkInProgram, PTL

-----------------------------------------------------------------------------
(* The programs printed.                                                   *)

(* The quotient is that of the reference when the programs lie in the      *)
(* section, also for one that is shorter than its header.                  *)
LEMMA ProgramsOfLength ==
  ASSUME NEW n \in Nat, n <= 4095, ~(4 * num_of_pids(n) > n)
  PROVE  1 .. num_of_pids(n) = 1 .. (n - 9) \div 4
<1>1. 2^16 = 65536
  OBVIOUS
<1>2. CASE n >= 9
  BY <1>2 DEF num_of_pids
<1>3. CASE n < 9
  <2>1. num_of_pids(n) = (65536 - (9 - n) \div 4) % 65536
    <3>1. -(n - 9) = 9 - n /\ ~(n - 9 >= 0)
      BY <1>3
    <3>. QED
      BY <1>1, <3>1 DEF num_of_pids
  <2>2. (9 - n) \div 4 \in {0, 1, 2}
    BY <1>3
  <2>3. num_of_pids(n) \in {0, 65535, 65534}
    BY <2>1, <2>2
  <2>4. num_of_pids(n) = 0
    BY <1>3, <2>3
  <2>5. (n - 9) \div 4 < 1
    BY <1>3
  <2>. QED
    BY <2>4, <2>5
<1>. QED
  BY <1>2, <1>3

(* The programs kept are those of a PAT among the packets.                 *)
PatOfFile ==
  pat # NoPat /\ ~pat.outside =>
    \E sec \in PatSections : pat.pids = ProgramNumbers(sec)

LEMMA PatOfFileStep ==
  ASSUME Inside, Handed', PLP!PayloadOffered', OfferedOfFile', PatOfFile, [Next]_vars
  PROVE  PatOfFile'
<1>0. p_cnt \in Nat /\ file.packets \in Seq(Packet)
  BY TSAnalyticsAssumption DEF Inside, packet_count, File
<1>1. CASE PatComplete
  <2>1. PICK crc \in Bit : PL!Offer(buf, crc)
    BY <1>1 DEF PatComplete
  <2>2. /\ section'.ok /\ buf.pid = PAT_PID /\ p_cnt' = p_cnt + 1 /\ file' = file
        /\ p_cnt < packet_count
        /\ pat' = st_pat(Decoded, packet_list'[buf.pid].cap)
    BY <1>1 DEF PatComplete, Synced, Read
  <2>3. section'.pid = PAT_PID
    BY <2>1, <2>2 DEF PL!Offer, PL!NoSection
  <2>4. section'.payload \in Seq(PLP!Packet) /\ section'.payload # <<>>
    <3>1. section' \in PLP!Section
      BY <2>2 DEF Handed, PLP!TypeOK, PLP!NoSection
    <3>. QED
      BY <2>2, <3>1 DEF Handed, PLP!HandedOver, PLP!Section
  <2>5. PICK j \in DOMAIN offered'[PAT_PID] : section'.payload[1] = offered'[PAT_PID][j]
    <3>1. 1 \in DOMAIN section'.payload
      BY <2>4
    <3>. QED
      BY <2>2, <2>3, <3>1 DEF PLP!PayloadOffered
  <2>6. PICK i \in 1 .. p_cnt + 1 :
          file.packets[i] = offered'[PAT_PID][j] /\ file.packets[i].pid = PAT_PID
    <3>1. PAT_PID \in PIDs
      BY PIDsAssumption
    <3>2. \A k \in DOMAIN offered'[PAT_PID] :
            \E i \in 1 .. p_cnt' :
              file'.packets[i] = offered'[PAT_PID][k] /\ file'.packets[i].pid = PAT_PID
      BY <3>1 DEF OfferedOfFile
    <3>. QED
      BY <2>2, <3>2
  <2>7. Decoded = file.packets[i].sec
    BY <2>5, <2>6 DEF Decoded
  <2>8. Decoded \in PatSections'
    BY <2>2, <2>6, <2>7 DEF PatSections
  <2>9. Decoded \in SectionHeader
    BY <2>1, <2>2, DecodedHeader
  <2>. DEFINE n == Decoded.section_length
  <2>10. n \in Nat /\ n <= 4095
    <3>1. SectionLengthMax \in Nat /\ SectionLengthMax <= 4095
      BY DEF SectionLengthMax
    <3>2. n \in 0 .. SectionLengthMax
      BY <2>9 DEF SectionHeader
    <3>. HIDE DEF n
    <3>. QED
      BY <3>1, <3>2
  <2>11. ASSUME ~pat'.outside PROVE pat'.pids = ProgramNumbers(Decoded)
    <3>1. /\ ~LoopOutside(Decoded, packet_list'[buf.pid].cap)
          /\ pat'.pids = [k \in 1 .. num_of_pids(n) |-> Loop[Decoded.content][k]]
      BY <2>2, <2>11 DEF st_pat
    <3>2. ~(4 * num_of_pids(n) > n)
      BY <3>1 DEF LoopOutside
    <3>. DEFINE c == Decoded.content
    <3>3. ProgramNumbers(Decoded) = [k \in 1 .. (n - 9) \div 4 |-> Loop[c][k]]
      BY DEF ProgramNumbers
    <3>4. pat'.pids = [k \in 1 .. num_of_pids(n) |-> Loop[c][k]]
      BY <3>1
    <3>. HIDE DEF n, c
    <3>5. 1 .. num_of_pids(n) = 1 .. (n - 9) \div 4
      BY <2>10, <3>2, ProgramsOfLength
    <3>. QED
      BY <3>3, <3>4, <3>5
  <2>. QED
    BY <2>8, <2>11 DEF PatOfFile, ProgramNumbers
<1>2. ASSUME pat' = pat, file' = file, p_cnt' \in {p_cnt, p_cnt + 1}
      PROVE  PatOfFile'
  <2>1. \A i \in 1 .. p_cnt : i \in 1 .. p_cnt'
    BY <1>0, <1>2
  <2>2. PatSections \subseteq PatSections'
    BY <1>2, <2>1 DEF PatSections
  <2>. QED
    BY <1>2, <2>2 DEF PatOfFile, ProgramNumbers
<1>. QED
  BY <1>1, <1>2 DEF Next, Open, HashOnly, SyncError, NotCollected, Collected,
    TotComplete, TotDisabled, DecoderCrash, Synced, Read, Finish, PrintReport,
    Crash, vars, input

(***************************************************************************)
(* The programs in a report are those of a PAT in the file, whatever       *)
(* length that announces; the list is JSON unless the network is its last  *)
(* entry.                                                                  *)
(***************************************************************************)
THEOREM ProgramsOfPat == Spec => []ProgramsAreOfPat
<1>1. Spec => []PLP!PayloadOffered
  <2>1. PLP!Spec => []PLP!PayloadOffered
    BY SamePIDs, PLP!HandsOverOffered
  <2>. QED
    BY <2>1, SameSpec, UsesReassembler, PTL
<1>2. Init => PatOfFile
  BY DEF Init, PatOfFile
<1>3. Spec => []PatOfFile
  BY <1>1, <1>2, PatOfFileStep, AlwaysInside, ReassemblerFacts, AlwaysOfFile, PTL DEF Spec
<1>4. ASSUME PrintedAtEnd, TypeOK, PatOfFile PROVE ProgramsAreOfPat
  <2>. SUFFICES ASSUME InfoPrinted, pat # NoPat, ~pat.outside
                PROVE  \E sec \in PatSections :
                         LET numbers == ProgramNumbers(sec)
                             list    == R!Separated(R!ProgramEntries(numbers))
                         IN reported.TSInfo.programs =
                              IF R!EndsInNetwork(numbers) THEN Append(list, R!Comma)
                                                          ELSE list
    BY DEF ProgramsAreOfPat
  <2>1. reported.TSInfo.programs = R!programs(pat.pids)
    BY <1>4, InfoIsTSInfo DEF TSInfo
  <2>2. PICK sec \in PatSections : pat.pids = ProgramNumbers(sec)
    BY <1>4 DEF PatOfFile
  <2>3. pat.pids \in Seq(UINT16)
    BY <1>4 DEF TypeOK, TS_PAT
  <2>. QED
    BY <2>1, <2>2, <2>3, ProgramsSeparated
<1>. QED
  BY <1>3, <1>4, AlwaysPrintedAtEnd, TypeCorrect, PTL
==============================================================================
