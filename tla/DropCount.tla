----------------------------- MODULE DropCount ------------------------------
(***************************************************************************)
(* The continuity checker: m2tlib/drop_count.c with the counter its caller *)
(* keeps in the same structure (tsanalytics.c).  The array ts_drop_count   *)
(* has an element per PID; an element remembers the previous packet of the *)
(* PID and decides whether packets were lost between it and the next one.  *)
(*                                                                         *)
(* `seen' is a history variable: the packets given to the checker so far,  *)
(* one sequence per PID.  The code has no such thing; the properties use   *)
(* it to compare the counters with what a reader of the whole stream would *)
(* count.                                                                  *)
(***************************************************************************)
EXTENDS Streams

VARIABLES ts_drop_count, seen

vars == <<ts_drop_count, seen>>

(* before_packet of an element that was only zeroed by memset.             *)
NoPacket == [none |-> TRUE]

TS_DROP_COUNT ==
  [total : Nat, drop : Nat, error : Nat, scrambling : Nat,
   now_drop : Bit, now_error : Bit, now_scrambling : Bit,
   repeat : Nat, last : Bit, use : Bit, before_packet : Packet \cup {NoPacket}]

ZeroEntry ==
  [total |-> 0, drop |-> 0, error |-> 0, scrambling |-> 0,
   now_drop |-> 0, now_error |-> 0, now_scrambling |-> 0,
   repeat |-> 0, last |-> 0, use |-> 0, before_packet |-> NoPacket]

-----------------------------------------------------------------------------
(* The verdict on packet buf, given the element e of its PID.              *)

(* The checks run from the second packet on, and not over an announced     *)
(* discontinuity or on null packets.                                       *)
Compared(e, buf) ==
  /\ e.use = 1
  /\ Discontinuity(buf) = 0
  /\ buf.pid # NULL_PID

(* The packet is the previous one once more.                               *)
Repeated(e, buf) ==
  /\ Compared(e, buf)
  /\ HasPayload(buf)
  /\ e.before_packet = buf

(* have_drop: a packet without payload keeps the counter; a payload packet *)
(* with the same counter must be a repetition, and the first in a row; any *)
(* other must count up by one modulo 16.                                   *)
HaveDrop(e, buf) ==
  /\ Compared(e, buf)
  /\ \/ ~HasPayload(buf) /\ e.before_packet.cc # buf.cc
     \/ /\ HasPayload(buf)
        /\ \/ e.before_packet.cc = buf.cc /\ e.before_packet # buf
           \/ e.before_packet = buf /\ e.repeat + 1 > 1
           \/ /\ e.before_packet.cc # buf.cc
              /\ buf.cc # NextCounter(e.before_packet.cc)

(* repeat after the packet: cleared by a drop and by a counted-up packet,  *)
(* kept by everything that is not compared or has no payload.              *)
Repeat_KeptOnDrop(e, buf) ==
  CASE Repeated(e, buf) -> e.repeat + 1
    [] Compared(e, buf) /\ HasPayload(buf) /\ ~Repeated(e, buf) -> 0
    [] OTHER -> e.repeat

Repeat(e, buf) ==
  CASE HaveDrop(e, buf) -> 0
    [] ~HaveDrop(e, buf) /\ Repeated(e, buf) -> e.repeat + 1
    [] Compared(e, buf) /\ HasPayload(buf)
         /\ ~HaveDrop(e, buf) /\ ~Repeated(e, buf) -> 0
    [] OTHER -> e.repeat

Flag(condition) == IF condition THEN 1 ELSE 0

NowScrambling_Raw(buf) == buf.tsc
NowScrambling(buf)     == Flag(buf.tsc # 0)

(* before_packet after the packet.                                         *)
Remembered_OnlyFirst(e, buf) == IF e.use = 1 THEN e.before_packet ELSE buf
Remembered(e, buf)           == buf

(* drop_check_and_count on the element of the packet's PID.                *)
drop_check_and_count(e, buf) ==
  LET now_drop       == Flag(HaveDrop(e, buf))
      now_error      == Flag(buf.tei = 1)
      now_scrambling == NowScrambling(buf)
  IN [total          |-> e.total + 1,
      drop           |-> e.drop + now_drop,
      error          |-> e.error + now_error,
      scrambling     |-> e.scrambling + now_scrambling,
      now_drop       |-> now_drop,
      now_error      |-> now_error,
      now_scrambling |-> now_scrambling,
      repeat         |-> Repeat(e, buf),
      last           |-> e.last,
      use            |-> 1,
      before_packet  |-> Remembered(e, buf)]

(* drop_check_and_count returns 0: the packet goes to the drop lists.      *)
Abnormal_DropOnly(e) == e.now_drop > 0
Abnormal(e) == e.now_drop + e.now_error + e.now_scrambling > 0

-----------------------------------------------------------------------------

Init ==
  /\ ts_drop_count = [p \in PIDs |-> ZeroEntry]
  /\ seen = [p \in PIDs |-> <<>>]

(* What the main loop does with a packet whose sync byte is right: it      *)
(* counts it in total, then calls drop_check_and_count, which counts it in *)
(* total once more.                                                        *)
CountedByCaller(e) == [e EXCEPT !.total = @ + 1]

Count(buf) ==
  /\ buf.sync
  /\ ts_drop_count' = [ts_drop_count EXCEPT ![buf.pid] =
                         drop_check_and_count(CountedByCaller(@), buf)]
  /\ seen' = [seen EXCEPT ![buf.pid] = Append(@, buf)]

(* mark_last_drop_count: the greatest PID that was counted, 8191 if none   *)
(* was.  Every element is reset first.                                     *)
LastPid_StopsAtFirst ==
  LET used == {p \in PIDs : ts_drop_count[p].total > 0}
  IN IF used = {} THEN 8191 ELSE CHOOSE p \in used : \A q \in used : p <= q

LastPid ==
  LET used == {p \in PIDs : ts_drop_count[p].total > 0}
  IN IF used = {} THEN 8191 ELSE CHOOSE p \in used : \A q \in used : q <= p

mark_last_drop_count ==
  /\ ts_drop_count' = [p \in PIDs |->
       [ts_drop_count[p] EXCEPT !.last = Flag(p = LastPid)]]
  /\ UNCHANGED seen

(* The loop is over when an element is marked.                             *)
Marked == \E p \in PIDs : ts_drop_count[p].last = 1

Next ==
  /\ ~Marked
  /\ \/ \E buf \in Packet : Count(buf)
     \/ mark_last_drop_count

Spec == Init /\ [][Next]_vars

-----------------------------------------------------------------------------

(***************************************************************************)
(* Every element of ts_drop_count has the type of the structure.           *)
(***************************************************************************)
TypeOK ==
  /\ ts_drop_count \in [PIDs -> TS_DROP_COUNT]
  /\ seen \in [PIDs -> Seq(Packet)]

(***************************************************************************)
(* The header of the previous packet is read only after a packet was       *)
(* stored: use is 1 exactly when before_packet holds the last packet of    *)
(* this PID.  st_head leaves the continuity counter of a zeroed packet     *)
(* uninitialized (head.c:49 clears eight bytes only), so a check that ran  *)
(* without this would read garbage.                                        *)
(***************************************************************************)
BeforeIsLastSeen ==
  \A p \in PIDs :
    IF ts_drop_count[p].use = 1
    THEN seen[p] # <<>> /\ ts_drop_count[p].before_packet = seen[p][Len(seen[p])]
    ELSE seen[p] = <<>>

(***************************************************************************)
(* The incremental counters agree with the whole stream: drop is the       *)
(* number of gaps of the PID, where a repeated packet is a gap at every    *)
(* second repetition; error and scrambling count the flagged packets.      *)
(***************************************************************************)
CountsExact ==
  \A p \in PIDs :
    /\ ts_drop_count[p].drop = Cardinality(Gaps(seen[p]))
    /\ ts_drop_count[p].error = Cardinality(Errors(seen[p]))
    /\ ts_drop_count[p].scrambling = Cardinality(Scrambled(seen[p]))

(***************************************************************************)
(* The report ends its list of PIDs at the marked element, so that element *)
(* has to be the greatest one printed (conv_json.c prints total > 0): no   *)
(* comma after the last entry and one after every other.                   *)
(***************************************************************************)
MarkedIsLastPrinted ==
  Marked =>
    \A p \in PIDs : ts_drop_count[p].total > 0 =>
      (ts_drop_count[p].last = 1 <=>
         \A q \in PIDs : ts_drop_count[q].total > 0 => q <= p)

(***************************************************************************)
(* What README.md says of the field total: the number of packets of the    *)
(* PID in the file.                                                        *)
(***************************************************************************)
TotalIsPacketCount ==
  \A p \in PIDs : ts_drop_count[p].total = Len(seen[p])
=============================================================================
