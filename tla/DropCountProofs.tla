--------------------------- MODULE DropCountProofs --------------------------
(***************************************************************************)
(* For every set of PIDs and every stream: the counters keep their types,  *)
(* the checker compares a packet only with the previous one of the same    *)
(* PID, never with the zeroed memory of an element it has not used, and    *)
(* what it counts packet by packet is what a reader of the whole stream    *)
(* would count.                                                            *)
(***************************************************************************)
EXTENDS DropCount, FiniteSetTheorems, WellFoundedInduction, TLAPS

IInv == TypeOK /\ BeforeIsLastSeen

(* The three verdicts are bits.                                            *)
LEMMA FlagIsBit == \A b \in BOOLEAN : Flag(b) \in Bit
BY DEF Flag, Bit

(* A packet is judged a drop or not.                                       *)
LEMMA HaveDropIsBoolean ==
  ASSUME NEW e, NEW buf PROVE HaveDrop(e, buf) \in BOOLEAN
BY DEF HaveDrop

(* The repetition counter counts up from zero.                             *)
LEMMA RepeatIsNat ==
  ASSUME NEW e \in TS_DROP_COUNT, NEW buf \in Packet
  PROVE  Repeat(e, buf) \in Nat
<1>1. e.repeat \in Nat /\ e.repeat + 1 \in Nat
  BY DEF TS_DROP_COUNT
<1>. QED
  BY <1>1 DEF Repeat

(* One packet leaves an element of the right type, in use, remembering it. *)
LEMMA CheckedElement ==
  ASSUME NEW e \in TS_DROP_COUNT, NEW buf \in Packet
  PROVE  LET checked == drop_check_and_count(e, buf)
         IN /\ checked \in TS_DROP_COUNT
            /\ checked.use = 1
            /\ checked.before_packet = buf
<1>. DEFINE now_drop       == Flag(HaveDrop(e, buf))
            now_error      == Flag(buf.tei = 1)
            now_scrambling == NowScrambling(buf)
<1>1. now_drop \in Bit /\ now_error \in Bit /\ now_scrambling \in Bit
  BY FlagIsBit, HaveDropIsBoolean DEF NowScrambling
<1>. HIDE DEF now_drop, now_error, now_scrambling
<1>2. \A flag \in Bit, n \in Nat : n + flag \in Nat
  BY DEF Bit
<1>3. /\ e.total + 1 \in Nat
      /\ e.drop + now_drop \in Nat
      /\ e.error + now_error \in Nat
      /\ e.scrambling + now_scrambling \in Nat
      /\ e.last \in Bit /\ 1 \in Bit
  BY <1>1, <1>2 DEF TS_DROP_COUNT, Bit
<1>4. drop_check_and_count(e, buf) =
        [total |-> e.total + 1, drop |-> e.drop + now_drop,
         error |-> e.error + now_error,
         scrambling |-> e.scrambling + now_scrambling,
         now_drop |-> now_drop, now_error |-> now_error,
         now_scrambling |-> now_scrambling,
         repeat |-> Repeat(e, buf), last |-> e.last, use |-> 1,
         before_packet |-> buf]
  BY DEF drop_check_and_count, Remembered, now_drop, now_error, now_scrambling
<1>. QED
  BY <1>1, <1>3, <1>4, RepeatIsNat DEF TS_DROP_COUNT

(* IInv holds at the start, and each action keeps it.                      *)
LEMMA InitInv == Init => IInv
BY DEF Init, IInv, TypeOK, BeforeIsLastSeen, ZeroEntry, TS_DROP_COUNT, Bit

(* A packet disturbs only the element of its PID.                          *)
LEMMA CountInv ==
  ASSUME IInv, NEW buf \in Packet, Count(buf)
  PROVE  IInv'
<1>. DEFINE p == buf.pid
            e == CountedByCaller(ts_drop_count[p])
            checked == drop_check_and_count(e, buf)
<1>1. p \in PIDs
  BY DEF Packet
<1>2. e \in TS_DROP_COUNT
  <2>1. ts_drop_count[p] \in TS_DROP_COUNT /\ ts_drop_count[p].total + 1 \in Nat
    BY <1>1 DEF IInv, TypeOK, TS_DROP_COUNT
  <2>. QED
    BY <2>1 DEF CountedByCaller, TS_DROP_COUNT
<1>3. /\ checked \in TS_DROP_COUNT
      /\ checked.use = 1 /\ checked.before_packet = buf
  BY <1>2, CheckedElement
<1>4. /\ ts_drop_count' = [ts_drop_count EXCEPT ![p] = checked]
      /\ seen' = [seen EXCEPT ![p] = Append(@, buf)]
  BY DEF Count
<1>. HIDE DEF checked, e, p
<1>5. TypeOK'
  BY <1>1, <1>3, <1>4 DEF IInv, TypeOK
<1>6. ASSUME NEW q \in PIDs
      PROVE  IF ts_drop_count'[q].use = 1
             THEN seen'[q] # <<>>
                    /\ ts_drop_count'[q].before_packet = seen'[q][Len(seen'[q])]
             ELSE seen'[q] = <<>>
  <2>1. CASE q = p
    <3>1. seen[p] \in Seq(Packet)
      BY <1>1 DEF IInv, TypeOK
    <3>2. /\ Append(seen[p], buf) # <<>>
          /\ Append(seen[p], buf)[Len(Append(seen[p], buf))] = buf
      BY <3>1
    <3>. QED
      BY <1>1, <1>3, <1>4, <2>1, <3>2 DEF IInv, TypeOK
  <2>2. CASE q # p
    BY <1>1, <1>4, <2>2 DEF IInv, TypeOK, BeforeIsLastSeen
  <2>. QED
    BY <2>1, <2>2
<1>. QED
  BY <1>5, <1>6 DEF IInv, BeforeIsLastSeen

(* The mark leaves everything but last alone.                              *)
LEMMA MarkInv == IInv /\ mark_last_drop_count => IInv'
<1>. SUFFICES ASSUME IInv, mark_last_drop_count PROVE IInv'
  OBVIOUS
<1>1. ASSUME NEW p \in PIDs
      PROVE  /\ ts_drop_count'[p] \in TS_DROP_COUNT
             /\ ts_drop_count'[p].use = ts_drop_count[p].use
             /\ ts_drop_count'[p].before_packet = ts_drop_count[p].before_packet
  <2>1. Flag(p = LastPid) \in Bit
    BY FlagIsBit
  <2>. QED
    BY <2>1 DEF mark_last_drop_count, IInv, TypeOK, TS_DROP_COUNT
<1>2. TypeOK'
  BY <1>1 DEF mark_last_drop_count, IInv, TypeOK
<1>. QED
  BY <1>1, <1>2 DEF mark_last_drop_count, IInv, BeforeIsLastSeen

(* The inductive invariant holds throughout.                               *)
THEOREM Invariance == Spec => []IInv
<1>1. IInv /\ [Next]_vars => IInv'
  <2>. SUFFICES ASSUME IInv, [Next]_vars PROVE IInv'
    OBVIOUS
  <2>1. ASSUME NEW buf \in Packet, Count(buf) PROVE IInv'
    BY <2>1, CountInv
  <2>2. CASE mark_last_drop_count
    BY <2>2, MarkInv
  <2>3. CASE UNCHANGED vars
    BY <2>3 DEF vars, IInv, TypeOK, BeforeIsLastSeen
  <2>. QED
    BY <2>1, <2>2, <2>3 DEF Next
<1>. QED
  BY InitInv, <1>1, PTL DEF Spec

(***************************************************************************)
(* Every counter and flag of ts_drop_count keeps its type.                 *)
(***************************************************************************)
THEOREM TypeCorrect == Spec => []TypeOK
<1>1. IInv => TypeOK
  BY DEF IInv
<1>. QED
  BY Invariance, <1>1, PTL

(***************************************************************************)
(* The previous header is read only after a packet of the PID was stored,  *)
(* and then it is the header of the last packet of this PID.               *)
(***************************************************************************)
THEOREM ComparesWithLastSeen == Spec => []BeforeIsLastSeen
<1>1. IInv => BeforeIsLastSeen
  BY DEF IInv
<1>. QED
  BY Invariance, <1>1, PTL

-----------------------------------------------------------------------------
(* The counters are exact.  The code knows of the packets before the last  *)
(* one only by repeat, so what repeat stands for has to be found: it is    *)
(* the parity of the number of copies just before the last packet,         *)
(* whenever another copy of that packet would be judged by it.             *)

Judged(buf) ==
  HasPayload(buf) /\ Discontinuity(buf) = 0 /\ buf.pid # NULL_PID

(* What element e should be after the packets of stream s.                 *)
Summary(e, s) ==
  /\ e.use = Flag(s # <<>>)
  /\ s # <<>> => e.before_packet = s[Len(s)]
  /\ s = <<>> => e.repeat = 0
  /\ s # <<>> /\ Judged(s[Len(s)]) =>
       e.repeat = Cardinality(Copies(s, Len(s))) % 2
  /\ e.drop = Cardinality(Gaps(s))
  /\ e.error = Cardinality(Errors(s))
  /\ e.scrambling = Cardinality(Scrambled(s))

CInv == \A p \in PIDs : Summary(ts_drop_count[p], seen[p])

(* A packet behind it changes nothing about a position.                    *)
LEMMA GapOfPrefix ==
  ASSUME NEW s \in Seq(Packet), NEW buf, NEW i \in 1 .. Len(s)
  PROVE  /\ Copies(Append(s, buf), i) = Copies(s, i)
         /\ Gap(Append(s, buf), i) <=> Gap(s, i)
<1>. DEFINE longer == Append(s, buf)
<1>1. \A k \in 1 .. Len(s) : longer[k] = s[k]
  OBVIOUS
<1>. HIDE DEF longer
<1>2. Copies(longer, i) = Copies(s, i)
  BY <1>1 DEF Copies
<1>3. longer[i] = s[i] /\ (i > 1 => longer[i - 1] = s[i - 1])
  BY <1>1
<1>4. Gap(longer, i) <=> Gap(s, i)
  BY <1>2, <1>3 DEF Gap
<1>. QED
  BY <1>2, <1>4 DEF longer

(* The copies before a position are finitely many.                         *)
LEMMA CopiesFinite ==
  ASSUME NEW s, NEW i \in Nat
  PROVE  IsFiniteSet(Copies(s, i)) /\ Cardinality(Copies(s, i)) \in Nat
<1>1. IsFiniteSet(1 .. (i - 1)) /\ Copies(s, i) \subseteq 1 .. (i - 1)
  BY FS_Interval DEF Copies
<1>. QED
  BY <1>1, FS_Subset, FS_CardinalityType

(* The copies before a packet that is appended: those before the last one, *)
(* and this one, if the packet is the same once more.                      *)
LEMMA CopiesOfLast ==
  ASSUME NEW s \in Seq(Packet), NEW buf
  PROVE  LET n == Len(s) IN
         Copies(Append(s, buf), n + 1) =
           IF n > 0 /\ s[n] = buf THEN Copies(s, n) \cup {n} ELSE {}
<1>. DEFINE n == Len(s)
            longer == Append(s, buf)
<1>1. n \in Nat /\ longer[n + 1] = buf /\ \A k \in 1 .. n : longer[k] = s[k]
  OBVIOUS
<1>. HIDE DEF longer, n
<1>2. CASE n > 0 /\ s[n] = buf
  <2>1. ASSUME NEW j \in 1 .. n
        PROVE  (\A k \in j .. n + 1 : longer[k] = longer[n + 1])
                 <=> (\A k \in j .. n : s[k] = s[n])
    BY <1>1, <1>2
  <2>2. Copies(longer, n + 1) = {j \in 1 .. n : \A k \in j .. n : s[k] = s[n]}
    <3>1. (n + 1) - 1 = n
      BY <1>1
    <3>. QED
      BY <2>1, <3>1 DEF Copies
  <2>3. {j \in 1 .. n : \A k \in j .. n : s[k] = s[n]}
          = {j \in 1 .. n - 1 : \A k \in j .. n : s[k] = s[n]} \cup {n}
    BY <1>1, <1>2
  <2>. QED
    BY <1>2, <2>2, <2>3 DEF Copies, longer, n
<1>3. CASE ~(n > 0 /\ s[n] = buf)
  <2>1. ASSUME NEW j \in 1 .. (n + 1) - 1
        PROVE  ~ \A k \in j .. n + 1 : longer[k] = longer[n + 1]
    BY <1>1, <1>3
  <2>. QED
    BY <1>3, <2>1 DEF Copies, longer, n
<1>. QED
  BY <1>2, <1>3

(* Odd and even.                                                           *)
LEMMA Parity ==
  ASSUME NEW n \in Nat
  PROVE  /\ n % 2 \in {0, 1}
         /\ n % 2 = 0 => (n + 1) % 2 = 1
         /\ n % 2 = 1 => (n + 1) % 2 = 0
OBVIOUS

(* What the element says of the next packet is what the whole stream says, *)
(* and repeat is again the parity of the copies.                           *)
LEMMA LastGap ==
  ASSUME NEW s \in Seq(Packet), NEW e \in TS_DROP_COUNT, NEW buf \in Packet,
         Summary(e, s)
  PROVE  LET longer == Append(s, buf)
             n      == Len(s) + 1
         IN /\ Gap(longer, n) <=> HaveDrop(e, buf)
            /\ Judged(buf) => Repeat(e, buf) = Cardinality(Copies(longer, n)) % 2
<1>. DEFINE longer == Append(s, buf)
            m == Len(s)
            n == m + 1
            old == Copies(s, m)
            new == Copies(longer, n)
<1>1. /\ m \in Nat /\ n = m + 1 /\ n - 1 = m /\ longer[n] = buf
      /\ m > 0 => longer[m] = s[m] /\ s[m] \in Packet
      /\ s = <<>> <=> m = 0
      /\ m = Len(s)
  OBVIOUS
<1>. HIDE DEF longer, m, n
<1>2. /\ e.repeat \in Nat
      /\ m = 0 => e.use = 0 /\ e.repeat = 0
      /\ m > 0 => e.use = 1 /\ e.before_packet = s[m]
      /\ m > 0 /\ Judged(s[m]) => e.repeat = Cardinality(old) % 2
  <2>1. e.repeat \in Nat
    BY DEF TS_DROP_COUNT
  <2>2. CASE m = 0
    BY <1>1, <2>1, <2>2 DEF Summary, Flag
  <2>3. CASE m > 0
    BY <1>1, <2>1, <2>3 DEF Summary, Flag
  <2>. QED
    BY <1>1, <2>1, <2>2, <2>3
<1>3. /\ new = IF m > 0 /\ s[m] = buf THEN old \cup {m} ELSE {}
      /\ IsFiniteSet(old) /\ Cardinality(old) \in Nat /\ m \notin old
  <2>1. m \notin old
    BY <1>1 DEF Copies
  <2>2. new = IF m > 0 /\ s[m] = buf THEN old \cup {m} ELSE {}
    BY <1>1, CopiesOfLast DEF longer
  <2>3. IsFiniteSet(old) /\ Cardinality(old) \in Nat
    BY <1>1, CopiesFinite
  <2>. QED
    BY <2>1, <2>2, <2>3
<1>. HIDE DEF old, new
<1>4. m > 0 /\ s[m] = buf =>
        new # {} /\ Cardinality(new) = Cardinality(old) + 1
  BY <1>3, FS_AddElement
<1>5. ~(m > 0 /\ s[m] = buf) => new = {} /\ Cardinality(new) % 2 = 0
  <2>1. Cardinality({}) % 2 = 0
    <3>1. Cardinality({}) = 0
      BY FS_EmptySet
    <3>. QED
      BY <3>1
  <2>. QED
    BY <1>3, <2>1
<1>6. Gap(longer, n) <=>
        /\ m > 0 /\ Discontinuity(buf) = 0 /\ buf.pid # NULL_PID
        /\ \/ ~HasPayload(buf) /\ buf.cc # s[m].cc
           \/ /\ HasPayload(buf)
              /\ \/ buf.cc \notin {s[m].cc, NextCounter(s[m].cc)}
                 \/ buf.cc = s[m].cc /\ buf # s[m]
                 \/ new # {} /\ Cardinality(new) % 2 = 0
  <2>1. n > 1 <=> m > 0
    BY <1>1
  <2>. QED
    BY <1>1, <2>1 DEF Gap, new
<1>7. CASE m = 0
  <2>1. ~Gap(longer, n) /\ ~HaveDrop(e, buf) /\ ~Repeated(e, buf) /\ ~Compared(e, buf)
    BY <1>1, <1>2, <1>6, <1>7 DEF HaveDrop, Repeated, Compared
  <2>2. Repeat(e, buf) = 0
    BY <1>2, <1>7, <2>1 DEF Repeat
  <2>3. Cardinality(new) % 2 = 0
    BY <1>1, <1>5, <1>7
  <2>. QED
    BY <2>1, <2>2, <2>3 DEF longer, n, m, new
<1>8. CASE m > 0 /\ s[m] = buf /\ Judged(buf)
  <2>1. /\ Compared(e, buf) /\ Repeated(e, buf) /\ HasPayload(buf)
        /\ HaveDrop(e, buf) <=> e.repeat + 1 > 1
    BY <1>2, <1>8 DEF Compared, Repeated, Judged, HaveDrop
  <2>2. e.repeat = Cardinality(old) % 2
    BY <1>2, <1>8
  <2>3. Gap(longer, n) <=> Cardinality(new) % 2 = 0
    BY <1>4, <1>6, <1>8 DEF Judged
  <2>4. HaveDrop(e, buf) <=> Cardinality(new) % 2 = 0
    BY <1>3, <1>4, <1>8, <2>1, <2>2, Parity
  <2>5. Repeat(e, buf) = IF HaveDrop(e, buf) THEN 0 ELSE e.repeat + 1
    BY <2>1 DEF Repeat
  <2>6. Repeat(e, buf) = Cardinality(new) % 2
    BY <1>3, <1>4, <1>8, <2>1, <2>2, <2>5, Parity
  <2>. QED
    BY <2>3, <2>4, <2>6 DEF longer, n, m, new
<1>9. CASE m > 0 /\ ~(s[m] = buf /\ Judged(buf))
  <2>1. ~(s[m] = buf /\ HasPayload(buf) /\ Compared(e, buf))
    BY <1>9 DEF Compared, Judged
  <2>2. ~Repeated(e, buf)
    BY <1>2, <1>9, <2>1 DEF Repeated
  <2>3. ASSUME Judged(buf)
        PROVE  Repeat(e, buf) = 0 /\ Cardinality(new) % 2 = 0
    <3>1. Compared(e, buf) /\ HasPayload(buf)
      BY <1>2, <1>9, <2>3 DEF Compared, Judged
    <3>2. Repeat(e, buf) = 0
      BY <2>2, <3>1, HaveDropIsBoolean DEF Repeat
    <3>. QED
      BY <1>5, <1>9, <2>3, <3>2
  <2>4. Gap(longer, n) <=> HaveDrop(e, buf)
    <3>1. CASE ~HasPayload(buf)
      BY <1>2, <1>6, <1>9, <3>1 DEF HaveDrop, Compared
    <3>2. CASE HasPayload(buf) /\ s[m] # buf
      <4>1. new = {}
        BY <1>5, <3>2
      <4>. QED
        BY <1>2, <1>6, <1>9, <3>2, <4>1 DEF HaveDrop, Compared
    <3>3. CASE HasPayload(buf) /\ ~Judged(buf)
      BY <1>6, <1>9, <3>3 DEF HaveDrop, Compared, Judged
    <3>. QED
      BY <1>9, <3>1, <3>2, <3>3
  <2>. QED
    BY <2>3, <2>4 DEF longer, n, m, new
<1>. QED
  BY <1>1, <1>7, <1>8, <1>9

(* A set of positions that gains the next position, or nothing.            *)
LEMMA Gains ==
  ASSUME NEW n \in Nat, NEW before \in SUBSET (1 .. n), NEW after,
         NEW gained \in BOOLEAN,
         after = IF gained THEN before \cup {n + 1} ELSE before
  PROVE  /\ Cardinality(before) \in Nat
         /\ Cardinality(after) = Cardinality(before) + Flag(gained)
<1>1. IsFiniteSet(before) /\ Cardinality(before) \in Nat /\ n + 1 \notin before
  <2>1. IsFiniteSet(1 .. n) /\ n + 1 \notin 1 .. n
    BY FS_Interval
  <2>2. IsFiniteSet(before)
    BY <2>1, FS_Subset
  <2>. QED
    BY <2>1, <2>2, FS_CardinalityType
<1>2. gained => Cardinality(after) = Cardinality(before) + 1
  BY <1>1, FS_AddElement
<1>. QED
  BY <1>1, <1>2 DEF Flag

(* One more packet counts once more what it shows, and nothing else.       *)
LEMMA SummaryStep ==
  ASSUME NEW s \in Seq(Packet), NEW e \in TS_DROP_COUNT, NEW buf \in Packet,
         Summary(e, s)
  PROVE  Summary(drop_check_and_count(e, buf), Append(s, buf))
<1>. DEFINE longer == Append(s, buf)
            n == Len(s)
            after == drop_check_and_count(e, buf)
            lost == Gap(longer, n + 1)
<1>1. /\ n \in Nat /\ longer # <<>> /\ Len(longer) = n + 1
      /\ longer[n + 1] = buf /\ longer[Len(longer)] = buf
      /\ \A i \in 1 .. n : longer[i] = s[i]
      /\ 1 .. n + 1 = (1 .. n) \cup {n + 1}
  OBVIOUS
<1>2. /\ lost <=> HaveDrop(e, buf)
      /\ Judged(buf) => Repeat(e, buf) = Cardinality(Copies(longer, n + 1)) % 2
  BY LastGap
<1>3. \A i \in 1 .. n : Gap(longer, i) <=> Gap(s, i)
  BY GapOfPrefix
<1>4. /\ after.use = 1 /\ after.before_packet = buf
      /\ after.repeat = Repeat(e, buf)
      /\ after.drop = e.drop + Flag(HaveDrop(e, buf))
      /\ after.error = e.error + Flag(buf.tei = 1)
      /\ after.scrambling = e.scrambling + Flag(buf.tsc # 0)
  BY DEF drop_check_and_count, Remembered, NowScrambling
<1>5. /\ e.drop = Cardinality(Gaps(s))
      /\ e.error = Cardinality(Errors(s))
      /\ e.scrambling = Cardinality(Scrambled(s))
  BY DEF Summary
<1>6. n = Len(s)
  OBVIOUS
<1>. HIDE DEF longer, n, after
<1>7. Cardinality(Gaps(longer)) = Cardinality(Gaps(s)) + Flag(lost)
  <2>1. lost \in BOOLEAN
    BY DEF Gap
  <2>2. Gaps(longer) = IF lost THEN Gaps(s) \cup {n + 1} ELSE Gaps(s)
    BY <1>1, <1>3, <1>6 DEF Gaps
  <2>3. Gaps(s) \in SUBSET (1 .. n)
    BY <1>6 DEF Gaps
  <2>. HIDE DEF lost
  <2>. QED
    BY <1>1, <2>1, <2>2, <2>3, Gains
<1>8. Cardinality(Errors(longer)) = Cardinality(Errors(s)) + Flag(buf.tei = 1)
  <2>1. Errors(longer) =
          IF buf.tei = 1 THEN Errors(s) \cup {n + 1} ELSE Errors(s)
    BY <1>1, <1>6 DEF Errors
  <2>2. Errors(s) \in SUBSET (1 .. n)
    BY <1>6 DEF Errors
  <2>. QED
    BY <1>1, <2>1, <2>2, Gains
<1>9. Cardinality(Scrambled(longer))
        = Cardinality(Scrambled(s)) + Flag(buf.tsc # 0)
  <2>1. Scrambled(longer) =
          IF buf.tsc # 0 THEN Scrambled(s) \cup {n + 1} ELSE Scrambled(s)
    BY <1>1, <1>6 DEF Scrambled
  <2>2. Scrambled(s) \in SUBSET (1 .. n)
    BY <1>6 DEF Scrambled
  <2>. QED
    BY <1>1, <2>1, <2>2, Gains
<1>10. Flag(lost) = Flag(HaveDrop(e, buf))
  BY <1>2 DEF Flag
<1>11. after.use = Flag(longer # <<>>)
  BY <1>1, <1>4 DEF Flag
<1>. HIDE DEF lost
<1>12. Summary(after, longer)
  BY <1>1, <1>2, <1>4, <1>5, <1>7, <1>8, <1>9, <1>10, <1>11 DEF Summary
<1>. QED
  BY <1>12 DEF longer, after

(* The total that the caller counts, and the mark, are in none of it.      *)
LEMMA SummaryOfSame ==
  ASSUME NEW s, NEW e, NEW f, Summary(e, s),
         f.use = e.use, f.before_packet = e.before_packet,
         f.repeat = e.repeat, f.drop = e.drop, f.error = e.error,
         f.scrambling = e.scrambling
  PROVE  Summary(f, s)
BY DEF Summary

(* The counters of nothing are zero.                                       *)
LEMMA InitSummary == Init => CInv
<1>1. Gaps(<<>>) = {} /\ Errors(<<>>) = {} /\ Scrambled(<<>>) = {}
  BY DEF Gaps, Errors, Scrambled
<1>2. Summary(ZeroEntry, <<>>)
  BY <1>1, FS_EmptySet DEF Summary, ZeroEntry, Flag
<1>. QED
  BY <1>2 DEF Init, CInv

(* One packet through drop_check_and_count: its counters stay a summary    *)
(* of what was seen, those of the other PIDs are untouched.                *)
LEMMA CountSummary ==
  ASSUME IInv, CInv, NEW buf \in Packet, Count(buf)
  PROVE  CInv'
<1>. DEFINE p == buf.pid
            e == CountedByCaller(ts_drop_count[p])
<1>1. p \in PIDs
  BY DEF Packet
<1>2. /\ ts_drop_count' =
           [ts_drop_count EXCEPT ![p] = drop_check_and_count(e, buf)]
      /\ seen' = [seen EXCEPT ![p] = Append(seen[p], buf)]
  BY DEF Count
<1>3. ts_drop_count[p] \in TS_DROP_COUNT /\ seen[p] \in Seq(Packet)
  BY <1>1 DEF IInv, TypeOK
<1>4. e \in TS_DROP_COUNT /\ Summary(e, seen[p])
  <2>1. ts_drop_count[p].total + 1 \in Nat
    BY <1>3 DEF TS_DROP_COUNT
  <2>2. /\ e \in TS_DROP_COUNT
        /\ e.use = ts_drop_count[p].use
        /\ e.before_packet = ts_drop_count[p].before_packet
        /\ e.repeat = ts_drop_count[p].repeat
        /\ e.drop = ts_drop_count[p].drop
        /\ e.error = ts_drop_count[p].error
        /\ e.scrambling = ts_drop_count[p].scrambling
    BY <1>3, <2>1 DEF CountedByCaller, TS_DROP_COUNT
  <2>3. Summary(ts_drop_count[p], seen[p])
    BY <1>1 DEF CInv
  <2>. QED
    BY <2>2, <2>3, SummaryOfSame
<1>. HIDE DEF e, p
<1>5. Summary(drop_check_and_count(e, buf), Append(seen[p], buf))
  BY <1>3, <1>4, SummaryStep
<1>6. ASSUME NEW q \in PIDs
      PROVE  Summary(ts_drop_count'[q], seen'[q])
  <2>1. CASE q = p
    BY <1>1, <1>2, <1>5, <2>1 DEF IInv, TypeOK
  <2>2. CASE q # p
    <3>1. ts_drop_count'[q] = ts_drop_count[q] /\ seen'[q] = seen[q]
      BY <1>1, <1>2, <2>2 DEF IInv, TypeOK
    <3>. QED
      BY <3>1 DEF CInv
  <2>. QED
    BY <2>1, <2>2
<1>. QED
  BY <1>6 DEF CInv

(* mark_last_drop_count changes only the mark, which the summary does not  *)
(* read.                                                                   *)
LEMMA MarkSummary ==
  ASSUME IInv, CInv, mark_last_drop_count
  PROVE  CInv'
<1>1. ASSUME NEW p \in PIDs
      PROVE  Summary(ts_drop_count'[p], seen'[p])
  <2>1. /\ ts_drop_count'[p] =
             [ts_drop_count[p] EXCEPT !.last = Flag(p = LastPid)]
        /\ seen'[p] = seen[p]
    BY DEF mark_last_drop_count
  <2>2. ts_drop_count[p] \in TS_DROP_COUNT /\ Summary(ts_drop_count[p], seen[p])
    BY DEF IInv, TypeOK, CInv
  <2>3. /\ ts_drop_count'[p].use = ts_drop_count[p].use
        /\ ts_drop_count'[p].before_packet = ts_drop_count[p].before_packet
        /\ ts_drop_count'[p].repeat = ts_drop_count[p].repeat
        /\ ts_drop_count'[p].drop = ts_drop_count[p].drop
        /\ ts_drop_count'[p].error = ts_drop_count[p].error
        /\ ts_drop_count'[p].scrambling = ts_drop_count[p].scrambling
    BY <2>1, <2>2 DEF TS_DROP_COUNT
  <2>. QED
    BY <2>1, <2>2, <2>3, SummaryOfSame
<1>. QED
  BY <1>1 DEF CInv

(***************************************************************************)
(* Whatever the streams are, the counters drop, error and scrambling of    *)
(* every PID are exactly the gaps, the flagged and the scrambled packets   *)
(* of its whole stream, although drop_check_and_count looks back at a      *)
(* single packet.                                                          *)
(***************************************************************************)
THEOREM CountsExactTheorem == Spec => []CountsExact
<1>1. IInv /\ IInv' /\ CInv /\ [Next]_vars => CInv'
  <2>. SUFFICES ASSUME IInv, CInv, [Next]_vars PROVE CInv'
    OBVIOUS
  <2>1. ASSUME NEW buf \in Packet, Count(buf) PROVE CInv'
    BY <2>1, CountSummary
  <2>2. CASE mark_last_drop_count
    BY <2>2, MarkSummary
  <2>3. CASE UNCHANGED vars
    BY <2>3 DEF vars, CInv
  <2>. QED
    BY <2>1, <2>2, <2>3 DEF Next
<1>2. CInv => CountsExact
  BY DEF CInv, Summary, CountsExact
<1>. QED
  BY Invariance, InitSummary, <1>1, <1>2, PTL DEF Spec

-----------------------------------------------------------------------------
(* The marked element.                                                     *)

(* Numbers with an upper bound have a greatest one among them.             *)
LEMMA Greatest ==
  ASSUME NEW N \in Nat, NEW S \in SUBSET (0 .. N), S # {}
  PROVE  \E p \in S : \A q \in S : q <= p
<1>. DEFINE T == {N - p : p \in S}
            R == OpToRel(<, Nat)
<1>1. T \subseteq Nat
  <2>1. ASSUME NEW p \in S PROVE N - p \in Nat
    OBVIOUS
  <2>. QED
    BY <2>1
<1>2. T # {}
  <2>1. PICK p \in S : TRUE
    OBVIOUS
  <2>2. N - p \in T
    OBVIOUS
  <2>. QED
    BY <2>2
<1>3. IsWellFoundedOn(R, Nat)
  BY NatLessThanWellFounded
<1>4. \A m \in Nat, n \in Nat : m < n => <<m, n>> \in R
  BY DEF OpToRel
<1>. HIDE DEF R
<1>5. \E x \in T : \A y \in T : ~(<<y, x>> \in R)
  <2>. HIDE DEF T
  <2>. QED
    BY <1>1, <1>2, <1>3, WFMin
<1>6. PICK x \in T : \A y \in T : ~(<<y, x>> \in R)
  BY <1>5
<1>7. PICK p \in S : x = N - p
  OBVIOUS
<1>8. ASSUME NEW q \in S PROVE q <= p
  <2>1. N - q \in T /\ N - p \in T
    OBVIOUS
  <2>2. ~(N - q < N - p)
    BY <1>1, <1>4, <1>6, <1>7, <2>1
  <2>. QED
    BY <2>2
<1>. QED
  BY <1>8

(* LastPid is the greatest of the PIDs that are printed.                   *)
LEMMA LastPidIsGreatest ==
  ASSUME NEW p \in PIDs, ts_drop_count[p].total > 0
  PROVE  LET used == {q \in PIDs : ts_drop_count[q].total > 0}
         IN LastPid \in used /\ \A q \in used : q <= LastPid
<1>. DEFINE used == {q \in PIDs : ts_drop_count[q].total > 0}
<1>1. p \in used /\ used \subseteq PIDs
  OBVIOUS
<1>2. LastPid = CHOOSE x \in used : \A q \in used : q <= x
  <2>1. used # {}
    BY <1>1
  <2>2. LastPid = IF used = {} THEN 8191
                  ELSE CHOOSE x \in used : \A q \in used : q <= x
    BY DEF LastPid
  <2>. HIDE DEF used
  <2>. QED
    BY <2>1, <2>2
<1>. HIDE DEF used
<1>3. \E x \in used : \A q \in used : q <= x
  <2>1. PICK N \in Nat : PIDs \subseteq 0 .. N
    <3>. DEFINE Bounds(N) == PIDs \subseteq 0 .. N
    <3>1. Bounds(8191)
      BY PIDsAssumption DEF NULL_PID
    <3>2. 8191 \in Nat
      OBVIOUS
    <3>. HIDE DEF Bounds
    <3>3. \E N \in Nat : Bounds(N)
      BY <3>1, <3>2
    <3>. QED
      BY <3>3 DEF Bounds
  <2>2. used \in SUBSET (0 .. N) /\ used # {}
    BY <1>1, <2>1
  <2>. QED
    BY <2>1, <2>2, Greatest
<1>4. LastPid \in used /\ \A q \in used : q <= LastPid
  BY <1>2, <1>3
<1>. QED
  BY <1>4 DEF used

(* The mark is set on that element and on no other one.                    *)
LEMMA MarkSetsLast ==
  ASSUME IInv, mark_last_drop_count
  PROVE  MarkedIsLastPrinted'
<1>1. ASSUME NEW p \in PIDs
      PROVE  /\ ts_drop_count'[p].last = Flag(p = LastPid)
             /\ ts_drop_count'[p].total = ts_drop_count[p].total
  BY DEF IInv, TypeOK, TS_DROP_COUNT, mark_last_drop_count
<1>2. ASSUME NEW p \in PIDs, ts_drop_count[p].total > 0
      PROVE  p = LastPid <=>
               \A q \in PIDs : ts_drop_count[q].total > 0 => q <= p
  <2>1. /\ LastPid \in PIDs /\ ts_drop_count[LastPid].total > 0
        /\ \A q \in PIDs : ts_drop_count[q].total > 0 => q <= LastPid
    BY <1>2, LastPidIsGreatest
  <2>2. p \in Int /\ LastPid \in Int
    <3>1. PIDs \subseteq 0 .. 8191
      BY PIDsAssumption DEF NULL_PID
    <3>2. PIDs \subseteq Int
      BY <3>1
    <3>. QED
      BY <2>1, <3>2
  <2>. QED
    BY <1>2, <2>1, <2>2
<1>. QED
  BY <1>1, <1>2 DEF MarkedIsLastPrinted, Flag

(* An element is marked, also when no packet was counted.                  *)
LEMMA MarkIsSet ==
  ASSUME TypeOK, mark_last_drop_count
  PROVE  Marked'
<1>1. LastPid \in PIDs
  <2>1. CASE \E p \in PIDs : ts_drop_count[p].total > 0
    BY <2>1, LastPidIsGreatest
  <2>2. CASE ~\E p \in PIDs : ts_drop_count[p].total > 0
    <3>1. LastPid = NULL_PID
      BY <2>2 DEF LastPid, NULL_PID
    <3>. QED
      BY <3>1, PIDsAssumption
  <2>. QED
    BY <2>1, <2>2
<1>2. ts_drop_count'[LastPid].last = Flag(LastPid = LastPid)
  <2>1. ts_drop_count[LastPid] \in TS_DROP_COUNT
    BY <1>1 DEF TypeOK
  <2>. QED
    BY <1>1, <2>1 DEF mark_last_drop_count, TS_DROP_COUNT
<1>. QED
  BY <1>1, <1>2 DEF Marked, Flag

(* Before the mark, packets set last nowhere.                              *)
LEMMA CountSetsNoMark ==
  ASSUME IInv, ~Marked, NEW buf \in Packet, Count(buf)
  PROVE  ~Marked'
<1>. DEFINE e == CountedByCaller(ts_drop_count[buf.pid])
<1>1. buf.pid \in PIDs /\ ts_drop_count[buf.pid] \in TS_DROP_COUNT
  BY DEF Packet, IInv, TypeOK
<1>2. e.last = ts_drop_count[buf.pid].last
  BY <1>1 DEF CountedByCaller, TS_DROP_COUNT
<1>3. ts_drop_count' = [ts_drop_count EXCEPT ![buf.pid] =
                          drop_check_and_count(e, buf)]
  BY DEF Count
<1>. HIDE DEF e
<1>4. drop_check_and_count(e, buf).last = e.last
  BY DEF drop_check_and_count
<1>5. ASSUME NEW p \in PIDs PROVE ts_drop_count'[p].last # 1
  BY <1>1, <1>2, <1>3, <1>4 DEF Marked, IInv, TypeOK
<1>. QED
  BY <1>5 DEF Marked

(***************************************************************************)
(* The mark that ends the list of the report is on the greatest PID that   *)
(* is printed, and on no other that is printed, whatever PIDs the file     *)
(* has.                                                                    *)
(***************************************************************************)
THEOREM MarkTheorem == Spec => []MarkedIsLastPrinted
<1>1. Init => MarkedIsLastPrinted
  <2>1. Init => ~Marked
    BY DEF Init, Marked, ZeroEntry
  <2>. QED
    BY <2>1 DEF MarkedIsLastPrinted
<1>2. IInv /\ MarkedIsLastPrinted /\ [Next]_vars => MarkedIsLastPrinted'
  <2>. SUFFICES ASSUME IInv, MarkedIsLastPrinted, [Next]_vars
                PROVE  MarkedIsLastPrinted'
    OBVIOUS
  <2>1. ASSUME NEW buf \in Packet, ~Marked, Count(buf)
        PROVE  MarkedIsLastPrinted'
    <3>1. ~Marked'
      BY <2>1, CountSetsNoMark
    <3>. QED
      BY <3>1 DEF MarkedIsLastPrinted
  <2>2. CASE mark_last_drop_count
    BY <2>2, MarkSetsLast
  <2>3. CASE UNCHANGED vars
    BY <2>3 DEF vars, Marked, MarkedIsLastPrinted
  <2>. QED
    BY <2>1, <2>2, <2>3 DEF Next
<1>. QED
  BY Invariance, <1>1, <1>2, PTL DEF Spec
=============================================================================
