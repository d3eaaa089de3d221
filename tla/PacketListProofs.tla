-------------------------- MODULE PacketListProofs --------------------------
(***************************************************************************)
(* For every set of PIDs and every sequence of packets, whatever lengths   *)
(* they announce: the elements of packet_list keep their type, no copy of  *)
(* a section runs over the block allocated for it, and a section that is   *)
(* handed over is exactly what came for its PID since its start.           *)
(*                                                                         *)
(* NoOverrun is not inductive. A continuation adds up to 188 bytes to      *)
(* copybytes, so one has to know that copybytes did not exceed size before *)
(* and that the block has Slack bytes more than size: both hold while the  *)
(* element is loading, and a packet is copied only then or into a block    *)
(* just allocated (WellFilled).                                            *)
(*                                                                         *)
(* Collects relates an element to the packets that were offered to it: its *)
(* block holds the useful ones since the last start, and copybytes is the  *)
(* number of their bytes. How these grow by one packet is said in          *)
(* FragmentsGrow, BytesGrow and SinceStartGrows.                           *)
(***************************************************************************)
EXTENDS PacketList, FiniteSetTheorems, SequenceTheorems, FunctionTheorems,
        WellFoundedInduction, TLAPS

MaxSize == SectionLengthMax + 3

WellFilled(e) ==
  /\ e.size \in 0 .. MaxSize
  /\ e.cap \in {0, e.size + Slack}
  /\ e.copybytes \in 0 .. e.cap
  /\ e.loading = 1 => e.cap = e.size + Slack /\ e.copybytes <= e.size
  /\ e.copybytes > 0 => e.payload # <<>>

(* What a decoder is given begins with a packet and lies in a block of the *)
(* size announced, and a PAT is given once.                                *)
HandedOver ==
  section.ok =>
    /\ section.payload # <<>>
    /\ packet_list[section.pid].cap = section.size + Slack
    /\ section.pid = PAT_PID => packet_list[PAT_PID].enable = 0

(* The block that a decoder gets was allocated for the length in the last  *)
(* start of its PID, and the header that it reads there is that of the     *)
(* first packet with a payload since: of the start itself exactly if this  *)
(* has one, and otherwise of a continuation.                               *)
HeaderDecoded ==
  section.ok =>
    LET recent == SinceStart(offered[section.pid]) IN
    /\ recent # <<>>
    /\ packet_list[section.pid].cap = Announced(recent) + Slack
    /\ \E k \in DOMAIN recent :
         /\ Useful(recent[k])
         /\ \A i \in 1 .. k - 1 : ~Useful(recent[i])
         /\ section.payload[1] = recent[k]
    /\ section.payload[1].pusi = 1 <=> Useful(Head(recent))

(* What the program needs of it: there is a start in the packets offered   *)
(* that the block was allocated for, and if it has a payload, the header   *)
(* is its own.                                                             *)
StartDecoded ==
  section.ok =>
    \E j \in DOMAIN offered[section.pid] :
      LET start == offered[section.pid][j]
      IN /\ start.pusi = 1
         /\ packet_list[section.pid].cap = start.sec.section_length + 3 + Slack
         /\ Useful(start) => section.payload[1] = start

(* What an element holds, compared with the packets offered to it.         *)
Collects(e, s) ==
  LET recent == SinceStart(s)
  IN /\ e.copybytes = Bytes(e.payload)
     /\ recent # <<>> => e.size = Announced(recent)
     /\ e.loading = 1 => recent # <<>> /\ e.payload = Fragments(recent)
     /\ recent # <<>> /\ e.loading # 1 /\ ~BadCopySize(Head(recent))
          => Bytes(Fragments(recent)) > Announced(recent)

IInv ==
  /\ TypeOK
  /\ \A p \in PIDs : WellFilled(packet_list[p])
  /\ \A p \in PIDs : Collects(packet_list[p], offered[p])
  /\ HandedOver
  /\ DeliveredIsSinceStart

-----------------------------------------------------------------------------

(* The numbers the proofs need: a block always fits into 16 bits.          *)
LEMMA Widths ==
  /\ MaxSize \in Nat /\ Slack \in Nat /\ Slack = PacketSize
  /\ \A n \in 0 .. MaxSize + Slack : n \in UINT16
<1>1. MaxSize = 4098 /\ Slack = 188 /\ Slack = PacketSize
  BY DEF MaxSize, SectionLengthMax, Slack, PacketSize
<1>2. 4286 <= UINT16_MAX /\ UINT16_MAX \in Nat
  BY DEF UINT16_MAX
<1>3. MaxSize + Slack = 4286
  BY <1>1
<1>4. \A n \in 0 .. MaxSize + Slack : n \in UINT16
  BY <1>2, <1>3 DEF UINT16
<1>. QED
  BY <1>1, <1>4

(* The payload starts within a packet or past its end, never before it.    *)
LEMMA StartPosition ==
  ASSUME NEW buf \in Packet
  PROVE  payload_start_pos(buf) \in 0 .. 260
<1>1. buf.pusi \in 0 .. 1 /\ buf.afc \in 0 .. 3 /\ buf.af.length \in 0 .. 255
  BY DEF Packet, AdaptationField, Bit
<1>. QED
  BY <1>1 DEF payload_start_pos

(* What is copied is never more than a packet.                             *)
LEMMA CopySize ==
  ASSUME NEW buf \in Packet, ~BadCopySize(buf)
  PROVE  copy_size(buf) \in 0 .. PacketSize
BY StartPosition DEF BadCopySize, copy_size, PacketSize

(* Unless the packet is an orphan, it is copied into a block with its      *)
(* whole slack still free.                                                 *)
LEMMA PreparedFits ==
  ASSUME NEW e \in PACKET_LIST, WellFilled(e), NEW buf \in Packet,
         ~Orphan(e, buf)
  PROVE  /\ Prepared(e, buf) \in PACKET_LIST
         /\ WellFilled(Prepared(e, buf))
         /\ Prepared(e, buf).cap = Prepared(e, buf).size + Slack
         /\ Prepared(e, buf).copybytes <= Prepared(e, buf).size
<1>1. CASE buf.pusi = 1
  <2>. DEFINE size == buf.sec.section_length + 3
  <2>1. size \in 0 .. MaxSize
    <3>. SectionLengthMax \in Nat
      BY DEF SectionLengthMax
    <3>1. buf.sec.section_length \in 0 .. SectionLengthMax
      BY DEF Packet, SectionHeader
    <3>. QED
      BY <3>1 DEF MaxSize
  <2>2. size \in Nat /\ size \in UINT16 /\ size + Slack \in Nat
    BY <2>1, Widths
  <2>. HIDE DEF size
  <2>3. /\ NewBlock(e, size) \in PACKET_LIST
        /\ WellFilled(NewBlock(e, size))
        /\ NewBlock(e, size).cap = NewBlock(e, size).size + Slack
        /\ NewBlock(e, size).copybytes <= NewBlock(e, size).size
    <3>1. NewBlock(e, size) \in PACKET_LIST
      BY <2>2, Widths DEF NewBlock, PACKET_LIST, Bit
    <3>2. 0 \in 0 .. size + Slack /\ 0 <= size
      BY <2>2
    <3>. QED
      BY <2>1, <3>1, <3>2 DEF NewBlock, WellFilled
  <2>. QED
    BY <1>1, <2>3 DEF Prepared, BeginSection, size
<1>2. CASE buf.pusi # 1
  <2>1. e.loading = 1
    BY <1>2 DEF Orphan, Packet, PACKET_LIST, Bit
  <2>. QED
    BY <1>2, <2>1 DEF Prepared, WellFilled
<1>. QED
  BY <1>1, <1>2

(* Then the copy of one packet stays in the block.                         *)
LEMMA CopyFits ==
  ASSUME NEW e \in PACKET_LIST, WellFilled(e), NEW buf \in Packet,
         e.cap = e.size + Slack, e.copybytes <= e.size, ~BadCopySize(buf)
  PROVE  LET copied == Copied(e, buf)
         IN /\ copied \in PACKET_LIST
            /\ copied.size = e.size /\ copied.cap = e.cap
            /\ copied.copybytes \in 0 .. copied.cap
            /\ copied.copybytes > 0 => copied.payload # <<>>
<1>1. copy_size(buf) \in 0 .. PacketSize
  BY CopySize
<1>2. e.copybytes + copy_size(buf) \in 0 .. e.cap
  BY <1>1, Widths DEF WellFilled
<1>3. e.copybytes + copy_size(buf) \in UINT16
  BY <1>2, Widths DEF WellFilled
<1>4. (IF copy_size(buf) > 0 THEN Append(e.payload, buf) ELSE e.payload)
        \in Seq(Packet)
  BY DEF PACKET_LIST
<1>5. Append(e.payload, buf) # <<>>
  <2>1. e.payload \in Seq(Packet)
    BY DEF PACKET_LIST
  <2>. QED
    BY <2>1
<1>6. /\ Copied(e, buf) \in PACKET_LIST
      /\ Copied(e, buf).size = e.size /\ Copied(e, buf).cap = e.cap
      /\ Copied(e, buf).copybytes \in 0 .. Copied(e, buf).cap
  BY <1>2, <1>3, <1>4 DEF Copied, PACKET_LIST
<1>7. Copied(e, buf).copybytes > 0 => Copied(e, buf).payload # <<>>
  <2>1. e.copybytes \in Nat /\ copy_size(buf) \in Nat
    BY <1>1, Widths DEF WellFilled, PACKET_LIST
  <2>2. CASE copy_size(buf) > 0
    BY <1>5, <2>2 DEF Copied
  <2>3. CASE ~(copy_size(buf) > 0)
    BY <2>1, <2>3 DEF Copied, WellFilled
  <2>. QED
    BY <2>2, <2>3
<1>. QED
  BY <1>6, <1>7

(* One call of st_packet keeps the element well filled.                    *)
LEMMA StPacketFits ==
  ASSUME NEW e \in PACKET_LIST, WellFilled(e), NEW buf \in Packet,
         NEW crc \in Bit
  PROVE  st_packet(e, buf, crc) \in PACKET_LIST
           /\ WellFilled(st_packet(e, buf, crc))
<1>. DEFINE prepared == Prepared(e, buf)
            copied   == Copied(prepared, buf)
<1>1. CASE Orphan(e, buf)
  BY <1>1 DEF st_packet
<1>2. CASE ~Orphan(e, buf) /\ BadCopySize(buf)
  BY <1>2, PreparedFits DEF st_packet
<1>3. CASE ~Orphan(e, buf) /\ ~BadCopySize(buf)
  <2>1. /\ prepared \in PACKET_LIST
        /\ WellFilled(prepared)
        /\ prepared.cap = prepared.size + Slack
        /\ prepared.copybytes <= prepared.size
    BY <1>3, PreparedFits
  <2>. HIDE DEF prepared
  <2>2. /\ copied \in PACKET_LIST
        /\ copied.size = prepared.size /\ copied.cap = prepared.cap
        /\ copied.copybytes \in 0 .. copied.cap
        /\ copied.copybytes > 0 => copied.payload # <<>>
    BY <1>3, <2>1, CopyFits
  <2>. HIDE DEF copied
  <2>3. CASE Filled(copied)
    <3>1. Done(copied, buf, crc) \in PACKET_LIST
      BY <2>2 DEF Done, PACKET_LIST, Bit
    <3>2. WellFilled(Done(copied, buf, crc))
      BY <2>1, <2>2 DEF Done, PACKET_LIST, WellFilled
    <3>. QED
      BY <1>3, <2>3, <3>1, <3>2 DEF st_packet, copied, prepared
  <2>4. CASE ~Filled(copied)
    <3>1. [copied EXCEPT !.loading = 1] \in PACKET_LIST
      BY <2>2 DEF PACKET_LIST, Bit
    <3>2. WellFilled([copied EXCEPT !.loading = 1])
      BY <2>1, <2>2, <2>4 DEF PACKET_LIST, WellFilled, Filled
    <3>. QED
      BY <1>3, <2>4, <3>1, <3>2 DEF st_packet, copied, prepared
  <2>. QED
    BY <2>3, <2>4
<1>. QED
  BY <1>1, <1>2, <1>3

(* A section that is handed over has at least one packet.                  *)
LEMMA ReturnsPackets ==
  ASSUME NEW e \in PACKET_LIST, WellFilled(e), NEW buf \in Packet,
         NEW crc \in Bit, Returns(e, buf)
  PROVE  LET next == st_packet(e, buf, crc)
         IN next.payload # <<>> /\ next.cap = next.size + Slack
<1>. DEFINE prepared == Prepared(e, buf)
            copied   == Copied(prepared, buf)
<1>1. ~Orphan(e, buf) /\ ~BadCopySize(buf) /\ Filled(copied)
  BY DEF Returns
<1>2. /\ prepared \in PACKET_LIST
      /\ WellFilled(prepared)
      /\ prepared.cap = prepared.size + Slack
      /\ prepared.copybytes <= prepared.size
  BY <1>1, PreparedFits
<1>. HIDE DEF prepared
<1>3. /\ copied.size = prepared.size /\ copied \in PACKET_LIST
      /\ copied.copybytes \in 0 .. copied.cap
      /\ copied.cap = prepared.cap
      /\ copied.copybytes > 0 => copied.payload # <<>>
  BY <1>1, <1>2, CopyFits
<1>. HIDE DEF copied
<1>4. copied.payload # <<>>
  BY <1>1, <1>2, <1>3, Widths DEF Filled, WellFilled
<1>5. /\ Done(copied, buf, crc).payload = copied.payload
      /\ Done(copied, buf, crc).size = copied.size
      /\ Done(copied, buf, crc).cap = copied.cap
  BY <1>3 DEF Done, PACKET_LIST
<1>. QED
  BY <1>1, <1>2, <1>3, <1>4, <1>5 DEF st_packet, copied, prepared

-----------------------------------------------------------------------------

(* Subsequences by their positions.                                        *)

(* Positions are finitely many; one more has the highest rank and does not *)
(* change the others.                                                      *)
LEMMA Ranks ==
  ASSUME NEW n \in Nat, NEW P \in SUBSET (1 .. n)
  PROVE  /\ Cardinality(P) \in Nat
         /\ Cardinality(P \cup {n + 1}) = Cardinality(P) + 1
         /\ Rank(P \cup {n + 1}, n + 1) = Cardinality(P) + 1
         /\ \A i \in P : /\ Rank(P, i) \in 1 .. Cardinality(P)
                         /\ Rank(P \cup {n + 1}, i) = Rank(P, i)
         /\ \A i, j \in P : i < j => Rank(P, i) < Rank(P, j)
<1>1. IsFiniteSet(P)
  <2>1. IsFiniteSet(1 .. n)
    BY FS_Interval
  <2>. QED
    BY <2>1, FS_Subset
<1>2. Cardinality(P) \in Nat
  BY <1>1, FS_CardinalityType
<1>3. n + 1 \notin P
  OBVIOUS
<1>4. Cardinality(P \cup {n + 1}) = Cardinality(P) + 1
  BY <1>1, <1>3, FS_AddElement
<1>5. {j \in P \cup {n + 1} : j <= n + 1} = P \cup {n + 1}
  <2>1. \A j \in P \cup {n + 1} : j <= n + 1
    OBVIOUS
  <2>. QED
    BY <2>1
<1>6. ASSUME NEW i \in P
      PROVE  /\ Rank(P, i) \in 1 .. Cardinality(P)
             /\ Rank(P \cup {n + 1}, i) = Rank(P, i)
  <2>. DEFINE below == {j \in P : j <= i}
  <2>1. {j \in P \cup {n + 1} : j <= i} = below
    OBVIOUS
  <2>2. below \in SUBSET P /\ i \in below
    OBVIOUS
  <2>3. /\ IsFiniteSet(below) /\ Cardinality(below) <= Cardinality(P)
        /\ Cardinality(below) \in Nat
    BY <1>1, <2>2, FS_Subset, FS_CardinalityType
  <2>4. Cardinality(below) # 0
    BY <2>2, <2>3, FS_EmptySet
  <2>. HIDE DEF below
  <2>5. Cardinality(below) \in 1 .. Cardinality(P)
    BY <1>2, <2>3, <2>4
  <2>6. Rank(P, i) = Cardinality(below)
    BY DEF Rank, below
  <2>. QED
    BY <2>1, <2>5, <2>6 DEF Rank
<1>7. ASSUME NEW i \in P, NEW j \in P, i < j
      PROVE  Rank(P, i) < Rank(P, j)
  <2>. DEFINE lower  == {h \in P : h <= i}
              higher == {h \in P : h <= j}
  <2>1. lower \in SUBSET higher /\ j \in higher /\ j \notin lower
    <3>1. i \in Int /\ j \in Int /\ \A h \in P : h \in Int
      OBVIOUS
    <3>2. \A h \in P : h <= i => h <= j
      BY <1>7, <3>1
    <3>3. j <= j /\ ~(j <= i)
      BY <1>7, <3>1
    <3>. QED
      BY <3>2, <3>3
  <2>2. IsFiniteSet(higher)
    <3>1. higher \in SUBSET P
      OBVIOUS
    <3>. QED
      BY <1>1, <3>1, FS_Subset
  <2>. HIDE DEF lower, higher
  <2>3. /\ IsFiniteSet(lower) /\ Cardinality(lower) <= Cardinality(higher)
        /\ Cardinality(higher) = Cardinality(lower) => higher = lower
    BY <2>1, <2>2, FS_Subset
  <2>4. Cardinality(lower) \in Nat /\ Cardinality(higher) \in Nat
    BY <2>2, <2>3, FS_CardinalityType
  <2>5. Cardinality(lower) < Cardinality(higher)
    BY <2>1, <2>3, <2>4
  <2>. QED
    BY <2>5 DEF Rank, lower, higher
<1>. QED
  BY <1>2, <1>4, <1>5, <1>6, <1>7 DEF Rank

(* Every rank belongs to one position.                                     *)
LEMMA OneOfEachRank ==
  ASSUME NEW n \in Nat, NEW P \in SUBSET (1 .. n),
         NEW k \in 1 .. Cardinality(P)
  PROVE  \E i \in P : Rank(P, i) = k /\ \A j \in P : Rank(P, j) = k => j = i
<1>. DEFINE f == [i \in P |-> Rank(P, i)]
            T == 1 .. Cardinality(P)
<1>1. \A i \in P : Rank(P, i) \in T
  BY Ranks
<1>2. \A i, j \in P : Rank(P, i) = Rank(P, j) => i = j
  <2>1. SUFFICES ASSUME NEW i \in P, NEW j \in P, Rank(P, i) = Rank(P, j), i < j
                 PROVE  FALSE
    OBVIOUS
  <2>2. Rank(P, i) \in Nat /\ Rank(P, j) \in Nat /\ Rank(P, i) < Rank(P, j)
    <3>1. Rank(P, i) < Rank(P, j)
      BY <2>1, Ranks
    <3>2. Cardinality(P) \in Nat
      BY Ranks
    <3>. QED
      BY <1>1, <3>1, <3>2
  <2>. QED
    BY <2>1, <2>2
<1>3. Cardinality(P) \in Nat
  BY Ranks
<1>. HIDE DEF T
<1>4. f \in Injection(P, T)
  BY <1>1, <1>2 DEF Injection, IsInjective
<1>5. IsFiniteSet(T) /\ Cardinality(T) = Cardinality(P)
  <2>. USE DEF T
  <2>. QED
    BY <1>3, FS_Interval
<1>. HIDE DEF f
<1>6. f \in Surjection(P, T)
  BY <1>4, <1>5, FS_Injection
<1>7. \E i \in P : f[i] = k
  BY <1>6 DEF Surjection, T
<1>. QED
  BY <1>2, <1>7 DEF f

(* The position that the definition chooses for a rank.                    *)
LEMMA ChosenPosition ==
  ASSUME NEW n \in Nat, NEW P \in SUBSET (1 .. n),
         NEW k \in 1 .. Cardinality(P)
  PROVE  LET c == CHOOSE i \in P : Rank(P, i) = k
         IN c \in P /\ Rank(P, c) = k /\ \A j \in P : Rank(P, j) = k => j = c
<1>1. PICK i \in P : Rank(P, i) = k /\ \A j \in P : Rank(P, j) = k => j = i
  BY OneOfEachRank
<1>. QED
  BY <1>1

(* What is selected is a sequence, the longer the more positions there are.*)
LEMMA SubsequenceType ==
  ASSUME NEW S, NEW s \in Seq(S), NEW P \in SUBSET (1 .. Len(s))
  PROVE  /\ Subsequence(s, P) \in Seq(S)
         /\ Len(Subsequence(s, P)) = Cardinality(P)
<1>. DEFINE Of(k) == CHOOSE i \in P : Rank(P, i) = k
            c == Cardinality(P)
<1>1. Len(s) \in Nat /\ \A i \in 1 .. Len(s) : s[i] \in S
  OBVIOUS
<1>2. c \in Nat
  BY <1>1, Ranks
<1>3. ASSUME NEW k \in 1 .. c PROVE s[Of(k)] \in S
  <2>1. Of(k) \in P
    BY <1>1, ChosenPosition
  <2>. QED
    BY <1>1, <2>1
<1>4. Subsequence(s, P) = [k \in 1 .. c |-> s[Of(k)]]
  BY DEF Subsequence
<1>. HIDE DEF Of, c
<1>5. Subsequence(s, P) \in Seq(S) /\ Len(Subsequence(s, P)) = c
  BY <1>2, <1>3, <1>4
<1>. QED
  BY <1>5 DEF c

(* An element that is not selected leaves the selection as it is, and one  *)
(* that is selected comes behind it.                                       *)
LEMMA SubsequenceGrows ==
  ASSUME NEW S, NEW s \in Seq(S), NEW x \in S, NEW P \in SUBSET (1 .. Len(s))
  PROVE  /\ Subsequence(Append(s, x), P) = Subsequence(s, P)
         /\ Subsequence(Append(s, x), P \cup {Len(s) + 1})
              = Append(Subsequence(s, P), x)
<1>. DEFINE n == Len(s)
            longer == Append(s, x)
            Q == P \cup {n + 1}
            c == Cardinality(P)
            Of(T, k) == CHOOSE i \in T : Rank(T, i) = k
<1>1. /\ n \in Nat /\ c \in Nat
      /\ longer \in Seq(S) /\ Len(longer) = n + 1
      /\ \A i \in 1 .. n : longer[i] = s[i]
      /\ longer[n + 1] = x
      /\ P \subseteq 1 .. n /\ Q \subseteq 1 .. n + 1
  <2>1. n \in Nat
    OBVIOUS
  <2>2. c \in Nat
    BY <2>1, Ranks
  <2>3. P \subseteq 1 .. n /\ Q \subseteq 1 .. n + 1
    <3>. HIDE DEF n
    <3>1. \A i \in 1 .. n : i \in 1 .. n + 1
      BY <2>1
    <3>2. n + 1 \in 1 .. n + 1
      BY <2>1
    <3>3. P \subseteq 1 .. n
      BY DEF n
    <3>. QED
      BY <3>1, <3>2, <3>3
  <2>. QED
    BY <2>1, <2>2, <2>3
<1>2. /\ Cardinality(Q) = c + 1 /\ Rank(Q, n + 1) = c + 1
      /\ \A i \in P : Rank(P, i) \in 1 .. c /\ Rank(Q, i) = Rank(P, i)
  BY <1>1, Ranks
<1>3. ASSUME NEW k \in 1 .. c
      PROVE  Of(P, k) \in P /\ Of(Q, k) = Of(P, k)
  <2>1. /\ Of(P, k) \in P /\ Rank(P, Of(P, k)) = k
        /\ \A j \in P : Rank(P, j) = k => j = Of(P, k)
    BY <1>1, ChosenPosition
  <2>2. Of(Q, k) \in Q /\ Rank(Q, Of(Q, k)) = k
    <3>1. n + 1 \in Nat /\ k \in 1 .. Cardinality(Q)
      BY <1>1, <1>2
    <3>2. Q \in SUBSET (1 .. n + 1)
      BY <1>1
    <3>. HIDE DEF Q, n
    <3>. QED
      BY <3>1, <3>2, ChosenPosition
  <2>. HIDE DEF Of
  <2>3. Of(Q, k) # n + 1
    BY <1>1, <1>2, <2>2
  <2>. QED
    BY <1>2, <2>1, <2>2, <2>3
<1>4. Of(Q, c + 1) = n + 1
  <2>. DEFINE o == Of(Q, c + 1)
  <2>1. o \in Q /\ Rank(Q, o) = c + 1
    <3>1. n + 1 \in Nat /\ c + 1 \in 1 .. Cardinality(Q)
      <4>. HIDE DEF c, n, Q
      <4>. QED
        BY <1>1, <1>2
    <3>2. Q \in SUBSET (1 .. n + 1)
      BY <1>1
    <3>3. PICK k \in 1 .. Cardinality(Q) : k = c + 1
      BY <3>1
    <3>. HIDE DEF Q, n, c
    <3>4. Of(Q, k) \in Q /\ Rank(Q, Of(Q, k)) = k
      BY <3>1, <3>2, ChosenPosition
    <3>. QED
      BY <3>3, <3>4
  <2>. HIDE DEF o
  <2>2. o \notin P
    <3>. HIDE DEF Q, c
    <3>1. o \in P => Rank(Q, o) \in 1 .. c
      BY <1>2
    <3>2. c + 1 \notin 1 .. c
      BY <1>1
    <3>. QED
      BY <2>1, <3>1, <3>2
  <2>. QED
    BY <2>1, <2>2 DEF o
<1>5. \A t, T : Subsequence(t, T) = [k \in 1 .. Cardinality(T) |-> t[Of(T, k)]]
  BY DEF Subsequence
<1>. HIDE DEF Of, c, longer, n
<1>6. Subsequence(longer, P) = Subsequence(s, P)
  BY <1>1, <1>3, <1>5 DEF c
<1>7. Subsequence(longer, Q) = Append(Subsequence(s, P), x)
  <2>. DEFINE a == Subsequence(longer, Q)
              b == Append(Subsequence(s, P), x)
  <2>1. Subsequence(s, P) \in Seq(S) /\ Len(Subsequence(s, P)) = c
    BY <1>1, SubsequenceType DEF n, c
  <2>2. a \in Seq(S) /\ Len(a) = c + 1
    BY <1>1, <1>2, SubsequenceType
  <2>3. /\ b \in Seq(S) /\ Len(b) = c + 1 /\ b[c + 1] = x
        /\ \A k \in 1 .. c : b[k] = Subsequence(s, P)[k]
    BY <2>1
  <2>4. \A k \in 1 .. c : a[k] = Subsequence(s, P)[k]
    <3>1. \A k \in 1 .. c : a[k] = longer[Of(Q, k)]
      BY <1>1, <1>2, <1>5
    <3>2. \A k \in 1 .. c : Subsequence(s, P)[k] = s[Of(P, k)]
      BY <1>5 DEF c
    <3>. QED
      BY <1>1, <1>3, <3>1, <3>2
  <2>5. a[c + 1] = x
    BY <1>1, <1>2, <1>4, <1>5
  <2>. HIDE DEF a, b
  <2>6. \A k \in 1 .. c + 1 : a[k] = b[k]
    BY <1>1, <2>3, <2>4, <2>5
  <2>7. a = b
    BY <2>2, <2>3, <2>6, SeqEqual
  <2>. QED
    BY <2>7 DEF a, b
<1>. QED
  BY <1>6, <1>7 DEF n, longer

(* The sequence that is longer by x, in a form that the provers do not     *)
(* take apart.                                                             *)
Longer(s, x) == Append(s, x)

(* The same for packets, to be cited of an instance of this module.        *)
LEMMA SubsequenceOfLonger ==
  ASSUME NEW s \in Seq(Packet), NEW x \in Packet,
         NEW P \in SUBSET (1 .. Len(s))
  PROVE  /\ Subsequence(Longer(s, x), P) = Subsequence(s, P)
         /\ Subsequence(Longer(s, x), P \cup {Len(s) + 1})
              = Longer(Subsequence(s, P), x)
BY SubsequenceGrows, Zenon DEF Longer

-----------------------------------------------------------------------------
(* The reference: bytes, useful packets and the last start, when one more  *)
(* packet was offered.                                                     *)

(* Numbers with an upper bound have a greatest one among them.             *)
LEMMA Greatest ==
  ASSUME NEW N \in Nat, NEW S \in SUBSET (0 .. N), S # {}
  PROVE  \E p \in S : \A q \in S : q <= p
<1>. DEFINE T == {N - p : p \in S}
            R == OpToRel(<, Nat)
<1>1. T \subseteq Nat
  <2>1. ASSUME NEW p \in S PROVE N - p \in Nat
    OBVIOUS
  <2>. QED
    BY <2>1
<1>2. T # {}
  <2>1. PICK p \in S : TRUE
    OBVIOUS
  <2>2. N - p \in T
    OBVIOUS
  <2>. QED
    BY <2>2
<1>3. IsWellFoundedOn(R, Nat)
  BY NatLessThanWellFounded
<1>4. \A m \in Nat, n \in Nat : m < n => <<m, n>> \in R
  BY DEF OpToRel
<1>. HIDE DEF R
<1>5. \E x \in T : \A y \in T : ~(<<y, x>> \in R)
  <2>. HIDE DEF T
  <2>. QED
    BY <1>1, <1>2, <1>3, WFMin
<1>6. PICK x \in T : \A y \in T : ~(<<y, x>> \in R)
  BY <1>5
<1>7. PICK p \in S : x = N - p
  OBVIOUS
<1>8. ASSUME NEW q \in S PROVE q <= p
  <2>1. N - q \in T /\ N - p \in T
    OBVIOUS
  <2>2. ~(N - q < N - p)
    BY <1>1, <1>4, <1>6, <1>7, <2>1
  <2>. QED
    BY <2>2
<1>. QED
  BY <1>8

(* The last of some packets.                                               *)
LEMMA FrontOfLonger ==
  ASSUME NEW S, NEW s \in Seq(S), NEW x \in S
  PROVE  Front(Append(s, x)) = s
<1>. DEFINE f == Front(Append(s, x))
<1>1. f = SubSeq(Append(s, x), 1, Len(s))
  BY DEF Front
<1>2. f \in Seq(S) /\ Len(f) = Len(s)
  BY <1>1
<1>3. \A i \in 1 .. Len(s) : f[i] = s[i]
  BY <1>1
<1>. HIDE DEF f
<1>4. f = s
  BY <1>2, <1>3, SeqEqual
<1>. QED
  BY <1>4 DEF f

(* The bytes of no packets, and of one packet more.                        *)
LEMMA BytesGrow ==
  ASSUME NEW s \in Seq(Packet), NEW buf \in Packet
  PROVE  /\ Bytes(<<>>) = 0
         /\ Bytes(s) \in Nat
         /\ ~BadCopySize(buf) => Bytes(Append(s, buf)) = Bytes(s) + copy_size(buf)
<1>. DEFINE n == Len(s)
            longer == Append(s, buf)
            pos == payload_start_pos(buf)
            old == PayloadBytes(s)
            new == {n + 1} \X (pos .. PacketSize - 1)
<1>1. /\ n \in Nat /\ Len(longer) = n + 1 /\ longer[n + 1] = buf
      /\ \A i \in 1 .. n : longer[i] = s[i]
  OBVIOUS
<1>2. Bytes(<<>>) = 0
  <2>1. PayloadBytes(<<>>) = {}
    BY DEF PayloadBytes
  <2>. QED
    BY <2>1, FS_EmptySet DEF Bytes
<1>3. IsFiniteSet(old) /\ Cardinality(old) \in Nat
  <2>. DEFINE all == (1 .. n) \X (0 .. PacketSize - 1)
  <2>1. IsFiniteSet(1 .. n) /\ IsFiniteSet(0 .. PacketSize - 1)
    <3>1. PacketSize - 1 \in Int
      BY DEF PacketSize
    <3>. QED
      BY <1>1, <3>1, FS_Interval
  <2>2. IsFiniteSet(all)
    BY <2>1, FS_Product
  <2>3. old \in SUBSET all
    BY DEF PayloadBytes
  <2>. HIDE DEF all, old
  <2>. QED
    BY <2>2, <2>3, FS_Subset, FS_CardinalityType
<1>4. ASSUME ~BadCopySize(buf)
      PROVE  Cardinality(PayloadBytes(longer)) = Cardinality(old) + copy_size(buf)
  <2>1. pos \in 0 .. PacketSize /\ PacketSize = 188
    <3>1. pos \in 0 .. 260
      BY StartPosition
    <3>2. ~(pos > PacketSize)
      BY <1>4 DEF BadCopySize
    <3>. HIDE DEF pos
    <3>. QED
      BY <3>1, <3>2 DEF PacketSize
  <2>. HIDE DEF n, longer, pos
  <2>2. PayloadBytes(longer) = old \cup new
    <3>1. \A y : y \in PayloadBytes(longer) <=>
            y \in (1 .. n + 1) \X (0 .. PacketSize - 1)
              /\ y[2] >= payload_start_pos(longer[y[1]])
      BY <1>1 DEF PayloadBytes
    <3>2. \A y : y \in old <=>
            y \in (1 .. n) \X (0 .. PacketSize - 1)
              /\ y[2] >= payload_start_pos(longer[y[1]])
      BY <1>1 DEF PayloadBytes, n
    <3>3. \A y : y \in new <=>
            y \in {n + 1} \X (0 .. PacketSize - 1)
              /\ y[2] >= payload_start_pos(longer[y[1]])
      <4>1. \A b : b \in pos .. PacketSize - 1 <=> b \in 0 .. PacketSize - 1 /\ b >= pos
        <5>1. \A b \in Int : b \in pos .. PacketSize - 1
                             <=> b \in 0 .. PacketSize - 1 /\ b >= pos
          BY <2>1
        <5>2. pos .. PacketSize - 1 \subseteq Int
          BY <2>1
        <5>3. 0 .. PacketSize - 1 \subseteq Int
          BY <2>1
        <5>. QED
          BY <5>1, <5>2, <5>3
      <4>2. \A y : y \in new <=>
              /\ y = <<y[1], y[2]>> /\ y[1] = n + 1
              /\ y[2] \in 0 .. PacketSize - 1 /\ y[2] >= pos
        BY <4>1
      <4>3. \A y : y \in {n + 1} \X (0 .. PacketSize - 1) <=>
              /\ y = <<y[1], y[2]>> /\ y[1] = n + 1
              /\ y[2] \in 0 .. PacketSize - 1
        OBVIOUS
      <4>4. \A y : y[1] = n + 1 => payload_start_pos(longer[y[1]]) = pos
        BY <1>1 DEF pos
      <4>. HIDE DEF new
      <4>. QED
        BY <4>2, <4>3, <4>4
    <3>4. \A y : y \in (1 .. n + 1) \X (0 .. PacketSize - 1) <=>
            \/ y \in (1 .. n) \X (0 .. PacketSize - 1)
            \/ y \in {n + 1} \X (0 .. PacketSize - 1)
      <4>1. 1 .. n + 1 = (1 .. n) \cup {n + 1}
        BY <1>1
      <4>. QED
        BY <4>1
    <3>. HIDE DEF old, new
    <3>. QED
      BY <3>1, <3>2, <3>3, <3>4
  <2>3. old \cap new = {}
    <3>1. \A y \in old : y[1] \in 1 .. n
      BY DEF PayloadBytes, n
    <3>2. \A y \in new : y[1] = n + 1
      OBVIOUS
    <3>. HIDE DEF old, new
    <3>. QED
      BY <1>1, <3>1, <3>2
  <2>4. IsFiniteSet(new) /\ Cardinality(new) = PacketSize - pos
    <3>. DEFINE I == pos .. PacketSize - 1
    <3>1. IsFiniteSet(I) /\ Cardinality(I) = PacketSize - pos
      BY <2>1, FS_Interval
    <3>2. IsFiniteSet({n + 1}) /\ Cardinality({n + 1}) = 1
      BY FS_Singleton
    <3>. HIDE DEF I
    <3>3. IsFiniteSet({n + 1} \X I)
            /\ Cardinality({n + 1} \X I) = Cardinality({n + 1}) * Cardinality(I)
      BY <3>1, <3>2, FS_Product
    <3>4. Cardinality({n + 1} \X I) = PacketSize - pos
      BY <2>1, <3>1, <3>2, <3>3
    <3>. QED
      BY <3>3, <3>4 DEF I
  <2>. HIDE DEF old, new
  <2>5. Cardinality(old \cup new) =
          Cardinality(old) + Cardinality(new) - Cardinality(old \cap new)
    BY <1>3, <2>4, FS_Union
  <2>6. Cardinality(old \cap new) = 0
    BY <2>3, FS_EmptySet
  <2>7. Cardinality(old \cup new) = Cardinality(old) + (PacketSize - pos)
    BY <1>3, <2>1, <2>4, <2>5, <2>6
  <2>. QED
    BY <2>2, <2>7 DEF copy_size, pos
<1>. QED
  BY <1>2, <1>3, <1>4 DEF Bytes

(* The useful packets, when one packet more is there.                      *)
LEMMA FragmentsGrow ==
  ASSUME NEW s \in Seq(Packet), NEW buf \in Packet
  PROVE  /\ Fragments(<<>>) = <<>>
         /\ Fragments(s) \in Seq(Packet)
         /\ Fragments(Append(s, buf)) =
              IF Useful(buf) THEN Append(Fragments(s), buf) ELSE Fragments(s)
<1>. DEFINE n == Len(s)
            longer == Append(s, buf)
            P == {i \in DOMAIN s : Useful(s[i])}
            Q == {i \in DOMAIN longer : Useful(longer[i])}
<1>1. /\ n \in Nat /\ DOMAIN s = 1 .. n /\ DOMAIN longer = 1 .. n + 1
      /\ longer[n + 1] = buf
      /\ \A i \in 1 .. n : longer[i] = s[i]
  OBVIOUS
<1>2. Fragments(<<>>) = <<>>
  <2>1. {i \in DOMAIN <<>> : Useful(<<>>[i])} = {}
    OBVIOUS
  <2>2. Subsequence(<<>>, {}) = <<>>
    BY FS_EmptySet DEF Subsequence
  <2>. QED
    BY <2>1, <2>2 DEF Fragments
<1>3. P \in SUBSET (1 .. n)
  BY <1>1
<1>4. Q = IF Useful(buf) THEN P \cup {n + 1} ELSE P
  <2>1. \A i : i \in 1 .. n + 1 <=> i \in 1 .. n \/ i = n + 1
    BY <1>1
  <2>2. \A i \in P : i # n + 1
    BY <1>1
  <2>3. \A i : i \in Q <=> i \in P \/ (i = n + 1 /\ Useful(buf))
    <3>. HIDE DEF n, longer
    <3>. QED
      BY <1>1, <2>1
  <2>. HIDE DEF P, Q
  <2>. QED
    BY <2>3
<1>5. Fragments(s) = Subsequence(s, P) /\ Fragments(longer) = Subsequence(longer, Q)
  BY DEF Fragments
<1>. HIDE DEF P, Q
<1>6. /\ Subsequence(longer, P) = Subsequence(s, P)
      /\ Subsequence(longer, P \cup {n + 1}) = Append(Subsequence(s, P), buf)
  BY <1>3, SubsequenceGrows
<1>7. Subsequence(s, P) \in Seq(Packet)
  BY <1>3, SubsequenceType
<1>. QED
  BY <1>2, <1>4, <1>5, <1>6, <1>7

(* The packets since the last start, when one packet more is there.        *)
LEMMA SinceStartGrows ==
  ASSUME NEW s \in Seq(Packet), NEW buf \in Packet
  PROVE  /\ SinceStart(<<>>) = <<>>
         /\ SinceStart(s) \in Seq(Packet)
         /\ SinceStart(Append(s, buf)) =
              IF buf.pusi = 1 THEN <<buf>>
              ELSE IF SinceStart(s) = <<>> THEN <<>>
                                           ELSE Append(SinceStart(s), buf)
<1>. DEFINE n == Len(s)
            longer == Append(s, buf)
            Starts(t) == {i \in 1 .. Len(t) : t[i].pusi = 1}
            Latest(S) == CHOOSE i \in S : \A j \in S : j <= i
<1>1. /\ n \in Nat /\ Len(longer) = n + 1 /\ longer[n + 1] = buf
      /\ longer \in Seq(Packet)
      /\ \A i \in 1 .. n : longer[i] = s[i]
  OBVIOUS
<1>2. \A t : SinceStart(t) =
        IF Starts(t) = {} THEN <<>> ELSE SubSeq(t, Latest(Starts(t)), Len(t))
  BY DEF SinceStart
<1>3. SinceStart(<<>>) = <<>>
  <2>1. Starts(<<>>) = {}
    OBVIOUS
  <2>. QED
    BY <1>2, <2>1
<1>4. Starts(s) # {} => Latest(Starts(s)) \in 1 .. n
  <2>. DEFINE S == Starts(s)
  <2>1. S \in SUBSET (0 .. n) /\ S \subseteq 1 .. n
    OBVIOUS
  <2>. HIDE DEF S
  <2>2. S # {} => \E i \in S : \A j \in S : j <= i
    BY <1>1, <2>1, Greatest
  <2>3. S # {} => Latest(S) \in S
    BY <2>2
  <2>. QED
    BY <2>1, <2>3 DEF S
<1>. HIDE DEF longer
<1>5. ASSUME buf.pusi = 1 PROVE SinceStart(longer) = <<buf>>
  <2>. DEFINE S == Starts(longer)
  <2>1. n + 1 \in S /\ \A j \in S : j \in Nat /\ j <= n + 1
    BY <1>1, <1>5
  <2>. HIDE DEF S
  <2>2. Latest(S) = n + 1
    <3>1. \E i \in S : \A j \in S : j <= i
      BY <2>1
    <3>2. Latest(S) \in S /\ \A j \in S : j <= Latest(S)
      BY <3>1
    <3>. HIDE DEF Latest
    <3>. QED
      BY <1>1, <2>1, <3>2
  <2>. HIDE DEF Latest
  <2>3. SinceStart(longer) = SubSeq(longer, n + 1, n + 1)
    BY <1>1, <1>2, <2>1, <2>2 DEF S
  <2>4. SubSeq(longer, n + 1, n + 1) = <<buf>>
    <3>. DEFINE a == SubSeq(longer, n + 1, n + 1)
    <3>1. a \in Seq(Packet) /\ Len(a) = 1 /\ a[1] = buf
      <4>. HIDE DEF n, longer
      <4>. QED
        BY <1>1
    <3>2. <<buf>> \in Seq(Packet) /\ Len(<<buf>>) = 1 /\ <<buf>>[1] = buf
      OBVIOUS
    <3>. HIDE DEF a
    <3>3. a = <<buf>>
      BY <3>1, <3>2, SeqEqual
    <3>. QED
      BY <3>3 DEF a
  <2>. QED
    BY <1>5, <2>3, <2>4
<1>6. ASSUME buf.pusi # 1
      PROVE  SinceStart(longer) =
               IF SinceStart(s) = <<>> THEN <<>> ELSE Append(SinceStart(s), buf)
  <2>1. Starts(longer) = Starts(s)
    <3>. HIDE DEF longer, n
    <3>1. \A i : i \in 1 .. n + 1 <=> i \in 1 .. n \/ i = n + 1
      BY <1>1
    <3>2. \A i : i \in Starts(longer) <=> i \in 1 .. n /\ s[i].pusi = 1
      BY <1>1, <1>6, <3>1
    <3>3. \A i : i \in Starts(s) <=> i \in 1 .. n /\ s[i].pusi = 1
      BY DEF n
    <3>. HIDE DEF Starts
    <3>. QED
      BY <3>2, <3>3
  <2>2. CASE Starts(s) = {}
    <3>. HIDE DEF Starts, Latest, longer
    <3>. QED
      BY <1>2, <1>6, <2>1, <2>2
  <2>3. CASE Starts(s) # {}
    <3>. DEFINE k == Latest(Starts(s))
                a == SubSeq(longer, k, n + 1)
                b == Append(SubSeq(s, k, n), buf)
    <3>1. k \in 1 .. n
      BY <1>4, <2>3
    <3>. HIDE DEF k
    <3>2. a \in Seq(Packet) /\ Len(a) = n + 2 - k
      <4>. HIDE DEF longer
      <4>. QED
        BY <1>1, <3>1
    <3>3. b \in Seq(Packet) /\ Len(b) = n + 2 - k
      BY <3>1
    <3>4. \A i \in 1 .. n + 2 - k : a[i] = b[i]
      <4>1. \A i \in 1 .. n + 2 - k : a[i] = longer[k + i - 1]
        <5>. HIDE DEF longer
        <5>. QED
          BY <1>1, <3>1
      <4>2. \A i \in 1 .. n + 1 - k : b[i] = s[k + i - 1]
        BY <3>1
      <4>3. b[n + 2 - k] = buf
        BY <3>1
      <4>. HIDE DEF a, b, n, longer
      <4>4. \A i \in 1 .. n + 1 - k : k + i - 1 \in 1 .. n
        BY <1>1, <3>1
      <4>5. ASSUME NEW i \in 1 .. n + 2 - k PROVE a[i] = b[i]
        <5>1. CASE i = n + 2 - k
          BY <1>1, <3>1, <4>1, <4>3, <5>1
        <5>2. CASE i # n + 2 - k
          <6>1. i \in 1 .. n + 1 - k
            BY <1>1, <3>1, <5>2
          <6>. QED
            BY <1>1, <4>1, <4>2, <4>4, <6>1
        <5>. QED
          BY <5>1, <5>2
      <4>. QED
        BY <4>5
    <3>5. a = b
      <4>. HIDE DEF a, b
      <4>. QED
        BY <3>2, <3>3, <3>4, SeqEqual
    <3>6. SinceStart(s) = SubSeq(s, k, n) /\ SinceStart(longer) = a
      <4>. HIDE DEF Starts, Latest, longer
      <4>. QED
        BY <1>1, <1>2, <2>1, <2>3 DEF k
    <3>7. SubSeq(s, k, n) # <<>>
      <4>1. Len(SubSeq(s, k, n)) = n + 1 - k
        BY <3>1
      <4>. HIDE DEF n
      <4>2. n + 1 - k # 0
        BY <1>1, <3>1
      <4>. QED
        BY <4>1, <4>2
    <3>. HIDE DEF a, b
    <3>. QED
      BY <1>6, <3>5, <3>6, <3>7 DEF b
  <2>. QED
    BY <2>2, <2>3
<1>7. SinceStart(s) \in Seq(Packet)
  <2>1. CASE Starts(s) = {}
    <3>. HIDE DEF Starts, Latest
    <3>1. SinceStart(s) = <<>>
      BY <1>2, <2>1
    <3>. QED
      BY <3>1
  <2>2. CASE Starts(s) # {}
    <3>1. Latest(Starts(s)) \in 1 .. n
      BY <1>4, <2>2
    <3>. HIDE DEF Starts, Latest
    <3>2. PICK m \in 1 .. n : SinceStart(s) = SubSeq(s, m, n)
      BY <1>2, <2>2, <3>1
    <3>3. SubSeq(s, m, n) \in Seq(Packet)
      OBVIOUS
    <3>. QED
      BY <3>2, <3>3
  <2>. QED
    BY <2>1, <2>2
<1>. QED
  BY <1>3, <1>5, <1>6, <1>7 DEF longer

-----------------------------------------------------------------------------
(* An element and the packets offered to it.                               *)

(* The numbers of an element and of a packet are numbers.                  *)
LEMMA Numbers ==
  /\ \A e \in PACKET_LIST : e.size \in Nat /\ e.copybytes \in Nat
  /\ \A buf \in Packet : ~BadCopySize(buf) => copy_size(buf) \in Nat
<1>1. UINT16 \subseteq Nat
  BY DEF UINT16, UINT16_MAX
<1>2. \A e \in PACKET_LIST : e.size \in UINT16 /\ e.copybytes \in UINT16
  BY DEF PACKET_LIST
<1>3. ASSUME NEW buf \in Packet, ~BadCopySize(buf) PROVE copy_size(buf) \in Nat
  <2>1. copy_size(buf) \in 0 .. PacketSize
    BY <1>3, CopySize
  <2>2. PacketSize \in Nat
    BY DEF PacketSize
  <2>. QED
    BY <2>1, <2>2
<1>. QED
  BY <1>1, <1>2, <1>3

(* What one packet adds to the useful bytes.                               *)
LEMMA UsefulBytes ==
  ASSUME NEW s \in Seq(Packet), NEW buf \in Packet
  PROVE  /\ Bytes(Fragments(Append(s, buf))) \in Nat
         /\ Bytes(Fragments(s)) \in Nat
         /\ Bytes(Fragments(Append(s, buf))) >= Bytes(Fragments(s))
<1>1. Fragments(s) \in Seq(Packet)
  BY FragmentsGrow
<1>2. Bytes(Fragments(s)) \in Nat
  BY <1>1, BytesGrow
<1>3. CASE Useful(buf)
  <2>1. Fragments(Append(s, buf)) = Append(Fragments(s), buf)
    BY <1>3, FragmentsGrow
  <2>2. Bytes(Append(Fragments(s), buf)) = Bytes(Fragments(s)) + copy_size(buf)
    BY <1>1, <1>3, BytesGrow DEF Useful
  <2>3. copy_size(buf) \in Nat
    BY <1>3, Numbers DEF Useful
  <2>. QED
    BY <1>2, <2>1, <2>2, <2>3
<1>4. CASE ~Useful(buf)
  <2>1. Fragments(Append(s, buf)) = Fragments(s)
    BY <1>4, FragmentsGrow
  <2>. QED
    BY <1>2, <2>1
<1>. QED
  BY <1>3, <1>4

(* A packet that is not an orphan belongs to a section whose start was     *)
(* seen: `before' are the packets of this section before it.               *)
LEMMA PreparedCollects ==
  ASSUME NEW e \in PACKET_LIST, NEW s \in Seq(Packet), Collects(e, s),
         NEW buf \in Packet, ~Orphan(e, buf)
  PROVE  \E before \in Seq(Packet) :
           LET p == Prepared(e, buf)
           IN /\ SinceStart(Append(s, buf)) = Append(before, buf)
              /\ p.payload = Fragments(before)
              /\ p.copybytes = Bytes(p.payload)
              /\ p.size = Announced(Append(before, buf))
              /\ p.loading = e.loading
              /\ buf.pusi # 1 => p.loading = 1
              /\ buf.pusi = 1 => before = <<>>
<1>1. CASE buf.pusi = 1
  <2>. DEFINE p == Prepared(e, buf)
              size == buf.sec.section_length + 3
  <2>1. p = NewBlock(e, size)
    BY <1>1 DEF Prepared, BeginSection
  <2>2. p.payload = <<>> /\ p.copybytes = 0 /\ p.size = size /\ p.loading = e.loading
    BY <2>1 DEF NewBlock
  <2>3. Fragments(<<>>) = <<>>
    BY FragmentsGrow
  <2>4. Bytes(<<>>) = 0
    <3>1. <<>> \in Seq(Packet)
      OBVIOUS
    <3>. QED
      BY <3>1, BytesGrow
  <2>5. SinceStart(Append(s, buf)) = Append(<<>>, buf)
    <3>1. SinceStart(Append(s, buf)) = <<buf>>
      BY <1>1, SinceStartGrows
    <3>. QED
      BY <3>1
  <2>6. Announced(Append(<<>>, buf)) = size
    <3>1. Head(Append(<<>>, buf)) = buf
      OBVIOUS
    <3>. QED
      BY <3>1 DEF Announced
  <2>. HIDE DEF p, size
  <2>7. /\ p.payload = Fragments(<<>>)
        /\ p.copybytes = Bytes(p.payload)
        /\ p.size = Announced(Append(<<>>, buf))
        /\ p.loading = e.loading
    BY <2>2, <2>3, <2>4, <2>6
  <2>8. <<>> \in Seq(Packet)
    OBVIOUS
  <2>. QED
    BY <1>1, <2>5, <2>7, <2>8 DEF p
<1>2. CASE buf.pusi # 1
  <2>. DEFINE before == SinceStart(s)
  <2>1. Prepared(e, buf) = e
    BY <1>2 DEF Prepared
  <2>2. e.loading = 1
    BY <1>2 DEF Orphan, Packet, PACKET_LIST, Bit
  <2>3. /\ before # <<>> /\ e.payload = Fragments(before)
        /\ e.copybytes = Bytes(e.payload) /\ e.size = Announced(before)
    BY <2>2 DEF Collects
  <2>4. /\ before \in Seq(Packet)
        /\ SinceStart(Append(s, buf)) = Append(before, buf)
    BY <1>2, <2>3, SinceStartGrows
  <2>. HIDE DEF before
  <2>5. Head(Append(before, buf)) = Head(before)
    BY <2>3, <2>4
  <2>6. Announced(Append(before, buf)) = Announced(before)
    BY <2>5 DEF Announced
  <2>. QED
    BY <1>2, <2>1, <2>2, <2>3, <2>4, <2>6
<1>. QED
  BY <1>1, <1>2

(* Copying keeps the block the useful packets of the section.              *)
LEMMA CopiedCollects ==
  ASSUME NEW p \in PACKET_LIST, NEW before \in Seq(Packet), NEW buf \in Packet,
         p.payload = Fragments(before), p.copybytes = Bytes(p.payload),
         ~BadCopySize(buf)
  PROVE  LET copied == Copied(p, buf)
         IN /\ copied.payload = Fragments(Append(before, buf))
            /\ copied.copybytes = Bytes(copied.payload)
            /\ copied.size = p.size
            /\ copied.copybytes > p.copybytes
                 => copied.payload = Append(p.payload, buf)
<1>. DEFINE n == copy_size(buf)
            copied == Copied(p, buf)
<1>1. n \in Nat
  BY Numbers
<1>2. /\ copied.payload = IF n > 0 THEN Append(p.payload, buf) ELSE p.payload
      /\ copied.copybytes = p.copybytes + n
      /\ copied.size = p.size
  BY DEF Copied
<1>3. Useful(buf) <=> n > 0
  BY DEF Useful
<1>4. p.payload \in Seq(Packet)
  BY DEF PACKET_LIST
<1>5. Bytes(Append(p.payload, buf)) = Bytes(p.payload) + n /\ Bytes(p.payload) \in Nat
  BY <1>4, BytesGrow
<1>6. Fragments(Append(before, buf)) =
        IF Useful(buf) THEN Append(Fragments(before), buf) ELSE Fragments(before)
  BY FragmentsGrow
<1>. HIDE DEF n, copied
<1>7. CASE n > 0
  BY <1>1, <1>2, <1>3, <1>5, <1>6, <1>7 DEF copied
<1>8. CASE ~(n > 0)
  BY <1>1, <1>2, <1>3, <1>5, <1>6, <1>8 DEF copied
<1>. QED
  BY <1>7, <1>8

(* One call of st_packet keeps the element in step with the packets        *)
(* offered.                                                                *)
LEMMA StPacketCollects ==
  ASSUME NEW e \in PACKET_LIST, WellFilled(e), NEW s \in Seq(Packet),
         Collects(e, s), NEW buf \in Packet, NEW crc \in Bit
  PROVE  Collects(st_packet(e, buf, crc), Append(s, buf))
<1>. DEFINE recent == SinceStart(Append(s, buf))
            p == Prepared(e, buf)
            copied == Copied(p, buf)
            next == st_packet(e, buf, crc)
<1>1. CASE Orphan(e, buf)
  <2>1. next = e /\ buf.pusi # 1 /\ e.loading # 1
    BY <1>1 DEF st_packet, Orphan
  <2>2. recent = IF SinceStart(s) = <<>> THEN <<>> ELSE Append(SinceStart(s), buf)
    BY <2>1, SinceStartGrows
  <2>3. CASE SinceStart(s) = <<>>
    <3>1. recent = <<>>
      BY <2>2, <2>3
    <3>2. e.copybytes = Bytes(e.payload)
      BY DEF Collects
    <3>. HIDE DEF next, recent
    <3>. QED
      BY <2>1, <3>1, <3>2 DEF Collects, next, recent
  <2>4. CASE SinceStart(s) # <<>>
    <3>. DEFINE before == SinceStart(s)
    <3>1. before \in Seq(Packet) /\ before # <<>> /\ recent = Append(before, buf)
      BY <2>2, <2>4, SinceStartGrows
    <3>2. /\ e.copybytes = Bytes(e.payload) /\ e.size = Announced(before)
          /\ ~BadCopySize(Head(before)) => Bytes(Fragments(before)) > Announced(before)
      BY <2>1, <2>4 DEF Collects
    <3>. HIDE DEF before, recent, next
    <3>3. Head(recent) = Head(before) /\ recent # <<>>
      BY <3>1
    <3>4. Announced(recent) = Announced(before)
      BY <3>3 DEF Announced
    <3>5. /\ Bytes(Fragments(recent)) \in Nat
          /\ Bytes(Fragments(before)) \in Nat
          /\ Bytes(Fragments(recent)) >= Bytes(Fragments(before))
      BY <3>1, UsefulBytes
    <3>6. Announced(before) \in Int
      BY <3>2, Numbers
    <3>7. ~BadCopySize(Head(recent)) => Bytes(Fragments(recent)) > Announced(recent)
      BY <3>2, <3>3, <3>4, <3>5, <3>6
    <3>. QED
      BY <2>1, <3>2, <3>3, <3>4, <3>7 DEF Collects, recent, next
  <2>. QED
    BY <2>3, <2>4
<1>2. CASE ~Orphan(e, buf)
  <2>1. PICK before \in Seq(Packet) :
          /\ recent = Append(before, buf)
          /\ p.payload = Fragments(before)
          /\ p.copybytes = Bytes(p.payload)
          /\ p.size = Announced(Append(before, buf))
          /\ p.loading = e.loading
          /\ buf.pusi # 1 => p.loading = 1
          /\ buf.pusi = 1 => before = <<>>
    BY <1>2, PreparedCollects
  <2>2. p \in PACKET_LIST
    BY <1>2, PreparedFits
  <2>3. recent # <<>>
    BY <2>1
  <2>. HIDE DEF recent, p
  <2>4. CASE BadCopySize(buf)
    <3>1. next = p
      BY <1>2, <2>4 DEF st_packet, p
    <3>2. Fragments(recent) = Fragments(before)
      BY <2>1, <2>4, FragmentsGrow DEF Useful
    <3>3. p.loading # 1 => BadCopySize(Head(recent))
      <4>1. SUFFICES ASSUME p.loading # 1 PROVE BadCopySize(Head(recent))
        OBVIOUS
      <4>2. before = <<>>
        BY <2>1, <4>1
      <4>3. Head(recent) = buf
        BY <2>1, <4>2
      <4>. QED
        BY <2>4, <4>3
    <3>. HIDE DEF next
    <3>. QED
      BY <2>1, <2>3, <3>1, <3>2, <3>3 DEF Collects, recent, next
  <2>5. CASE ~BadCopySize(buf)
    <3>1. /\ copied.payload = Fragments(recent)
          /\ copied.copybytes = Bytes(copied.payload)
          /\ copied.size = p.size
      BY <2>1, <2>2, <2>5, CopiedCollects
    <3>2. CASE Filled(copied)
      <4>1. next = Done(copied, buf, crc)
        BY <1>2, <2>5, <3>2 DEF st_packet, p
      <4>2. copied = [enable |-> copied.enable, payload |-> copied.payload,
                      size |-> copied.size, copybytes |-> copied.copybytes,
                      cap |-> copied.cap, crc_check |-> copied.crc_check,
                      loading |-> copied.loading, leaked |-> copied.leaked]
        BY DEF Copied
      <4>. HIDE DEF copied, next
      <4>3. /\ next.payload = copied.payload /\ next.size = copied.size
            /\ next.copybytes = copied.copybytes /\ next.loading = 0
        BY <4>1, <4>2 DEF Done
      <4>4. Bytes(Fragments(recent)) > Announced(recent)
        BY <2>1, <3>1, <3>2 DEF Filled
      <4>. QED
        BY <2>1, <2>3, <3>1, <4>3, <4>4 DEF Collects, recent, next
    <3>3. CASE ~Filled(copied)
      <4>1. next = [copied EXCEPT !.loading = 1]
        BY <1>2, <2>5, <3>3 DEF st_packet, p
      <4>2. copied = [enable |-> copied.enable, payload |-> copied.payload,
                      size |-> copied.size, copybytes |-> copied.copybytes,
                      cap |-> copied.cap, crc_check |-> copied.crc_check,
                      loading |-> copied.loading, leaked |-> copied.leaked]
        BY DEF Copied
      <4>. HIDE DEF copied, next
      <4>3. /\ next.payload = copied.payload /\ next.size = copied.size
            /\ next.copybytes = copied.copybytes /\ next.loading = 1
        BY <4>1, <4>2
      <4>. QED
        BY <2>1, <2>3, <3>1, <4>3 DEF Collects, recent, next
    <3>. QED
      BY <3>2, <3>3
  <2>. QED
    BY <2>4, <2>5
<1>. QED
  BY <1>1, <1>2

(* What is handed over, when a section ends.                               *)
LEMMA ReturnsSection ==
  ASSUME NEW e \in PACKET_LIST, WellFilled(e), NEW s \in Seq(Packet),
         Collects(e, s), NEW buf \in Packet, NEW crc \in Bit, Returns(e, buf)
  PROVE  LET next   == st_packet(e, buf, crc)
             recent == SinceStart(Append(s, buf))
         IN /\ recent # <<>>
            /\ next.payload = Fragments(recent)
            /\ next.size = Announced(recent)
            /\ Bytes(next.payload) > next.size
            /\ Bytes(Front(next.payload)) <= next.size
<1>. DEFINE recent == SinceStart(Append(s, buf))
            p == Prepared(e, buf)
            copied == Copied(p, buf)
            next == st_packet(e, buf, crc)
<1>1. ~Orphan(e, buf) /\ ~BadCopySize(buf) /\ Filled(copied)
  BY DEF Returns
<1>2. PICK before \in Seq(Packet) :
        /\ recent = Append(before, buf)
        /\ p.payload = Fragments(before)
        /\ p.copybytes = Bytes(p.payload)
        /\ p.size = Announced(recent)
  BY <1>1, PreparedCollects
<1>3. p \in PACKET_LIST /\ p.copybytes <= p.size
  BY <1>1, PreparedFits
<1>4. recent # <<>>
  BY <1>2
<1>. HIDE DEF recent, p
<1>5. /\ copied.payload = Fragments(recent)
      /\ copied.copybytes = Bytes(copied.payload)
      /\ copied.size = p.size
      /\ copied.copybytes > p.copybytes => copied.payload = Append(p.payload, buf)
  BY <1>1, <1>2, <1>3, CopiedCollects
<1>6. next = Done(copied, buf, crc)
  BY <1>1 DEF st_packet, p
<1>7. copied = [enable |-> copied.enable, payload |-> copied.payload,
                size |-> copied.size, copybytes |-> copied.copybytes,
                cap |-> copied.cap, crc_check |-> copied.crc_check,
                loading |-> copied.loading, leaked |-> copied.leaked]
  BY DEF Copied
<1>8. copied.copybytes \in Int
  <2>1. copy_size(buf) \in Nat
    BY <1>1, Numbers
  <2>2. p.copybytes \in Nat
    BY <1>3, Numbers
  <2>. QED
    BY <2>1, <2>2 DEF Copied
<1>. HIDE DEF copied, next
<1>9. next.payload = copied.payload /\ next.size = copied.size
  BY <1>6, <1>7 DEF Done
<1>10. p.size \in Int /\ p.copybytes \in Int /\ p.payload \in Seq(Packet)
  BY <1>3, Numbers DEF PACKET_LIST
<1>11. copied.copybytes > p.size
  BY <1>1, <1>5 DEF Filled
<1>12. copied.payload = Append(p.payload, buf)
  BY <1>3, <1>5, <1>8, <1>10, <1>11
<1>13. Front(next.payload) = p.payload
  BY <1>9, <1>10, <1>12, FrontOfLonger
<1>14. Bytes(Front(next.payload)) <= next.size
  BY <1>2, <1>3, <1>5, <1>9, <1>13
<1>15. Bytes(next.payload) > next.size
  BY <1>5, <1>9, <1>11
<1>. QED
  BY <1>2, <1>4, <1>5, <1>9, <1>14, <1>15 DEF recent, next

-----------------------------------------------------------------------------

(* Before the first packet.                                                *)
LEMMA NothingOffered == Bytes(<<>>) = 0 /\ SinceStart(<<>>) = <<>>
<1>1. PayloadBytes(<<>>) = {}
  BY DEF PayloadBytes
<1>2. Bytes(<<>>) = 0
  BY <1>1, FS_EmptySet DEF Bytes
<1>3. {i \in 1 .. Len(<<>>) : <<>>[i].pusi = 1} = {}
  OBVIOUS
<1>. QED
  BY <1>2, <1>3 DEF SinceStart

(* An element that memset or free_packet_list left.                        *)
LEMMA ZeroFits ==
  ASSUME NEW enable \in Bit
  PROVE  /\ ZeroElement(enable) \in PACKET_LIST
         /\ WellFilled(ZeroElement(enable))
         /\ Collects(ZeroElement(enable), <<>>)
<1>1. 0 \in UINT16 /\ 0 \in Bit
  BY Widths DEF Bit
<1>2. ZeroElement(enable) \in PACKET_LIST
  BY <1>1 DEF ZeroElement, PACKET_LIST
<1>3. WellFilled(ZeroElement(enable))
  BY Widths DEF ZeroElement, WellFilled
<1>4. Collects(ZeroElement(enable), <<>>)
  <2>1. Bytes(<<>>) = 0 /\ SinceStart(<<>>) = <<>>
    BY NothingOffered
  <2>. QED
    BY <2>1 DEF Collects, ZeroElement
<1>. QED
  BY <1>2, <1>3, <1>4

(* IInv holds at the start, and each action keeps it.                      *)
LEMMA InitInv == Init => IInv
<1>. SUFFICES ASSUME Init PROVE IInv
  OBVIOUS
<1>1. \A p \in PIDs :
        /\ packet_list[p] \in PACKET_LIST /\ WellFilled(packet_list[p])
        /\ Collects(packet_list[p], offered[p])
  BY ZeroFits DEF Init, Bit
<1>. QED
  BY <1>1 DEF Init, IInv, TypeOK, HandedOver, DeliveredIsSinceStart, NoSection

(* A packet disturbs only the element of its PID.                          *)
LEMMA OfferInv ==
  ASSUME IInv, NEW buf \in Packet, NEW crc \in Bit, Offer(buf, crc)
  PROVE  IInv'
<1>. DEFINE e == st_packet(packet_list[buf.pid], buf, crc)
<1>1. buf.pid \in PIDs
  BY DEF Packet
<1>2. e \in PACKET_LIST /\ WellFilled(e)
  BY <1>1, StPacketFits DEF IInv, TypeOK
<1>. HIDE DEF e
<1>3. AfterUse(e, buf) \in PACKET_LIST /\ WellFilled(AfterUse(e, buf))
  BY <1>2 DEF AfterUse, PACKET_LIST, WellFilled, Bit
<1>4. packet_list' = [packet_list EXCEPT ![buf.pid] = AfterUse(e, buf)]
  BY DEF Offer, e
<1>5. packet_list' \in [PIDs -> PACKET_LIST]
  BY <1>1, <1>3, <1>4 DEF IInv, TypeOK
<1>6. \A p \in PIDs : WellFilled(packet_list'[p])
  BY <1>1, <1>3, <1>4 DEF IInv, TypeOK
<1>7. section' \in Section \cup {NoSection}
  BY <1>1, <1>2 DEF Offer, Section, PACKET_LIST, e
<1>8. offered' \in [PIDs -> Seq(Packet)]
  BY <1>1 DEF Offer, IInv, TypeOK
<1>9. HandedOver'
  <2>. SUFFICES ASSUME Returns(packet_list[buf.pid], buf)
                PROVE  HandedOver'
    BY DEF Offer, HandedOver, NoSection
  <2>1. /\ section'.payload = e.payload /\ section'.pid = buf.pid
        /\ section'.size = e.size
    BY DEF Offer, e
  <2>2. e.payload # <<>> /\ e.cap = e.size + Slack
    BY <1>1, ReturnsPackets DEF e, IInv, TypeOK
  <2>3. buf.pid = PAT_PID => packet_list'[PAT_PID].enable = 0
    BY <1>1, <1>2, <1>4 DEF AfterUse, IInv, TypeOK, PACKET_LIST
  <2>4. packet_list'[buf.pid].cap = e.cap
    BY <1>1, <1>2, <1>4 DEF AfterUse, IInv, TypeOK, PACKET_LIST
  <2>. QED
    BY <2>1, <2>2, <2>3, <2>4 DEF HandedOver
<1>10. ASSUME NEW p \in PIDs PROVE Collects(packet_list'[p], offered'[p])
  <2>. DEFINE s == offered[buf.pid]
  <2>1. s \in Seq(Packet) /\ Collects(packet_list[buf.pid], s)
    BY <1>1 DEF IInv, TypeOK
  <2>2. Collects(e, Append(s, buf))
    BY <1>1, <2>1, StPacketCollects DEF e, IInv, TypeOK
  <2>3. offered' = [offered EXCEPT ![buf.pid] = Append(s, buf)]
    BY DEF Offer
  <2>. HIDE DEF s
  <2>4. Collects(AfterUse(e, buf), Append(s, buf))
    <3>1. /\ AfterUse(e, buf).copybytes = e.copybytes
          /\ AfterUse(e, buf).payload = e.payload
          /\ AfterUse(e, buf).size = e.size
          /\ AfterUse(e, buf).loading = e.loading
      BY <1>2 DEF AfterUse, PACKET_LIST
    <3>. QED
      BY <2>2, <3>1 DEF Collects
  <2>5. CASE p = buf.pid
    BY <1>1, <1>4, <2>3, <2>4, <2>5 DEF IInv, TypeOK
  <2>6. CASE p # buf.pid
    <3>1. packet_list'[p] = packet_list[p] /\ offered'[p] = offered[p]
      BY <1>1, <1>4, <2>3, <2>6 DEF IInv, TypeOK
    <3>. QED
      BY <3>1 DEF IInv
  <2>. QED
    BY <2>5, <2>6
<1>11. DeliveredIsSinceStart'
  <2>. SUFFICES ASSUME Returns(packet_list[buf.pid], buf)
                PROVE  DeliveredIsSinceStart'
    BY DEF Offer, DeliveredIsSinceStart, NoSection
  <2>. DEFINE s == offered[buf.pid]
              recent == SinceStart(Append(s, buf))
  <2>1. s \in Seq(Packet) /\ Collects(packet_list[buf.pid], s)
    BY <1>1 DEF IInv, TypeOK
  <2>2. /\ recent # <<>>
        /\ e.payload = Fragments(recent)
        /\ e.size = Announced(recent)
        /\ Bytes(e.payload) > e.size
        /\ Bytes(Front(e.payload)) <= e.size
    BY <1>1, <2>1, ReturnsSection DEF e, IInv, TypeOK
  <2>3. section'.payload = e.payload /\ section'.pid = buf.pid
          /\ section'.size = e.size
    BY DEF Offer, e
  <2>4. offered'[buf.pid] = Append(s, buf)
    BY <1>1 DEF Offer, IInv, TypeOK
  <2>. HIDE DEF s
  <2>5. SinceStart(offered'[section'.pid]) = recent
    BY <2>3, <2>4
  <2>. HIDE DEF recent
  <2>. QED
    BY <2>2, <2>3, <2>5 DEF DeliveredIsSinceStart
<1>. QED
  BY <1>5, <1>6, <1>7, <1>8, <1>9, <1>10, <1>11 DEF IInv, TypeOK

(* Emptying the list leaves zeroed elements.                               *)
LEMMA FreeInv == IInv /\ free_packet_list_all => IInv'
<1>. SUFFICES ASSUME IInv, free_packet_list_all PROVE IInv'
  OBVIOUS
<1>1. ASSUME NEW p \in PIDs
      PROVE  /\ free_packet_list(packet_list[p]) \in PACKET_LIST
             /\ WellFilled(free_packet_list(packet_list[p]))
             /\ Collects(free_packet_list(packet_list[p]), <<>>)
  <2>. DEFINE e == packet_list[p]
  <2>1. e.enable \in Bit /\ e.leaked \in Bit
    BY DEF IInv, TypeOK, PACKET_LIST
  <2>. HIDE DEF e
  <2>2. ZeroElement(e.enable) \in PACKET_LIST /\ WellFilled(ZeroElement(e.enable))
    BY <2>1, ZeroFits
  <2>3. free_packet_list(e) \in PACKET_LIST
    BY <2>1, <2>2 DEF free_packet_list, PACKET_LIST
  <2>4. WellFilled(free_packet_list(e))
    BY <2>2 DEF free_packet_list, PACKET_LIST, WellFilled
  <2>5. Collects(free_packet_list(e), <<>>)
    <3>1. Collects(ZeroElement(e.enable), <<>>)
      BY <2>1, ZeroFits
    <3>. QED
      BY <3>1 DEF free_packet_list, ZeroElement, Collects
  <2>. QED
    BY <2>3, <2>4, <2>5 DEF e
<1>. QED
  BY <1>1 DEF free_packet_list_all, IInv, TypeOK, HandedOver,
       DeliveredIsSinceStart, NoSection

(* The inductive invariant holds throughout.                               *)
THEOREM Invariance == Spec => []IInv
<1>1. IInv /\ [Next]_vars => IInv'
  <2>. SUFFICES ASSUME IInv, [Next]_vars PROVE IInv'
    OBVIOUS
  <2>1. ASSUME NEW buf \in Packet, NEW crc \in Bit, Offer(buf, crc)
        PROVE  IInv'
    BY <2>1, OfferInv
  <2>2. CASE free_packet_list_all
    BY <2>2, FreeInv
  <2>3. CASE UNCHANGED vars
    BY <2>3 DEF vars, IInv, TypeOK, HandedOver, DeliveredIsSinceStart
  <2>. QED
    BY <2>1, <2>2, <2>3 DEF Next
<1>. QED
  BY InitInv, <1>1, PTL DEF Spec

(***************************************************************************)
(* The elements of packet_list and what is handed over are of their types; *)
(* in particular the 16-bit size and copybytes never wrap.                 *)
(***************************************************************************)
THEOREM TypeCorrect == Spec => []TypeOK
<1>1. IInv => TypeOK
  BY DEF IInv
<1>. QED
  BY Invariance, <1>1, PTL

(***************************************************************************)
(* st_packet never copies beyond the block it allocated.                   *)
(***************************************************************************)
THEOREM NeverOverruns == Spec => []NoOverrun
<1>1. IInv => NoOverrun
  <2>. SUFFICES ASSUME IInv, NEW p \in PIDs
                PROVE  packet_list[p].copybytes <= packet_list[p].cap
    BY DEF NoOverrun
  <2>1. packet_list[p] \in PACKET_LIST /\ WellFilled(packet_list[p])
    BY DEF IInv, TypeOK
  <2>. QED
    BY <2>1, Widths DEF WellFilled
<1>. QED
  BY Invariance, <1>1, PTL

(***************************************************************************)
(* A decoder finds the header of a section at the start of the block it is *)
(* given, and after the first PAT no packet of PID 0 is collected.         *)
(***************************************************************************)
THEOREM HandsOverPackets == Spec => []HandedOver
<1>1. IInv => HandedOver
  BY DEF IInv
<1>. QED
  BY Invariance, <1>1, PTL

(* The packets since the last start begin with a start.                    *)
LEMMA SinceStartBegins ==
  ASSUME NEW s \in Seq(Packet), SinceStart(s) # <<>>
  PROVE  \E j \in 1 .. Len(s) : s[j].pusi = 1 /\ SinceStart(s)[1] = s[j]
<1>. DEFINE n == Len(s)
            S == {i \in 1 .. n : s[i].pusi = 1}
            k == CHOOSE i \in S : \A j \in S : j <= i
<1>1. S # {} /\ SinceStart(s) = SubSeq(s, k, n)
  BY DEF SinceStart
<1>2. k \in S
  <2>1. n \in Nat /\ S \in SUBSET (0 .. n)
    OBVIOUS
  <2>. HIDE DEF S, n
  <2>2. \E i \in S : \A j \in S : j <= i
    BY <1>1, <2>1, Greatest
  <2>. QED
    BY <2>2
<1>. HIDE DEF k
<1>3. k \in 1 .. n /\ s[k].pusi = 1 /\ SubSeq(s, k, n)[1] = s[k]
  BY <1>2
<1>. QED
  BY <1>1, <1>3

(* The packets behind the first since the last start are continuations.    *)
LEMMA SinceStartContinues ==
  ASSUME NEW s \in Seq(Packet), SinceStart(s) # <<>>
  PROVE  \A k \in 2 .. Len(SinceStart(s)) : SinceStart(s)[k].pusi # 1
<1>. DEFINE n == Len(s)
            S == {i \in 1 .. n : s[i].pusi = 1}
            m == CHOOSE i \in S : \A j \in S : j <= i
<1>1. S # {} /\ SinceStart(s) = SubSeq(s, m, n)
  BY DEF SinceStart
<1>2. m \in S /\ \A j \in S : j <= m
  <2>1. n \in Nat /\ S \in SUBSET (0 .. n)
    OBVIOUS
  <2>. HIDE DEF S, n
  <2>2. \E i \in S : \A j \in S : j <= i
    BY <1>1, <2>1, Greatest
  <2>. QED
    BY <2>2
<1>. HIDE DEF m
<1>3. n \in Nat /\ m \in 1 .. n
  BY <1>2
<1>4. /\ Len(SinceStart(s)) = n - m + 1
      /\ \A k \in 1 .. n - m + 1 : SinceStart(s)[k] = s[m + k - 1]
  BY <1>1, <1>3
<1>5. ASSUME NEW k \in 2 .. n - m + 1 PROVE s[m + k - 1].pusi # 1
  <2>1. m + k - 1 \in 1 .. n /\ ~(m + k - 1 <= m) /\ k \in 1 .. n - m + 1
    BY <1>3
  <2>. QED
    BY <1>2, <2>1
<1>6. \A k \in 2 .. n - m + 1 : k \in 1 .. n - m + 1
  BY <1>3
<1>. QED
  BY <1>4, <1>5, <1>6

(* The first useful packet is the first in the block.                      *)
LEMMA FirstFragment ==
  ASSUME NEW s \in Seq(Packet), NEW first \in 1 .. Len(s), Useful(s[first]),
         \A i \in 1 .. first - 1 : ~Useful(s[i])
  PROVE  Fragments(s)[1] = s[first]
<1>. DEFINE P == {i \in DOMAIN s : Useful(s[i])}
            n == Len(s)
<1>1. n \in Nat /\ first \in 1 .. n /\ DOMAIN s = 1 .. n
  OBVIOUS
<1>2. P \in SUBSET (1 .. n) /\ first \in P
  BY <1>1
<1>3. \A j \in P : j <= first <=> j = first
  <2>1. \A j \in 1 .. n : j <= first => j = first \/ j \in 1 .. first - 1
    BY <1>1
  <2>. QED
    BY <1>1, <2>1
<1>. HIDE DEF P, n
<1>4. Rank(P, first) = 1
  <2>1. {j \in P : j <= first} = {first}
    BY <1>2, <1>3
  <2>. QED
    BY <2>1, FS_Singleton DEF Rank
<1>5. 1 \in 1 .. Cardinality(P)
  <2>1. Rank(P, first) \in 1 .. Cardinality(P)
    BY <1>1, <1>2, Ranks
  <2>. QED
    BY <1>4, <2>1
<1>6. (CHOOSE i \in P : Rank(P, i) = 1) = first
  <2>1. PICK k \in 1 .. Cardinality(P) : k = 1
    BY <1>5
  <2>2. \A j \in P : Rank(P, j) = k => j = CHOOSE i \in P : Rank(P, i) = k
    BY <1>1, <1>2, ChosenPosition
  <2>. QED
    BY <1>2, <1>4, <2>1, <2>2
<1>7. Fragments(s) = Subsequence(s, P)
  BY DEF Fragments, P
<1>. QED
  BY <1>5, <1>6, <1>7 DEF Subsequence

(* A block that is not empty has a first packet.                           *)
LEMMA SomeFragment ==
  ASSUME NEW s \in Seq(Packet), Fragments(s) # <<>>
  PROVE  \E k \in 1 .. Len(s) : Useful(s[k]) /\ \A i \in 1 .. k - 1 : ~Useful(s[i])
<1>. DEFINE P == {i \in DOMAIN s : Useful(s[i])}
            n == Len(s)
<1>1. n \in Nat /\ DOMAIN s = 1 .. n
  OBVIOUS
<1>2. P \in SUBSET (1 .. n) /\ \A i \in 1 .. n : i \in P <=> Useful(s[i])
  BY <1>1
<1>3. P # {}
  <2>1. Fragments(s) = Subsequence(s, P)
    BY DEF Fragments
  <2>. HIDE DEF P
  <2>2. /\ Subsequence(s, P) \in Seq(Packet)
        /\ Len(Subsequence(s, P)) = Cardinality(P)
    BY <1>2, SubsequenceType DEF n
  <2>3. P = {} => Len(Subsequence(s, P)) = 0
    BY <2>2, FS_EmptySet
  <2>. QED
    BY <2>1, <2>2, <2>3
<1>. HIDE DEF P, n
<1>. DEFINE Distances == {n - i : i \in P}
<1>4. \E d \in Distances : \A c \in Distances : c <= d
  <2>1. Distances \in SUBSET (0 .. n) /\ Distances # {}
    <3>1. \A i \in P : n - i \in 0 .. n
      <4>1. \A i \in 1 .. n : n - i \in 0 .. n
        BY <1>1
      <4>. QED
        BY <1>2, <4>1
    <3>2. PICK i \in P : TRUE
      BY <1>3
    <3>3. n - i \in Distances
      BY <3>2
    <3>. QED
      BY <3>1, <3>3
  <2>. HIDE DEF Distances
  <2>. QED
    BY <1>1, <2>1, Greatest
<1>5. PICK k \in P : \A j \in P : n - j <= n - k
  BY <1>4
<1>6. \A i \in 1 .. k - 1 : i \notin P /\ i \in 1 .. n
  <2>1. k \in 1 .. n
    BY <1>2
  <2>2. \A i \in 1 .. k - 1 : i \in 1 .. n /\ ~(n - i <= n - k)
    BY <1>1, <2>1
  <2>. QED
    BY <1>5, <2>2
<1>. QED
  BY <1>2, <1>5, <1>6 DEF n

(***************************************************************************)
(* Which header a decoder reads, whatever starts, continuations and        *)
(* packets without a payload came: the one of the first payload since the  *)
(* last start, in a block of the length that this start announced.  The    *)
(* two belong together only if the start has a payload itself.             *)
(***************************************************************************)
THEOREM DecodesFirstPayload == Spec => []HeaderDecoded
<1>1. IInv => HeaderDecoded
  <2>. SUFFICES ASSUME IInv, section.ok PROVE HeaderDecoded
    BY DEF HeaderDecoded
  <2>. DEFINE s == offered[section.pid]
              recent == SinceStart(s)
  <2>1. section.pid \in PIDs
    <3>1. section # NoSection
      BY DEF NoSection
    <3>2. section \in Section
      BY <3>1 DEF IInv, TypeOK
    <3>. QED
      BY <3>2 DEF Section
  <2>2. s \in Seq(Packet)
    BY <2>1 DEF IInv, TypeOK
  <2>3. /\ recent # <<>>
        /\ section.payload = Fragments(recent)
        /\ section.payload # <<>>
        /\ section.size = Announced(recent)
        /\ packet_list[section.pid].cap = section.size + Slack
    BY DEF IInv, DeliveredIsSinceStart, HandedOver
  <2>. HIDE DEF s
  <2>4. /\ recent[1].pusi = 1
        /\ \A k \in 2 .. Len(recent) : recent[k].pusi # 1
    BY <2>2, <2>3, SinceStartBegins, SinceStartContinues
  <2>5. recent \in Seq(Packet)
    <3>1. PICK j \in 1 .. Len(s) : recent[1] = s[j]
      BY <2>2, <2>3, SinceStartBegins
    <3>2. s[j] \in Packet
      BY <2>2
    <3>. QED
      BY <2>2, <3>2, SinceStartGrows
  <2>. HIDE DEF recent
  <2>6. PICK k \in 1 .. Len(recent) :
          Useful(recent[k]) /\ \A i \in 1 .. k - 1 : ~Useful(recent[i])
    BY <2>3, <2>5, SomeFragment
  <2>7. section.payload[1] = recent[k]
    BY <2>3, <2>5, <2>6, FirstFragment
  <2>8. Len(recent) \in Nat /\ DOMAIN recent = 1 .. Len(recent)
        /\ Head(recent) = recent[1]
    BY <2>3, <2>5
  <2>9. section.payload[1].pusi = 1 <=> Useful(Head(recent))
    <3>1. k = 1 \/ (k \in 2 .. Len(recent) /\ 1 \in 1 .. k - 1)
      BY <2>6, <2>8
    <3>2. CASE k = 1
      BY <2>4, <2>6, <2>7, <2>8, <3>2
    <3>3. CASE k \in 2 .. Len(recent) /\ 1 \in 1 .. k - 1
      BY <2>4, <2>6, <2>7, <2>8, <3>3
    <3>. QED
      BY <3>1, <3>2, <3>3
  <2>. QED
    BY <2>3, <2>6, <2>7, <2>8, <2>9 DEF HeaderDecoded, recent, s
<1>. QED
  BY Invariance, <1>1, PTL

(* The program composes the two cases: in a file without a start that has  *)
(* no payload, a header belongs to the block it is read in.                *)
LEMMA DecodesStart == Spec => []StartDecoded
<1>1. IInv /\ HeaderDecoded => StartDecoded
  <2>. SUFFICES ASSUME IInv, HeaderDecoded, section.ok PROVE StartDecoded
    BY DEF StartDecoded
  <2>. DEFINE s == offered[section.pid]
              recent == SinceStart(s)
  <2>1. section.pid \in PIDs
    <3>1. section # NoSection
      BY DEF NoSection
    <3>2. section \in Section
      BY <3>1 DEF IInv, TypeOK
    <3>. QED
      BY <3>2 DEF Section
  <2>2. s \in Seq(Packet)
    BY <2>1 DEF IInv, TypeOK
  <2>3. /\ recent # <<>>
        /\ packet_list[section.pid].cap = Announced(recent) + Slack
    BY DEF HeaderDecoded
  <2>4. PICK k \in DOMAIN recent :
          /\ \A i \in 1 .. k - 1 : ~Useful(recent[i])
          /\ section.payload[1] = recent[k]
    BY DEF HeaderDecoded
  <2>. HIDE DEF s
  <2>5. PICK j \in 1 .. Len(s) : s[j].pusi = 1 /\ recent[1] = s[j]
    BY <2>2, <2>3, SinceStartBegins
  <2>6. recent \in Seq(Packet)
    <3>1. s[j] \in Packet
      BY <2>2
    <3>. QED
      BY <2>2, <3>1, SinceStartGrows
  <2>. HIDE DEF recent
  <2>7. Useful(s[j]) => section.payload[1] = s[j]
    <3>1. k = 1 \/ 1 \in 1 .. k - 1
      BY <2>6
    <3>. QED
      BY <2>4, <2>5, <3>1
  <2>8. Announced(recent) = s[j].sec.section_length + 3
    BY <2>3, <2>5, <2>6 DEF Announced
  <2>9. j \in DOMAIN s
    BY <2>2
  <2>. QED
    BY <2>3, <2>5, <2>7, <2>8, <2>9 DEF StartDecoded, s
<1>. QED
  BY Invariance, DecodesFirstPayload, <1>1, PTL

(* A section consists of packets that were offered on its PID.             *)
PayloadOffered ==
  section.ok =>
    \A k \in DOMAIN section.payload :
      \E j \in DOMAIN offered[section.pid] :
        section.payload[k] = offered[section.pid][j]

(***************************************************************************)
(* Nothing of another PID, and nothing that was not read, gets into a      *)
(* section.                                                                *)
(***************************************************************************)
THEOREM HandsOverOffered == Spec => []PayloadOffered
<1>1. IInv => PayloadOffered
  <2>. SUFFICES ASSUME IInv, section.ok PROVE PayloadOffered
    BY DEF PayloadOffered
  <2>. DEFINE s == offered[section.pid]
              recent == SinceStart(s)
              E == {s[i] : i \in DOMAIN s}
              n == Len(s)
              P == {i \in DOMAIN recent : Useful(recent[i])}
  <2>1. section.pid \in PIDs
    <3>1. section # NoSection
      BY DEF NoSection
    <3>2. section \in Section
      BY <3>1 DEF IInv, TypeOK
    <3>. QED
      BY <3>2 DEF Section
  <2>2. s \in Seq(Packet)
    BY <2>1 DEF IInv, TypeOK
  <2>3. recent # <<>> /\ section.payload = Fragments(recent)
    BY DEF IInv, DeliveredIsSinceStart
  <2>. HIDE DEF s
  <2>4. s \in Seq(E) /\ n \in Nat
    <3>1. n \in Nat /\ DOMAIN s = 1 .. n
      BY <2>2
    <3>2. s \in [1 .. n -> E]
      <4>1. s = [i \in 1 .. n |-> s[i]]
        BY <2>2, <3>1
      <4>2. \A i \in 1 .. n : s[i] \in E
        BY <3>1
      <4>. HIDE DEF E, n
      <4>. QED
        BY <4>1, <4>2
    <3>. HIDE DEF E, n
    <3>. QED
      BY <3>1, <3>2
  <2>. HIDE DEF E
  <2>5. recent \in Seq(E)
    <3>. DEFINE S == {i \in 1 .. n : s[i].pusi = 1}
                k == CHOOSE i \in S : \A j \in S : j <= i
    <3>1. S # {} /\ recent = SubSeq(s, k, n)
      BY <2>3 DEF SinceStart
    <3>2. k \in S
      <4>1. S \in SUBSET (0 .. n)
        BY <2>4
      <4>. HIDE DEF S, n
      <4>2. \E i \in S : \A j \in S : j <= i
        BY <2>4, <3>1, <4>1, Greatest
      <4>. QED
        BY <4>2
    <3>. HIDE DEF k, recent
    <3>3. k \in 1 .. n
      BY <3>2
    <3>. HIDE DEF S
    <3>. QED
      BY <2>4, <3>1, <3>3
  <2>. HIDE DEF recent
  <2>6. Fragments(recent) \in Seq(E)
    <3>1. P \in SUBSET (1 .. Len(recent))
      BY <2>5
    <3>2. Fragments(recent) = Subsequence(recent, P)
      BY DEF Fragments
    <3>. HIDE DEF P
    <3>. QED
      BY <2>5, <3>1, <3>2, SubsequenceType
  <2>7. \A k \in DOMAIN section.payload : section.payload[k] \in E
    BY <2>3, <2>6
  <2>. QED
    BY <2>7 DEF PayloadOffered, E, s
<1>. QED
  BY Invariance, <1>1, PTL

(***************************************************************************)
(* copybytes counts the bytes in the block, whatever was thrown away       *)
(* before.                                                                 *)
(***************************************************************************)
THEOREM CountsContents == Spec => []CountIsContents
<1>1. IInv => CountIsContents
  BY DEF IInv, Collects, CountIsContents
<1>. QED
  BY Invariance, <1>1, PTL

(***************************************************************************)
(* What a decoder is given is what a reader of all the packets of the PID  *)
(* would take: the useful payloads since the last start, no packet less    *)
(* and none more.                                                          *)
(***************************************************************************)
THEOREM DeliversSinceStart == Spec => []DeliveredIsSinceStart
<1>1. IInv => DeliveredIsSinceStart
  BY DEF IInv
<1>. QED
  BY Invariance, <1>1, PTL

(***************************************************************************)
(* An element loads exactly as long as the bytes since a readable start do *)
(* not exceed what that start announced.                                   *)
(***************************************************************************)
THEOREM LoadsUntilFilled == Spec => []LoadingUntilFilled
<1>1. IInv => LoadingUntilFilled
  <2>. SUFFICES ASSUME IInv, NEW p \in PIDs,
                       SinceStart(offered[p]) # <<>>,
                       ~BadCopySize(Head(SinceStart(offered[p])))
                PROVE  packet_list[p].loading = 1 <=>
                         Bytes(Fragments(SinceStart(offered[p])))
                           <= Announced(SinceStart(offered[p]))
    BY DEF LoadingUntilFilled
  <2>. DEFINE e == packet_list[p]
              s == offered[p]
              recent == SinceStart(s)
  <2>1. /\ e \in PACKET_LIST /\ WellFilled(e) /\ s \in Seq(Packet)
        /\ Collects(e, s)
    BY DEF IInv, TypeOK
  <2>. HIDE DEF e, s
  <2>2. e.size \in Nat /\ Bytes(Fragments(recent)) \in Nat
    <3>1. s # <<>>
      BY NothingOffered DEF s
    <3>2. s[1] \in Packet
      BY <2>1, <3>1
    <3>3. recent \in Seq(Packet)
      BY <2>1, <3>2, SinceStartGrows
    <3>4. Fragments(recent) \in Seq(Packet)
      BY <3>2, <3>3, FragmentsGrow
    <3>. QED
      BY <2>1, <3>2, <3>4, Numbers, BytesGrow
  <2>3. e.loading = 1 => Bytes(Fragments(recent)) <= Announced(recent)
    BY <2>1 DEF Collects, WellFilled, e, s
  <2>4. e.loading # 1 => Bytes(Fragments(recent)) > Announced(recent)
    BY <2>1 DEF Collects, s
  <2>5. Announced(recent) = e.size
    BY <2>1 DEF Collects, s
  <2>. HIDE DEF recent
  <2>6. e.loading = 1 <=> Bytes(Fragments(recent)) <= Announced(recent)
    BY <2>2, <2>3, <2>4, <2>5
  <2>. QED
    BY <2>6 DEF e, s, recent
<1>. QED
  BY Invariance, <1>1, PTL

(* No step enables a PID again.                                            *)
StayDisabled ==
  \A p \in PIDs : packet_list[p].enable = 0 => packet_list'[p].enable = 0

(* Nothing turns a PID on again that the main loop turned off.             *)
THEOREM DisabledForGood == Spec => [][StayDisabled]_vars
<1>1. IInv /\ [Next]_vars => [StayDisabled]_vars
  <2>. SUFFICES ASSUME IInv, Next PROVE StayDisabled
    OBVIOUS
  <2>1. ASSUME NEW buf \in Packet, NEW crc \in Bit, Offer(buf, crc)
        PROVE  StayDisabled
    <3>. DEFINE e == st_packet(packet_list[buf.pid], buf, crc)
    <3>1. packet_list[buf.pid].enable = 1
      BY <2>1 DEF Offer, Passed
    <3>2. packet_list' = [packet_list EXCEPT ![buf.pid] = AfterUse(e, buf)]
      BY <2>1 DEF Offer
    <3>. HIDE DEF e
    <3>. QED
      BY <3>1, <3>2 DEF StayDisabled, IInv, TypeOK
  <2>2. CASE free_packet_list_all
    BY <2>2 DEF free_packet_list_all, free_packet_list, ZeroElement,
         StayDisabled
  <2>. QED
    BY <2>1, <2>2 DEF Next
<1>. QED
  BY Invariance, <1>1, PTL DEF Spec
=============================================================================
