------------------------------ MODULE Decoders -------------------------------
(***************************************************************************)
(* The three decoders side by side, each with sections of its own: a PMT   *)
(* or an EIT that was received, or the time of every day.                  *)
(***************************************************************************)
EXTENDS Layout

CONSTANTS
  MAX_EVENTS, MAX_DESC,
  PmtSections, EitSections,   \* what is received: buf, and the table in it (sent)
  Calendar,                   \* the date of every day that has a number
  HeaderOf, ClockOf           \* the TOT of a day

VARIABLES
  buf, pc, boff, sent,
  pmt,
  loaded, loaded_desc, curr_ev, events, allocated,
  mjd, date, header, clock, tot

P == INSTANCE Pmt
E == INSTANCE Eit
T == INSTANCE Tot

forPmt == <<pmt>>
forEit == <<loaded, loaded_desc, curr_ev, events, allocated>>
forTot == <<mjd, date, header, clock, tot>>
common == <<buf, pc, boff, sent>>

vars == <<common, forPmt, forEit, forTot>>

-----------------------------------------------------------------------------
(* What is received.                                                       *)

(* A block of the size that its section claims, with eight bytes that can  *)
(* be read at each of its bytes.                                           *)
InBlock(block) ==
  LET length == bits(block, 12, 12)
  IN length \in SectionLengths /\ block \in [0 .. length + 3 + Slack + 7 -> Byte]

(* The block for a section of the length that it claims.                   *)
InMemory(section) ==
  Memory(section, 256 * (section[2] % 16) + section[3] + 3 + Slack)

(* Days are numbered with 16 bits.                                         *)
Days == 1 .. 2^16 - 1

TotHeader == [table_id : Byte, syntax : Bit, rest : 0 .. T!RestMax]

ASSUME DecodersAssumption ==
  /\ {MAX_EVENTS, MAX_DESC} \subseteq Nat \ {0}
  /\ \A r \in PmtSections \cup EitSections : InBlock(r.buf)
  /\ \A r \in PmtSections :
       r.sent = Damaged \/ (r.sent \in P!Table /\ r.buf = InMemory(P!PmtBytes(r.sent)))
  /\ \A r \in EitSections :
       r.sent = Damaged \/ (r.sent \in E!Table /\ r.buf = InMemory(E!EitBytes(r.sent)))
  /\ Calendar[0] = T!DayZero
  /\ \A day \in Days : Calendar[day] = T!NextDay(Calendar[day - 1])
  /\ HeaderOf \in [Days -> TotHeader]
  /\ ClockOf \in [Days -> [1 .. 3 -> Byte]]

-----------------------------------------------------------------------------

NoTot == [none |-> TRUE]

EitIdle == loaded = 0 /\ loaded_desc = 0 /\ curr_ev = E!NoEvent /\ events = <<>>
           /\ allocated = 0
TotIdle == mjd = 0 /\ date = <<>> /\ header = <<>> /\ clock = <<>> /\ tot = NoTot

PmtReceived ==
  /\ P!Init /\ EitIdle /\ TotIdle
  /\ \E r \in PmtSections : sent = r.sent /\ buf = r.buf

EitReceived ==
  /\ E!Init /\ pmt = P!NoPmt /\ TotIdle
  /\ \E r \in EitSections : sent = r.sent /\ buf = r.buf

FirstDay ==
  /\ T!Init /\ pmt = P!NoPmt /\ EitIdle
  /\ pc = "tot" /\ boff = 0 /\ sent = Damaged /\ buf = <<>>

Init == PmtReceived \/ EitReceived \/ FirstDay

DecodePmt == P!Next /\ UNCHANGED <<forEit, forTot>>
DecodeEit == E!Next /\ UNCHANGED <<forPmt, forTot>>
NextDay ==
  /\ pc = "tot"
  /\ T!Day(HeaderOf[mjd + 1], ClockOf[mjd + 1])
  /\ UNCHANGED <<common, forPmt, forEit>>

Next == DecodePmt \/ DecodeEit \/ NextDay

Spec == Init /\ [][Next]_vars

PmtExact            == P!PmtExact
PmtReadsInside      == P!PmtReadsInside
EitExact            == E!EitExact
InPlaceUntilCut     == E!InPlaceUntilCut
OnlyWrongEventLeaks == E!OnlyWrongEventLeaks
TimeIsRight         == pc = "tot" => T!TimeIsRight
TextFits            == pc = "tot" => T!TextFits
=============================================================================
