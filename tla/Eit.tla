-------------------------------- MODULE Eit ----------------------------------
(***************************************************************************)
(* The decoder of the event information table: st_eit and free_eit of      *)
(* m2tlib/eit.c.  It is part of the library and not called by the program. *)
(* One pass of a loop is one step.                                         *)
(*                                                                         *)
(* The linked lists of events and of their descriptors are sequences;      *)
(* allocated is the number of their elements that were not freed yet.  A   *)
(* descriptor and the copy of its contents are one element.  buf, pc, boff *)
(* and sent are shared with Pmt and explained there.                       *)
(***************************************************************************)
EXTENDS Dates, Layout, Totals

CONSTANTS
  MAX_EVENTS,   \* the events that are read of a section: 100
  MAX_DESC,     \* the descriptors that are read of an event: 100
  Calendar      \* the date of every day that has a number

VARIABLES
  buf, pc, boff, sent,
  loaded,         \* the bytes of the section that count as read
  loaded_desc,    \* the same of the descriptors of an event
  curr_ev,        \* the event that is being read
  events,         \* out->events
  allocated

here == <<loaded, loaded_desc, curr_ev, events, allocated>>
vars == <<buf, pc, boff, sent, here>>

NoEvent == [none |-> TRUE]

section_length == bits(buf, 12, 12)
BlockSize      == section_length + 3 + Slack

HeaderSize      == 14   \* bytes before the first event
EventSize       == 12   \* bytes of an event without its descriptors
DescriptorSize  == 2    \* bytes of a descriptor without its contents

Inside(size) == (boff \div 8) + size <= BlockSize

Unread == <<buf, sent>>

-----------------------------------------------------------------------------

Init ==
  /\ pc = "eit header"
  /\ boff = 0
  /\ loaded = 0 /\ loaded_desc = 0
  /\ curr_ev = NoEvent
  /\ events = <<>>
  /\ allocated = 0

(* The table of the running event, or of the schedule.                     *)
eit_ok ==
  /\ bits(buf, 0, 8) \in {78} \cup 80 .. 95
  /\ bits(buf, 8, 1) = 1
  /\ section_length <= 4093

(* loaded starts at the eleven bytes of the header that section_length     *)
(* counts, and five for the CRC, which has four.                           *)
LoadedAtFirst_NoCrc == 11
LoadedAtFirst       == 11 + 5

ReadHeader ==
  /\ pc = "eit header"
  /\ boff' = 8 * HeaderSize
  /\ loaded' = LoadedAtFirst
  /\ pc' = IF eit_ok THEN "events" ELSE "refused"
  /\ UNCHANGED <<Unread, loaded_desc, curr_ev, events, allocated>>

MoreEvents == Len(events) < MAX_EVENTS /\ loaded < section_length

(* Hours, minutes and seconds in two digits each.  The code reads them by  *)
(* three calls that move boff in one expression (eit.c), which compilers   *)
(* evaluate from left to right although C leaves the order open.           *)
Seconds(at) ==
  hex_to_digi(bits(buf, at, 8)) * 3600 + hex_to_digi(bits(buf, at + 8, 8)) * 60
  + hex_to_digi(bits(buf, at + 16, 8))

EventRead ==
  [event_id                |-> bits(buf, boff, 16),
   start_time_tm           |-> time_to_tm(buf, (boff + 16) \div 8),
   duration_sec            |-> Seconds(boff + 56),
   descriotors_loop_length |-> bits(buf, boff + 84, 12),
   desc                    |-> <<>>]

(* An event whose descriptors are longer than the section ends the loop    *)
(* before it is linked to the list.                                        *)
ReadEvent ==
  /\ pc = "events"
  /\ MoreEvents
  /\ Inside(EventSize)
  /\ allocated' = allocated + 1
  /\ boff' = boff + 8 * EventSize
  /\ IF EventRead.descriotors_loop_length > section_length
     THEN pc' = "eit done" /\ UNCHANGED <<curr_ev, loaded_desc>>
     ELSE /\ pc' = "descriptors"
          /\ curr_ev' = EventRead
          /\ loaded_desc' = 0
  /\ UNCHANGED <<Unread, loaded, events>>

EndOfEvents ==
  /\ pc = "events"
  /\ ~MoreEvents
  /\ pc' = "eit done"
  /\ UNCHANGED <<Unread, boff, here>>

MoreDescriptors ==
  /\ Len(curr_ev.desc) < MAX_DESC
  /\ loaded_desc < curr_ev.descriotors_loop_length

DescriptorLength == bits(buf, boff + 8, 8)

ReadDescriptor ==
  /\ pc = "descriptors"
  /\ MoreDescriptors
  /\ Inside(DescriptorSize)
  /\ Inside(DescriptorSize + DescriptorLength)
  /\ allocated' = allocated + 1
  /\ curr_ev' = [curr_ev EXCEPT !.desc =
       Append(@, [descriptor_tag    |-> bits(buf, boff, 8),
                  descriptor_length |-> DescriptorLength])]
  /\ boff' = boff + 8 * (DescriptorSize + DescriptorLength)
  /\ loaded_desc' = loaded_desc + DescriptorSize + DescriptorLength
  /\ UNCHANGED <<Unread, pc, loaded, events>>

(* The next event is looked for where the last descriptor ended, and the   *)
(* bytes are counted as if that were the end of all descriptors.           *)
LoadedAfter_HeaderOnly == loaded + EventSize
LoadedAfter == loaded + EventSize + curr_ev.descriotors_loop_length

LinkEvent ==
  /\ pc = "descriptors"
  /\ ~MoreDescriptors
  /\ events' = Append(events, curr_ev)
  /\ loaded' = LoadedAfter
  /\ curr_ev' = NoEvent
  /\ pc' = "events"
  /\ UNCHANGED <<Unread, boff, loaded_desc, allocated>>

ReadOutside ==
  /\ \/ pc = "events" /\ MoreEvents /\ ~Inside(EventSize)
     \/ /\ pc = "descriptors"
        /\ MoreDescriptors
        /\ \/ ~Inside(DescriptorSize)
           \/ ~Inside(DescriptorSize + DescriptorLength)
  /\ pc' = "eit outside"
  /\ UNCHANGED <<Unread, boff, here>>

(* free_eit walks the lists up to the limits they were read with.  It      *)
(* clears eight bytes of the structure and not the pointer to the events.  *)
FreeLimit_Fixed == MAX_EVENTS - 1
FreeLimit       == MAX_EVENTS

Least(m, n) == IF m < n THEN m ELSE n

(* An event is freed with its descriptors.                                 *)
Freed ==
  SumOf([k \in 1 .. Least(Len(events), FreeLimit) |->
           1 + Least(Len(events[k].desc), MAX_DESC)])

FreeEit ==
  /\ pc \in {"eit done", "refused"}
  /\ allocated' = allocated - Freed
  /\ pc' = "eit freed"
  /\ UNCHANGED <<Unread, boff, loaded, loaded_desc, curr_ev, events>>

Next ==
  \/ ReadHeader
  \/ ReadEvent
  \/ EndOfEvents
  \/ ReadDescriptor
  \/ LinkEvent
  \/ ReadOutside
  \/ FreeEit

-----------------------------------------------------------------------------
(* The reference: a table and its section.  An event starts on a day at a  *)
(* time and takes a time; a time is hours, minutes and seconds in two      *)
(* digits each.  Its descriptors are tags with the number of bytes that    *)
(* each has.                                                               *)

Times == [1 .. 3 -> 0 .. 99]

TableEvent ==
  [event_id : 0 .. 2^16 - 1, day : 0 .. 2^16 - 1, time : Times, duration : Times,
   desc : Seq([descriptor_tag : Byte, descriptor_length : Byte])]

Table ==
  [table_id : Byte, service_id : 0 .. 2^16 - 1, events : Seq(TableEvent)]

TimeBytes(time) == [k \in 1 .. 3 |-> Bcd(time[k])]

DescriptorBytes(d) ==
  <<d.descriptor_tag, d.descriptor_length>> \o Filler(d.descriptor_length)

EventBytes(e) ==
  LET descriptors == FlattenSeq([k \in DOMAIN e.desc |-> DescriptorBytes(e.desc[k])])
  IN Pair(0, e.event_id) \o Pair(0, e.day) \o TimeBytes(e.time)
     \o TimeBytes(e.duration) \o Pair(64, Len(descriptors)) \o descriptors

EitBytes(table) ==
  Section(table.table_id,
    Pair(0, table.service_id) \o <<193, 0, 0, 0, 1, 0, 2, 0, 78>>
    \o FlattenSeq([k \in DOMAIN table.events |-> EventBytes(table.events[k])]))

FitsLimits ==
  /\ Len(sent.events) <= MAX_EVENTS
  /\ \A k \in DOMAIN sent.events : Len(sent.events[k].desc) <= MAX_DESC

(***************************************************************************)
(* Of an undamaged section with no more events and descriptors than the    *)
(* limits every event is read, with all of its descriptors, and nothing    *)
(* else, although the CRC is taken to have five bytes; and nothing is read *)
(* outside of the block.                                                   *)
(***************************************************************************)
EitExact ==
  pc \in {"eit done", "eit outside"} /\ sent # Damaged /\ FitsLimits =>
    /\ pc # "eit outside"
    /\ Len(events) = Len(sent.events)
    /\ \A k \in DOMAIN events :
         LET e  == sent.events[k]
             tm == events[k].start_time_tm
         IN /\ events[k].event_id = e.event_id
            /\ <<tm.tm_year + 1900, tm.tm_mon + 1, tm.tm_mday>> = Calendar[e.day]
            /\ <<tm.tm_hour, tm.tm_min, tm.tm_sec>> = e.time
            /\ events[k].duration_sec =
                 3600 * e.duration[1] + 60 * e.duration[2] + e.duration[3]
            /\ events[k].desc = e.desc

(* The bytes of the descriptors that were read of an event.                *)
DescriptorsRead(e) ==
  SumOf([k \in DOMAIN e.desc |-> DescriptorSize + e.desc[k].descriptor_length])

(***************************************************************************)
(* The decoder keeps its place: what it counts as read and where it reads  *)
(* on agree, until an event has more descriptors than the limit or one     *)
(* that is longer than the loop it stands in.                              *)
(***************************************************************************)
InPlaceUntilCut ==
  pc = "events" /\ boff # 8 * (loaded - 2) =>
    \E k \in DOMAIN events :
      LET e == events[k] IN
      \/ DescriptorsRead(e) > e.descriotors_loop_length
      \/ Len(e.desc) = MAX_DESC

(***************************************************************************)
(* free_eit frees all that st_eit allocated, with every event and every    *)
(* descriptor up to the limits, except for the one event at which a length *)
(* was found to be wrong.                                                  *)
(***************************************************************************)
OnlyWrongEventLeaks ==
  pc = "eit freed" =>
    allocated = IF boff > 8 * HeaderSize /\ loaded < section_length
                   /\ Len(events) < MAX_EVENTS
                THEN 1 ELSE 0
=============================================================================
