------------------------------- MODULE Report --------------------------------
(***************************************************************************)
(* The lists of the JSON report: conv_json_drop_pid and conv_json_drop_key *)
(* (conv_json.c) and the list of programs (tsanalytics.c).  What is        *)
(* printed is a sequence of entries and commas; indentation and the        *)
(* constant text around a list are left out.                               *)
(***************************************************************************)
EXTENDS Integers, FiniteSets, SequencesExt

CONSTANT MAX_PRINTED    \* max_count of conv_json_drop_key: 20000

Comma == [comma |-> TRUE]

-----------------------------------------------------------------------------

(* An element with total 0 is not printed; the marked one is the end.      *)
PidEntry(pid, e) ==
  [pid |-> pid, total |-> e.total, drop |-> e.drop, error |-> e.error,
   scrambling |-> e.scrambling]

PidLine(pid, e) ==
  CASE e.total = 0                -> <<>>
    [] e.total > 0 /\ e.last = 0  -> <<PidEntry(pid, e), Comma>>
    [] OTHER                      -> <<PidEntry(pid, e)>>

(* PIDs in the order of the loop: i - 1 of them are below the i-th.        *)
Ascending(pids) ==
  [i \in 1 .. Cardinality(pids) |->
     CHOOSE p \in pids : Cardinality({q \in pids : q < p}) = i - 1]

conv_json_drop_pid(counts) ==
  LET order == Ascending(DOMAIN counts)
  IN FlattenSeq([i \in DOMAIN order |-> PidLine(order[i], counts[order[i]])])

(* The nodes that are printed of a drop list.                              *)
Shown(list) ==
  SubSeq(list, 1, IF Len(list) < MAX_PRINTED THEN Len(list) ELSE MAX_PRINTED)

(* Whether a comma follows node i: not behind the last one that may be     *)
(* printed, and not behind the last of the list.                           *)
Continues_Unlimited(list, i) == i < Len(list)
Continues(list, i)           == i # MAX_PRINTED /\ i < Len(list)

conv_json_drop_key(list) ==
  FlattenSeq([i \in DOMAIN Shown(list) |->
    IF Continues(list, i) THEN <<list[i], Comma>> ELSE <<list[i]>>])

(* The programs of a PAT, without number 0; whether a comma follows is     *)
(* decided by the place among all of them.                                 *)
ProgramEntry(number) == [program |-> number]

ProgramLine(pids, i) ==
  CASE pids[i] = 0                      -> <<>>
    [] pids[i] # 0 /\ i # Len(pids)     -> <<ProgramEntry(pids[i]), Comma>>
    [] OTHER                            -> <<ProgramEntry(pids[i])>>

programs(pids) ==
  FlattenSeq([i \in DOMAIN pids |-> ProgramLine(pids, i)])

-----------------------------------------------------------------------------
(* The reference: what JSON wants.                                         *)

(* The entries with one comma between any two of them.                     *)
Separated(entries) ==
  [i \in 1 .. 2 * Len(entries) - 1 |->
     IF i % 2 = 1 THEN entries[(i + 1) \div 2] ELSE Comma]

(* The entries of the PIDs of which there was a packet, in their order.    *)
PidEntries(counts) ==
  LET used == Ascending({p \in DOMAIN counts : counts[p].total > 0})
  IN [i \in DOMAIN used |-> PidEntry(used[i], counts[used[i]])]

ProgramEntries(pids) ==
  FlattenSeq([i \in DOMAIN pids |->
    IF pids[i] # 0 THEN <<ProgramEntry(pids[i])>> ELSE <<>>])

(* The list of programs is JSON, but for one case.                         *)
EndsInNetwork(pids) == pids # <<>> /\ Last(pids) = 0 /\ ProgramEntries(pids) # <<>>
=============================================================================
