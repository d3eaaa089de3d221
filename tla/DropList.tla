------------------------------ MODULE DropList ------------------------------
(***************************************************************************)
(* The drop lists of drop_list.c: for every key (the time of the last TOT, *)
(* or a percentage of the file) the numbers of dropped, damaged and        *)
(* scrambled packets.  The linked list is a sequence of nodes.             *)
(*                                                                         *)
(* `added' is a history variable: the calls of add_drop_list.              *)
(***************************************************************************)
EXTENDS Integers, Sequences, FiniteSets

CONSTANTS
  Keys,
  MAX_COUNT,    \* a counter that reached it stays: 99999999
  LIST_LIMIT    \* the nodes that are searched: 100000

VARIABLES drop_list, added

vars == <<drop_list, added>>

ASSUME DropListAssumption ==
  /\ MAX_COUNT \in Nat
  /\ LIST_LIMIT \in Nat \ {0}

(* What drop_check_and_count says of one packet.                           *)
Verdict == [drop : {0, 1}, error : {0, 1}, scrambling : {0, 1}]

DROP_LIST == [key : Keys, drop : Nat, error : Nat, scrambling : Nat]

NewNode(key) == [key |-> key, drop |-> 0, error |-> 0, scrambling |-> 0]

-----------------------------------------------------------------------------

(* The positions searched that hold key.                                   *)
Matches(list, key) ==
  {i \in DOMAIN list : i <= LIST_LIMIT /\ list[i].key = key}

(* The node that takes the counts: the first match, else a new one at the  *)
(* end.  A search that gave up ends at the node behind the last one that   *)
(* was compared, whatever its key.                                         *)
Slot_AlwaysNew(list, key) == Len(list) + 1

Slot(list, key) ==
  CASE Matches(list, key) # {} ->
         CHOOSE i \in Matches(list, key) :
           \A j \in Matches(list, key) : i <= j
    [] Matches(list, key) = {} /\ Len(list) <= LIST_LIMIT -> Len(list) + 1
    [] OTHER -> LIST_LIMIT + 1

Extended(list, key) ==
  IF Slot(list, key) \in DOMAIN list THEN list ELSE Append(list, NewNode(key))

(* A counter that has reached the maximum is left alone.                   *)
Counted_Capless(n, increment) == n + increment
Counted_Inclusive(n, increment) == IF n <= MAX_COUNT THEN n + increment ELSE n
Counted(n, increment) == IF n < MAX_COUNT THEN n + increment ELSE n

CountIn(node, now) ==
  [key        |-> node.key,
   drop       |-> Counted(node.drop, now.drop),
   error      |-> Counted(node.error, now.error),
   scrambling |-> Counted(node.scrambling, now.scrambling)]

add_drop_list(list, key, now) ==
  [Extended(list, key) EXCEPT ![Slot(list, key)] = CountIn(@, now)]

Init ==
  /\ drop_list = <<>>
  /\ added = <<>>

Add(key, now) ==
  /\ drop_list' = add_drop_list(drop_list, key, now)
  /\ added' = Append(added, [key |-> key, now |-> now])

Next == \E key \in Keys, now \in Verdict : Add(key, now)

Spec == Init /\ [][Next]_vars

-----------------------------------------------------------------------------

Capped(n) == IF n < MAX_COUNT THEN n ELSE MAX_COUNT

Flags == {"drop", "error", "scrambling"}

(* The calls that gave key a dropped, damaged or scrambled packet.         *)
Hits(calls, key, flag) ==
  {i \in DOMAIN calls : calls[i].key = key /\ calls[i].now[flag] = 1}

(* A node as it should be, given all calls.                                *)
Exact(node) ==
  \A flag \in Flags : node[flag] = Capped(Cardinality(Hits(added, node.key, flag)))

KeysAdded == {added[i].key : i \in DOMAIN added}

(***************************************************************************)
(* Every node has the type of the structure, and its counters never exceed *)
(* the maximum, at which drop_list.c stops each of them by itself.         *)
(***************************************************************************)
TypeOK ==
  /\ drop_list \in Seq(DROP_LIST)
  /\ \A i \in DOMAIN drop_list, flag \in Flags : drop_list[i][flag] <= MAX_COUNT
  /\ added \in Seq([key : Keys, now : Verdict])

(***************************************************************************)
(* The printed objects have the keys as member names: no key is there      *)
(* twice, and the list stops growing one node behind the search limit.     *)
(***************************************************************************)
KeysDistinct ==
  /\ \A i, j \in DOMAIN drop_list : drop_list[i].key = drop_list[j].key => i = j
  /\ Len(drop_list) <= LIST_LIMIT + 1

(***************************************************************************)
(* As long as the keys fit into the list, each has a node, in the order in *)
(* which they were first added, with its counts up to the maximum.         *)
(***************************************************************************)
CountsPerKey ==
  Cardinality(KeysAdded) <= LIST_LIMIT + 1 =>
    /\ {drop_list[i].key : i \in DOMAIN drop_list} = KeysAdded
    /\ \A i \in DOMAIN drop_list : Exact(drop_list[i])
    /\ \A i, j \in DOMAIN added :
         /\ \A k \in 1 .. i - 1 : added[k].key # added[i].key
         /\ \A k \in 1 .. j - 1 : added[k].key # added[j].key
         /\ i < j
         => \E m, n \in DOMAIN drop_list :
              m < n /\ drop_list[m].key = added[i].key
                    /\ drop_list[n].key = added[j].key
=============================================================================
