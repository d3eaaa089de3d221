--------------------------- MODULE DropListProofs ---------------------------
(***************************************************************************)
(* The drop lists, for every set of keys, every maximum of the counters    *)
(* and every search limit: the nodes keep their types, no key is printed   *)
(* twice, as long as the keys fit into the list every node has the counts  *)
(* of its key, and as long as the counters hold them all nodes together    *)
(* have all counts, even if a search gives up.                             *)
(***************************************************************************)
EXTENDS DropList, Totals, FunctionTheorems, FiniteSetTheorems, TLAPS

Call == [key : Keys, now : Verdict]

(* A list as it can be: no key twice, one node behind the search limit.    *)
Distinct(list) ==
  \A i, j \in DOMAIN list : list[i].key = list[j].key => i = j

Proper(list) ==
  /\ list \in Seq(DROP_LIST)
  /\ Distinct(list)
  /\ Len(list) <= LIST_LIMIT + 1

(* The node that takes the counts is the one of the key, a new one, or the *)
(* one behind the search limit.                                            *)
LEMMA SlotOfKey ==
  ASSUME NEW list, Proper(list), NEW key
  PROVE  LET slot == Slot(list, key) IN
         \/ slot \in Matches(list, key)
         \/ /\ \A i \in DOMAIN list : list[i].key # key
            /\ slot = Len(list) + 1
            /\ slot <= LIST_LIMIT + 1
         \/ /\ \A i \in 1 .. LIST_LIMIT : list[i].key # key
            /\ slot = Len(list)
            /\ slot = LIST_LIMIT + 1
<1>. DEFINE slot == Slot(list, key)
            matches == Matches(list, key)
<1>1. /\ LIST_LIMIT \in Nat \ {0} /\ Len(list) \in Nat
      /\ DOMAIN list = 1 .. Len(list) /\ Len(list) <= LIST_LIMIT + 1
  BY DropListAssumption DEF Proper
<1>2. CASE matches # {}
  <2>1. PICK i \in matches : TRUE
    BY <1>2
  <2>2. \A j \in matches : i = j /\ i <= j
    BY <1>1, <2>1 DEF Matches, Proper, Distinct
  <2>3. slot = CHOOSE k \in matches : \A j \in matches : k <= j
    BY <1>2 DEF Slot
  <2>. HIDE DEF slot, matches
  <2>4. slot \in matches
    BY <2>1, <2>2, <2>3
  <2>. QED
    BY <2>4 DEF slot, matches
<1>3. CASE matches = {} /\ Len(list) <= LIST_LIMIT
  <2>1. slot = Len(list) + 1
    BY <1>3 DEF Slot
  <2>2. \A i \in DOMAIN list : list[i].key # key
    BY <1>1, <1>3 DEF Matches
  <2>. HIDE DEF slot, matches
  <2>3. slot <= LIST_LIMIT + 1
    BY <1>1, <1>3, <2>1
  <2>. QED
    BY <2>1, <2>2, <2>3 DEF slot
<1>4. CASE matches = {} /\ ~(Len(list) <= LIST_LIMIT)
  <2>1. slot = LIST_LIMIT + 1
    BY <1>4 DEF Slot
  <2>2. Len(list) = LIST_LIMIT + 1
    <3>1. ~(Len(list) <= LIST_LIMIT)
      BY <1>4
    <3>2. /\ LIST_LIMIT \in Nat /\ Len(list) \in Nat
          /\ Len(list) <= LIST_LIMIT + 1
      BY <1>1
    <3>. QED
      BY <3>1, <3>2
  <2>3. \A i \in 1 .. LIST_LIMIT : list[i].key # key
    BY <1>1, <1>4, <2>2 DEF Matches
  <2>. QED
    BY <2>1, <2>2, <2>3
<1>. QED
  BY <1>2, <1>3, <1>4

(* Counting leaves a node of the same key.                                 *)
LEMMA CountInNode ==
  ASSUME NEW node \in DROP_LIST, NEW now \in Verdict
  PROVE  /\ CountIn(node, now) \in DROP_LIST
         /\ CountIn(node, now).key = node.key
         /\ \A flag \in Flags :
              CountIn(node, now)[flag] = Counted(node[flag], now[flag])
<1>1. \A n \in Nat, increment \in {0, 1} : Counted(n, increment) \in Nat
  BY DropListAssumption DEF Counted
<1>2. /\ node.drop \in Nat /\ node.error \in Nat /\ node.scrambling \in Nat
      /\ now.drop \in {0, 1} /\ now.error \in {0, 1} /\ now.scrambling \in {0, 1}
  BY DEF DROP_LIST, Verdict
<1>3. /\ Counted(node.drop, now.drop) \in Nat
      /\ Counted(node.error, now.error) \in Nat
      /\ Counted(node.scrambling, now.scrambling) \in Nat
  BY <1>1, <1>2
<1>. QED
  BY <1>2, <1>3 DEF CountIn, DROP_LIST, Flags

(* One node gets the counts, and it is there already or new.               *)
IsAdded(list, key, now, slot, new) ==
  /\ Proper(new)
  /\ slot \in DOMAIN new
  /\ DOMAIN new = DOMAIN list \cup {slot}
  /\ \A i \in DOMAIN list : i # slot => new[i] = list[i]
  /\ \A i \in DOMAIN list : new[i].key = list[i].key
  /\ slot \in DOMAIN list => new[slot] = CountIn(list[slot], now)
  /\ slot \notin DOMAIN list => new[slot] = CountIn(NewNode(key), now)

(* That is what a call does to the list.                                   *)
LEMMA AddedList ==
  ASSUME NEW list, Proper(list), NEW key \in Keys, NEW now \in Verdict
  PROVE  IsAdded(list, key, now, Slot(list, key), add_drop_list(list, key, now))
<1>. DEFINE slot == Slot(list, key)
            new == add_drop_list(list, key, now)
<1>1. /\ LIST_LIMIT \in Nat \ {0} /\ Len(list) \in Nat
      /\ DOMAIN list = 1 .. Len(list) /\ Len(list) <= LIST_LIMIT + 1
      /\ list \in Seq(DROP_LIST) /\ Distinct(list)
      /\ \A i \in DOMAIN list : list[i] \in DROP_LIST
  BY DropListAssumption DEF Proper
<1>2. \/ slot \in Matches(list, key)
      \/ /\ \A i \in DOMAIN list : list[i].key # key
         /\ slot = Len(list) + 1
         /\ slot <= LIST_LIMIT + 1
      \/ slot = Len(list) /\ slot = LIST_LIMIT + 1
  BY SlotOfKey
<1>3. new = [Extended(list, key) EXCEPT ![slot] = CountIn(Extended(list, key)[slot], now)]
  BY DEF add_drop_list
<1>. HIDE DEF slot, new
<1>4. CASE slot \in DOMAIN list
  <2>1. new = [list EXCEPT ![slot] = CountIn(list[slot], now)]
    BY <1>3, <1>4 DEF Extended, slot
  <2>2. /\ CountIn(list[slot], now) \in DROP_LIST
        /\ CountIn(list[slot], now).key = list[slot].key
    BY <1>1, <1>4, CountInNode
  <2>3. /\ new \in Seq(DROP_LIST) /\ Len(new) = Len(list)
        /\ DOMAIN new = DOMAIN list
        /\ new[slot] = CountIn(list[slot], now)
        /\ \A i \in DOMAIN list : i # slot => new[i] = list[i]
    BY <1>1, <1>4, <2>1, <2>2
  <2>4. \A i \in DOMAIN list : new[i].key = list[i].key
    BY <2>2, <2>3
  <2>5. Proper(new)
    BY <1>1, <2>3, <2>4 DEF Proper, Distinct
  <2>. QED
    BY <1>4, <2>3, <2>4, <2>5 DEF IsAdded, slot, new
<1>5. CASE slot \notin DOMAIN list
  <2>1. /\ \A i \in DOMAIN list : list[i].key # key
        /\ slot = Len(list) + 1 /\ slot <= LIST_LIMIT + 1
    BY <1>1, <1>2, <1>5 DEF Matches
  <2>2. NewNode(key) \in DROP_LIST /\ NewNode(key).key = key
    BY DEF NewNode, DROP_LIST
  <2>. DEFINE node == CountIn(NewNode(key), now)
              longer == Append(list, NewNode(key))
  <2>3. node \in DROP_LIST /\ node.key = key
    BY <2>2, CountInNode
  <2>4. Extended(list, key) = longer
    BY <1>5 DEF Extended, slot
  <2>5. /\ longer \in Seq(DROP_LIST) /\ Len(longer) = Len(list) + 1
        /\ DOMAIN longer = 1 .. Len(list) + 1
        /\ longer[slot] = NewNode(key)
        /\ \A i \in DOMAIN list : longer[i] = list[i]
    BY <1>1, <2>1, <2>2
  <2>. HIDE DEF node, longer
  <2>6. new = [longer EXCEPT ![slot] = node]
    BY <1>3, <2>4, <2>5 DEF node
  <2>7. /\ new \in Seq(DROP_LIST) /\ Len(new) = Len(list) + 1
        /\ DOMAIN new = 1 .. Len(list) + 1
        /\ new[slot] = node
        /\ \A i \in DOMAIN list : new[i] = list[i]
    BY <1>1, <2>1, <2>3, <2>5, <2>6
  <2>8. DOMAIN new = DOMAIN list \cup {slot}
    BY <1>1, <2>1, <2>7
  <2>9. Proper(new)
    BY <1>1, <2>1, <2>3, <2>7, <2>8 DEF Proper, Distinct
  <2>. QED
    BY <1>5, <2>1, <2>7, <2>8, <2>9 DEF IsAdded, node, slot, new
<1>. QED
  BY <1>4, <1>5

(* No counter of a list is beyond the maximum.                             *)
WithinMaximum(list) ==
  \A i \in DOMAIN list, flag \in Flags : list[i][flag] <= MAX_COUNT

(* A counter at the maximum is left there, and one below it gets one more  *)
(* at most.                                                                *)
LEMMA CountedWithinMaximum ==
  ASSUME NEW n \in Nat, n <= MAX_COUNT, NEW increment \in {0, 1}
  PROVE  Counted(n, increment) <= MAX_COUNT
<1>1. MAX_COUNT \in Nat
  BY DropListAssumption
<1>. QED
  BY <1>1 DEF Counted

(* So it is for the node that takes the counts, old or new.                *)
LEMMA AddedWithinMaximum ==
  ASSUME NEW list, Proper(list), WithinMaximum(list),
         NEW key \in Keys, NEW now \in Verdict
  PROVE  WithinMaximum(add_drop_list(list, key, now))
<1>. DEFINE slot == Slot(list, key)
            new == add_drop_list(list, key, now)
<1>1. /\ DOMAIN new = DOMAIN list \cup {slot}
      /\ \A i \in DOMAIN list : i # slot => new[i] = list[i]
      /\ slot \in DOMAIN list => new[slot] = CountIn(list[slot], now)
      /\ slot \notin DOMAIN list => new[slot] = CountIn(NewNode(key), now)
  <2>1. IsAdded(list, key, now, slot, new)
    BY AddedList
  <2>. HIDE DEF slot, new
  <2>. QED
    BY <2>1 DEF IsAdded
<1>2. ASSUME NEW node \in DROP_LIST, NEW flag \in Flags, node[flag] <= MAX_COUNT
      PROVE  CountIn(node, now)[flag] <= MAX_COUNT
  <2>1. CountIn(node, now)[flag] = Counted(node[flag], now[flag])
    BY CountInNode
  <2>2. node[flag] \in Nat /\ now[flag] \in {0, 1}
    BY DEF DROP_LIST, Verdict, Flags
  <2>. QED
    BY <1>2, <2>1, <2>2, CountedWithinMaximum
<1>3. \A i \in DOMAIN list : list[i] \in DROP_LIST
  BY DEF Proper
<1>4. /\ NewNode(key) \in DROP_LIST
      /\ \A flag \in Flags : NewNode(key)[flag] <= MAX_COUNT
  BY DropListAssumption DEF NewNode, DROP_LIST, Flags
<1>. HIDE DEF slot, new
<1>5. ASSUME NEW i \in DOMAIN new, NEW flag \in Flags
      PROVE  new[i][flag] <= MAX_COUNT
  <2>1. CASE i # slot
    BY <1>1, <2>1 DEF WithinMaximum
  <2>2. CASE i = slot /\ slot \in DOMAIN list
    <3>1. list[slot][flag] <= MAX_COUNT /\ list[slot] \in DROP_LIST
      BY <1>3, <2>2 DEF WithinMaximum
    <3>. QED
      BY <1>1, <1>2, <2>2, <3>1
  <2>3. CASE i = slot /\ slot \notin DOMAIN list
    BY <1>1, <1>2, <1>4, <2>3
  <2>. QED
    BY <2>1, <2>2, <2>3
<1>. QED
  BY <1>5 DEF WithinMaximum, new

IInv == TypeOK /\ KeysDistinct

(* The empty list is proper.                                               *)
LEMMA InitInv == Init => IInv
<1>1. LIST_LIMIT + 1 \in Nat /\ LIST_LIMIT + 1 > 0
  BY DropListAssumption
<1>. QED
  BY <1>1 DEF Init, IInv, TypeOK, KeysDistinct

(***************************************************************************)
(* The nodes have the type of the structure, with no counter beyond its    *)
(* maximum, and no key is there twice, whatever is added, beyond the       *)
(* search limit too.                                                       *)
(***************************************************************************)
THEOREM Invariance == Spec => []IInv
<1>1. IInv /\ [Next]_vars => IInv'
  <2>. SUFFICES ASSUME IInv, [Next]_vars PROVE IInv'
    OBVIOUS
  <2>1. ASSUME NEW key \in Keys, NEW now \in Verdict, Add(key, now) PROVE IInv'
    <3>1. Proper(drop_list)
      BY DEF IInv, TypeOK, KeysDistinct, Proper, Distinct
    <3>2. Proper(drop_list')
      BY <2>1, <3>1, AddedList DEF Add, IsAdded
    <3>3. added' \in Seq([key : Keys, now : Verdict])
      BY <2>1 DEF Add, IInv, TypeOK
    <3>4. WithinMaximum(drop_list')
      <4>1. WithinMaximum(drop_list)
        BY DEF IInv, TypeOK, WithinMaximum
      <4>2. drop_list' = add_drop_list(drop_list, key, now)
        BY <2>1 DEF Add
      <4>. QED
        BY <3>1, <4>1, <4>2, AddedWithinMaximum
    <3>. QED
      BY <3>2, <3>3, <3>4
        DEF Proper, Distinct, WithinMaximum, IInv, TypeOK, KeysDistinct
  <2>2. CASE UNCHANGED vars
    BY <2>2 DEF vars, IInv, TypeOK, KeysDistinct
  <2>. QED
    BY <2>1, <2>2 DEF Next
<1>. QED
  BY InitInv, <1>1, PTL DEF Spec

(***************************************************************************)
(* Every node keeps the type of the structure, and each of its counters    *)
(* stays between 0 and the maximum, however often its key is added.        *)
(***************************************************************************)
THEOREM TypeCorrect == Spec => []TypeOK
<1>1. IInv => TypeOK
  BY DEF IInv
<1>. QED
  BY Invariance, <1>1, PTL

(***************************************************************************)
(* No member name is printed twice, and the list never grows more than one *)
(* node behind the search limit.                                           *)
(***************************************************************************)
THEOREM NoKeyTwice == Spec => []KeysDistinct
<1>1. IInv => KeysDistinct
  BY DEF IInv
<1>. QED
  BY Invariance, <1>1, PTL

-----------------------------------------------------------------------------
(* The counts.                                                             *)

KeysOf(list) == {list[i].key : i \in DOMAIN list}

(* The i-th call is the first one with its key.                            *)
FirstOfKey(calls, i) ==
  i \in DOMAIN calls /\ \A k \in 1 .. i - 1 : calls[k].key # calls[i].key

InOrder ==
  \A i, j :
    FirstOfKey(added, i) /\ FirstOfKey(added, j) /\ i < j =>
      \E m, n \in DOMAIN drop_list :
        m < n /\ drop_list[m].key = added[i].key
              /\ drop_list[n].key = added[j].key

Complete ==
  /\ KeysOf(drop_list) = KeysAdded
  /\ \A i \in DOMAIN drop_list : Exact(drop_list[i])
  /\ InOrder

CInv ==
  /\ IInv
  /\ IsFiniteSet(KeysAdded)
  /\ Cardinality(KeysAdded) <= LIST_LIMIT + 1 => Complete

(* There are as many nodes as keys.                                        *)
LEMMA NodesAreKeys ==
  ASSUME NEW list, Proper(list)
  PROVE  Cardinality(KeysOf(list)) = Len(list)
<1>. DEFINE n == Len(list)
            f == [i \in 1 .. n |-> list[i].key]
<1>1. n \in Nat /\ DOMAIN list = 1 .. n
  BY DEF Proper
<1>. HIDE DEF n
<1>2. f \in Bijection(1 .. n, KeysOf(list))
  BY <1>1, Fun_IsBij DEF Bijection, Injection, Surjection, IsInjective,
    KeysOf, Proper, Distinct
<1>3. ExistsBijection(1 .. n, KeysOf(list))
  BY <1>2 DEF ExistsBijection
<1>4. IsFiniteSet(1 .. n) /\ Cardinality(1 .. n) = n
  BY <1>1, FS_Interval
<1>. QED
  BY <1>3, <1>4, FS_Bijection DEF n

(* One more call for a key is one more hit for each flag that is set.      *)
LEMMA HitsGrow ==
  ASSUME TypeOK, NEW key \in Keys, NEW now \in Verdict, Add(key, now),
         NEW k, NEW flag \in Flags
  PROVE  /\ Cardinality(Hits(added, k, flag)) \in Nat
         /\ Cardinality(Hits(added', k, flag)) = Cardinality(Hits(added, k, flag)) +
              (IF k = key THEN now[flag] ELSE 0)
<1>. DEFINE n == Len(added)
            call == [key |-> key, now |-> now]
<1>1. /\ n \in Nat /\ DOMAIN added = 1 .. n
      /\ added' = Append(added, call) /\ DOMAIN added' = (1 .. n) \cup {n + 1}
      /\ added'[n + 1] = call
      /\ \A i \in 1 .. n : added'[i] = added[i]
  BY DEF Add, TypeOK
<1>2. now[flag] \in {0, 1} /\ call.key = key /\ call.now = now
  BY DEF Verdict, Flags
<1>. HIDE DEF n, call
<1>3. Hits(added, k, flag) \subseteq 1 .. n /\ IsFiniteSet(1 .. n) /\ n + 1 \notin 1 .. n
  <2>1. Hits(added, k, flag) \subseteq 1 .. n
    BY <1>1 DEF Hits
  <2>2. n \in Int /\ 1 \in Int /\ n + 1 \notin 1 .. n
    BY <1>1
  <2>. QED
    BY <2>1, <2>2, FS_Interval
<1>4. /\ IsFiniteSet(Hits(added, k, flag)) /\ Cardinality(Hits(added, k, flag)) \in Nat
      /\ n + 1 \notin Hits(added, k, flag)
  BY <1>3, FS_Subset, FS_CardinalityType
<1>5. Hits(added', k, flag) = IF k = key /\ now[flag] = 1
                       THEN Hits(added, k, flag) \cup {n + 1} ELSE Hits(added, k, flag)
  BY <1>1, <1>2 DEF Hits
<1>6. CASE k = key /\ now[flag] = 1
  BY <1>4, <1>5, <1>6, FS_AddElement
<1>7. CASE ~(k = key /\ now[flag] = 1)
  BY <1>2, <1>4, <1>5, <1>7
<1>. QED
  BY <1>6, <1>7

(* Counting up to the maximum, one after the other or all at once.         *)
LEMMA CountedIsCapped ==
  ASSUME NEW n \in Nat, NEW increment \in {0, 1}
  PROVE  Counted(Capped(n), increment) = Capped(n + increment)
BY DropListAssumption DEF Counted, Capped

(* A call for a key: the keys that were added are one more, or the same.   *)
LEMMA KeysGrow ==
  ASSUME TypeOK, NEW key \in Keys, NEW now \in Verdict, Add(key, now)
  PROVE  KeysAdded' = KeysAdded \cup {key}
<1>. DEFINE n == Len(added)
            call == [key |-> key, now |-> now]
<1>1. /\ n \in Nat /\ DOMAIN added = 1 .. n
      /\ DOMAIN added' = (1 .. n) \cup {n + 1}
      /\ added'[n + 1].key = key
      /\ \A i \in 1 .. n : added'[i] = added[i]
  BY DEF Add, TypeOK
<1>. QED
  BY <1>1 DEF KeysAdded

(* As long as the keys fit, the node that takes the counts is the one of   *)
(* the key.                                                                *)
LEMMA SlotHasKey ==
  ASSUME Proper(drop_list), NEW key \in Keys, IsFiniteSet(KeysAdded),
         KeysOf(drop_list) = KeysAdded,
         Cardinality(KeysAdded \cup {key}) <= LIST_LIMIT + 1
  PROVE  LET slot == Slot(drop_list, key) IN
         \/ slot \in DOMAIN drop_list /\ drop_list[slot].key = key
         \/ slot = Len(drop_list) + 1 /\ key \notin KeysAdded
<1>. DEFINE slot == Slot(drop_list, key)
            n == Len(drop_list)
<1>1. /\ n \in Nat /\ LIST_LIMIT \in Nat /\ LIST_LIMIT + 1 >= 1
      /\ DOMAIN drop_list = 1 .. n
  BY DropListAssumption DEF Proper
<1>2. \/ slot \in Matches(drop_list, key)
      \/ /\ \A i \in DOMAIN drop_list : drop_list[i].key # key
         /\ slot = n + 1
      \/ /\ \A i \in 1 .. LIST_LIMIT : drop_list[i].key # key
         /\ slot = n
         /\ slot = LIST_LIMIT + 1
  BY SlotOfKey
<1>. HIDE DEF slot, n
<1>3. CASE slot \in Matches(drop_list, key)
  BY <1>3 DEF Matches, slot
<1>4. CASE slot = n + 1 /\ \A i \in DOMAIN drop_list : drop_list[i].key # key
  BY <1>4 DEF KeysOf, slot, n
<1>5. CASE /\ \A i \in 1 .. LIST_LIMIT : drop_list[i].key # key
           /\ slot = n /\ slot = LIST_LIMIT + 1
  <2>1. CASE drop_list[slot].key = key
    BY <1>1, <1>5, <2>1 DEF slot, n
  <2>2. CASE drop_list[slot].key # key
    <3>1. \A i \in 1 .. n : drop_list[i].key # key
      BY <1>1, <1>5, <2>2
    <3>2. key \notin KeysAdded
      BY <1>1, <3>1 DEF KeysOf
    <3>3. Cardinality(KeysAdded \cup {key}) = Cardinality(KeysAdded) + 1
      BY <3>2, FS_AddElement
    <3>4. Cardinality(KeysAdded) = LIST_LIMIT + 1
      BY <1>5, NodesAreKeys DEF n
    <3>. QED
      BY <1>1, <3>3, <3>4
  <2>. QED
    BY <2>1, <2>2
<1>. QED
  BY <1>2, <1>3, <1>4, <1>5

(* The first calls of the keys after one more call.                        *)
LEMMA FirstCalls ==
  ASSUME TypeOK, NEW key \in Keys, NEW now \in Verdict, Add(key, now)
  PROVE  LET n == Len(added) IN
         /\ \A i \in 1 .. n : added'[i].key = added[i].key
         /\ added'[n + 1].key = key
         /\ \A i : FirstOfKey(added', i) <=>
              \/ FirstOfKey(added, i)
              \/ i = n + 1 /\ key \notin KeysAdded
         /\ \A i : FirstOfKey(added, i) => i \in 1 .. n /\ added[i].key \in KeysAdded
<1>. DEFINE n == Len(added)
<1>1. /\ n \in Nat /\ DOMAIN added = 1 .. n
      /\ DOMAIN added' = (1 .. n) \cup {n + 1}
      /\ added'[n + 1].key = key
      /\ \A i \in 1 .. n : added'[i] = added[i]
  BY DEF Add, TypeOK
<1>. HIDE DEF n
<1>2. ASSUME NEW i \in 1 .. n
      PROVE  FirstOfKey(added', i) <=> FirstOfKey(added, i)
  <2>1. i - 1 \in Int /\ \A k \in 1 .. i - 1 : k \in 1 .. n
    BY <1>1
  <2>. QED
    BY <1>1, <1>2, <2>1 DEF FirstOfKey
<1>3. FirstOfKey(added', n + 1) <=> key \notin KeysAdded
  <2>1. (n + 1) - 1 = n
    BY <1>1
  <2>. QED
    BY <1>1, <2>1 DEF FirstOfKey, KeysAdded
<1>4. \A i : FirstOfKey(added, i) => i \in 1 .. n /\ added[i].key \in KeysAdded
  BY <1>1 DEF FirstOfKey, KeysAdded
<1>5. \A i : FirstOfKey(added', i) => i \in (1 .. n) \cup {n + 1}
  BY <1>1 DEF FirstOfKey
<1>6. n + 1 \notin 1 .. n
  BY <1>1
<1>. QED
  BY <1>1, <1>2, <1>3, <1>4, <1>5, <1>6 DEF n

(* A node stays exact when the call was for another key, and the node that *)
(* took the counts is exact too.                                           *)
LEMMA ExactStep ==
  ASSUME TypeOK, Proper(drop_list), Complete,
         NEW key \in Keys, NEW now \in Verdict, Add(key, now),
         \/ /\ Slot(drop_list, key) \in DOMAIN drop_list
            /\ drop_list[Slot(drop_list, key)].key = key
         \/ Slot(drop_list, key) = Len(drop_list) + 1 /\ key \notin KeysAdded,
         NEW i \in DOMAIN drop_list'
  PROVE  Exact(drop_list[i])'
<1>. DEFINE slot == Slot(drop_list, key)
            new == add_drop_list(drop_list, key, now)
<1>1. /\ DOMAIN new = DOMAIN drop_list \cup {slot}
      /\ \A j \in DOMAIN drop_list : j # slot => new[j] = drop_list[j]
      /\ slot \in DOMAIN drop_list =>
           new[slot] = CountIn(drop_list[slot], now)
      /\ slot \notin DOMAIN drop_list => new[slot] = CountIn(NewNode(key), now)
  <2>1. IsAdded(drop_list, key, now, slot, new)
    BY AddedList
  <2>. HIDE DEF slot, new
  <2>. QED
    BY <2>1 DEF IsAdded
<1>2. drop_list' = new
  BY DEF Add
<1>. HIDE DEF slot, new
<1>3. \A j \in DOMAIN drop_list : drop_list[j] \in DROP_LIST
  BY DEF Proper
<1>4. ASSUME NEW flag \in Flags
      PROVE  drop_list'[i][flag] =
               Capped(Cardinality(Hits(added', drop_list'[i].key, flag)))
  <2>. DEFINE k == drop_list'[i].key
  <2>1. /\ Cardinality(Hits(added, k, flag)) \in Nat
        /\ Cardinality(Hits(added', k, flag)) = Cardinality(Hits(added, k, flag)) +
             (IF k = key THEN now[flag] ELSE 0)
    BY HitsGrow
  <2>2. now[flag] \in {0, 1}
    BY DEF Verdict, Flags
  <2>3. CASE i # slot
    <3>1. i \in DOMAIN drop_list /\ drop_list'[i] = drop_list[i]
      BY <1>1, <1>2, <2>3
    <3>2. drop_list[i][flag] = Capped(Cardinality(Hits(added, k, flag)))
      BY <3>1 DEF Complete, Exact
    <3>3. k # key
      <4>1. CASE slot \in DOMAIN drop_list /\ drop_list[slot].key = key
        BY <2>3, <3>1, <4>1 DEF Proper, Distinct
      <4>2. CASE key \notin KeysAdded
        BY <3>1, <4>2 DEF Complete, KeysOf
      <4>. QED
        BY <4>1, <4>2 DEF slot
    <3>. QED
      BY <2>1, <3>1, <3>2, <3>3
  <2>4. CASE i = slot /\ slot \in DOMAIN drop_list
    <3>1. /\ drop_list'[i] = CountIn(drop_list[slot], now)
          /\ drop_list[slot] \in DROP_LIST
      BY <1>1, <1>2, <1>3, <2>4
    <3>2. /\ k = drop_list[slot].key
          /\ drop_list'[i][flag] = Counted(drop_list[slot][flag], now[flag])
      BY <3>1, CountInNode
    <3>3. k = key
      <4>1. slot # Len(drop_list) + 1
        BY <2>4 DEF Proper
      <4>. QED
        BY <3>2, <4>1 DEF slot
    <3>4. drop_list[slot][flag] = Capped(Cardinality(Hits(added, k, flag)))
      BY <2>4, <3>2 DEF Complete, Exact
    <3>. QED
      BY <2>1, <2>2, <3>2, <3>3, <3>4, CountedIsCapped
  <2>5. CASE i = slot /\ slot \notin DOMAIN drop_list
    <3>1. drop_list'[i] = CountIn(NewNode(key), now) /\ key \notin KeysAdded
      BY <1>1, <1>2, <2>5 DEF slot
    <3>2. NewNode(key) \in DROP_LIST /\ NewNode(key).key = key
      BY DEF NewNode, DROP_LIST
    <3>3. NewNode(key)[flag] = 0
      BY DEF NewNode, Flags
    <3>4. /\ k = key
          /\ drop_list'[i][flag] = Counted(0, now[flag])
      BY <3>1, <3>2, <3>3, CountInNode
    <3>5. Hits(added, k, flag) = {}
      BY <3>1, <3>4 DEF Hits, KeysAdded
    <3>6. Cardinality(Hits(added, k, flag)) = 0 /\ Capped(0) = 0
      BY <3>5, FS_EmptySet, DropListAssumption DEF Capped
    <3>. QED
      BY <2>1, <2>2, <3>4, <3>6, CountedIsCapped
  <2>. QED
    BY <1>1, <1>2, <2>3, <2>4, <2>5
<1>. QED
  BY <1>4 DEF Exact

(* One call leaves a list that fits complete, or the keys fit no longer.   *)
LEMMA CompleteStep ==
  ASSUME CInv, IInv', NEW key \in Keys, NEW now \in Verdict, Add(key, now)
  PROVE  CInv'
<1>. DEFINE slot == Slot(drop_list, key)
            n == Len(drop_list)
            m == Len(added)
<1>1. /\ TypeOK /\ Proper(drop_list) /\ IsFiniteSet(KeysAdded)
      /\ Cardinality(KeysAdded) <= LIST_LIMIT + 1 => Complete
  BY DEF CInv, IInv, TypeOK, KeysDistinct, Proper, Distinct
<1>2. KeysAdded' = KeysAdded \cup {key}
  BY <1>1, KeysGrow
<1>3. /\ IsFiniteSet(KeysAdded')
      /\ Cardinality(KeysAdded) \in Nat /\ LIST_LIMIT \in Nat
      /\ Cardinality(KeysAdded') \in Nat
      /\ Cardinality(KeysAdded) <= Cardinality(KeysAdded')
  <2>1. LIST_LIMIT \in Nat
    BY DropListAssumption
  <2>2. Cardinality(KeysAdded) \in Nat
    BY <1>1, FS_CardinalityType
  <2>3. /\ IsFiniteSet(KeysAdded')
        /\ Cardinality(KeysAdded') = IF key \in KeysAdded
             THEN Cardinality(KeysAdded) ELSE Cardinality(KeysAdded) + 1
    BY <1>1, <1>2, FS_AddElement
  <2>. QED
    BY <2>1, <2>2, <2>3
<1>4. ASSUME Cardinality(KeysAdded') <= LIST_LIMIT + 1
      PROVE  Complete'
  <2>1. Complete
    BY <1>1, <1>3, <1>4
  <2>2. KeysOf(drop_list) = KeysAdded
    BY <2>1 DEF Complete
  <2>3. \/ slot \in DOMAIN drop_list /\ drop_list[slot].key = key
        \/ slot = n + 1 /\ key \notin KeysAdded
    BY <1>1, <1>2, <1>4, <2>2, SlotHasKey
  <2>4. /\ n \in Nat /\ DOMAIN drop_list = 1 .. n
        /\ DOMAIN drop_list' = (1 .. n) \cup {slot}
        /\ \A i \in 1 .. n : drop_list'[i].key = drop_list[i].key
        /\ drop_list'[slot].key = key
    <3>1. drop_list' = add_drop_list(drop_list, key, now)
      BY DEF Add
    <3>2. /\ n \in Nat /\ DOMAIN drop_list = 1 .. n
          /\ \A i \in 1 .. n : drop_list[i] \in DROP_LIST
      BY <1>1 DEF Proper
    <3>3. IsAdded(drop_list, key, now, slot, drop_list')
      BY <1>1, <3>1, AddedList
    <3>4. /\ DOMAIN drop_list' = DOMAIN drop_list \cup {slot}
          /\ \A i \in DOMAIN drop_list : drop_list'[i].key = drop_list[i].key
          /\ slot \notin DOMAIN drop_list
               => drop_list'[slot] = CountIn(NewNode(key), now)
      <4>. HIDE DEF slot
      <4>. QED
        BY <3>3 DEF IsAdded
    <3>6. drop_list'[slot].key = key
      <4>1. CountIn(NewNode(key), now).key = key
        BY DEF CountIn, NewNode
      <4>. QED
        BY <2>3, <3>2, <3>4, <4>1
    <3>. QED
      BY <3>2, <3>4, <3>6
  <2>5. ASSUME NEW i \in DOMAIN drop_list' PROVE Exact(drop_list[i])'
    BY <1>1, <2>1, <2>3, ExactStep
  <2>6. KeysOf(drop_list') = KeysAdded'
    <3>. HIDE DEF slot, n
    <3>. QED
      BY <1>2, <2>2, <2>3, <2>4 DEF KeysOf
  <2>7. InOrder'
    <3>1. /\ \A i \in 1 .. m : added'[i].key = added[i].key
          /\ added'[m + 1].key = key
      BY <1>1, FirstCalls
    <3>2. \A i : FirstOfKey(added', i) <=>
            \/ FirstOfKey(added, i)
            \/ i = m + 1 /\ key \notin KeysAdded
      BY <1>1, FirstCalls
    <3>3. \A i : FirstOfKey(added, i) =>
            i \in 1 .. m /\ added[i].key \in KeysAdded
      BY <1>1, FirstCalls
    <3>4. m \in Nat
      BY <1>1 DEF TypeOK
    <3>. HIDE DEF slot, n, m
    <3>5. ASSUME NEW i, NEW j, FirstOfKey(added', i), FirstOfKey(added', j), i < j
          PROVE  \E a, b \in DOMAIN drop_list' :
                   a < b /\ drop_list'[a].key = added'[i].key
                         /\ drop_list'[b].key = added'[j].key
      <4>1. CASE FirstOfKey(added, i) /\ FirstOfKey(added, j)
        <5>1. \E a, b \in DOMAIN drop_list :
                a < b /\ drop_list[a].key = added[i].key
                      /\ drop_list[b].key = added[j].key
          BY <2>1, <3>5, <4>1 DEF Complete, InOrder
        <5>. QED
          BY <2>4, <3>1, <3>3, <4>1, <5>1
      <4>2. CASE FirstOfKey(added, i) /\ j = m + 1 /\ key \notin KeysAdded
        <5>1. i \in 1 .. m /\ added[i].key \in KeysAdded
          BY <3>3, <4>2
        <5>2. PICK a \in 1 .. n : drop_list[a].key = added[i].key
          BY <2>2, <2>4, <5>1 DEF KeysOf
        <5>3. slot = n + 1
          BY <2>2, <2>3, <2>4, <4>2 DEF KeysOf
        <5>4. /\ a < slot /\ a \in DOMAIN drop_list' /\ slot \in DOMAIN drop_list'
              /\ drop_list'[a].key = added'[i].key
              /\ drop_list'[slot].key = added'[j].key
          BY <2>4, <3>1, <4>2, <5>1, <5>2, <5>3
        <5>. QED
          BY <5>4
      <4>. QED
        BY <3>2, <3>3, <3>4, <3>5, <4>1, <4>2
    <3>. QED
      BY <3>5 DEF InOrder
  <2>. QED
    BY <2>5, <2>6, <2>7 DEF Complete
<1>. QED
  BY <1>3, <1>4 DEF CInv

(***************************************************************************)
(* As long as there are no more keys than nodes the list has them all, in  *)
(* the order of their first calls, each with the number of its dropped,    *)
(* damaged and scrambled packets up to the maximum.                        *)
(***************************************************************************)
THEOREM CountsAreOfKeys == Spec => []CountsPerKey
<1>1. Init => CInv
  <2>. SUFFICES ASSUME Init PROVE CInv
    OBVIOUS
  <2>1. drop_list = <<>> /\ added = <<>>
    BY DEF Init
  <2>2. KeysAdded = {} /\ KeysOf(drop_list) = {}
    BY <2>1 DEF KeysAdded, KeysOf
  <2>3. Complete
    BY <2>1, <2>2 DEF Complete, InOrder, FirstOfKey
  <2>4. IInv
    BY InitInv
  <2>. QED
    BY <2>2, <2>3, <2>4, FS_EmptySet DEF CInv
<1>2. CInv /\ IInv' /\ [Next]_vars => CInv'
  <2>1. ASSUME CInv, IInv', NEW key \in Keys, NEW now \in Verdict, Add(key, now)
        PROVE  CInv'
    BY <2>1, CompleteStep
  <2>2. CInv /\ IInv' /\ UNCHANGED vars => CInv'
    BY DEF vars, CInv, KeysAdded, Complete, Exact, InOrder
  <2>. QED
    BY <2>1, <2>2 DEF Next
<1>3. CInv => CountsPerKey
  <2>. SUFFICES ASSUME Complete PROVE CountsPerKey
    BY DEF CInv, CountsPerKey
  <2>. QED
    BY DEF CountsPerKey, Complete, KeysOf, InOrder, FirstOfKey
<1>. QED
  BY <1>1, <1>2, <1>3, Invariance, PTL DEF Spec

-----------------------------------------------------------------------------
(* The totals.                                                             *)

(* From f to g the counter of x is increased by d; if x comes in, it has   *)
(* counted nothing before.                                                 *)
CountsOn(S, f, g, flag, x, d) ==
  /\ \A y \in S : y # x => g[y][flag] = f[y][flag]
  /\ x \in S => f[x][flag] \in Nat /\ g[x][flag] = f[x][flag] + d
  /\ x \notin S => g[x][flag] = d

(* One counter that is increased by one unit, or not, changes the sum by   *)
(* as much.                                                                *)
LEMMA SumGrows ==
  ASSUME NEW S, NEW f, NEW g, NEW flag, NEW x, NEW d \in {0, 1},
         IsFiniteSet(Units(S, f, flag)), CountsOn(S, f, g, flag, x, d)
  PROVE  /\ IsFiniteSet(Units(S \cup {x}, g, flag))
         /\ SumOver(S, f, flag) \in Nat
         /\ SumOver(S \cup {x}, g, flag) = SumOver(S, f, flag) + d
<1>. DEFINE old == IF x \in S THEN f[x][flag] ELSE 0
            unit == <<x, old + 1>>
            U == Units(S, f, flag)
            V == Units(S \cup {x}, g, flag)
<1>1. old \in Nat /\ g[x][flag] = old + d
  BY DEF CountsOn
<1>2. \A y, n : <<y, n>> \in U <=> y \in S /\ n \in 1 .. f[y][flag]
  BY DEF Units
<1>3. \A y, n : <<y, n>> \in V <=> y \in S \cup {x} /\ n \in 1 .. g[y][flag]
  BY DEF Units
<1>4. \A u \in U \cup V : u = <<u[1], u[2]>>
  BY DEF Units
<1>5. \A n : <<x, n>> \in U <=> n \in 1 .. old
  <2>1. CASE x \in S
    BY <1>2, <2>1
  <2>2. CASE x \notin S
    BY <1>2, <2>2
  <2>. QED
    BY <2>1, <2>2
<1>6. \A n : <<x, n>> \in V <=> n \in 1 .. old + d
  BY <1>1, <1>3
<1>7. \A y, n : y # x => (<<y, n>> \in V <=> <<y, n>> \in U)
  BY <1>2, <1>3 DEF CountsOn
<1>. HIDE DEF U, V, old
<1>8. \A n : n \in 1 .. old + d <=> n \in 1 .. old \/ (d = 1 /\ n = old + 1)
  BY <1>1
<1>9. V = IF d = 1 THEN U \cup {unit} ELSE U
  <2>1. \A y, n : <<y, n>> \in V <=> <<y, n>> \in U \/ (d = 1 /\ <<y, n>> = unit)
    BY <1>5, <1>6, <1>7, <1>8
  <2>2. \A u : u \in V <=> u \in U \/ (d = 1 /\ u = unit)
    BY <1>4, <2>1
  <2>. HIDE DEF unit
  <2>. QED
    BY <2>2
<1>10. unit \notin U
  BY <1>1, <1>5
<1>11. IsFiniteSet(U)
  BY DEF U
<1>. HIDE DEF unit
<1>12. /\ Cardinality(U) \in Nat /\ IsFiniteSet(U \cup {unit})
       /\ Cardinality(U \cup {unit}) = Cardinality(U) + 1
  BY <1>10, <1>11, FS_CardinalityType, FS_AddElement
<1>. QED
  BY <1>9, <1>11, <1>12 DEF SumOver, U, V

(* The same with its hypotheses and its conclusion under names, in which a *)
(* module that instantiates this one can cite it.                          *)
Grows(S, f, g, flag, x, d) ==
  d \in {0, 1} /\ IsFiniteSet(Units(S, f, flag)) /\ CountsOn(S, f, g, flag, x, d)

Grown(S, f, g, flag, x, d) ==
  /\ IsFiniteSet(Units(S \cup {x}, g, flag))
  /\ SumOver(S, f, flag) \in Nat
  /\ SumOver(S \cup {x}, g, flag) = SumOver(S, f, flag) + d

(* A sum that grows has grown by one unit, or by none.                     *)
LEMMA SumHasGrown ==
  ASSUME NEW S, NEW f, NEW g, NEW flag, NEW x, NEW d,
         Grows(S, f, g, flag, x, d)
  PROVE  Grown(S, f, g, flag, x, d)
BY SumGrows DEF Grows, Grown

(* A counter below the maximum counts.                                     *)
LEMMA CountsBelowMaximum ==
  ASSUME NEW n \in Nat, n < MAX_COUNT, NEW d \in {0, 1}
  PROVE  Counted(n, d) = n + d
BY DEF Counted

FlagHits(flag) == {i \in DOMAIN added : added[i].now[flag] = 1}

(* The nodes together have counted every packet that was added, as long as *)
(* these are fewer than the maximum of a counter.                          *)
TotalsKept ==
  \A flag \in Flags :
    Len(added) < MAX_COUNT =>
      /\ \A i \in DOMAIN drop_list : drop_list[i][flag] <= Len(added)
      /\ IsFiniteSet(Units(DOMAIN drop_list, drop_list, flag))
      /\ SumOver(DOMAIN drop_list, drop_list, flag) = Cardinality(FlagHits(flag))

(* The packets with a flag, when one more is added.                        *)
LEMMA FlagHitsGrow ==
  ASSUME NEW flag \in Flags, NEW key \in Keys, NEW now \in Verdict,
         added \in Seq(Call), added' = Append(added, [key |-> key, now |-> now])
  PROVE  /\ Cardinality(FlagHits(flag)) \in Nat
         /\ Cardinality(FlagHits(flag)') = Cardinality(FlagHits(flag)) + now[flag]
<1>. DEFINE call == [key |-> key, now |-> now]
            n == Len(added)
            H == FlagHits(flag)
<1>1. /\ n \in Nat /\ DOMAIN added = 1 .. n /\ DOMAIN added' = 1 .. n + 1
      /\ added'[n + 1] = call
      /\ \A i \in 1 .. n : added'[i] = added[i]
  BY DEF Call
<1>2. now[flag] \in {0, 1} /\ call.now = now
  BY DEF Verdict, Flags
<1>. HIDE DEF call, n
<1>3. H \in SUBSET (1 .. n) /\ n + 1 \notin H
  BY <1>1 DEF FlagHits
<1>4. FlagHits(flag)' = IF now[flag] = 1 THEN H \cup {n + 1} ELSE H
  <2>1. \A i : i \in 1 .. n + 1 <=> i \in 1 .. n \/ i = n + 1
    BY <1>1
  <2>2. \A i \in 1 .. n : i # n + 1
    BY <1>1
  <2>. QED
    BY <1>1, <1>2, <2>1, <2>2 DEF FlagHits
<1>5. IsFiniteSet(H)
  <2>1. IsFiniteSet(1 .. n)
    BY <1>1, FS_Interval
  <2>. QED
    BY <1>3, <2>1, FS_Subset
<1>. HIDE DEF H
<1>6. /\ Cardinality(H) \in Nat
      /\ Cardinality(H \cup {n + 1}) = Cardinality(H) + 1
  BY <1>3, <1>5, FS_CardinalityType, FS_AddElement
<1>. QED
  BY <1>2, <1>4, <1>6 DEF H

(* A call adds its flags to one node, below the maximum.                   *)
LEMMA TotalsStep ==
  ASSUME IInv, TotalsKept, NEW key \in Keys, NEW now \in Verdict, Add(key, now)
  PROVE  TotalsKept'
<1>. SUFFICES ASSUME NEW flag \in Flags, Len(added') < MAX_COUNT
              PROVE  /\ \A i \in DOMAIN drop_list' :
                          drop_list'[i][flag] <= Len(added')
                     /\ IsFiniteSet(Units(DOMAIN drop_list', drop_list', flag))
                     /\ SumOver(DOMAIN drop_list', drop_list', flag)
                          = Cardinality(FlagHits(flag)')
  BY DEF TotalsKept
<1>. DEFINE slot == Slot(drop_list, key)
            n == Len(added)
            d == now[flag]
<1>1. Proper(drop_list)
  BY DEF IInv, TypeOK, KeysDistinct, Proper, Distinct
<1>2. /\ slot \in DOMAIN drop_list'
      /\ DOMAIN drop_list' = DOMAIN drop_list \cup {slot}
      /\ \A i \in DOMAIN drop_list : i # slot => drop_list'[i] = drop_list[i]
      /\ slot \in DOMAIN drop_list =>
           drop_list'[slot] = CountIn(drop_list[slot], now)
      /\ slot \notin DOMAIN drop_list =>
           drop_list'[slot] = CountIn(NewNode(key), now)
  <2>1. IsAdded(drop_list, key, now, slot, drop_list')
    BY <1>1, AddedList DEF Add
  <2>. HIDE DEF slot
  <2>. QED
    BY <2>1 DEF IsAdded
<1>3. /\ added \in Seq(Call) /\ n \in Nat
      /\ added' = Append(added, [key |-> key, now |-> now])
      /\ Len(added') = n + 1
  BY DEF Add, IInv, TypeOK, Call
<1>4. n < MAX_COUNT /\ MAX_COUNT \in Nat
  BY <1>3, DropListAssumption
<1>5. /\ \A i \in DOMAIN drop_list : drop_list[i][flag] <= n
      /\ IsFiniteSet(Units(DOMAIN drop_list, drop_list, flag))
      /\ SumOver(DOMAIN drop_list, drop_list, flag) = Cardinality(FlagHits(flag))
  BY <1>4 DEF TotalsKept
<1>6. /\ \A i \in DOMAIN drop_list :
           drop_list[i] \in DROP_LIST /\ drop_list[i][flag] \in Nat
      /\ NewNode(key) \in DROP_LIST /\ NewNode(key)[flag] = 0
      /\ d \in {0, 1}
  <2>1. \A node \in DROP_LIST : node[flag] \in Nat
    BY DEF DROP_LIST, Flags
  <2>2. \A i \in DOMAIN drop_list : drop_list[i] \in DROP_LIST
    BY <1>1 DEF Proper
  <2>. QED
    BY <2>1, <2>2 DEF NewNode, DROP_LIST, Flags, Verdict
<1>. HIDE DEF slot, n, d
<1>7. \A i \in DOMAIN drop_list : CountIn(drop_list[i], now)[flag] = drop_list[i][flag] + d
  <2>. SUFFICES ASSUME NEW i \in DOMAIN drop_list
                PROVE  CountIn(drop_list[i], now)[flag] = drop_list[i][flag] + d
    OBVIOUS
  <2>1. CountIn(drop_list[i], now)[flag] = Counted(drop_list[i][flag], d)
    BY <1>6, CountInNode DEF d
  <2>2. drop_list[i][flag] \in Nat /\ drop_list[i][flag] < MAX_COUNT
    BY <1>3, <1>4, <1>5, <1>6
  <2>. QED
    BY <1>6, <2>1, <2>2, CountsBelowMaximum
<1>8. CountIn(NewNode(key), now)[flag] = d
  <2>1. CountIn(NewNode(key), now)[flag] = Counted(0, d)
    BY <1>6, CountInNode DEF d
  <2>2. 0 < MAX_COUNT
    BY <1>3, <1>4
  <2>. QED
    BY <1>6, <2>1, <2>2, CountsBelowMaximum
<1>9. \A i \in DOMAIN drop_list' : drop_list'[i][flag] <= n + 1
  <2>. SUFFICES ASSUME NEW i \in DOMAIN drop_list'
                PROVE  drop_list'[i][flag] <= n + 1
    OBVIOUS
  <2>1. CASE i \in DOMAIN drop_list /\ i # slot
    BY <1>2, <1>3, <1>5, <1>6, <2>1
  <2>2. CASE i = slot /\ slot \in DOMAIN drop_list
    BY <1>2, <1>3, <1>5, <1>6, <1>7, <2>2
  <2>3. CASE i = slot /\ slot \notin DOMAIN drop_list
    BY <1>2, <1>3, <1>6, <1>8, <2>3
  <2>. QED
    BY <1>2, <2>1, <2>2, <2>3
<1>10. /\ IsFiniteSet(Units(DOMAIN drop_list', drop_list', flag))
       /\ SumOver(DOMAIN drop_list, drop_list, flag) \in Nat
       /\ SumOver(DOMAIN drop_list', drop_list', flag)
            = SumOver(DOMAIN drop_list, drop_list, flag) + d
  <2>1. \A y \in DOMAIN drop_list :
          y # slot => drop_list'[y][flag] = drop_list[y][flag]
    BY <1>2
  <2>2. slot \in DOMAIN drop_list =>
          /\ drop_list[slot][flag] \in Nat
          /\ drop_list'[slot][flag] = drop_list[slot][flag] + d
    BY <1>2, <1>6, <1>7
  <2>3. slot \notin DOMAIN drop_list => drop_list'[slot][flag] = d
    BY <1>2, <1>8
  <2>. DEFINE S == DOMAIN drop_list
              f == drop_list
              g == drop_list'
  <2>4. d \in {0, 1} /\ IsFiniteSet(Units(S, f, flag))
    BY <1>5, <1>6
  <2>. HIDE DEF S, f, g
  <2>5. /\ IsFiniteSet(Units(S \cup {slot}, g, flag))
        /\ SumOver(S, f, flag) \in Nat
        /\ SumOver(S \cup {slot}, g, flag) = SumOver(S, f, flag) + d
    <3>1. CountsOn(S, f, g, flag, slot, d)
      BY <2>1, <2>2, <2>3 DEF CountsOn, S, f, g
    <3>. QED
      BY <2>4, <3>1, SumGrows
  <2>. QED
    BY <1>2, <2>5 DEF S, f, g
<1>11. /\ Cardinality(FlagHits(flag)) \in Nat
       /\ Cardinality(FlagHits(flag)') = Cardinality(FlagHits(flag)) + d
  BY <1>3, FlagHitsGrow DEF d
<1>. QED
  BY <1>3, <1>5, <1>9, <1>10, <1>11

(***************************************************************************)
(* No packet is counted twice or not at all when its key has no node yet,  *)
(* or shares one behind the search limit: the nodes together have the      *)
(* packets that were added.                                                *)
(***************************************************************************)
THEOREM KeepsTotals == Spec => []TotalsKept
<1>1. Init => TotalsKept
  <2>. SUFFICES ASSUME Init, NEW flag \in Flags
                PROVE  /\ \A i \in DOMAIN drop_list :
                            drop_list[i][flag] <= Len(added)
                       /\ IsFiniteSet(Units(DOMAIN drop_list, drop_list, flag))
                       /\ SumOver(DOMAIN drop_list, drop_list, flag)
                            = Cardinality(FlagHits(flag))
    BY DEF TotalsKept
  <2>1. DOMAIN drop_list = {} /\ FlagHits(flag) = {}
    BY DEF Init, FlagHits
  <2>2. Units(DOMAIN drop_list, drop_list, flag) = {}
    BY <2>1 DEF Units
  <2>. QED
    BY <2>1, <2>2, FS_EmptySet DEF SumOver
<1>2. IInv /\ TotalsKept /\ [Next]_vars => TotalsKept'
  <2>1. UNCHANGED vars /\ TotalsKept => TotalsKept'
    BY DEF vars, TotalsKept, FlagHits
  <2>. QED
    BY <2>1, TotalsStep DEF Next
<1>. QED
  BY <1>1, <1>2, Invariance, PTL DEF Spec
=============================================================================
