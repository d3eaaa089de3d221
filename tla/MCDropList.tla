----------------------------- MODULE MCDropList -----------------------------
(* A list with one node more keys than a search reaches, and counters that *)
(* reach their maximum.                                                    *)
EXTENDS DropList

CONSTANT MaxAdded     \* calls of add_drop_list

(* The caller adds a packet only if something is wrong with it.            *)
MCVerdicts == {[drop |-> 1, error |-> 0, scrambling |-> 0],
               [drop |-> 0, error |-> 1, scrambling |-> 1],
               [drop |-> 1, error |-> 1, scrambling |-> 0]}

MCNext ==
  \E key \in Keys, now \in MCVerdicts : Len(added) < MaxAdded /\ Add(key, now)

MCSpec == Init /\ [][MCNext]_vars
=============================================================================
