---------------------------- MODULE Subsequences ----------------------------
(***************************************************************************)
(* Parts of a sequence by their positions.  The operators of the community *)
(* modules for this are recursive, and no fact about them can be proved;   *)
(* these are written with cardinalities, about which there are theorems.   *)
(***************************************************************************)
EXTENDS Naturals, Sequences, FiniteSets

(* The rank of position i among the positions P.                           *)
Rank(P, i) == Cardinality({j \in P : j <= i})

(* The elements of s at the positions P, in their order.                   *)
Subsequence(s, P) ==
  [k \in 1 .. Cardinality(P) |-> s[CHOOSE i \in P : Rank(P, i) = k]]
=============================================================================
