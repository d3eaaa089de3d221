------------------------------- MODULE Totals -------------------------------
(***************************************************************************)
(* Sums of counters.  A sum is written as the number of units counted, for *)
(* which there are theorems on cardinalities; the sums of the community    *)
(* modules are recursive.                                                  *)
(***************************************************************************)
EXTENDS Naturals, FiniteSets

(* The sum of the numbers that a function gives.                           *)
SumOf(n) == Cardinality(UNION {{x} \X (1 .. n[x]) : x \in DOMAIN n})

(* A unit for each thing that the counter named flag of f[x] has counted.  *)
Units(S, f, flag) == UNION {{x} \X (1 .. f[x][flag]) : x \in S}

(* The sum of these counters over S.                                       *)
SumOver(S, f, flag) == Cardinality(Units(S, f, flag))
=============================================================================
