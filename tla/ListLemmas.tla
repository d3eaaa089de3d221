----------------------------- MODULE ListLemmas ------------------------------
(***************************************************************************)
(* Lemmas about sequences that are put together from shorter ones.  They   *)
(* are proved by induction; the library's theorems on it take a predicate, *)
(* so induction is stated here for sets.                                   *)
(***************************************************************************)
EXTENDS SequencesExt, SequenceTheorems, FiniteSetTheorems, WellFoundedInduction, TLAPS

(* A set of numbers has a least one.                                       *)
LEMMA LeastNumber ==
  ASSUME NEW T, T \subseteq Nat, T # {}
  PROVE  \E n \in T : \A m \in T : n <= m
<1>. DEFINE R == OpToRel(<, Nat)
<1>1. IsWellFoundedOn(R, Nat)
  BY NatLessThanWellFounded
<1>2. \A x, y \in Nat : <<x, y>> \in R <=> x < y
  BY DEF OpToRel
<1>. HIDE DEF R
<1>3. PICK n \in T : \A m \in T : <<m, n>> \notin R
  BY <1>1, WFMin
<1>4. \A m \in T : n <= m
  <2>. TAKE m \in T
  <2>1. m \in Nat /\ n \in Nat /\ ~(m < n)
    BY <1>2, <1>3
  <2>. QED
    BY <2>1
<1>. QED
  BY <1>4

(* Induction up to a number: what holds of a number is membership of S.    *)
LEMMA ByInduction ==
  ASSUME NEW n \in Nat, NEW S, 0 \in S,
         \A i \in 0 .. n - 1 : i \in S => i + 1 \in S
  PROVE  \A i \in 0 .. n : i \in S
<1>. DEFINE T == {i \in 0 .. n : i \notin S}
<1>. SUFFICES ASSUME T # {} PROVE FALSE
  OBVIOUS
<1>1. T \subseteq Nat
  OBVIOUS
<1>2. PICK i \in T : \A j \in T : i <= j
  <2>. HIDE DEF T
  <2>. QED
    BY <1>1, LeastNumber
<1>3. i # 0 /\ i - 1 \in 0 .. n - 1 /\ i - 1 \notin T
  BY <1>2
<1>. QED
  BY <1>3

(* Two sequences, one behind the other.                                    *)
LEMMA Joined ==
  ASSUME NEW X, NEW s \in Seq(X), NEW t \in Seq(X), NEW u, u = s \o t
  PROVE  /\ u \in Seq(X)
         /\ Len(s) \in Nat /\ Len(t) \in Nat
         /\ Len(u) = Len(s) + Len(t)
         /\ \A k \in 1 .. Len(s) : u[k] = s[k]
         /\ \A k \in 1 .. Len(t) : u[Len(s) + k] = t[k]
OBVIOUS

-----------------------------------------------------------------------------
(* FlattenSeq, step by step: f[i] is what the first i sequences give.      *)

(* The function that FlattenSeq is defined by exists.                      *)
LEMMA FlattenExists ==
  ASSUME NEW X, NEW s \in Seq(Seq(X)), s # <<>>
  PROVE  \E f : f = [i \in 1 .. Len(s) |-> IF i = 1 THEN s[i] ELSE f[i - 1] \o s[i]]
<1>. DEFINE n == Len(s)
            Good(k, f) ==
              f = [i \in 1 .. k |-> IF i = 1 THEN s[i] ELSE f[i - 1] \o s[i]]
            S == {k \in 0 .. n : \E f : Good(k, f)}
<1>1. 0 \in S
  <2>1. Good(0, <<>>)
    OBVIOUS
  <2>2. 0 \in 0 .. n
    OBVIOUS
  <2>. HIDE DEF Good, n
  <2>. QED
    BY <2>1, <2>2
<1>2. ASSUME NEW k \in 0 .. n - 1, k \in S PROVE k + 1 \in S
  <2>1. PICK f : Good(k, f)
    BY <1>2
  <2>. DEFINE g == [i \in 1 .. k + 1 |->
                      IF i = k + 1 THEN IF i = 1 THEN s[i] ELSE f[i - 1] \o s[i]
                      ELSE f[i]]
  <2>2. \A i \in 1 .. k : g[i] = f[i]
    OBVIOUS
  <2>3. ASSUME NEW i \in 1 .. k + 1
        PROVE  g[i] = IF i = 1 THEN s[i] ELSE g[i - 1] \o s[i]
    <3>1. CASE i = k + 1
      <4>1. g[i] = IF i = 1 THEN s[i] ELSE f[i - 1] \o s[i]
        BY <3>1
      <4>2. i # 1 => g[i - 1] = f[i - 1]
        BY <2>2, <3>1
      <4>. HIDE DEF g
      <4>. QED
        BY <4>1, <4>2
    <3>2. CASE i # k + 1
      <4>1. g[i] = f[i]
        BY <3>2
      <4>2. f[i] = IF i = 1 THEN s[i] ELSE f[i - 1] \o s[i]
        <5>1. i \in 1 .. k
          BY <3>2
        <5>. QED
          BY <2>1, <5>1, Zenon
      <4>3. i # 1 => g[i - 1] = f[i - 1]
        BY <2>2, <3>2
      <4>. HIDE DEF g, Good
      <4>. QED
        BY <4>1, <4>2, <4>3
    <3>. QED
      BY <3>1, <3>2
  <2>4. g = [i \in 1 .. k + 1 |-> g[i]]
    OBVIOUS
  <2>5. Good(k + 1, g)
    <3>. HIDE DEF g
    <3>. QED
      BY <2>3, <2>4
  <2>. HIDE DEF Good, g
  <2>. QED
    BY <2>5
<1>3. n \in S
  <2>1. n \in Nat /\ n \in 0 .. n
    OBVIOUS
  <2>. HIDE DEF S, n
  <2>. QED
    BY <1>1, <1>2, <2>1, ByInduction
<1>4. PICK f : Good(n, f)
  BY <1>3
<1>. QED
  BY <1>4

LEMMA Flattened ==
  ASSUME NEW X, NEW s \in Seq(Seq(X))
  PROVE  \E f \in [0 .. Len(s) -> Seq(X)] :
           /\ f[0] = <<>>
           /\ \A i \in 1 .. Len(s) : f[i] = f[i - 1] \o s[i]
           /\ FlattenSeq(s) = f[Len(s)]
<1>1. CASE s = <<>>
  <2>1. FlattenSeq(s) = <<>>
    BY <1>1 DEF FlattenSeq
  <2>. DEFINE f == [i \in 0 .. 0 |-> <<>>]
  <2>2. f \in [0 .. 0 -> Seq(X)] /\ f[0] = <<>>
    OBVIOUS
  <2>3. Len(s) = 0
    BY <1>1
  <2>4. \A i \in 1 .. 0 : f[i] = f[i - 1] \o s[i]
    OBVIOUS
  <2>. HIDE DEF f
  <2>. QED
    BY <2>1, <2>2, <2>3, <2>4
<1>2. CASE s # <<>>
  <2>. DEFINE n == Len(s)
  <2>0. n \in Nat /\ n # 0
    BY <1>2
  <2>1. PICK g : /\ g = [i \in 1 .. Len(s) |-> IF i = 1 THEN s[i] ELSE g[i - 1] \o s[i]]
                 /\ FlattenSeq(s) = g[Len(s)]
    <3>1. \E f : f = [i \in 1 .. Len(s) |-> IF i = 1 THEN s[i] ELSE f[i - 1] \o s[i]]
      BY <1>2, FlattenExists
    <3>. QED
      BY <2>0, <3>1, Zenon DEF FlattenSeq
  <2>. DEFINE f == [i \in 0 .. n |-> IF i = 0 THEN <<>> ELSE g[i]]
              S == {i \in 0 .. n : f[i] \in Seq(X)}
  <2>2. f[0] = <<>> /\ f[n] = g[n]
    BY <2>0
  <2>3. ASSUME NEW i \in 1 .. n PROVE f[i] = f[i - 1] \o s[i]
    <3>1. f[i] = g[i] /\ f[i - 1] = IF i = 1 THEN <<>> ELSE g[i - 1]
      BY <2>0
    <3>2. g[i] = IF i = 1 THEN s[i] ELSE g[i - 1] \o s[i]
      BY <2>1
    <3>3. <<>> \o s[i] = s[i]
      <4>1. s[i] \in Seq(X)
        OBVIOUS
      <4>. QED
        BY <4>1
    <3>. HIDE DEF f
    <3>. QED
      BY <3>1, <3>2, <3>3
  <2>4. f \in [0 .. n -> Seq(X)]
    <3>1. 0 \in S
      BY <2>0, <2>2
    <3>2. ASSUME NEW i \in 0 .. n - 1, i \in S PROVE i + 1 \in S
      <4>0. i + 1 \in 1 .. n /\ (i + 1) - 1 = i /\ i + 1 \in 0 .. n
        BY <2>0
      <4>1. s[i + 1] \in Seq(X) /\ f[i] \in Seq(X)
        BY <3>2, <4>0
      <4>. HIDE DEF f
      <4>2. f[i + 1] = f[i] \o s[i + 1]
        BY <2>3, <4>0
      <4>3. f[i + 1] \in Seq(X)
        BY <4>1, <4>2
      <4>. QED
        BY <4>0, <4>3
    <3>3. \A i \in 0 .. n : i \in S
      <4>. HIDE DEF S, n
      <4>. QED
        BY <2>0, <3>1, <3>2, ByInduction
    <3>4. f = [i \in 0 .. n |-> f[i]]
      OBVIOUS
    <3>5. \A i \in 0 .. n : f[i] \in Seq(X)
      BY <3>3
    <3>. HIDE DEF f
    <3>. QED
      BY <3>4, <3>5
  <2>5. FlattenSeq(s) = f[n]
    BY <2>1, <2>2
  <2>. HIDE DEF f
  <2>. QED
    BY <2>2, <2>3, <2>4, <2>5
<1>. QED
  BY <1>1, <1>2

-----------------------------------------------------------------------------
(* Numbers in ascending order.                                             *)

Enumerates(h, S) ==
  /\ h \in Seq(S)
  /\ \A j, k \in 1 .. Len(h) : j < k => h[j] < h[k]
  /\ \A x \in S : \E k \in 1 .. Len(h) : h[k] = x

(* There is only one way to put the members of a set in order.             *)
LEMMA OneOrder ==
  ASSUME NEW S, S \subseteq Int, NEW g, NEW h, Enumerates(g, S), Enumerates(h, S)
  PROVE  g = h
<1>. DEFINE n == Len(g)
            m == Len(h)
            Same(i) == i <= m /\ \A k \in 1 .. i : g[k] = h[k]
            T == {i \in 0 .. n : Same(i)}
<1>1. /\ n \in Nat /\ m \in Nat
      /\ \A k \in 1 .. n : g[k] \in S /\ g[k] \in Int
      /\ \A k \in 1 .. m : h[k] \in S /\ h[k] \in Int
      /\ \A j, k \in 1 .. n : j < k => g[j] < g[k]
      /\ \A j, k \in 1 .. m : j < k => h[j] < h[k]
      /\ \A x \in S : (\E k \in 1 .. n : g[k] = x) /\ (\E k \in 1 .. m : h[k] = x)
  <2>1. /\ g \in Seq(S) /\ h \in Seq(S)
        /\ \A j, k \in 1 .. n : j < k => g[j] < g[k]
        /\ \A j, k \in 1 .. m : j < k => h[j] < h[k]
        /\ \A x \in S : (\E k \in 1 .. n : g[k] = x) /\ (\E k \in 1 .. m : h[k] = x)
    BY DEF Enumerates
  <2>2. /\ n \in Nat /\ m \in Nat
        /\ \A k \in 1 .. n : g[k] \in S
        /\ \A k \in 1 .. m : h[k] \in S
    BY <2>1
  <2>3. \A x \in S : x \in Int
    OBVIOUS
  <2>. HIDE DEF n, m
  <2>. QED
    BY <2>1, <2>2, <2>3
<1>2. g \in Seq(S) /\ h \in Seq(S)
  BY DEF Enumerates
<1>. HIDE DEF n, m
<1>3. 0 \in T
  BY <1>1
<1>4. ASSUME NEW i \in 0 .. n - 1, i \in T PROVE i + 1 \in T
  <2>0. i + 1 \in 1 .. n /\ i + 1 \in 0 .. n /\ i \in Nat /\ Same(i)
    BY <1>1, <1>4
  <2>1. PICK k \in 1 .. m : h[k] = g[i + 1]
    BY <1>1, <2>0
  <2>2. k > i
    <3>. SUFFICES ASSUME k <= i PROVE FALSE
      BY <1>1, <2>0, <2>1
    <3>1. k \in 1 .. i /\ k \in 1 .. n /\ k < i + 1
      BY <1>1, <2>0, <2>1
    <3>2. g[k] = g[i + 1]
      BY <2>0, <2>1, <3>1
    <3>. QED
      BY <1>1, <2>0, <3>1, <3>2
  <2>3. i + 1 \in 1 .. m
    BY <1>1, <2>0, <2>1, <2>2
  <2>4. PICK j \in 1 .. n : g[j] = h[i + 1]
    BY <1>1, <2>3
  <2>5. j > i
    <3>. SUFFICES ASSUME j <= i PROVE FALSE
      BY <1>1, <2>0, <2>4
    <3>1. j \in 1 .. i /\ j \in 1 .. m /\ j < i + 1
      BY <1>1, <2>0, <2>3, <2>4
    <3>2. h[j] = h[i + 1]
      BY <2>0, <2>4, <3>1
    <3>. QED
      BY <1>1, <2>3, <3>1, <3>2
  <2>6. g[i + 1] = h[i + 1]
    <3>1. k = i + 1 \/ h[i + 1] < h[k]
      BY <1>1, <2>0, <2>1, <2>2, <2>3
    <3>2. j = i + 1 \/ g[i + 1] < g[j]
      BY <1>1, <2>0, <2>4, <2>5
    <3>3. g[i + 1] \in Int /\ h[i + 1] \in Int
      BY <1>1, <2>0, <2>3
    <3>. QED
      BY <2>1, <2>4, <3>1, <3>2, <3>3
  <2>7. Same(i + 1)
    <3>1. \A l \in 1 .. i + 1 : l = i + 1 \/ l \in 1 .. i
      BY <2>0
    <3>. QED
      BY <1>1, <2>0, <2>3, <2>6, <3>1
  <2>. HIDE DEF Same
  <2>. QED
    BY <2>0, <2>7
<1>5. Same(n)
  <2>. HIDE DEF T, Same
  <2>1. n \in 0 .. n
    BY <1>1
  <2>2. n \in T
    BY <1>1, <1>3, <1>4, <2>1, ByInduction
  <2>. QED
    BY <2>2 DEF T
<1>6. n = m
  <2>. SUFFICES ASSUME n < m PROVE FALSE
    BY <1>1, <1>5
  <2>1. n + 1 \in 1 .. m
    BY <1>1
  <2>2. PICK k \in 1 .. n : g[k] = h[n + 1]
    BY <1>1, <2>1
  <2>3. h[k] = h[n + 1] /\ k \in 1 .. m /\ k < n + 1
    BY <1>1, <1>5, <2>1, <2>2
  <2>. QED
    BY <1>1, <2>1, <2>3
<1>7. Len(g) = Len(h) /\ \A k \in 1 .. Len(g) : g[k] = h[k]
  BY <1>5, <1>6 DEF n, m
<1>. QED
  BY <1>2, <1>7, SeqEqual

(* The lists of s hold each of the chosen elements.                        *)
ChosenLines(s, n, X, e, S) ==
  /\ n \in Nat /\ e \in [1 .. n -> X] /\ S \subseteq 1 .. n
  /\ s \in Seq(Seq(X)) /\ Len(s) = n
  /\ \A i \in 1 .. n : s[i] = IF i \in S THEN <<e[i]>> ELSE <<>>

(* The elements at the places that h lists.                                *)
ElementsAt(e, h) == [k \in 1 .. Len(h) |-> e[h[k]]]

(* The chosen elements of a list, in their order.                          *)
LEMMA Selected ==
  ASSUME NEW n, NEW X, NEW e, NEW S, NEW s, ChosenLines(s, n, X, e, S)
  PROVE  \E h : Enumerates(h, S) /\ FlattenSeq(s) = ElementsAt(e, h)
<1>. n \in Nat /\ e \in [1 .. n -> X] /\ S \subseteq 1 .. n
  BY DEF ChosenLines
<1>. DEFINE Upto(i) == {x \in S : x <= i}
<1>1. s \in Seq(Seq(X)) /\ Len(s) = n
  BY DEF ChosenLines
<1>2. \A i \in 1 .. n : s[i] = IF i \in S THEN <<e[i]>> ELSE <<>>
  BY DEF ChosenLines
<1>a. \A x \in S : x \in Int /\ 1 <= x /\ x <= n
  OBVIOUS
<1>3. PICK f \in [0 .. n -> Seq(X)] :
        /\ f[0] = <<>>
        /\ \A i \in 1 .. n : f[i] = f[i - 1] \o s[i]
        /\ FlattenSeq(s) = f[n]
  BY <1>1, Flattened
<1>. DEFINE Good(i, h) == /\ Enumerates(h, Upto(i))
                          /\ f[i] = [k \in 1 .. Len(h) |-> e[h[k]]]
            T == {i \in 0 .. n : \E h : Good(i, h)}
<1>4. 0 \in T
  <2>1. Upto(0) = {}
    <3>1. \A x \in S : ~(x <= 0)
      BY <1>a
    <3>. QED
      BY <3>1
  <2>2. Enumerates(<<>>, {})
    BY DEF Enumerates
  <2>3. f[0] = [k \in 1 .. Len(<<>>) |-> e[<<>>[k]]]
    BY <1>3
  <2>4. Good(0, <<>>)
    <3>. HIDE DEF Upto
    <3>. QED
      BY <2>1, <2>2, <2>3
  <2>. HIDE DEF Good
  <2>. QED
    BY <2>4
<1>5. ASSUME NEW i \in 0 .. n - 1, i \in T PROVE i + 1 \in T
  <2>1. PICK h : Good(i, h)
    BY <1>5
  <2>2. i + 1 \in 1 .. n /\ i + 1 \in 0 .. n /\ (i + 1) - 1 = i /\ i \in 0 .. n
    OBVIOUS
  <2>3. f[i + 1] = f[i] \o s[i + 1] /\ f[i] \in Seq(X)
    BY <1>3, <2>2
  <2>4. CASE i + 1 \notin S
    <3>1. Upto(i + 1) = Upto(i)
      <4>1. \A x \in S : x <= i + 1 <=> x <= i
        <5>. TAKE x \in S
        <5>1. x # i + 1
          BY <2>4
        <5>2. x \in Int /\ i \in Int
          BY <1>a, <2>2
        <5>. QED
          BY <5>1, <5>2
      <4>. QED
        BY <4>1
    <3>2. f[i + 1] = f[i]
      <4>1. s[i + 1] = <<>>
        BY <1>2, <2>2, <2>4
      <4>2. \A t \in Seq(X) : t \o <<>> = t
        BY ConcatEmptySeq
      <4>. QED
        BY <2>3, <4>1, <4>2
    <3>3. Good(i + 1, h)
      <4>. HIDE DEF Upto
      <4>. QED
        BY <2>1, <3>1, <3>2
    <3>. HIDE DEF Good
    <3>. QED
      BY <2>2, <3>3
  <2>5. CASE i + 1 \in S
    <3>. DEFINE g == Append(h, i + 1)
                l == Len(h)
    <3>1. /\ h \in Seq(Upto(i)) /\ l \in Nat
          /\ \A j, k \in 1 .. l : j < k => h[j] < h[k]
          /\ \A x \in Upto(i) : \E k \in 1 .. l : h[k] = x
          /\ f[i] = [k \in 1 .. l |-> e[h[k]]]
      <4>. HIDE DEF Upto
      <4>. QED
        BY <2>1 DEF Enumerates
    <3>2. Upto(i + 1) = Upto(i) \cup {i + 1}
      <4>1. \A x \in S : x <= i + 1 <=> x <= i \/ x = i + 1
        BY <1>a, <2>2
      <4>. QED
        BY <2>5, <4>1
    <3>3. /\ g \in Seq(Upto(i + 1)) /\ Len(g) = l + 1 /\ g[l + 1] = i + 1
          /\ \A k \in 1 .. l : g[k] = h[k]
      <4>. HIDE DEF Upto
      <4>. QED
        BY <3>1, <3>2
    <3>4. \A k \in 1 .. l : h[k] \in Int /\ h[k] < i + 1
      <4>1. \A k \in 1 .. l : h[k] \in Upto(i)
        <5>. HIDE DEF Upto
        <5>. QED
          BY <3>1
      <4>2. \A x \in Upto(i) : x \in Int /\ x < i + 1
        BY <2>2
      <4>. QED
        BY <4>1, <4>2
    <3>. HIDE DEF g, l
    <3>5. Enumerates(g, Upto(i + 1))
      <4>. HIDE DEF Upto
      <4>1. ASSUME NEW j \in 1 .. l + 1, NEW k \in 1 .. l + 1, j < k
            PROVE  g[j] < g[k]
        <5>1. j \in 1 .. l
          BY <3>1, <4>1
        <5>2. CASE k = l + 1
          BY <3>3, <3>4, <5>1, <5>2
        <5>3. CASE k # l + 1
          BY <3>1, <3>3, <4>1, <5>1, <5>3
        <5>. QED
          BY <5>2, <5>3
      <4>2. ASSUME NEW x \in Upto(i + 1) PROVE \E k \in 1 .. l + 1 : g[k] = x
        <5>1. CASE x = i + 1
          BY <3>1, <3>3, <5>1
        <5>2. CASE x # i + 1
          <6>1. PICK k \in 1 .. l : h[k] = x
            BY <3>1, <3>2, <5>2
          <6>. QED
            BY <3>1, <3>3, <6>1
        <5>. QED
          BY <5>1, <5>2
      <4>. QED
        BY <3>3, <4>1, <4>2 DEF Enumerates
    <3>6. f[i + 1] = [k \in 1 .. Len(g) |-> e[g[k]]]
      <4>1. s[i + 1] = <<e[i + 1]>> /\ e[i + 1] \in X
        BY <1>2, <2>2, <2>5
      <4>2. /\ f[i + 1] \in Seq(X) /\ Len(f[i + 1]) = l + 1
            /\ f[i + 1][l + 1] = e[i + 1]
            /\ \A k \in 1 .. l : f[i + 1][k] = e[h[k]]
        <5>. DEFINE a == f[i]
                    b == s[i + 1]
                    c == f[i + 1]
        <5>1. b \in Seq(X) /\ Len(b) = 1 /\ b[1] = e[i + 1]
          BY <4>1
        <5>2. a \in Seq(X) /\ c = a \o b
          BY <2>3
        <5>3. Len(a) = l /\ \A k \in 1 .. l : a[k] = e[h[k]]
          BY <3>1
        <5>4. 1 \in 1 .. 1
          OBVIOUS
        <5>. HIDE DEF a, b, c
        <5>a. a \in Seq(X) /\ b \in Seq(X) /\ c = a \o b
          BY <5>1, <5>2
        <5>5. /\ c \in Seq(X) /\ Len(c) = Len(a) + Len(b)
              /\ \A k \in 1 .. Len(a) : c[k] = a[k]
              /\ \A k \in 1 .. Len(b) : c[Len(a) + k] = b[k]
          BY <5>a, Joined
        <5>6. Len(c) = l + 1 /\ c[l + 1] = e[i + 1] /\ \A k \in 1 .. l : c[k] = e[h[k]]
          BY <5>1, <5>3, <5>4, <5>5
        <5>. QED
          BY <5>5, <5>6 DEF c
      <4>3. \A k \in 1 .. l + 1 : f[i + 1][k] = e[g[k]]
        <5>1. \A k \in 1 .. l + 1 : k = l + 1 \/ k \in 1 .. l
          BY <3>1
        <5>. QED
          BY <3>3, <4>2, <5>1
      <4>4. f[i + 1] = [k \in 1 .. l + 1 |-> f[i + 1][k]]
        <5>1. \A t \in Seq(X) : t = [k \in 1 .. Len(t) |-> t[k]]
          BY LenProperties
        <5>. QED
          BY <4>2, <5>1
      <4>. QED
        BY <3>3, <4>3, <4>4
    <3>7. Good(i + 1, g)
      <4>. HIDE DEF Upto
      <4>. QED
        BY <3>5, <3>6
    <3>. HIDE DEF Good
    <3>. QED
      BY <2>2, <3>7
  <2>. QED
    BY <2>4, <2>5
<1>6. \E h : Good(n, h)
  <2>. HIDE DEF Good
  <2>1. n \in 0 .. n
    OBVIOUS
  <2>2. n \in T
    <3>. HIDE DEF T
    <3>. QED
      BY <1>4, <1>5, <2>1, ByInduction
  <2>. QED
    BY <2>2
<1>7. Upto(n) = S
  BY <1>a
<1>8. PICK h : Good(n, h)
  BY <1>6
<1>9. Enumerates(h, S) /\ FlattenSeq(s) = ElementsAt(e, h)
  <2>. HIDE DEF Upto
  <2>. QED
    BY <1>3, <1>7, <1>8 DEF ElementsAt
<1>. QED
  BY <1>9

(* The lists of s hold each of the chosen elements, those at the places in *)
(* C with a mark behind it; h lists the places of the chosen ones, and all *)
(* of them but the last are in C.                                          *)
MarkedLines(s, n, X, e, mark, S, C, h) ==
  /\ n \in Nat /\ e \in [1 .. n -> X] /\ mark \in X
  /\ S \subseteq 1 .. n /\ Enumerates(h, S)
  /\ \A i \in S, j \in S : i < j => i \in C
  /\ s \in Seq(Seq(X)) /\ Len(s) = n
  /\ \A i \in 1 .. n :
       s[i] = IF i \in S THEN IF i \in C THEN <<e[i], mark>> ELSE <<e[i]>> ELSE <<>>

(* The chosen elements with a mark between any two of them, and one behind *)
(* the last if its place is in C.                                          *)
MarkedSize(h, C) ==
  IF h # <<>> /\ h[Len(h)] \notin C THEN 2 * Len(h) - 1 ELSE 2 * Len(h)

MarkedList(t, X, e, mark, C, h) ==
  /\ t \in Seq(X) /\ Len(t) = MarkedSize(h, C)
  /\ \A k \in 1 .. MarkedSize(h, C) :
       t[k] = IF k % 2 = 1 THEN e[h[(k + 1) \div 2]] ELSE mark

LEMMA Marked ==
  ASSUME NEW n, NEW X, NEW e, NEW mark, NEW S, NEW C, NEW h, NEW s,
         MarkedLines(s, n, X, e, mark, S, C, h)
  PROVE  MarkedList(FlattenSeq(s), X, e, mark, C, h)
<1>. DEFINE size == MarkedSize(h, C)
<1>a. size = IF h # <<>> /\ h[Len(h)] \notin C THEN 2 * Len(h) - 1 ELSE 2 * Len(h)
  BY DEF MarkedSize
<1>. HIDE DEF size
<1>b. /\ Enumerates(h, S) /\ S \subseteq 1 .. n
      /\ \A i \in S, j \in S : i < j => i \in C
      /\ e \in [1 .. n -> X] /\ mark \in X
  BY DEF MarkedLines
<1>. n \in Nat
  BY DEF MarkedLines
<1>. DEFINE l == Len(h)
            At(k) == IF k % 2 = 1 THEN e[h[(k + 1) \div 2]] ELSE mark
            Size(m) == IF m # 0 /\ h[m] \notin C THEN 2 * m - 1 ELSE 2 * m
<1>1. s \in Seq(Seq(X)) /\ Len(s) = n
  BY DEF MarkedLines
<1>2. \A i \in 1 .. n :
        s[i] = IF i \in S THEN IF i \in C THEN <<e[i], mark>> ELSE <<e[i]>> ELSE <<>>
  BY DEF MarkedLines
<1>3. PICK f \in [0 .. n -> Seq(X)] :
        /\ f[0] = <<>>
        /\ \A i \in 1 .. n : f[i] = f[i - 1] \o s[i]
        /\ FlattenSeq(s) = f[n]
  BY <1>1, Flattened
<1>4. /\ l \in Nat
      /\ \A k \in 1 .. l : h[k] \in S /\ h[k] \in 1 .. n
      /\ \A j, k \in 1 .. l : j < k => h[j] < h[k]
      /\ \A x \in S : \E k \in 1 .. l : h[k] = x
  <2>1. h \in Seq(S) /\ \A x \in S : x \in 1 .. n
    BY <1>b DEF Enumerates
  <2>2. l \in Nat /\ \A k \in 1 .. l : h[k] \in S
    BY <2>1
  <2>3. \A k \in 1 .. l : h[k] \in 1 .. n
    <3>. HIDE DEF l
    <3>. QED
      BY <2>1, <2>2
  <2>. QED
    BY <1>b, <2>2, <2>3 DEF Enumerates
<1>. HIDE DEF l
(* m of the chosen elements are among the first i.                         *)
<1>. DEFINE Good(i, m) ==
              /\ \A k \in 1 .. l : k <= m <=> h[k] <= i
              /\ Len(f[i]) = Size(m)
              /\ \A k \in 1 .. Size(m) : f[i][k] = At(k)
            T == {i \in 0 .. n : \E m \in 0 .. l : Good(i, m)}
<1>5. 0 \in T
  <2>1. Size(0) = 0
    OBVIOUS
  <2>2. \A k \in 1 .. l : k <= 0 <=> h[k] <= 0
    BY <1>4
  <2>3. Len(f[0]) = 0
    BY <1>3
  <2>4. Good(0, 0)
    <3>. HIDE DEF Size, At
    <3>. QED
      BY <2>1, <2>2, <2>3
  <2>5. 0 \in 0 .. n /\ 0 \in 0 .. l
    BY <1>4
  <2>. HIDE DEF Good
  <2>. QED
    BY <2>4, <2>5
<1>6. ASSUME NEW i \in 0 .. n - 1, i \in T PROVE i + 1 \in T
  <2>1. PICK m \in 0 .. l : Good(i, m)
    BY <1>6
  <2>2. i + 1 \in 1 .. n /\ i + 1 \in 0 .. n /\ (i + 1) - 1 = i /\ i \in 0 .. n /\ i \in Nat
    OBVIOUS
  <2>3. f[i + 1] = f[i] \o s[i + 1] /\ f[i] \in Seq(X) /\ f[i + 1] \in Seq(X)
    BY <1>3, <2>2
  <2>4. m \in Nat /\ m <= l /\ \A k \in 1 .. l : k <= m <=> h[k] <= i
    BY <1>4, <2>1
  <2>5. CASE i + 1 \notin S
    <3>1. f[i + 1] = f[i]
      <4>1. s[i + 1] = <<>>
        BY <1>2, <2>2, <2>5
      <4>2. \A t \in Seq(X) : t \o <<>> = t
        BY ConcatEmptySeq
      <4>. QED
        BY <2>3, <4>1, <4>2
    <3>2. \A k \in 1 .. l : k <= m <=> h[k] <= i + 1
      <4>. TAKE k \in 1 .. l
      <4>1. h[k] # i + 1 /\ h[k] \in Int
        BY <1>4, <2>5
      <4>. QED
        BY <2>2, <2>4, <4>1
    <3>3. Good(i + 1, m)
      <4>. HIDE DEF Size, At
      <4>. QED
        BY <2>1, <3>1, <3>2
    <3>. HIDE DEF Good
    <3>. QED
      BY <2>2, <3>3
  <2>6. CASE i + 1 \in S
    <3>1. m + 1 \in 1 .. l /\ h[m + 1] = i + 1
      <4>1. PICK k \in 1 .. l : h[k] = i + 1
        BY <1>4, <2>6
      <4>2. k > m
        BY <2>2, <2>4, <4>1
      <4>3. m + 1 \in 1 .. l
        BY <1>4, <2>4, <4>2
      <4>4. CASE k = m + 1
        BY <4>1, <4>3, <4>4
      <4>5. CASE k # m + 1
        <5>1. h[m + 1] < h[k] /\ h[m + 1] \in Int
          BY <1>4, <2>4, <4>2, <4>3, <4>5
        <5>2. h[m + 1] <= i
          BY <2>2, <4>1, <5>1
        <5>. QED
          BY <2>4, <4>3, <5>2
      <4>. QED
        BY <4>4, <4>5
    <3>2. \A k \in 1 .. l : k <= m + 1 <=> h[k] <= i + 1
      <4>. TAKE k \in 1 .. l
      <4>1. CASE k <= m
        <5>1. h[k] <= i /\ h[k] \in Int
          BY <1>4, <2>4, <4>1
        <5>. QED
          BY <2>2, <2>4, <4>1, <5>1
      <4>2. CASE k = m + 1
        BY <2>2, <2>4, <3>1, <4>2
      <4>3. CASE k > m + 1
        <5>1. h[m + 1] < h[k] /\ h[k] \in Int
          BY <1>4, <2>4, <3>1, <4>3
        <5>. QED
          BY <2>2, <2>4, <3>1, <4>3, <5>1
      <4>. QED
        BY <2>4, <4>1, <4>2, <4>3
    <3>3. Len(f[i]) = 2 * m /\ \A k \in 1 .. 2 * m : f[i][k] = At(k)
      <4>1. m # 0 => h[m] \in C
        <5>. SUFFICES ASSUME m # 0 PROVE h[m] \in C
          OBVIOUS
        <5>1. m \in 1 .. l /\ m < m + 1
          BY <2>4
        <5>2. h[m] \in S /\ h[m] < h[m + 1]
          BY <1>4, <3>1, <5>1
        <5>. QED
          BY <1>b, <2>6, <3>1, <5>2
      <4>2. Size(m) = 2 * m
        BY <4>1
      <4>. HIDE DEF Size, At
      <4>. QED
        BY <2>1, <4>2
    <3>4. /\ (2 * m + 1) % 2 = 1 /\ (2 * m + 2) \div 2 = m + 1
          /\ (2 * m + 2) % 2 = 0 /\ (2 * m + 1) + 1 = 2 * m + 2
      BY <2>4
    <3>5. At(2 * m + 1) = e[i + 1] /\ At(2 * m + 2) = mark
      BY <3>1, <3>4
    <3>6. e[i + 1] \in X /\ mark \in X
      BY <1>b, <2>2
    <3>. HIDE DEF At
    <3>7. /\ Len(f[i + 1]) = Size(m + 1)
          /\ \A k \in 1 .. Size(m + 1) : f[i + 1][k] = At(k)
      <4>1. CASE i + 1 \in C
        <5>1. Size(m + 1) = 2 * m + 2
          BY <2>4, <3>1, <4>1
        <5>. HIDE DEF Size
        <5>2. s[i + 1] = <<e[i + 1], mark>>
          BY <1>2, <2>2, <2>6, <4>1
        <5>3. /\ Len(f[i + 1]) = 2 * m + 2
              /\ \A k \in 1 .. 2 * m : f[i + 1][k] = f[i][k]
              /\ f[i + 1][2 * m + 1] = e[i + 1] /\ f[i + 1][2 * m + 2] = mark
          <6>1. s[i + 1] \in Seq(X) /\ Len(s[i + 1]) = 2
                /\ s[i + 1][1] = e[i + 1] /\ s[i + 1][2] = mark
            BY <3>6, <5>2
          <6>. DEFINE a == f[i]
                      b == s[i + 1]
                      c == f[i + 1]
          <6>2. a \in Seq(X) /\ b \in Seq(X) /\ c = a \o b
            BY <2>3, <6>1
          <6>. HIDE DEF a, b, c
          <6>3. /\ Len(c) = Len(a) + Len(b)
                /\ \A k \in 1 .. Len(a) : c[k] = a[k]
                /\ \A k \in 1 .. Len(b) : c[Len(a) + k] = b[k]
            BY <6>2, Joined
          <6>4. 1 \in 1 .. 2 /\ 2 \in 1 .. 2
            OBVIOUS
          <6>. QED
            BY <3>3, <6>1, <6>3, <6>4 DEF a, b, c
        <5>4. \A k \in 1 .. 2 * m + 2 :
                k \in 1 .. 2 * m \/ k = 2 * m + 1 \/ k = 2 * m + 2
          BY <2>4
        <5>. QED
          BY <3>3, <3>5, <5>1, <5>3, <5>4
      <4>2. CASE i + 1 \notin C
        <5>1. Size(m + 1) = 2 * m + 1
          <6>1. h[m + 1] \notin C
            BY <3>1, <4>2
          <6>2. m + 1 # 0 /\ 2 * (m + 1) - 1 = 2 * m + 1
            BY <2>4
          <6>. QED
            BY <6>1, <6>2
        <5>. HIDE DEF Size
        <5>2. s[i + 1] = <<e[i + 1]>>
          BY <1>2, <2>2, <2>6, <4>2
        <5>3. /\ Len(f[i + 1]) = 2 * m + 1
              /\ \A k \in 1 .. 2 * m : f[i + 1][k] = f[i][k]
              /\ f[i + 1][2 * m + 1] = e[i + 1]
          <6>1. s[i + 1] \in Seq(X) /\ Len(s[i + 1]) = 1 /\ s[i + 1][1] = e[i + 1]
            BY <3>6, <5>2
          <6>. DEFINE a == f[i]
                      b == s[i + 1]
                      c == f[i + 1]
          <6>2. a \in Seq(X) /\ b \in Seq(X) /\ c = a \o b
            BY <2>3, <6>1
          <6>. HIDE DEF a, b, c
          <6>3. /\ Len(c) = Len(a) + Len(b)
                /\ \A k \in 1 .. Len(a) : c[k] = a[k]
                /\ \A k \in 1 .. Len(b) : c[Len(a) + k] = b[k]
            BY <6>2, Joined
          <6>4. 1 \in 1 .. 1
            OBVIOUS
          <6>. QED
            BY <3>3, <6>1, <6>3, <6>4 DEF a, b, c
        <5>4. \A k \in 1 .. 2 * m + 1 : k \in 1 .. 2 * m \/ k = 2 * m + 1
          BY <2>4
        <5>. QED
          BY <3>3, <3>5, <5>1, <5>3, <5>4
      <4>. QED
        BY <4>1, <4>2
    <3>8. Good(i + 1, m + 1)
      <4>. HIDE DEF Size
      <4>. QED
        BY <3>2, <3>7
    <3>9. m + 1 \in 0 .. l
      BY <1>4, <2>4, <3>1
    <3>. HIDE DEF Good
    <3>. QED
      BY <2>2, <3>8, <3>9
  <2>. QED
    BY <2>5, <2>6
<1>7. PICK m \in 0 .. l : Good(n, m)
  <2>1. n \in 0 .. n
    OBVIOUS
  <2>2. n \in T
    <3>. HIDE DEF T
    <3>. QED
      BY <1>5, <1>6, <2>1, ByInduction
  <2>. HIDE DEF Good
  <2>. QED
    BY <2>2
<1>8. m = l
  <2>1. \A k \in 1 .. l : h[k] <= n
    BY <1>4
  <2>2. \A k \in 1 .. l : k <= m
    <3>1. \A k \in 1 .. l : k <= m <=> h[k] <= n
      <4>. HIDE DEF Size, At
      <4>. QED
        BY <1>7
    <3>. QED
      BY <2>1, <3>1
  <2>3. l = 0 \/ l \in 1 .. l
    BY <1>4
  <2>4. l <= m
    <3>1. m \in Nat
      BY <1>4, <1>7
    <3>. QED
      BY <2>2, <2>3, <3>1
  <2>. QED
    BY <1>4, <2>4
<1>9. l # 0 <=> h # <<>>
  <2>1. h \in Seq(S)
    BY <1>b DEF Enumerates
  <2>. QED
    BY <2>1 DEF l
<1>10. Size(l) = size
  BY <1>9, <1>a DEF l
<1>11. Len(f[n]) = Size(l) /\ \A k \in 1 .. Size(l) : f[n][k] = At(k)
  <2>. HIDE DEF Size, At
  <2>. QED
    BY <1>7, <1>8
<1>12. f[n] \in Seq(X)
  BY <1>3
<1>. HIDE DEF Size
<1>13. /\ FlattenSeq(s) \in Seq(X) /\ Len(FlattenSeq(s)) = size
       /\ \A k \in 1 .. size : FlattenSeq(s)[k] = At(k)
  <2>. HIDE DEF At
  <2>. QED
    BY <1>3, <1>10, <1>11, <1>12
<1>. QED
  BY <1>13 DEF MarkedList, size

(* With a mark between any two and none behind the last: what a reader     *)
(* who has the elements w would write.                                     *)
Between(w, mark) ==
  [k \in 1 .. 2 * Len(w) - 1 |-> IF k % 2 = 1 THEN w[(k + 1) \div 2] ELSE mark]

LEMMA MarkedBetween ==
  ASSUME NEW t, NEW X, NEW e, NEW mark, NEW C, NEW h,
         MarkedList(t, X, e, mark, C, h),
         Len(h) \in Nat, h # <<>> <=> Len(h) # 0,
         NEW w, Len(w) = Len(h), \A k \in 1 .. Len(h) : w[k] = e[h[k]]
  PROVE  /\ h = <<>> \/ h[Len(h)] \notin C => t = Between(w, mark)
         /\ h # <<>> /\ h[Len(h)] \in C => t = Append(Between(w, mark), mark)
<1>. DEFINE l == Len(h)
            size == MarkedSize(h, C)
            At(k) == IF k % 2 = 1 THEN w[(k + 1) \div 2] ELSE mark
<1>1. t \in Seq(X) /\ Len(t) = size
  BY DEF MarkedList
<1>2. t = [k \in 1 .. size |-> t[k]]
  <2>1. \A u \in Seq(X) : u = [k \in 1 .. Len(u) |-> u[k]]
    BY LenProperties
  <2>. HIDE DEF size
  <2>. QED
    BY <1>1, <2>1
<1>3. l \in Nat /\ size \in {2 * l, 2 * l - 1} /\ (l = 0 => size = 0)
  BY DEF MarkedSize
<1>4. \A k \in 1 .. size : t[k] = At(k)
  <2>. TAKE k \in 1 .. size
  <2>1. t[k] = IF k % 2 = 1 THEN e[h[(k + 1) \div 2]] ELSE mark
    BY DEF MarkedList
  <2>2. CASE k % 2 = 1
    <3>1. (k + 1) \div 2 \in 1 .. l
      <4>. HIDE DEF size, l
      <4>. QED
        BY <1>3, <2>2
    <3>. QED
      BY <2>1, <2>2, <3>1
  <2>3. CASE k % 2 # 1
    BY <2>1, <2>3
  <2>. QED
    BY <2>2, <2>3
<1>5. Between(w, mark) = [k \in 1 .. 2 * l - 1 |-> At(k)]
  BY DEF Between
<1>6. ASSUME h = <<>> \/ h[Len(h)] \notin C PROVE t = Between(w, mark)
  <2>1. 1 .. size = 1 .. 2 * l - 1
    BY <1>6 DEF MarkedSize
  <2>. HIDE DEF size, l, At
  <2>. QED
    BY <1>2, <1>4, <1>5, <2>1
<1>7. ASSUME h # <<>>, h[Len(h)] \in C PROVE t = Append(Between(w, mark), mark)
  <2>1. l \in Nat \ {0} /\ size = 2 * l
    BY <1>7 DEF MarkedSize
  <2>2. t[2 * l] = mark
    <3>1. 2 * l \in 1 .. size /\ (2 * l) % 2 # 1
      <4>. HIDE DEF size, l
      <4>. QED
        BY <2>1
    <3>2. At(2 * l) = mark
      BY <3>1
    <3>. HIDE DEF At, l, size
    <3>. QED
      BY <1>4, <3>1, <3>2
  <2>. DEFINE u == Append(Between(w, mark), mark)
  <2>3. \A k \in 1 .. 2 * l - 1 : At(k) \in X
    <3>. HIDE DEF At, l, size
    <3>1. \A k \in 1 .. size : t[k] \in X
      BY <1>1
    <3>. QED
      BY <1>4, <2>1, <3>1
  <2>4. mark \in X
    <3>. HIDE DEF At, l, size
    <3>1. 2 * l \in 1 .. size
      BY <2>1
    <3>. QED
      BY <1>1, <2>2, <3>1
  <2>5. /\ u \in Seq(X) /\ Len(u) = 2 * l /\ u[2 * l] = mark
        /\ \A k \in 1 .. 2 * l - 1 : u[k] = At(k)
    <3>. DEFINE v == [k \in 1 .. 2 * l - 1 |-> At(k)]
    <3>. HIDE DEF At, l, size
    <3>1. /\ v \in Seq(X) /\ Len(v) = 2 * l - 1
          /\ \A k \in 1 .. 2 * l - 1 : v[k] = At(k)
      BY <2>1, <2>3
    <3>. HIDE DEF v
    <3>2. LET x == Append(v, mark)
          IN /\ x \in Seq(X) /\ Len(x) = 2 * l /\ x[2 * l] = mark
             /\ \A k \in 1 .. 2 * l - 1 : x[k] = v[k]
      BY <2>1, <2>4, <3>1
    <3>3. u = Append(v, mark)
      BY <1>5 DEF v
    <3>. HIDE DEF u
    <3>. QED
      BY <3>1, <3>2, <3>3
  <2>6. Len(t) = Len(u) /\ \A k \in 1 .. Len(t) : t[k] = u[k]
    <3>. HIDE DEF At, l, size, u
    <3>1. Len(t) = 2 * l /\ Len(u) = 2 * l
      BY <1>1, <2>1, <2>5
    <3>2. \A k \in 1 .. 2 * l : k = 2 * l \/ k \in 1 .. 2 * l - 1
      BY <2>1
    <3>3. \A k \in 1 .. 2 * l - 1 : k \in 1 .. size
      BY <2>1
    <3>. QED
      BY <1>4, <2>2, <2>5, <3>1, <3>2, <3>3
  <2>. HIDE DEF u, l, size
  <2>7. t = u
    BY <1>1, <2>5, <2>6, SeqEqual
  <2>. QED
    BY <2>7 DEF u
<1>. QED
  BY <1>6, <1>7

-----------------------------------------------------------------------------

(* A finite set of numbers in order: the i-th has i - 1 below it.          *)
LEMMA Ranked ==
  ASSUME NEW S, S \subseteq Int, IsFiniteSet(S)
  PROVE  Enumerates([i \in 1 .. Cardinality(S) |->
                       CHOOSE p \in S : Cardinality({q \in S : q < p}) = i - 1], S)
<1>. DEFINE n == Cardinality(S)
            Below(p) == {q \in S : q < p}
            rank == [p \in S |-> Cardinality(Below(p))]
            order == [i \in 1 .. n |-> CHOOSE p \in S : Cardinality(Below(p)) = i - 1]
<1>1. n \in Nat
  BY FS_CardinalityType
<1>2. \A p \in S : /\ IsFiniteSet(Below(p)) /\ Cardinality(Below(p)) \in Nat
                   /\ Cardinality(Below(p)) < n
  <2>. TAKE p \in S
  <2>1. Below(p) \subseteq S /\ Below(p) # S
    <3>1. p \notin Below(p)
      OBVIOUS
    <3>. QED
      BY <3>1
  <2>. HIDE DEF Below
  <2>2. IsFiniteSet(Below(p)) /\ Cardinality(Below(p)) <= n /\ Cardinality(Below(p)) # n
    BY <2>1, FS_Subset
  <2>3. Cardinality(Below(p)) \in Nat
    BY <2>2, FS_CardinalityType
  <2>. QED
    BY <1>1, <2>2, <2>3
<1>3. \A p, q \in S : p < q => Cardinality(Below(p)) < Cardinality(Below(q))
  <2>. TAKE p, q \in S
  <2>. HAVE p < q
  <2>1. Below(p) \subseteq Below(q) /\ p \in Below(q) /\ p \notin Below(p)
    <3>1. \A x \in S : x < p => x < q
      <4>. TAKE x \in S
      <4>1. x \in Int /\ p \in Int /\ q \in Int /\ p < q
        OBVIOUS
      <4>. QED
        BY <4>1
    <3>2. ~(p < p) /\ p < q
      <4>1. p \in Int
        OBVIOUS
      <4>. QED
        BY <4>1
    <3>. QED
      BY <3>1, <3>2
  <2>2. IsFiniteSet(Below(q)) /\ Below(p) # Below(q)
    <3>. HIDE DEF Below
    <3>. QED
      BY <1>2, <2>1
  <2>. HIDE DEF Below
  <2>3. /\ Cardinality(Below(p)) <= Cardinality(Below(q))
        /\ Cardinality(Below(p)) # Cardinality(Below(q))
    BY <2>1, <2>2, FS_Subset
  <2>. QED
    BY <1>2, <2>3
<1>. HIDE DEF n, Below
<1>4. rank \in Injection(S, 0 .. n - 1)
  <2>1. rank \in [S -> 0 .. n - 1]
    BY <1>1, <1>2
  <2>2. \A p, q \in S : p # q => rank[p] # rank[q]
    <3>. TAKE p, q \in S
    <3>. HAVE p # q
    <3>1. p < q \/ q < p
      OBVIOUS
    <3>2. /\ Cardinality(Below(p)) \in Nat /\ Cardinality(Below(q)) \in Nat
          /\ Cardinality(Below(p)) # Cardinality(Below(q))
      BY <1>2, <1>3, <3>1
    <3>. QED
      BY <3>2
  <2>. QED
    BY <2>1, <2>2 DEF Injection, IsInjective
<1>5. \A i \in 0 .. n - 1 : \E p \in S : Cardinality(Below(p)) = i
  <2>1. IsFiniteSet(0 .. n - 1) /\ Cardinality(0 .. n - 1) = n
    BY <1>1, FS_Interval
  <2>. DEFINE R == {rank[p] : p \in S}
  <2>2. R = 0 .. n - 1
    <3>. HIDE DEF rank
    <3>1. rank \in Surjection(S, 0 .. n - 1)
      BY <1>4, <2>1, FS_Injection DEF n
    <3>2. \A i \in 0 .. n - 1 : \E p \in S : rank[p] = i
      BY <3>1 DEF Surjection
    <3>3. \A p \in S : rank[p] \in 0 .. n - 1
      BY <1>4 DEF Injection
    <3>. QED
      BY <3>2, <3>3
  <2>3. \A i \in 0 .. n - 1 : \E p \in S : rank[p] = i
    BY <2>2
  <2>. QED
    BY <2>3
<1>6. \A i \in 1 .. n : order[i] \in S /\ Cardinality(Below(order[i])) = i - 1
  <2>. TAKE i \in 1 .. n
  <2>1. i - 1 \in 0 .. n - 1
    BY <1>1
  <2>2. \E p \in S : Cardinality(Below(p)) = i - 1
    BY <1>5, <2>1
  <2>. QED
    BY <2>2
<1>7. order \in Seq(S) /\ Len(order) = n
  <2>1. order \in [1 .. n -> S]
    <3>1. order = [i \in 1 .. n |-> order[i]]
      OBVIOUS
    <3>. HIDE DEF order
    <3>. QED
      BY <1>6, <3>1
  <2>. HIDE DEF order
  <2>. QED
    BY <1>1, <2>1
<1>. HIDE DEF order
<1>8. \A j, k \in 1 .. n : j < k => order[j] < order[k]
  <2>. TAKE j, k \in 1 .. n
  <2>. HAVE j < k
  <2>1. order[j] \in S /\ order[k] \in S /\ order[j] \in Int /\ order[k] \in Int
    BY <1>6
  <2>2. Cardinality(Below(order[j])) < Cardinality(Below(order[k]))
    BY <1>1, <1>6
  <2>3. ~(order[k] < order[j]) /\ order[k] # order[j]
    BY <1>2, <1>3, <2>1, <2>2
  <2>. QED
    BY <2>1, <2>3
<1>9. \A x \in S : \E k \in 1 .. n : order[k] = x
  <2>. TAKE x \in S
  <2>. DEFINE k == Cardinality(Below(x)) + 1
  <2>1. k \in 1 .. n /\ k - 1 = Cardinality(Below(x))
    BY <1>1, <1>2
  <2>2. order[k] \in S /\ Cardinality(Below(order[k])) = Cardinality(Below(x))
    BY <1>6, <2>1
  <2>. HIDE DEF k
  <2>3. ~(order[k] < x) /\ ~(x < order[k])
    <3>1. Cardinality(Below(x)) \in Nat
      BY <1>2
    <3>2. ~(Cardinality(Below(order[k])) < Cardinality(Below(x)))
          /\ ~(Cardinality(Below(x)) < Cardinality(Below(order[k])))
      BY <2>2, <3>1
    <3>. QED
      BY <1>3, <2>2, <3>2
  <2>4. order[k] \in Int /\ x \in Int
    BY <2>2
  <2>5. order[k] = x
    BY <2>3, <2>4
  <2>. QED
    BY <2>1, <2>5
<1>10. Enumerates(order, S)
  BY <1>7, <1>8, <1>9 DEF Enumerates
<1>. QED
  BY <1>10 DEF order, Below, n

-----------------------------------------------------------------------------
(* Where the sequences are in what FlattenSeq makes of them: off[i] is the *)
(* number of elements that the first i of them have.                       *)
JoinedAt(s, t, off) ==
  /\ off \in [0 .. Len(s) -> Nat]
  /\ off[0] = 0 /\ off[Len(s)] = Len(t)
  /\ \A i \in 1 .. Len(s) :
       /\ off[i] = off[i - 1] + Len(s[i])
       /\ off[i] <= Len(t)
       /\ \A j \in 1 .. Len(s[i]) : t[off[i - 1] + j] = s[i][j]

LEMMA PlacesExist ==
  ASSUME NEW X, NEW s \in Seq(Seq(X))
  PROVE  FlattenSeq(s) \in Seq(X) /\ \E off : JoinedAt(s, FlattenSeq(s), off)
<1>. DEFINE n == Len(s)
<1>1. PICK f \in [0 .. Len(s) -> Seq(X)] :
        /\ f[0] = <<>>
        /\ \A i \in 1 .. Len(s) : f[i] = f[i - 1] \o s[i]
        /\ FlattenSeq(s) = f[Len(s)]
  BY Flattened
<1>2. n \in Nat /\ 0 \in 0 .. n /\ n \in 0 .. n
  OBVIOUS
<1>. DEFINE off == [i \in 0 .. n |-> Len(f[i])]
            Good(m, i) ==
              /\ off[i] <= off[m]
              /\ \A j \in 1 .. Len(s[i]) : f[m][off[i - 1] + j] = s[i][j]
            S == {m \in 0 .. n : \A i \in 1 .. m : Good(m, i)}
<1>3. \A i \in 0 .. n : f[i] \in Seq(X) /\ off[i] = Len(f[i]) /\ off[i] \in Nat
  OBVIOUS
<1>4. ASSUME NEW i \in 1 .. n
      PROVE  /\ s[i] \in Seq(X) /\ i - 1 \in 0 .. n /\ i \in 0 .. n
             /\ f[i - 1] \in Seq(X)
             /\ off[i] = off[i - 1] + Len(s[i])
             /\ \A k \in 1 .. off[i - 1] : f[i][k] = f[i - 1][k]
             /\ \A j \in 1 .. Len(s[i]) : f[i][off[i - 1] + j] = s[i][j]
  <2>1. s[i] \in Seq(X) /\ i - 1 \in 0 .. n /\ i \in 0 .. n
    OBVIOUS
  <2>2. f[i - 1] \in Seq(X) /\ off[i - 1] = Len(f[i - 1]) /\ off[i] = Len(f[i])
    BY <1>3, <2>1
  <2>3. f[i] = f[i - 1] \o s[i]
    BY <1>1
  <2>. HIDE DEF off
  <2>4. /\ Len(f[i]) = Len(f[i - 1]) + Len(s[i])
        /\ \A k \in 1 .. Len(f[i - 1]) : f[i][k] = f[i - 1][k]
        /\ \A k \in 1 .. Len(s[i]) : f[i][Len(f[i - 1]) + k] = s[i][k]
    BY <2>1, <2>2, <2>3, Joined
  <2>. QED
    BY <2>1, <2>2, <2>4
<1>. HIDE DEF off, n
<1>5. 0 \in S
  BY <1>2
<1>6. ASSUME NEW m \in 0 .. n - 1, m \in S PROVE m + 1 \in S
  <2>1. /\ m + 1 \in 1 .. n /\ (m + 1) - 1 = m /\ m \in 0 .. n /\ m + 1 \in 0 .. n
        /\ m \in Nat
    BY <1>2
  <2>2. /\ off[m + 1] = off[m] + Len(s[m + 1])
        /\ \A k \in 1 .. off[m] : f[m + 1][k] = f[m][k]
        /\ \A j \in 1 .. Len(s[m + 1]) : f[m + 1][off[m] + j] = s[m + 1][j]
    BY <1>4, <2>1
  <2>3. off[m] \in Nat /\ off[m + 1] \in Nat /\ Len(s[m + 1]) \in Nat
    BY <1>3, <1>4, <2>1
  <2>4. ASSUME NEW i \in 1 .. m + 1 PROVE Good(m + 1, i)
    <3>1. CASE i = m + 1
      <4>1. off[i] <= off[m + 1]
        BY <2>3, <3>1
      <4>. QED
        BY <2>1, <2>2, <3>1, <4>1
    <3>2. CASE i # m + 1
      <4>1. i \in 1 .. m /\ i \in 1 .. n /\ i \in 0 .. n
        BY <1>2, <2>1, <3>2
      <4>2. Good(m, i)
        BY <1>6, <4>1
      <4>3. off[i] \in Nat /\ off[i - 1] \in Nat /\ off[i] = off[i - 1] + Len(s[i])
            /\ Len(s[i]) \in Nat
        BY <1>3, <1>4, <4>1
      <4>4. off[i] <= off[m + 1]
        BY <2>2, <2>3, <4>2, <4>3
      <4>5. ASSUME NEW j \in 1 .. Len(s[i])
            PROVE  f[m + 1][off[i - 1] + j] = s[i][j]
        <5>1. off[i - 1] + j \in 1 .. off[m]
          BY <2>3, <4>2, <4>3
        <5>. QED
          BY <2>2, <4>2, <5>1
      <4>. QED
        BY <4>4, <4>5
    <3>. QED
      BY <3>1, <3>2
  <2>. HIDE DEF Good
  <2>. QED
    BY <2>1, <2>4
<1>7. \A m \in 0 .. n : m \in S
  <2>. HIDE DEF S
  <2>. QED
    BY <1>2, <1>5, <1>6, ByInduction
<1>8. \A i \in 1 .. n : Good(n, i)
  BY <1>2, <1>7
<1>9. off \in [0 .. n -> Nat]
  <2>1. off = [i \in 0 .. n |-> Len(f[i])]
    BY DEF off
  <2>2. \A i \in 0 .. n : Len(f[i]) \in Nat
    BY <1>3
  <2>. QED
    BY <2>1, <2>2
<1>10. off[0] = 0 /\ off[n] = Len(f[n])
  BY <1>1, <1>2, <1>3
<1>11. JoinedAt(s, f[n], off)
  BY <1>4, <1>8, <1>9, <1>10 DEF JoinedAt, n
<1>12. FlattenSeq(s) = f[n] /\ f[n] \in Seq(X)
  BY <1>1, <1>2, <1>3 DEF n
<1>. QED
  BY <1>11, <1>12
=============================================================================
