---------------------------- MODULE NaturalSets -----------------------------
(* The least and the greatest member of a set of natural numbers, and the  *)
(* members of a set in order: what the order of transactions, the search   *)
(* for the first ready task, the lines of a file, the pages of a topic and *)
(* of an answer rest on.                                                   *)
EXTENDS Ordered, FiniteSetTheorems, WellFoundedInduction, TLAPS

(* A nonempty set of natural numbers has a smallest member: the intervals  *)
(* from 0 to its members are well-founded under strict inclusion.          *)
LEMMA SmallestMember ==
  ASSUME NEW S \in SUBSET Nat, S # {}
  PROVE  \E m \in S : \A k \in S : m <= k
<1> DEFINE R == StrictSubsetOrdering(Nat)
           T == {0..m : m \in S}
<1>1. T # {} /\ T \subseteq FiniteSubsetsOf(Nat)
  <2>1. ASSUME NEW m \in S PROVE 0..m \in FiniteSubsetsOf(Nat)
    <3>1. IsFiniteSet(0..m) /\ 0..m \in SUBSET Nat
      BY FS_Interval
    <3> QED BY <3>1 DEF FiniteSubsetsOf
  <2> QED BY <2>1
<1>2. \E x \in T : \A y \in T : <<y, x>> \notin R
  <2> HIDE DEF R, T
  <2>1. IsWellFoundedOn(R, FiniteSubsetsOf(Nat))
    BY FS_StrictSubsetOrderingWellFounded DEF R
  <2> QED BY <1>1, <2>1, WFMin
<1>3. PICK m \in S : \A k \in S : <<0..k, 0..m>> \notin R
  BY <1>2
<1>4. ASSUME NEW k \in S, k < m PROVE FALSE
  <2>1. 0..k \subseteq 0..m /\ 0..k # 0..m
    <3>1. m \in 0..m /\ m \notin 0..k
      BY <1>4
    <3> QED BY <1>4, <3>1
  <2>2. 0..k \in SUBSET Nat /\ 0..m \in SUBSET Nat
    OBVIOUS
  <2>3. <<0..k, 0..m>> \in R
    BY <2>1, <2>2, Zenon DEF StrictSubsetOrdering
  <2> QED BY <1>3, <2>3
<1> QED BY <1>4

LEMMA GreatestMember ==
  ASSUME NEW S \in SUBSET Nat, S # {}, NEW n \in Nat, \A k \in S : k <= n
  PROVE  \E m \in S : \A k \in S : k <= m
<1> DEFINE D == {n - k : k \in S}
<1>1. D \in SUBSET Nat /\ D # {}
  <2>1. \A k \in S : n - k \in Nat
    OBVIOUS
  <2> QED BY <2>1
<1>2. PICK d \in D : \A k \in D : d <= k
  BY <1>1, SmallestMember
<1>3. PICK m \in S : d = n - m
  OBVIOUS
<1>4. ASSUME NEW k \in S PROVE k <= m
  <2>1. n - k \in D /\ d <= n - k
    BY <1>2
  <2> QED BY <1>3, <2>1
<1> QED BY <1>4

(* Induction up to n, over the set of numbers for which something holds.   *)
LEMMA UpTo ==
  ASSUME NEW n \in Nat, NEW S, 0 \in S, \A k \in 1..n : k - 1 \in S => k \in S
  PROVE  0..n \subseteq S
<1> DEFINE R == (0..n) \ S
<1>1. SUFFICES ASSUME R # {} PROVE FALSE
  OBVIOUS
<1>2. PICK m \in R : \A k \in R : m <= k
  <2>1. R \in SUBSET Nat
    OBVIOUS
  <2> HIDE DEF R
  <2> QED BY <1>1, <2>1, SmallestMember
<1>3. m \in 1..n /\ m - 1 \in 0..n /\ ~(m <= m - 1)
  OBVIOUS
<1>4. m - 1 \notin R
  BY <1>2, <1>3
<1> QED BY <1>2, <1>3, <1>4

(* n steps, each from what the one before gave: what a loop over a         *)
(* sequence is written as has a value.                                     *)
Loop(f, base, g, n) == f[0] = base /\ \A i \in 1..n : f[i] = g[i][f[i - 1]]

LEMMA LoopExists ==
  ASSUME NEW n \in Nat, NEW A, NEW base \in A, NEW g \in [1..n -> [A -> A]]
  PROVE  \E f \in [0..n -> A] : Loop(f, base, g, n)
<1> DEFINE Steps(f, k) == f[0] = base /\ \A i \in 1..k : f[i] = g[i][f[i - 1]]
           S == {k \in 0..n : \E f \in [0..k -> A] : Steps(f, k)}
<1>1. 0 \in S
  <2> DEFINE f == [i \in 0..0 |-> base]
  <2>1. f \in [0..0 -> A] /\ f[0] = base
    OBVIOUS
  <2> HIDE DEF f
  <2>2. Steps(f, 0)
    BY <2>1
  <2> HIDE DEF Steps
  <2> QED BY <2>1, <2>2
<1>2. ASSUME NEW k \in 1..n, k - 1 \in S PROVE k \in S
  <2>1. PICK f \in [0..k - 1 -> A] : Steps(f, k - 1)
    BY <1>2
  <2> DEFINE h == [i \in 0..k |-> IF i = k THEN g[k][f[k - 1]] ELSE f[i]]
  <2>2. k \in Nat /\ k - 1 \in 0..k - 1 /\ k # 0 /\ 0 \in 0..k - 1
    OBVIOUS
  <2>3. \A i \in 0..k - 1 : i \in 0..k /\ i # k /\ h[i] = f[i]
    OBVIOUS
  <2>4. h[k] = g[k][f[k - 1]]
    BY <2>2
  <2>5. g[k][f[k - 1]] \in A
    BY <2>2
  <2>6. h \in [0..k -> A]
    BY <2>5
  <2> HIDE DEF h
  <2>7. ASSUME NEW i \in 1..k PROVE h[i] = g[i][h[i - 1]]
    <3>1. i - 1 \in 0..k - 1 /\ h[i - 1] = f[i - 1]
      BY <2>3
    <3>2. CASE i = k
      BY <2>4, <3>1, <3>2
    <3>3. CASE i # k
      <4>1. i \in 1..k - 1 /\ i \in 0..k - 1
        BY <3>3
      <4> QED BY <2>1, <2>3, <3>1, <4>1
    <3> QED BY <3>2, <3>3
  <2>8. Steps(h, k)
    BY <2>1, <2>2, <2>3, <2>7
  <2> HIDE DEF Steps
  <2> QED BY <2>6, <2>8
<1> HIDE DEF S
<1>3. n \in S
  <2>1. 0..n \subseteq S
    BY <1>1, <1>2, UpTo
  <2> QED BY <2>1
<1>4. PICK f \in [0..n -> A] : Steps(f, n)
  BY <1>3 DEF S
<1> QED BY <1>4 DEF Loop

-----------------------------------------------------------------------------
(* The members of a set in order.                                          *)

Orders(R, S) ==
  /\ \A x \in S : <<x, x>> \notin R
  /\ \A x, y, z \in S : <<x, y>> \in R /\ <<y, z>> \in R => <<x, z>> \in R
  /\ \A x, y \in S : x # y => <<x, y>> \in R \/ <<y, x>> \in R

(* The number of members before one is its rank; it grows with the order.  *)
Preceding(x, S, R) == {y \in S : <<y, x>> \in R}

LEMMA RankGrows ==
  ASSUME NEW S, IsFiniteSet(S), NEW R, Orders(R, S), NEW x \in S, NEW y \in S, <<x, y>> \in R
  PROVE  /\ Cardinality(Preceding(x, S, R)) \in Nat
         /\ Cardinality(Preceding(y, S, R)) \in Nat
         /\ Cardinality(Preceding(x, S, R)) < Cardinality(Preceding(y, S, R))
<1>1. Preceding(x, S, R) \subseteq Preceding(y, S, R)
  BY DEF Preceding, Orders
<1>2. x \in Preceding(y, S, R) /\ x \notin Preceding(x, S, R)
  BY DEF Preceding, Orders
<1>3. IsFiniteSet(Preceding(y, S, R))
  BY FS_Subset DEF Preceding
<1>4. /\ IsFiniteSet(Preceding(x, S, R))
      /\ Cardinality(Preceding(x, S, R)) <= Cardinality(Preceding(y, S, R))
      /\ Cardinality(Preceding(x, S, R)) # Cardinality(Preceding(y, S, R))
  BY <1>1, <1>2, <1>3, FS_Subset
<1> QED BY <1>3, <1>4, FS_CardinalityType

LEMMA RankBelow ==
  ASSUME NEW S, IsFiniteSet(S), NEW R, Orders(R, S), NEW x \in S
  PROVE  Cardinality(Preceding(x, S, R)) \in 0..(Cardinality(S) - 1)
<1>1. Preceding(x, S, R) \subseteq S \ {x}
  BY DEF Preceding, Orders
<1>2. IsFiniteSet(S \ {x}) /\ Cardinality(S \ {x}) = Cardinality(S) - 1
  BY FS_RemoveElement
<1>3. IsFiniteSet(Preceding(x, S, R)) /\ Cardinality(Preceding(x, S, R)) <= Cardinality(S) - 1
  BY <1>1, <1>2, FS_Subset
<1> QED BY <1>3, FS_CardinalityType

(* InOrder is the sequence of all members, each once, in ascending order.  *)
LEMMA InOrderSorts ==
  ASSUME NEW S, IsFiniteSet(S), NEW R, Orders(R, S)
  PROVE  /\ Cardinality(S) \in Nat
         /\ InOrder(S, R) \in [1..Cardinality(S) -> S]
         /\ \A x \in S : \E i \in 1..Cardinality(S) : InOrder(S, R)[i] = x
         /\ \A i, j \in 1..Cardinality(S) :
              i < j => <<InOrder(S, R)[i], InOrder(S, R)[j]>> \in R
<1> DEFINE n == Cardinality(S)
           rank == [x \in S |-> Cardinality(Preceding(x, S, R))]
           s == InOrder(S, R)
<1>1. n \in Nat
  BY FS_CardinalityType
<1>2. rank \in [S -> 0..(n - 1)]
  BY RankBelow
<1>3. \A x, y \in S : x # y => rank[x] # rank[y]
  <2> SUFFICES ASSUME NEW x \in S, NEW y \in S, x # y PROVE rank[x] # rank[y]
    OBVIOUS
  <2>1. <<x, y>> \in R \/ <<y, x>> \in R
    BY DEF Orders
  <2>2. CASE <<x, y>> \in R
    BY <2>2, RankGrows
  <2>3. CASE <<y, x>> \in R
    BY <2>3, RankGrows
  <2> QED BY <2>1, <2>2, <2>3
<1>4. \A k \in 0..(n - 1) : \E x \in S : rank[x] = k
  <2>1. rank \in Injection(S, 0..(n - 1))
    BY <1>2, <1>3 DEF Injection, IsInjective
  <2>2. IsFiniteSet(0..(n - 1)) /\ Cardinality(0..(n - 1)) = n
    BY <1>1, FS_Interval
  <2>3. rank \in Surjection(S, 0..(n - 1))
    <3> HIDE DEF rank
    <3> QED BY <2>1, <2>2, FS_Injection
  <2> QED BY <2>3 DEF Surjection
<1>5. ASSUME NEW i \in 1..n PROVE s[i] \in S /\ rank[s[i]] = i - 1
  <2>1. \E x \in S : Cardinality({y \in S : <<y, x>> \in R}) = i - 1
    BY <1>1, <1>4 DEF Preceding
  <2>2. s[i] = CHOOSE x \in S : Cardinality({y \in S : <<y, x>> \in R}) = i - 1
    BY DEF InOrder
  <2> QED BY <2>1, <2>2 DEF Preceding
<1>6. s \in [1..n -> S]
  BY <1>5 DEF InOrder
<1>7. \A x \in S : \E i \in 1..n : s[i] = x
  <2> SUFFICES ASSUME NEW x \in S PROVE \E i \in 1..n : s[i] = x
    OBVIOUS
  <2>1. rank[x] + 1 \in 1..n
    BY <1>1, <1>2
  <2>2. s[rank[x] + 1] \in S /\ rank[s[rank[x] + 1]] = rank[x]
    BY <1>2, <1>5, <2>1
  <2> HIDE DEF rank, s
  <2> QED BY <1>3, <2>1, <2>2
<1>8. \A i, j \in 1..n : i < j => <<s[i], s[j]>> \in R
  <2> SUFFICES ASSUME NEW i \in 1..n, NEW j \in 1..n, i < j PROVE <<s[i], s[j]>> \in R
    OBVIOUS
  <2>1. rank[s[i]] = i - 1 /\ rank[s[j]] = j - 1 /\ s[i] \in S /\ s[j] \in S
    BY <1>5
  <2>2. s[i] # s[j]
    BY <2>1, <1>1
  <2>3. CASE <<s[j], s[i]>> \in R
    <3>1. rank[s[j]] < rank[s[i]]
      BY <2>1, <2>3, RankGrows
    <3> QED BY <2>1, <3>1, <1>1
  <2> QED BY <2>1, <2>2, <2>3 DEF Orders
<1> QED BY <1>1, <1>6, <1>7, <1>8
=============================================================================
