--------------------------- MODULE Queries_proofs ---------------------------
(***************************************************************************)
(* Proofs about Queries and BlockSearch, for any chain and any requests.   *)
(***************************************************************************)
EXTENDS Queries, NaturalSets, SequenceTheorems

-----------------------------------------------------------------------------
(* The order of a search.                                                  *)

FilterOK(filter) == filter.size \in Nat /\ filter.page \in Nat /\ filter.from \in Nat

Precedes(filter, x, y) == IF filter.dir = "DESC" THEN x > y ELSE x < y

LEMMA PrecedesIsOrder ==
  ASSUME NEW filter
  PROVE  /\ \A x \in Nat : ~Precedes(filter, x, x)
         /\ \A x, y, z \in Nat :
              Precedes(filter, x, y) /\ Precedes(filter, y, z) => Precedes(filter, x, z)
         /\ \A x, y \in Nat : x # y => Precedes(filter, x, y) \/ Precedes(filter, y, x)
BY DEF Precedes

(* Directed is the sequence of all members, each once, in this order.      *)
LEMMA DirectedSorts ==
  ASSUME NEW filter, NEW S \in SUBSET Nat, IsFiniteSet(S)
  PROVE  LET s == Directed(filter, S) IN
         /\ s \in Seq(S) /\ Len(s) \in Nat /\ Len(s) = Cardinality(S)
         /\ \A i \in 1..Len(s) : s[i] \in S /\ s[i] \in Nat
         /\ \A x \in S : \E i \in 1..Len(s) : s[i] = x
         /\ \A i, j \in 1..Len(s) : i < j => Precedes(filter, s[i], s[j])
<1> DEFINE R == {p \in S \X S : IF filter.dir = "DESC" THEN p[1] > p[2] ELSE p[1] < p[2]}
           s == InOrder(S, R)
           n == Cardinality(S)
<1>1. \A x, y \in S : <<x, y>> \in R <=> Precedes(filter, x, y)
  BY DEF Precedes
<1>2. Orders(R, S)
  <2> HIDE DEF R
  <2> QED BY <1>1, PrecedesIsOrder DEF Orders
<1> HIDE DEF R
<1>3. /\ n \in Nat /\ s \in [1..n -> S]
      /\ \A x \in S : \E i \in 1..n : s[i] = x
      /\ \A i, j \in 1..n : i < j => <<s[i], s[j]>> \in R
  BY <1>2, InOrderSorts
<1>4. s = Directed(filter, S)
  BY DEF Directed, R
<1> HIDE DEF s, n
<1>5. s \in Seq(S) /\ Len(s) = n
  BY <1>3
<1>6. \A i, j \in 1..n : i < j => Precedes(filter, s[i], s[j])
  <2>1. \A i \in 1..n : s[i] \in S
    BY <1>3
  <2> QED BY <1>1, <1>3, <2>1
<1>7. \A i \in 1..n : s[i] \in S /\ s[i] \in Nat
  BY <1>3
<1> QED BY <1>3, <1>4, <1>5, <1>6, <1>7 DEF n

-----------------------------------------------------------------------------
(***************************************************************************)
(* What a search has done after it came by the entries V: it looked at the *)
(* matching entries K in their order, and all but the skipped ones are in  *)
(* the result.  It has missed an entry only behind a page that was full.   *)
(***************************************************************************)
Enough(filter, acc) == filter.size # 0 /\ Len(acc.result) >= filter.size

Ascends(filter, s) == \A i, j \in 1..Len(s) : i < j => Precedes(filter, s[i], s[j])

Looked(filter, acc, V, K) ==
  LET skip == SkipEntriesCount(filter) IN
  /\ K \in Seq(V) /\ Ascends(filter, K)
  /\ \A i \in 1..Len(K) : IsMatchingFilter(filter, K[i])
  /\ acc.cursor = Len(K)
  /\ acc.result \in Seq(V)
  /\ Len(acc.result) = IF Len(K) <= skip THEN 0 ELSE Len(K) - skip
  /\ \A i \in 1..Len(acc.result) : acc.result[i] = K[skip + i]
  /\ acc.full => Enough(filter, acc)
  /\ \A x \in V : IsMatchingFilter(filter, x) =>
       \/ \E i \in 1..Len(K) : K[i] = x
       \/ Enough(filter, acc) /\ Precedes(filter, K[skip + filter.size], x)

Searched(filter, acc, V) == \E K : Looked(filter, acc, V, K)

LEMMA SkipIsNumber ==
  ASSUME NEW filter, FilterOK(filter)
  PROVE  SkipEntriesCount(filter) \in Nat
<1>1. CASE filter.page < 1
  BY <1>1 DEF SkipEntriesCount
<1>2. CASE ~(filter.page < 1)
  <2>1. filter.page - 1 \in Nat /\ filter.size \in Nat
    BY <1>2 DEF FilterOK
  <2>2. (filter.page - 1) * filter.size \in Nat
    BY <2>1
  <2> QED BY <1>2, <2>2 DEF SkipEntriesCount
<1> QED BY <1>1, <1>2

(* The next entry, which comes after all before.                           *)
LEMMA VisitOne ==
  ASSUME NEW filter, FilterOK(filter), NEW acc, NEW V \in SUBSET Nat, Searched(filter, acc, V),
         NEW nr \in Nat, \A v \in V : Precedes(filter, v, nr), acc.full \in BOOLEAN
  PROVE  /\ Searched(filter, Visit(filter, acc, nr), V \cup {nr})
         /\ Visit(filter, acc, nr).full \in BOOLEAN
<1> DEFINE skip == SkipEntriesCount(filter)
           use == IsMatchingFilter(filter, nr)
           new == Visit(filter, acc, nr)
           W == V \cup {nr}
<1>1. PICK K : Looked(filter, acc, V, K)
  BY DEF Searched
<1>2. skip \in Nat /\ filter.size \in Nat
  BY SkipIsNumber DEF FilterOK
<1>3. K \in Seq(V) /\ K \in Seq(W) /\ Len(K) \in Nat /\ acc.result \in Seq(V) /\ acc.result \in Seq(W)
      /\ Len(acc.result) \in Nat /\ \A i \in 1..Len(K) : K[i] \in V
  BY <1>1 DEF Looked
<1>4. Enough(filter, acc) => skip + filter.size \in 1..Len(K)
  BY <1>1, <1>2, <1>3 DEF Looked, Enough
<1>5. CASE acc.full
  <2>1. new = acc
    BY <1>5 DEF Visit
  <2>2. Enough(filter, acc) /\ Precedes(filter, K[skip + filter.size], nr)
    BY <1>1, <1>3, <1>4, <1>5 DEF Looked
  <2>3. Looked(filter, acc, W, K)
    BY <1>1, <1>3, <2>2 DEF Looked
  <2> QED BY <2>1, <2>3 DEF Searched
<1>6. CASE ~acc.full /\ ~use
  <2>1. new.result = acc.result /\ new.cursor = acc.cursor
        /\ new.full \in BOOLEAN /\ (new.full <=> ~HasCapacityLeft(filter, Len(acc.result)))
    BY <1>6 DEF Visit, HasCapacityLeft
  <2>2. ~HasCapacityLeft(filter, Len(acc.result)) => Enough(filter, acc)
    BY <1>2, <1>3 DEF Enough, HasCapacityLeft
  <2>3. Enough(filter, new) <=> Enough(filter, acc)
    BY <2>1 DEF Enough
  <2> HIDE DEF new
  <2>4. Looked(filter, new, W, K)
    BY <1>1, <1>3, <1>6, <2>1, <2>2, <2>3 DEF Looked
  <2> QED BY <2>1, <2>4 DEF Searched, new
<1>7. CASE ~acc.full /\ use
  <2> DEFINE L == Append(K, nr)
             r == IF acc.cursor >= skip THEN Append(acc.result, nr) ELSE acc.result
  <2>1. new.result = r /\ new.cursor = acc.cursor + 1
        /\ new.full \in BOOLEAN /\ (new.full <=> ~HasCapacityLeft(filter, Len(r)))
    BY <1>7 DEF Visit, HasCapacityLeft
  <2>2. /\ L \in Seq(W) /\ Len(L) = Len(K) + 1 /\ L[Len(K) + 1] = nr
        /\ \A i \in 1..Len(K) : L[i] = K[i] /\ i \in 1..Len(L)
        /\ \A i \in 1..Len(L) : i \in 1..Len(K) \/ i = Len(K) + 1
    BY <1>3
  <2>3. /\ r \in Seq(W)
        /\ Len(r) = IF Len(L) <= skip THEN 0 ELSE Len(L) - skip
        /\ \A i \in 1..Len(r) : r[i] = L[skip + i]
    <3> HIDE DEF skip
    <3>1. CASE acc.cursor >= skip
      <4>1. r = Append(acc.result, nr) /\ Len(acc.result) = Len(K) - skip
        BY <1>1, <1>2, <1>3, <3>1 DEF Looked, skip
      <4>2. r \in Seq(W) /\ Len(r) = Len(acc.result) + 1 /\ r[Len(acc.result) + 1] = nr
            /\ \A i \in 1..Len(acc.result) : r[i] = acc.result[i]
        BY <1>3, <4>1
      <4> HIDE DEF r, L
      <4>3. \A i \in 1..Len(acc.result) : r[i] = K[skip + i] /\ skip + i \in 1..Len(K)
        <5>1. \A i \in 1..Len(acc.result) : skip + i \in 1..Len(K)
          BY <1>2, <1>3, <4>1
        <5>2. \A i \in 1..Len(acc.result) : acc.result[i] = K[skip + i]
          BY <1>1 DEF Looked, skip
        <5> QED BY <4>2, <5>1, <5>2
      <4>4. skip + (Len(acc.result) + 1) = Len(K) + 1 /\ ~(Len(K) + 1 <= skip)
            /\ Len(acc.result) + 1 = Len(K) + 1 - skip
        <5>1. Len(K) >= skip
          BY <1>1, <3>1 DEF Looked
        <5> QED BY <1>2, <1>3, <4>1, <5>1
      <4>5. ASSUME NEW i \in 1..Len(r) PROVE r[i] = L[skip + i]
        <5>1. i \in 1..Len(acc.result) \/ i = Len(acc.result) + 1
          BY <1>3, <4>2
        <5> QED BY <2>2, <4>2, <4>3, <4>4, <5>1
      <4>6. Len(r) = Len(L) - skip /\ ~(Len(L) <= skip)
        BY <1>2, <1>3, <2>2, <4>2, <4>4
      <4> QED BY <4>2, <4>5, <4>6
    <3>2. CASE ~(acc.cursor >= skip)
      <4>1. r = acc.result /\ Len(r) = 0 /\ Len(L) <= skip
        BY <1>1, <1>2, <1>3, <2>2, <3>2 DEF Looked, skip
      <4> QED BY <1>2, <1>3, <2>2, <4>1
    <3> QED BY <3>1, <3>2
  <2>4. Len(acc.result) <= Len(r) /\ Len(r) \in Nat
    BY <1>1, <1>2, <1>3, <2>2, <2>3 DEF Looked
  <2> HIDE DEF r, L, new
  <2>5. Ascends(filter, L)
    <3> SUFFICES ASSUME NEW i \in 1..Len(L), NEW j \in 1..Len(L), i < j
                 PROVE  Precedes(filter, L[i], L[j])
      BY DEF Ascends
    <3>1. i \in 1..Len(K)
      BY <1>3, <2>2
    <3>2. CASE j \in 1..Len(K)
      BY <1>1, <2>2, <3>1, <3>2 DEF Looked, Ascends
    <3>3. CASE j = Len(K) + 1
      BY <1>3, <2>2, <3>1, <3>3
    <3> QED BY <2>2, <3>2, <3>3
  <2>6. new.full => Enough(filter, new)
    BY <1>2, <2>1, <2>4 DEF Enough, HasCapacityLeft
  <2>7. Enough(filter, acc) => Enough(filter, new) /\ L[skip + filter.size] = K[skip + filter.size]
    BY <1>2, <1>3, <1>4, <2>1, <2>2, <2>4 DEF Enough
  <2>8. ASSUME NEW x \in W, IsMatchingFilter(filter, x)
        PROVE  \/ \E i \in 1..Len(L) : L[i] = x
               \/ Enough(filter, new) /\ Precedes(filter, L[skip + filter.size], x)
    <3>1. CASE x = nr
      <4>1. Len(K) + 1 \in 1..Len(L)
        BY <1>3, <2>2
      <4> QED BY <2>2, <3>1, <4>1
    <3>2. CASE x \in V
      BY <1>1, <2>2, <2>7, <2>8, <3>2 DEF Looked
    <3> QED BY <3>1, <3>2
  <2>9. \A i \in 1..Len(L) : IsMatchingFilter(filter, L[i])
    BY <1>1, <1>7, <2>2 DEF Looked
  <2>10. Looked(filter, new, W, L)
    BY <1>1, <2>1, <2>2, <2>3, <2>5, <2>6, <2>8, <2>9 DEF Looked
  <2> QED BY <2>1, <2>10 DEF Searched, new
<1> QED BY <1>5, <1>6, <1>7

-----------------------------------------------------------------------------
(* The entries of a month.                                                 *)

Seen == [result : Seq(Nat), cursor : Nat, full : BOOLEAN]

LEMMA VisitType ==
  ASSUME NEW filter, FilterOK(filter), NEW acc \in Seen, NEW nr \in Nat
  PROVE  Visit(filter, acc, nr) \in Seen
<1>1. acc.result \in Seq(Nat) /\ acc.cursor \in Nat /\ acc.cursor + 1 \in Nat
  BY DEF Seen
<1>2. Append(acc.result, nr) \in Seq(Nat)
  BY <1>1
<1>3. \A r \in Seq(Nat), c \in Nat, b \in BOOLEAN : [result |-> r, cursor |-> c, full |-> b] \in Seen
  BY DEF Seen
<1>4. \A x : (~HasCapacityLeft(filter, x)) \in BOOLEAN
  BY DEF HasCapacityLeft
<1> QED BY <1>1, <1>2, <1>3, <1>4 DEF Visit

LEMMA EntriesSorted ==
  ASSUME NEW filter, NEW month, NEW n \in Nat
  PROVE  LET E == MonthEntries(month, n)
             nrs == Directed(filter, E) IN
         /\ nrs \in Seq(E) /\ Len(nrs) \in Nat /\ E \in SUBSET Nat
         /\ \A i \in 1..Len(nrs) : nrs[i] \in E /\ nrs[i] \in Nat
         /\ \A x \in E : \E i \in 1..Len(nrs) : nrs[i] = x
         /\ \A i, j \in 1..Len(nrs) : i < j => Precedes(filter, nrs[i], nrs[j])
<1> DEFINE E == MonthEntries(month, n)
<1>1. E \in SUBSET (1..n) /\ IsFiniteSet(1..n)
  BY FS_Interval DEF MonthEntries
<1>2. E \in SUBSET Nat /\ IsFiniteSet(E)
  BY <1>1, FS_Subset
<1> HIDE DEF E
<1>3. QED BY <1>2, DirectedSorts DEF E

VisitSteps(f, filter, acc, nrs) ==
  /\ f[0] = [acc EXCEPT !.full = FALSE]
  /\ \A i \in 1..Len(nrs) : f[i] = Visit(filter, f[i - 1], nrs[i])

LEMMA VisitMonthSteps ==
  ASSUME NEW filter, FilterOK(filter), NEW acc \in Seen, NEW month, NEW n \in Nat
  PROVE  LET nrs == Directed(filter, MonthEntries(month, n)) IN
         \E f : VisitSteps(f, filter, acc, nrs) /\ VisitMonth(filter, acc, month, n) = f[Len(nrs)]
<1> DEFINE nrs == Directed(filter, MonthEntries(month, n))
           start == [acc EXCEPT !.full = FALSE]
           After(f) == f = [i \in 0..Len(nrs) |->
                              IF i = 0 THEN start ELSE Visit(filter, f[i - 1], nrs[i])]
           A == CHOOSE f : After(f)
<1>1. Len(nrs) \in Nat /\ \A i \in 1..Len(nrs) : nrs[i] \in Nat
  BY EntriesSorted
<1>2. start \in Seen
  BY DEF Seen
<1>3. VisitMonth(filter, acc, month, n) = A[Len(nrs)]
  BY DEF VisitMonth, VisitAll
<1> HIDE DEF nrs, start
<1>4. \E f : After(f)
  <2> DEFINE g == [i \in 1..Len(nrs) |-> [a \in Seen |-> Visit(filter, a, nrs[i])]]
  <2>1. g \in [1..Len(nrs) -> [Seen -> Seen]]
    BY <1>1, VisitType
  <2>2. \A i \in 1..Len(nrs), a \in Seen : g[i][a] = Visit(filter, a, nrs[i])
    OBVIOUS
  <2> HIDE DEF g
  <2>3. PICK h \in [0..Len(nrs) -> Seen] : Loop(h, start, g, Len(nrs))
    BY <1>1, <1>2, <2>1, LoopExists
  <2>4. ASSUME NEW i \in 0..Len(nrs)
        PROVE  h[i] = IF i = 0 THEN start ELSE Visit(filter, h[i - 1], nrs[i])
    <3>1. CASE i # 0
      <4>1. i \in 1..Len(nrs) /\ h[i - 1] \in Seen
        BY <1>1, <3>1
      <4> QED BY <2>2, <2>3, <3>1, <4>1 DEF Loop
    <3> QED BY <2>3, <3>1 DEF Loop
  <2> QED BY <2>3, <2>4
<1>5. After(A)
  <2> HIDE DEF After
  <2> QED BY <1>4
<1> HIDE DEF A
<1>6. VisitSteps(A, filter, acc, nrs)
  <2>1. \A i \in 0..Len(nrs) : A[i] = IF i = 0 THEN start ELSE Visit(filter, A[i - 1], nrs[i])
    BY <1>5
  <2>2. 0 \in 0..Len(nrs) /\ \A i \in 1..Len(nrs) : i \in 0..Len(nrs) /\ i # 0
    BY <1>1
  <2> HIDE DEF After
  <2> QED BY <2>1, <2>2 DEF VisitSteps, start
<1> QED BY <1>3, <1>6 DEF nrs

LEMMA VisitMonthKeeps ==
  ASSUME NEW filter, FilterOK(filter), NEW acc \in Seen, NEW V \in SUBSET Nat,
         Searched(filter, acc, V), NEW month, NEW n \in Nat,
         \A v \in V, x \in MonthEntries(month, n) : Precedes(filter, v, x)
  PROVE  /\ VisitMonth(filter, acc, month, n) \in Seen
         /\ Searched(filter, VisitMonth(filter, acc, month, n), V \cup MonthEntries(month, n))
<1> DEFINE E == MonthEntries(month, n)
           nrs == Directed(filter, E)
           Upto(i) == V \cup {nrs[j] : j \in 1..i}
<1>1. /\ nrs \in Seq(E) /\ Len(nrs) \in Nat /\ E \in SUBSET Nat
      /\ \A i \in 1..Len(nrs) : nrs[i] \in E /\ nrs[i] \in Nat
      /\ \A x \in E : \E i \in 1..Len(nrs) : nrs[i] = x
      /\ \A i, j \in 1..Len(nrs) : i < j => Precedes(filter, nrs[i], nrs[j])
  BY EntriesSorted
<1>2. PICK f : VisitSteps(f, filter, acc, nrs) /\ VisitMonth(filter, acc, month, n) = f[Len(nrs)]
  BY VisitMonthSteps
<1> HIDE DEF nrs, E
<1>3. \A i \in 1..Len(nrs) : nrs[i] \in E /\ nrs[i] \in Nat
  BY <1>1
<1> DEFINE S == {i \in 0..Len(nrs) : f[i] \in Seen /\ Searched(filter, f[i], Upto(i))}
<1>4. 0 \in S
  <2>1. f[0] = [acc EXCEPT !.full = FALSE] /\ Upto(0) = V
    BY <1>2 DEF VisitSteps
  <2>2. f[0] \in Seen /\ f[0].result = acc.result /\ f[0].cursor = acc.cursor /\ ~f[0].full
    BY <2>1 DEF Seen
  <2>3. PICK K : Looked(filter, acc, V, K)
    BY DEF Searched
  <2>4. Enough(filter, f[0]) <=> Enough(filter, acc)
    BY <2>2 DEF Enough
  <2>5. Looked(filter, f[0], V, K)
    BY <2>2, <2>3, <2>4 DEF Looked
  <2>6. Searched(filter, f[0], Upto(0))
    BY <2>1, <2>5 DEF Searched
  <2> QED BY <1>1, <2>2, <2>6
<1>5. ASSUME NEW k \in 1..Len(nrs), k - 1 \in S PROVE k \in S
  <2>1. f[k] = Visit(filter, f[k - 1], nrs[k])
    BY <1>2 DEF VisitSteps
  <2>2. f[k - 1] \in Seen /\ Searched(filter, f[k - 1], Upto(k - 1)) /\ f[k - 1].full \in BOOLEAN
    BY <1>5 DEF Seen
  <2>3. Upto(k - 1) \in SUBSET Nat /\ Upto(k) = Upto(k - 1) \cup {nrs[k]}
    <3>1. \A j \in 1..k - 1 : j \in 1..Len(nrs)
      BY <1>1
    <3>2. \A j : j \in 1..k <=> j \in 1..k - 1 \/ j = k
      OBVIOUS
    <3> QED BY <1>3, <3>1, <3>2
  <2>4. \A v \in Upto(k - 1) : Precedes(filter, v, nrs[k])
    <3>1. ASSUME NEW j \in 1..k - 1 PROVE Precedes(filter, nrs[j], nrs[k])
      <4>1. j \in 1..Len(nrs) /\ j < k
        BY <1>1
      <4> QED BY <1>1, <4>1
    <3>2. \A v \in V : Precedes(filter, v, nrs[k])
      BY <1>3 DEF E
    <3> QED BY <3>1, <3>2
  <2>5. nrs[k] \in Nat
    BY <1>3
  <2> HIDE DEF Upto
  <2>6. f[k] \in Seen
    BY <2>1, <2>2, <2>5, VisitType
  <2>7. Searched(filter, f[k], Upto(k))
    BY <2>1, <2>2, <2>3, <2>4, <2>5, VisitOne
  <2>8. k \in 0..Len(nrs)
    BY <1>1
  <2> QED BY <2>6, <2>7, <2>8
<1> HIDE DEF S
<1>6. Len(nrs) \in S
  <2>1. 0..Len(nrs) \subseteq S
    BY <1>1, <1>4, <1>5, UpTo
  <2> QED BY <1>1, <2>1
<1>7. Upto(Len(nrs)) = V \cup E
  BY <1>1, <1>3
<1> HIDE DEF Upto
<1> QED BY <1>2, <1>6, <1>7 DEF S, E

-----------------------------------------------------------------------------
(* The whole search.                                                       *)

LEMMA MonthsSorted ==
  ASSUME NEW filter, NEW n \in 1..Len(Ledger)
  PROVE  LET months == Directed(filter, FilteredInterval(n)) IN
         /\ months \in Seq(Nat) /\ Len(months) \in Nat
         /\ \A i \in 1..Len(months) : months[i] \in Nat
         /\ \A nr \in 1..n : \E i \in 1..Len(months) : months[i] = Ledger[nr].month
         /\ \A i, j \in 1..Len(months) : i < j => Precedes(filter, months[i], months[j])
<1> DEFINE S == FilteredInterval(n)
           months == Directed(filter, S)
<1>1. /\ Len(Ledger) \in Nat
      /\ \A nr \in 1..Len(Ledger) : /\ Ledger[nr].month \in Nat
                                    /\ \A k \in 1..nr : Ledger[k].month <= Ledger[nr].month
  BY LedgerAssumption
<1>2. \A nr \in 1..n : nr \in 1..Len(Ledger) /\ 1 \in 1..nr /\ nr \in 1..n
  BY <1>1
<1>3. Ledger[1].month \in Nat /\ Ledger[n].month \in Nat /\ 1 \in 1..n
  BY <1>1, <1>2
<1>4. S \in SUBSET Nat /\ IsFiniteSet(S)
  <2>1. S = Ledger[1].month..Ledger[n].month
    BY DEF FilteredInterval, OldestYearMonth, NewestYearMonth
  <2>2. \A i, j \in Nat : i..j \in SUBSET Nat /\ IsFiniteSet(i..j)
    BY FS_Interval
  <2> QED BY <1>3, <2>1, <2>2
<1>5. \A nr \in 1..n : Ledger[nr].month \in S
  BY <1>1, <1>2 DEF FilteredInterval, OldestYearMonth, NewestYearMonth
<1> HIDE DEF S
<1>6. /\ months \in Seq(S) /\ Len(months) \in Nat
      /\ \A i \in 1..Len(months) : months[i] \in Nat
      /\ \A x \in S : \E i \in 1..Len(months) : months[i] = x
      /\ \A i, j \in 1..Len(months) : i < j => Precedes(filter, months[i], months[j])
  BY <1>4, DirectedSorts
<1> HIDE DEF months
<1>7. months \in Seq(Nat)
  BY <1>4, <1>6
<1> QED BY <1>5, <1>6, <1>7 DEF months, S

MonthSteps(f, filter, n) ==
  LET months == Directed(filter, FilteredInterval(n)) IN
  /\ f[0] = NothingFound
  /\ \A i \in 1..Len(months) : f[i] = VisitMonth(filter, f[i - 1], months[i], n)

LEMMA VisitMonthType ==
  ASSUME NEW filter, FilterOK(filter), NEW acc \in Seen, NEW month, NEW n \in Nat
  PROVE  VisitMonth(filter, acc, month, n) \in Seen
<1> DEFINE E == MonthEntries(month, n)
           nrs == Directed(filter, E)
<1>1. Len(nrs) \in Nat /\ \A i \in 1..Len(nrs) : nrs[i] \in Nat
  BY EntriesSorted
<1>2. PICK f : VisitSteps(f, filter, acc, nrs) /\ VisitMonth(filter, acc, month, n) = f[Len(nrs)]
  BY VisitMonthSteps
<1> HIDE DEF nrs
<1> DEFINE S == {i \in 0..Len(nrs) : f[i] \in Seen}
<1>3. 0 \in S
  <2>1. f[0] = [acc EXCEPT !.full = FALSE] /\ 0 \in 0..Len(nrs)
    BY <1>1, <1>2 DEF VisitSteps
  <2>2. [acc EXCEPT !.full = FALSE] \in Seen
    BY DEF Seen
  <2> QED BY <2>1, <2>2
<1>4. ASSUME NEW k \in 1..Len(nrs), k - 1 \in S PROVE k \in S
  BY <1>1, <1>2, <1>4, VisitType DEF VisitSteps
<1> HIDE DEF S
<1>5. 0..Len(nrs) \subseteq S
  BY <1>1, <1>3, <1>4, UpTo
<1> QED BY <1>1, <1>2, <1>5 DEF S

LEMMA FindSteps ==
  ASSUME NEW filter, FilterOK(filter), NEW n \in 1..Len(Ledger)
  PROVE  LET months == Directed(filter, FilteredInterval(n)) IN
         \E f : /\ MonthSteps(f, filter, n)
                /\ ~(filter.from > n) => FindTransactions(filter, n) = f[Len(months)].result
<1> DEFINE months == Directed(filter, FilteredInterval(n))
           After(f) == f = [i \in 0..Len(months) |->
                              IF i = 0 THEN NothingFound
                              ELSE VisitMonth(filter, f[i - 1], months[i], n)]
           A == CHOOSE f : After(f)
<1>1. Len(months) \in Nat /\ n \in Nat
  BY MonthsSorted, LedgerAssumption
<1>2. NothingFound \in Seen
  BY DEF Seen, NothingFound
<1>3. ~(filter.from > n) => FindTransactions(filter, n) = A[Len(months)].result
  BY DEF FindTransactions, VisitMonths
<1> HIDE DEF months
<1>4. \E f : After(f)
  <2> DEFINE g == [i \in 1..Len(months) |->
                     [a \in Seen |-> VisitMonth(filter, a, months[i], n)]]
  <2>1. g \in [1..Len(months) -> [Seen -> Seen]]
    BY <1>1, VisitMonthType
  <2>2. \A i \in 1..Len(months), a \in Seen : g[i][a] = VisitMonth(filter, a, months[i], n)
    OBVIOUS
  <2> HIDE DEF g
  <2>3. PICK h \in [0..Len(months) -> Seen] : Loop(h, NothingFound, g, Len(months))
    BY <1>1, <1>2, <2>1, LoopExists
  <2>4. ASSUME NEW i \in 0..Len(months)
        PROVE  h[i] = IF i = 0 THEN NothingFound ELSE VisitMonth(filter, h[i - 1], months[i], n)
    <3>1. CASE i # 0
      <4>1. i \in 1..Len(months) /\ h[i - 1] \in Seen
        BY <1>1, <3>1
      <4> QED BY <2>2, <2>3, <3>1, <4>1 DEF Loop
    <3> QED BY <2>3, <3>1 DEF Loop
  <2> QED BY <2>3, <2>4
<1>5. After(A)
  <2> HIDE DEF After
  <2> QED BY <1>4
<1> HIDE DEF A
<1>6. MonthSteps(A, filter, n)
  <2>1. \A i \in 0..Len(months) :
          A[i] = IF i = 0 THEN NothingFound ELSE VisitMonth(filter, A[i - 1], months[i], n)
    BY <1>5
  <2>2. 0 \in 0..Len(months) /\ \A i \in 1..Len(months) : i \in 0..Len(months) /\ i # 0
    BY <1>1
  <2> HIDE DEF After
  <2> QED BY <2>1, <2>2 DEF MonthSteps, months
<1> QED BY <1>3, <1>6 DEF months

(* Months come in the order of their entries.                              *)
LEMMA MonthsInOrder ==
  ASSUME NEW filter, NEW x \in 1..Len(Ledger), NEW y \in 1..Len(Ledger),
         Precedes(filter, Ledger[x].month, Ledger[y].month)
  PROVE  Precedes(filter, x, y)
<1>1. /\ Len(Ledger) \in Nat
      /\ Ledger[x].month \in Nat /\ Ledger[y].month \in Nat
      /\ x <= y => Ledger[x].month <= Ledger[y].month
      /\ y <= x => Ledger[y].month <= Ledger[x].month
  BY LedgerAssumption
<1>2. CASE filter.dir = "DESC"
  BY <1>1, <1>2 DEF Precedes
<1>3. CASE filter.dir # "DESC"
  BY <1>1, <1>3 DEF Precedes
<1> QED BY <1>2, <1>3

LEMMA FindSearches ==
  ASSUME NEW filter, FilterOK(filter), NEW n \in 1..Len(Ledger), ~(filter.from > n)
  PROVE  \E acc \in Seen : /\ FindTransactions(filter, n) = acc.result
                           /\ Searched(filter, acc, 1..n)
<1> DEFINE months == Directed(filter, FilteredInterval(n))
           Upto(i) == {nr \in 1..n : \E j \in 1..i : Ledger[nr].month = months[j]}
<1>1. PICK f : MonthSteps(f, filter, n) /\ FindTransactions(filter, n) = f[Len(months)].result
  BY FindSteps
<1>2. /\ Len(months) \in Nat
      /\ \A i \in 1..Len(months) : months[i] \in Nat
      /\ \A nr \in 1..n : \E i \in 1..Len(months) : months[i] = Ledger[nr].month
      /\ \A i, j \in 1..Len(months) : i < j => Precedes(filter, months[i], months[j])
  BY MonthsSorted
<1>3. f[0] = NothingFound
      /\ \A i \in 1..Len(months) : f[i] = VisitMonth(filter, f[i - 1], months[i], n)
  BY <1>1 DEF MonthSteps
<1> HIDE DEF months
<1>4. n \in Nat /\ \A nr \in 1..n : nr \in Nat /\ nr \in 1..Len(Ledger)
  BY LedgerAssumption
<1> DEFINE S == {i \in 0..Len(months) : f[i] \in Seen /\ Searched(filter, f[i], Upto(i))}
<1>5. 0 \in S
  <2>1. f[0] \in Seen /\ f[0].cursor = 0 /\ f[0].result = <<>> /\ ~f[0].full
    BY <1>3 DEF NothingFound, Seen
  <2>2. Upto(0) = {} /\ SkipEntriesCount(filter) \in Nat
    BY SkipIsNumber
  <2>3. << >> \in Seq({}) /\ Len(<< >>) = 0
    OBVIOUS
  <2>4. Looked(filter, f[0], {}, <<>>)
    BY <2>1, <2>2, <2>3 DEF Looked, Ascends
  <2> HIDE DEF Upto
  <2>5. Searched(filter, f[0], Upto(0))
    BY <2>2, <2>4 DEF Searched
  <2> QED BY <1>2, <2>1, <2>5
<1>6. ASSUME NEW k \in 1..Len(months), k - 1 \in S PROVE k \in S
  <2> DEFINE E == MonthEntries(months[k], n)
  <2>1. f[k - 1] \in Seen /\ Searched(filter, f[k - 1], Upto(k - 1))
        /\ f[k] = VisitMonth(filter, f[k - 1], months[k], n)
    BY <1>3, <1>6
  <2>2. \A j : j \in 1..k <=> j \in 1..k - 1 \/ j = k
    OBVIOUS
  <2>3. Upto(k) = Upto(k - 1) \cup E
    BY <2>2 DEF MonthEntries
  <2>4. ASSUME NEW v \in Upto(k - 1), NEW x \in E PROVE Precedes(filter, v, x)
    <3>1. PICK j \in 1..k - 1 : Ledger[v].month = months[j]
      OBVIOUS
    <3>2. j \in 1..Len(months) /\ j < k
      BY <1>2
    <3>3. Precedes(filter, Ledger[v].month, Ledger[x].month)
      BY <1>2, <3>1, <3>2 DEF MonthEntries
    <3>4. v \in 1..Len(Ledger) /\ x \in 1..Len(Ledger)
      BY <1>4 DEF MonthEntries
    <3> QED BY <3>3, <3>4, MonthsInOrder
  <2>5. Upto(k - 1) \in SUBSET Nat /\ k \in 0..Len(months)
    BY <1>2, <1>4
  <2> HIDE DEF Upto, E
  <2>6. f[k] \in Seen /\ Searched(filter, f[k], Upto(k - 1) \cup E)
    <3>1. \A v \in Upto(k - 1), x \in MonthEntries(months[k], n) : Precedes(filter, v, x)
      BY <2>4 DEF E
    <3>2. f[k - 1] \in Seen /\ Searched(filter, f[k - 1], Upto(k - 1))
      BY <2>1
    <3>3. /\ VisitMonth(filter, f[k - 1], months[k], n) \in Seen
          /\ Searched(filter, VisitMonth(filter, f[k - 1], months[k], n),
                      Upto(k - 1) \cup MonthEntries(months[k], n))
      BY <1>4, <2>5, <3>1, <3>2, VisitMonthKeeps
    <3> QED BY <2>1, <3>3 DEF E
  <2> QED BY <2>3, <2>5, <2>6
<1> HIDE DEF S
<1>7. Len(months) \in S
  <2>1. 0..Len(months) \subseteq S
    BY <1>2, <1>5, <1>6, UpTo
  <2> QED BY <1>2, <2>1
<1>8. Upto(Len(months)) = 1..n
  BY <1>2
<1> HIDE DEF Upto
<1> QED BY <1>1, <1>7, <1>8 DEF S

-----------------------------------------------------------------------------
(***************************************************************************)
(* What it looked at are the first of all matching entries, as far as the  *)
(* end of the page, or all if the page is not full.                        *)
(***************************************************************************)
LEMMA MatchingSorted ==
  ASSUME NEW filter, NEW n \in Nat
  PROVE  LET s == MatchingNrs(filter, n) IN
         /\ s \in Seq(1..n) /\ Len(s) \in Nat /\ Len(s) <= n
         /\ \A i \in 1..Len(s) : s[i] \in 1..n /\ s[i] \in Nat /\ Wanted(filter, s[i])
         /\ \A x \in 1..n : Wanted(filter, x) => \E i \in 1..Len(s) : s[i] = x
         /\ Ascends(filter, s)
<1> DEFINE W == {nr \in 1..n : Wanted(filter, nr)}
           s == Directed(filter, W)
<1>1. W \in SUBSET Nat /\ IsFiniteSet(W) /\ Cardinality(W) <= n
  <2>1. /\ W \in SUBSET (1..n) /\ W \in SUBSET Nat
        /\ IsFiniteSet(1..n) /\ Cardinality(1..n) = n
    BY FS_Interval
  <2> HIDE DEF W
  <2> QED BY <2>1, FS_Subset
<1>2. W \in SUBSET (1..n) /\ \A x \in W : Wanted(filter, x)
  OBVIOUS
<1>3. \A x \in 1..n : Wanted(filter, x) => x \in W
  OBVIOUS
<1> HIDE DEF W
<1>4. /\ s \in Seq(W) /\ Len(s) \in Nat /\ Len(s) = Cardinality(W)
      /\ \A i \in 1..Len(s) : s[i] \in W /\ s[i] \in Nat
      /\ \A x \in W : \E i \in 1..Len(s) : s[i] = x
      /\ \A i, j \in 1..Len(s) : i < j => Precedes(filter, s[i], s[j])
  BY <1>1, DirectedSorts
<1>5. s = MatchingNrs(filter, n)
  BY DEF MatchingNrs, W
<1> HIDE DEF s
<1>6. s \in Seq(1..n)
  BY <1>2, <1>4
<1> QED BY <1>1, <1>2, <1>3, <1>4, <1>5, <1>6 DEF Ascends

LEMMA WantedIsMatching ==
  ASSUME NEW filter, FilterOK(filter), NEW nr \in Nat
  PROVE  IsMatchingFilter(filter, nr) <=> Wanted(filter, nr)
BY DEF IsMatchingFilter, Wanted, FilterOK

LEMMA LookedIsPrefix ==
  ASSUME NEW filter, FilterOK(filter), NEW n \in Nat, NEW acc, NEW K,
         Looked(filter, acc, 1..n, K)
  PROVE  LET s == MatchingNrs(filter, n)
             last == SkipEntriesCount(filter) + filter.size IN
         /\ \A k \in 1..Len(K) : (Enough(filter, acc) => k <= last) => k \in 1..Len(s) /\ K[k] = s[k]
         /\ ~Enough(filter, acc) => Len(K) = Len(s)
<1> DEFINE s == MatchingNrs(filter, n)
           last == SkipEntriesCount(filter) + filter.size
           InPage(k) == Enough(filter, acc) => k <= last
           Bad == {k \in 1..Len(K) : InPage(k) /\ ~(k \in 1..Len(s) /\ K[k] = s[k])}
<1>1. /\ Len(s) \in Nat
      /\ \A i \in 1..Len(s) : s[i] \in 1..n /\ s[i] \in Nat /\ Wanted(filter, s[i])
      /\ \A x \in 1..n : Wanted(filter, x) => \E i \in 1..Len(s) : s[i] = x
      /\ \A i, j \in 1..Len(s) : i < j => Precedes(filter, s[i], s[j])
  BY MatchingSorted DEF Ascends
<1>2. /\ K \in Seq(1..n)
      /\ \A i, j \in 1..Len(K) : i < j => Precedes(filter, K[i], K[j])
      /\ \A i \in 1..Len(K) : IsMatchingFilter(filter, K[i])
      /\ \A x \in 1..n : IsMatchingFilter(filter, x) =>
           \/ \E i \in 1..Len(K) : K[i] = x
           \/ Enough(filter, acc) /\ Precedes(filter, K[last], x)
      /\ Enough(filter, acc) => last \in 1..Len(K)
  <2>1. SkipEntriesCount(filter) \in Nat /\ filter.size \in Nat
    BY SkipIsNumber DEF FilterOK
  <2>2. Len(K) \in Nat
    BY DEF Looked
  <2>3. Enough(filter, acc) => last \in 1..Len(K)
    <3>1. Len(acc.result) = IF Len(K) <= SkipEntriesCount(filter) THEN 0
                            ELSE Len(K) - SkipEntriesCount(filter)
      BY DEF Looked
    <3> QED BY <2>1, <2>2, <3>1 DEF Enough
  <2>4. K \in Seq(1..n) /\ \A i, j \in 1..Len(K) : i < j => Precedes(filter, K[i], K[j])
    BY DEF Looked, Ascends
  <2> HIDE DEF last
  <2>5. \A i \in 1..Len(K) : IsMatchingFilter(filter, K[i])
    BY DEF Looked
  <2>6. \A x \in 1..n : IsMatchingFilter(filter, x) =>
           \/ \E i \in 1..Len(K) : K[i] = x
           \/ Enough(filter, acc) /\ Precedes(filter, K[last], x)
    BY DEF Looked, last
  <2> QED BY <2>3, <2>4, <2>5, <2>6
<1>3. /\ last \in Nat /\ Len(K) \in Nat /\ n \in Nat
      /\ \A i \in 1..Len(K) : K[i] \in 1..n /\ K[i] \in Nat /\ Wanted(filter, K[i])
  <2>1. SkipEntriesCount(filter) \in Nat /\ filter.size \in Nat
    BY SkipIsNumber DEF FilterOK
  <2>2. \A i \in 1..Len(K) : K[i] \in 1..n /\ K[i] \in Nat
    BY <1>2
  <2> QED BY <1>2, <2>1, <2>2, WantedIsMatching
<1> HIDE DEF s, last
<1>4. \A x, y, z \in Nat : /\ ~Precedes(filter, x, x)
                           /\ Precedes(filter, x, y) /\ Precedes(filter, y, z) => Precedes(filter, x, z)
  BY PrecedesIsOrder
<1>5. ASSUME Bad # {} PROVE FALSE
  <2>1. PICK k \in Bad : \A i \in Bad : k <= i
    <3>1. Bad \in SUBSET Nat
      BY <1>3
    <3> HIDE DEF Bad
    <3> QED BY <1>5, <3>1, SmallestMember
  <2>2. k \in 1..Len(K) /\ InPage(k) /\ ~(k \in 1..Len(s) /\ K[k] = s[k])
    OBVIOUS
  <2>3. ASSUME NEW i \in 1..Len(K), i < k PROVE i \in 1..Len(s) /\ K[i] = s[i]
    <3>1. InPage(i)
      BY <1>3, <2>2, <2>3
    <3>2. i \notin Bad
      BY <1>3, <2>1, <2>2, <2>3
    <3> QED BY <3>1, <3>2
  <2> HIDE DEF Bad
  <2>4. PICK j \in 1..Len(s) : s[j] = K[k]
    BY <1>1, <1>3, <2>2
  <2>5. ~(j < k)
    <3> SUFFICES ASSUME j < k PROVE FALSE
      OBVIOUS
    <3>1. j \in 1..Len(K) /\ K[j] = s[j]
      BY <1>1, <1>3, <2>2, <2>3
    <3>2. Precedes(filter, K[j], K[k])
      BY <1>2, <2>2, <3>1
    <3> QED BY <1>3, <1>4, <2>2, <2>4, <3>1, <3>2
  <2>6. k \in 1..Len(s) /\ k < j
    BY <1>1, <1>3, <2>2, <2>4, <2>5
  <2>7. Precedes(filter, s[k], K[k]) /\ s[k] \in Nat /\ K[k] \in Nat
    BY <1>1, <1>3, <2>2, <2>4, <2>6
  <2>8. IsMatchingFilter(filter, s[k]) /\ s[k] \in 1..n
    BY <1>1, <2>6, WantedIsMatching
  <2>9. ASSUME NEW i \in 1..Len(K), K[i] = s[k] PROVE FALSE
    <3>1. CASE i < k
      <4>1. i \in 1..Len(s) /\ K[i] = s[i]
        BY <2>3, <3>1
      <4>2. Precedes(filter, s[i], s[k])
        BY <1>1, <2>6, <3>1, <4>1
      <4> QED BY <1>4, <2>7, <2>9, <4>1, <4>2
    <3>2. CASE i = k
      BY <1>4, <2>7, <2>9, <3>2
    <3>3. CASE k < i
      <4>1. Precedes(filter, K[k], s[k])
        BY <1>2, <2>2, <2>9, <3>3
      <4> QED BY <1>4, <2>7, <4>1
    <3> QED BY <1>3, <2>2, <3>1, <3>2, <3>3
  <2>10. Enough(filter, acc) /\ Precedes(filter, K[last], s[k])
    BY <1>2, <2>8, <2>9
  <2>11. last \in 1..Len(K) /\ k <= last /\ K[last] \in Nat
    BY <1>2, <1>3, <2>2, <2>10
  <2>12. Precedes(filter, K[last], K[k])
    BY <1>4, <2>7, <2>10, <2>11
  <2>13. k = last \/ Precedes(filter, K[k], K[last])
    BY <1>2, <1>3, <2>2, <2>11
  <2> QED BY <1>4, <2>7, <2>11, <2>12, <2>13
<1>6. \A k \in 1..Len(K) : InPage(k) => k \in 1..Len(s) /\ K[k] = s[k]
  BY <1>5
<1>7. ASSUME ~Enough(filter, acc) PROVE Len(K) = Len(s)
  <2>1. Len(K) <= Len(s)
    <3>1. CASE Len(K) = 0
      BY <1>1, <3>1
    <3>2. CASE Len(K) # 0
      <4>1. Len(K) \in 1..Len(K)
        BY <1>3, <3>2
      <4> QED BY <1>1, <1>6, <1>7, <4>1
    <3> QED BY <3>1, <3>2
  <2>2. ASSUME Len(K) < Len(s) PROVE FALSE
    <3> DEFINE m == Len(K) + 1
    <3>1. m \in 1..Len(s)
      BY <1>1, <1>3, <2>2
    <3>2. s[m] \in 1..n /\ s[m] \in Nat /\ IsMatchingFilter(filter, s[m])
      BY <1>1, <3>1, WantedIsMatching
    <3>3. PICK i \in 1..Len(K) : K[i] = s[m]
      BY <1>2, <1>7, <3>2
    <3>4. i \in 1..Len(s) /\ K[i] = s[i] /\ i < m
      BY <1>3, <1>6, <1>7
    <3>5. Precedes(filter, s[i], s[m])
      BY <1>1, <3>1, <3>4
    <3> QED BY <1>4, <3>2, <3>3, <3>4, <3>5
  <2> QED BY <1>1, <1>3, <2>1, <2>2
<1> QED BY <1>6, <1>7 DEF s, last

-----------------------------------------------------------------------------
(* findAll without a filter function takes the page from what was found.   *)

Kept == [result : Seq(Nat), stopped : BOOLEAN]

KeepSteps(f, filter, found) ==
  /\ f[0] = [result |-> <<>>, stopped |-> FALSE]
  /\ \A i \in 1..Len(found) : f[i] = Keep(filter, f[i - 1], found[i])

LEMMA KeepType ==
  ASSUME NEW filter, NEW acc \in Kept, NEW nr \in Nat
  PROVE  Keep(filter, acc, nr) \in Kept
<1>1. acc.result \in Seq(Nat) /\ Append(acc.result, nr) \in Seq(Nat)
  BY DEF Kept
<1>2. Stop(filter, nr) \in BOOLEAN
  BY DEF Stop
<1>3. \A r \in Seq(Nat), b \in BOOLEAN : [result |-> r, stopped |-> b] \in Kept
  BY DEF Kept
<1> QED BY <1>1, <1>2, <1>3 DEF Keep

LEMMA FindAllSteps ==
  ASSUME NEW filter, NEW n, IterateBlocks(filter, n) \in Seq(Nat)
  PROVE  LET found == IterateBlocks(filter, n) IN
         \E f : KeepSteps(f, filter, found) /\ FindAll(filter, n) = f[Len(found)].result
<1> DEFINE found == IterateBlocks(filter, n)
           start == [result |-> <<>>, stopped |-> FALSE]
           After(f) == f = [i \in 0..Len(found) |->
                              IF i = 0 THEN start ELSE Keep(filter, f[i - 1], found[i])]
           A == CHOOSE f : After(f)
<1>1. FindAll(filter, n) = A[Len(found)].result
  BY DEF FindAll, KeepAll
<1> HIDE DEF found
<1>2. found \in Seq(Nat)
  BY DEF found
<1>3. Len(found) \in Nat /\ \A i \in 1..Len(found) : found[i] \in Nat
  BY <1>2
<1>4. start \in Kept
  BY DEF Kept
<1> HIDE DEF start
<1>5. \E f : After(f)
  <2> DEFINE g == [i \in 1..Len(found) |-> [a \in Kept |-> Keep(filter, a, found[i])]]
  <2>1. g \in [1..Len(found) -> [Kept -> Kept]]
    BY <1>3, KeepType
  <2>2. \A i \in 1..Len(found), a \in Kept : g[i][a] = Keep(filter, a, found[i])
    OBVIOUS
  <2> HIDE DEF g
  <2>3. PICK h \in [0..Len(found) -> Kept] : Loop(h, start, g, Len(found))
    BY <1>3, <1>4, <2>1, LoopExists
  <2>4. ASSUME NEW i \in 0..Len(found)
        PROVE  h[i] = IF i = 0 THEN start ELSE Keep(filter, h[i - 1], found[i])
    <3>1. CASE i # 0
      <4>1. i \in 1..Len(found) /\ i - 1 \in 0..Len(found)
        BY <1>3, <3>1
      <4>2. h[i - 1] \in Kept
        BY <4>1
      <4> QED BY <2>2, <2>3, <3>1, <4>1, <4>2 DEF Loop
    <3> QED BY <2>3, <3>1 DEF Loop
  <2> QED BY <2>3, <2>4
<1>6. After(A)
  <2> HIDE DEF After
  <2> QED BY <1>5
<1> HIDE DEF A
<1>7. KeepSteps(A, filter, found)
  <2>1. \A i \in 0..Len(found) : A[i] = IF i = 0 THEN start ELSE Keep(filter, A[i - 1], found[i])
    BY <1>6
  <2>2. 0 \in 0..Len(found) /\ \A i \in 1..Len(found) : i \in 0..Len(found) /\ i # 0
    BY <1>3
  <2> HIDE DEF After
  <2> QED BY <2>1, <2>2 DEF KeepSteps, start
<1> QED BY <1>1, <1>7 DEF found

(* The first of a sequence, up to the size of a page.                      *)
Limit(filter, l) == IF filter.size # 0 /\ filter.size < l THEN filter.size ELSE l

LEMMA FindAllLimits ==
  ASSUME NEW filter, filter.size \in Nat, filter.function = "none",
         NEW n, NEW N, IterateBlocks(filter, n) \in Seq(N), N \in SUBSET Nat
  PROVE  LET found == IterateBlocks(filter, n) IN
         /\ FindAll(filter, n) \in Seq(N)
         /\ Len(FindAll(filter, n)) = Limit(filter, Len(found))
         /\ \A k \in 1..Len(FindAll(filter, n)) : FindAll(filter, n)[k] = found[k]
<1> DEFINE found == IterateBlocks(filter, n)
           all == FindAll(filter, n)
<1>1. found \in Seq(Nat)
  BY SeqMonotonic
<1>2. PICK f : KeepSteps(f, filter, found) /\ all = f[Len(found)].result
  BY <1>1, FindAllSteps
<1> HIDE DEF found, all
<1>3. Len(found) \in Nat /\ found \in Seq(N) /\ \A i \in 1..Len(found) : found[i] \in N
  BY <1>1 DEF found
<1> DEFINE Good(a, i) == /\ ~a.stopped /\ a.result \in Seq(N)
                         /\ Len(a.result) = Limit(filter, i)
                         /\ \A k \in 1..Len(a.result) : a.result[k] = found[k]
           S == {i \in 0..Len(found) : Good(f[i], i)}
<1>4. 0 \in S
  <2>1. f[0] = [result |-> <<>>, stopped |-> FALSE] /\ 0 \in 0..Len(found)
    BY <1>2, <1>3 DEF KeepSteps
  <2>2. <<>> \in Seq(N) /\ Len(<<>>) = 0 /\ Limit(filter, 0) = 0
    BY DEF Limit
  <2>3. f[0].result = <<>> /\ ~f[0].stopped
    BY <2>1
  <2>4. Good(f[0], 0)
    BY <2>2, <2>3
  <2> QED BY <2>1, <2>4
<1>5. ASSUME NEW i \in 1..Len(found), i - 1 \in S PROVE i \in S
  <2> DEFINE a == f[i - 1]
  <2>1. Good(a, i - 1) /\ f[i] = Keep(filter, a, found[i])
    BY <1>2, <1>5 DEF KeepSteps
  <2> HIDE DEF a
  <2>2. Use(filter, found[i]) /\ ~Stop(filter, found[i])
    BY DEF Use, Stop
  <2>3. Len(a.result) \in Nat /\ i \in 0..Len(found) /\ found[i] \in N
    BY <1>3, <2>1
  <2>4. CASE ~HasCapacityLeft(filter, Len(a.result))
    <3>1. f[i] = a
      BY <2>1, <2>4 DEF Keep
    <3>2. Limit(filter, i) = Limit(filter, i - 1)
      BY <2>1, <2>3, <2>4 DEF Limit, HasCapacityLeft
    <3>3. Good(f[i], i)
      BY <2>1, <3>1, <3>2
    <3> QED BY <2>3, <3>3
  <2>5. CASE HasCapacityLeft(filter, Len(a.result))
    <3> DEFINE r == Append(a.result, found[i])
    <3>1. f[i].result = r /\ ~f[i].stopped
      BY <2>1, <2>2, <2>5 DEF Keep
    <3>2. Len(a.result) = i - 1 /\ Limit(filter, i) = i
      BY <2>1, <2>3, <2>5 DEF Limit, HasCapacityLeft
    <3>3. r \in Seq(N) /\ Len(r) = i /\ r[i] = found[i]
          /\ \A k \in 1..i - 1 : r[k] = a.result[k]
      BY <2>1, <2>3, <3>2
    <3> HIDE DEF r
    <3>4. \A k \in 1..i : r[k] = found[k]
      <4>1. \A k \in 1..i : k \in 1..i - 1 \/ k = i
        BY <2>3
      <4> QED BY <2>1, <3>2, <3>3, <4>1
    <3>5. Good(f[i], i)
      BY <3>1, <3>2, <3>3, <3>4
    <3> QED BY <2>3, <3>5
  <2> QED BY <2>4, <2>5
<1> HIDE DEF S
<1>6. Len(found) \in S
  <2>1. 0..Len(found) \subseteq S
    BY <1>3, <1>4, <1>5, UpTo
  <2> QED BY <1>3, <2>1
<1> QED BY <1>2, <1>6 DEF S, found, all

-----------------------------------------------------------------------------
(* What a search finds is the page of all matching entries.                *)

Behind(s, skip) == IF Len(s) <= skip THEN 0 ELSE Len(s) - skip

LEMMA FoundIsPage ==
  ASSUME NEW filter, FilterOK(filter), NEW n \in 0..Len(Ledger)
  PROVE  LET found == IterateBlocks(filter, n)
             s == MatchingNrs(filter, n)
             skip == SkipEntriesCount(filter) IN
         /\ found \in Seq(1..n)
         /\ Limit(filter, Len(found)) = Limit(filter, Behind(s, skip))
         /\ \A k \in 1..Limit(filter, Len(found)) : found[k] = s[skip + k]
<1> DEFINE found == IterateBlocks(filter, n)
           s == MatchingNrs(filter, n)
           skip == SkipEntriesCount(filter)
<1>1. n \in Nat /\ skip \in Nat /\ filter.size \in Nat /\ filter.from \in Nat
  BY LedgerAssumption, SkipIsNumber DEF FilterOK
<1>2. Len(s) \in Nat /\ \A i \in 1..Len(s) : s[i] \in 1..n /\ Wanted(filter, s[i])
  BY <1>1, MatchingSorted
<1>3. CASE n = 0 \/ filter.from > n
  <2>1. found = <<>>
    BY <1>3 DEF IterateBlocks, TransactionsCount, FindTransactions
  <2>2. Len(s) = 0
    <3> SUFFICES ASSUME Len(s) # 0 PROVE FALSE
      OBVIOUS
    <3>1. 1 \in 1..Len(s)
      BY <1>2
    <3>2. s[1] \in 1..n /\ filter.from <= s[1]
      BY <1>2, <3>1 DEF Wanted
    <3> QED BY <1>1, <1>3, <3>2
  <2> HIDE DEF s, found, skip
  <2>3. Limit(filter, 0) = 0 /\ Behind(s, skip) = 0
    BY <1>1, <2>2 DEF Limit, Behind
  <2>4. Len(<<>>) = 0 /\ <<>> \in Seq(1..n)
    OBVIOUS
  <2>5. found \in Seq(1..n) /\ Limit(filter, Len(found)) = 0 /\ Limit(filter, Behind(s, skip)) = 0
    BY <2>1, <2>3, <2>4
  <2> QED BY <2>5 DEF s, found, skip
<1>4. CASE n # 0 /\ ~(filter.from > n)
  <2>1. n \in 1..Len(Ledger) /\ found = FindTransactions(filter, n)
    BY <1>1, <1>4 DEF IterateBlocks, TransactionsCount
  <2>2. PICK acc \in Seen : found = acc.result /\ Searched(filter, acc, 1..n)
    BY <1>4, <2>1, FindSearches
  <2>3. PICK K : Looked(filter, acc, 1..n, K)
    BY <2>2 DEF Searched
  <2> HIDE DEF s, found, skip
  <2>4. /\ \A k \in 1..Len(K) : (Enough(filter, acc) => k <= skip + filter.size) =>
             k \in 1..Len(s) /\ K[k] = s[k]
        /\ ~Enough(filter, acc) => Len(K) = Len(s)
    BY <1>1, <2>3, LookedIsPrefix DEF s, skip
  <2>5. /\ found \in Seq(1..n) /\ Len(K) \in Nat
        /\ Len(found) = IF Len(K) <= skip THEN 0 ELSE Len(K) - skip
        /\ \A i \in 1..Len(found) : found[i] = K[skip + i]
    BY <2>2, <2>3 DEF Looked, skip
  <2>6. Enough(filter, acc) <=> filter.size # 0 /\ Len(found) >= filter.size
    BY <2>2 DEF Enough
  <2>7. Len(found) \in Nat
    BY <2>5
  <2>8. CASE ~Enough(filter, acc)
    <3>1. Len(K) = Len(s) /\ Limit(filter, Len(found)) = Len(found) /\ Len(found) = Behind(s, skip)
      BY <1>1, <2>4, <2>5, <2>6, <2>7, <2>8 DEF Limit, Behind
    <3>2. \A k \in 1..Len(found) : skip + k \in 1..Len(K)
      BY <1>1, <2>5
    <3>3. \A k \in 1..Len(found) : found[k] = s[skip + k]
      BY <2>4, <2>5, <2>8, <3>2
    <3> QED BY <2>5, <3>1, <3>3 DEF s, found, skip
  <2>9. CASE Enough(filter, acc)
    <3>1. filter.size # 0 /\ Len(found) >= filter.size /\ Limit(filter, Len(found)) = filter.size
      BY <1>1, <2>6, <2>7, <2>9 DEF Limit
    <3>2. \A k \in 1..filter.size : k \in 1..Len(found) /\ skip + k \in 1..Len(K)
                                    /\ skip + k <= skip + filter.size
      <4>1. Len(K) - skip >= filter.size
        BY <1>1, <2>5, <3>1
      <4>2. skip \in Nat /\ Len(K) \in Nat /\ filter.size \in Nat
        BY <1>1, <2>5
      <4>3. \A k \in 1..filter.size : skip + k \in 1..Len(K) /\ skip + k <= skip + filter.size
        BY <4>1, <4>2
      <4>4. \A k \in 1..filter.size : k \in 1..Len(found)
        BY <2>7, <3>1, <4>2
      <4> QED BY <4>3, <4>4
    <3>3. \A k \in 1..filter.size : found[k] = s[skip + k] /\ skip + k \in 1..Len(s)
      BY <2>4, <2>5, <3>2
    <3>4. skip + filter.size <= Len(s)
      <4>1. filter.size \in 1..filter.size
        BY <1>1, <3>1
      <4> QED BY <1>2, <3>3, <4>1 DEF s
    <3>5. Limit(filter, Behind(s, skip)) = filter.size
      BY <1>1, <1>2, <3>1, <3>4 DEF Limit, Behind, s
    <3> QED BY <2>5, <3>1, <3>3, <3>5 DEF s, found, skip
  <2> QED BY <2>8, <2>9
<1> QED BY <1>1, <1>3, <1>4

LEMMA MinOfTwo ==
  ASSUME NEW a \in Int, NEW b \in Int
  PROVE  Min({a, b}) = IF a <= b THEN a ELSE b
<1> DEFINE m == IF a <= b THEN a ELSE b
<1>1. m \in {a, b} /\ \A y \in {a, b} : m <= y
  OBVIOUS
<1>2. \A x \in {a, b} : (\A y \in {a, b} : x <= y) => x = m
  OBVIOUS
<1> HIDE DEF m
<1>3. Min({a, b}) \in {a, b} /\ \A y \in {a, b} : Min({a, b}) <= y
  BY <1>1 DEF Min
<1>4. Min({a, b}) = m
  BY <1>2, <1>3
<1> QED BY <1>4 DEF m

LEMMA PageIsBehind ==
  ASSUME NEW filter, FilterOK(filter), NEW N, NEW s \in Seq(N)
  PROVE  LET skip == SkipEntriesCount(filter) IN
         /\ PageOf(filter, s) \in Seq(N)
         /\ Len(PageOf(filter, s)) = Limit(filter, Behind(s, skip))
         /\ \A k \in 1..Len(PageOf(filter, s)) : PageOf(filter, s)[k] = s[skip + k]
<1> DEFINE skip == SkipEntriesCount(filter)
<1>1. Len(s) \in Nat /\ filter.size \in Nat /\ filter.page \in Nat
  BY DEF FilterOK
<1>2. CASE filter.size = 0
  <2>1. skip = 0
    <3>1. \A x \in Int : x * 0 = 0
      OBVIOUS
    <3>2. filter.page - 1 \in Int
      BY <1>1
    <3>3. (filter.page - 1) * filter.size = 0
      BY <1>2, <3>1, <3>2
    <3> QED BY <3>3 DEF SkipEntriesCount
  <2>2. PageOf(filter, s) = s
    BY <1>2 DEF PageOf
  <2> HIDE DEF skip
  <2>3. Limit(filter, Behind(s, skip)) = Len(s)
    BY <1>1, <1>2, <2>1 DEF Limit, Behind
  <2>4. \A k \in 1..Len(s) : skip + k = k
    BY <2>1
  <2> QED BY <2>2, <2>3, <2>4 DEF skip
<1>3. CASE filter.size # 0
  <2> DEFINE page == IF filter.page = 0 THEN 1 ELSE filter.page
             end == page * filter.size
             to == Min({Len(s), end})
  <2>1. skip = (page - 1) * filter.size /\ page >= 1 /\ page \in Nat
    <3>1. CASE filter.page = 0
      <4>1. skip = 0 /\ page - 1 = 0 /\ page = 1
        BY <3>1 DEF SkipEntriesCount
      <4>2. 0 * filter.size = 0
        BY <1>1
      <4> QED BY <4>1, <4>2
    <3>2. CASE filter.page # 0
      BY <1>1, <1>3, <3>2 DEF SkipEntriesCount
    <3> QED BY <3>1, <3>2
  <2>2. skip \in Nat /\ end \in Nat /\ end = skip + filter.size
    <3>1. skip \in Nat
      BY SkipIsNumber
    <3>2. \A p, z \in Nat : p >= 1 => p * z \in Nat /\ p * z = (p - 1) * z + z
      OBVIOUS
    <3> QED BY <1>1, <2>1, <3>1, <3>2
  <2>3. PageOf(filter, s) = SubSeq(s, skip + 1, to)
    BY <1>3, <2>1 DEF PageOf
  <2> HIDE DEF skip, end, page
  <2>4. to = IF Len(s) <= end THEN Len(s) ELSE end
    BY <1>1, <2>2, MinOfTwo
  <2> HIDE DEF to
  <2>5. to \in Nat /\ to <= Len(s)
    BY <1>1, <2>2, <2>4
  <2>6. \A i \in skip + 1..to : s[i] \in N
    <3>1. \A i \in skip + 1..to : i \in 1..Len(s)
      BY <1>1, <2>2, <2>5
    <3> QED BY <3>1
  <2>7. /\ SubSeq(s, skip + 1, to) \in Seq(N)
        /\ Len(SubSeq(s, skip + 1, to)) = IF skip + 1 <= to THEN to - (skip + 1) + 1 ELSE 0
        /\ \A i \in 1..to - (skip + 1) + 1 : SubSeq(s, skip + 1, to)[i] = s[(skip + 1) + i - 1]
    <3>1. skip + 1 \in Int /\ to \in Int
      BY <2>2, <2>5
    <3> QED BY <2>6, <3>1, SubSeqProperties
  <2>8. (IF skip + 1 <= to THEN to - (skip + 1) + 1 ELSE 0) = Limit(filter, Behind(s, skip))
    BY <1>1, <1>3, <2>2, <2>4 DEF Limit, Behind
  <2>9. \A k \in 1..Limit(filter, Behind(s, skip)) :
          k \in 1..to - (skip + 1) + 1 /\ (skip + 1) + k - 1 = skip + k
    BY <1>1, <2>2, <2>5, <2>8
  <2> QED BY <2>3, <2>7, <2>8, <2>9 DEF skip
<1> QED BY <1>2, <1>3

(***************************************************************************)
(* A search without a filter function gives the page of the matching       *)
(* entries, in the order of the search.                                    *)
(***************************************************************************)
THEOREM FindAllIsPage ==
  ASSUME NEW filter, FilterOK(filter), filter.function = "none", NEW n \in 0..Len(Ledger)
  PROVE  FindAll(filter, n) = PageOf(filter, MatchingNrs(filter, n))
<1> DEFINE found == IterateBlocks(filter, n)
           s == MatchingNrs(filter, n)
           skip == SkipEntriesCount(filter)
           all == FindAll(filter, n)
           page == PageOf(filter, s)
<1>1. n \in Nat /\ FilterOK(filter) /\ filter.size \in Nat
  BY LedgerAssumption DEF FilterOK
<1>2. /\ found \in Seq(1..n)
      /\ Limit(filter, Len(found)) = Limit(filter, Behind(s, skip))
      /\ \A k \in 1..Limit(filter, Len(found)) : found[k] = s[skip + k]
  BY <1>1, FoundIsPage
<1>3. /\ all \in Seq(1..n)
      /\ Len(all) = Limit(filter, Len(found))
      /\ \A k \in 1..Len(all) : all[k] = found[k]
  <2>1. 1..n \in SUBSET Nat
    BY <1>1
  <2>2. IterateBlocks(filter, n) \in Seq(1..n)
    BY <1>2
  <2> QED BY <1>1, <2>1, <2>2, FindAllLimits
<1>4. s \in Seq(1..n)
  BY <1>1, MatchingSorted
<1>5. /\ page \in Seq(1..n)
      /\ Len(page) = Limit(filter, Behind(s, skip))
      /\ \A k \in 1..Len(page) : page[k] = s[skip + k]
  BY <1>4, PageIsBehind
<1> HIDE DEF found, s, skip, all, page
<1>6. all = page
  BY <1>2, <1>3, <1>5, SeqEqual
<1> QED BY <1>6 DEF all, page, s

(* Without pages findAllFast gives all of them.                            *)
LEMMA FindAllFastIsAll ==
  ASSUME NEW filter, FilterOK(filter), filter.size = 0, NEW n \in 0..Len(Ledger)
  PROVE  FindAllFast(filter, n) = PageOf(filter, MatchingNrs(filter, n))
<1> DEFINE found == FindAllFast(filter, n)
           s == MatchingNrs(filter, n)
           skip == SkipEntriesCount(filter)
           page == PageOf(filter, s)
<1>1. n \in Nat
  BY LedgerAssumption
<1>2. /\ found \in Seq(1..n)
      /\ Limit(filter, Len(found)) = Limit(filter, Behind(s, skip))
      /\ \A k \in 1..Limit(filter, Len(found)) : found[k] = s[skip + k]
  BY FoundIsPage DEF FindAllFast
<1>3. s \in Seq(1..n)
  BY <1>1, MatchingSorted
<1>4. /\ page \in Seq(1..n)
      /\ Len(page) = Limit(filter, Behind(s, skip))
      /\ \A k \in 1..Len(page) : page[k] = s[skip + k]
  BY <1>1, <1>3, PageIsBehind
<1> HIDE DEF found, s, skip, page
<1>5. Limit(filter, Len(found)) = Len(found)
  BY DEF Limit
<1>6. found = page
  BY <1>2, <1>4, <1>5, SeqEqual
<1> QED BY <1>6 DEF found, page, s

(* With a filter function as well it gives entries of the chain, and, if   *)
(* not in pages, not more than there are.                                  *)
LEMMA FindAllType ==
  ASSUME NEW filter, FilterOK(filter), NEW n \in 0..Len(Ledger)
  PROVE  /\ FindAll(filter, n) \in Seq(1..n)
         /\ filter.size = 0 => Len(FindAll(filter, n)) \in 0..Len(Ledger)
<1> DEFINE found == IterateBlocks(filter, n)
           s == MatchingNrs(filter, n)
           all == FindAll(filter, n)
<1>1. n \in Nat /\ 1..n \in SUBSET Nat /\ filter.size \in Nat
  BY LedgerAssumption DEF FilterOK
<1>2. found \in Seq(1..n) /\ found \in Seq(Nat) /\ Len(found) \in Nat
  <2>1. found \in Seq(1..n)
    BY FoundIsPage
  <2> HIDE DEF found
  <2> QED BY <1>1, <2>1, SeqMonotonic
<1>3. PICK f : KeepSteps(f, filter, found) /\ all = f[Len(found)].result
  BY <1>2, FindAllSteps
<1> HIDE DEF found, all
<1> DEFINE S == {i \in 0..Len(found) : f[i].result \in Seq(1..n) /\ Len(f[i].result) <= i}
<1>4. 0 \in S
  <2>1. f[0].result = <<>> /\ 0 \in 0..Len(found)
    BY <1>2, <1>3 DEF KeepSteps
  <2>2. <<>> \in Seq(1..n) /\ Len(<<>>) <= 0
    OBVIOUS
  <2> QED BY <2>1, <2>2
<1>5. ASSUME NEW i \in 1..Len(found), i - 1 \in S PROVE i \in S
  <2>1. f[i] = Keep(filter, f[i - 1], found[i])
    BY <1>3 DEF KeepSteps
  <2>2. f[i - 1].result \in Seq(1..n) /\ Len(f[i - 1].result) <= i - 1 /\ found[i] \in 1..n
    BY <1>2, <1>5
  <2> DEFINE r == f[i - 1].result
  <2>3. f[i].result = r \/ f[i].result = Append(r, found[i])
    BY <2>1 DEF Keep
  <2> HIDE DEF r
  <2>4. Append(r, found[i]) \in Seq(1..n) /\ Len(Append(r, found[i])) = Len(r) + 1 /\ Len(r) \in Nat
    BY <2>2 DEF r
  <2>5. r \in Seq(1..n) /\ Len(r) <= i - 1
    BY <2>2 DEF r
  <2>6. f[i].result \in Seq(1..n) /\ Len(f[i].result) <= i
    <3>1. i \in Nat
      BY <1>2
    <3>2. CASE f[i].result = r
      BY <2>4, <2>5, <3>1, <3>2
    <3>3. CASE f[i].result = Append(r, found[i])
      BY <2>4, <2>5, <3>1, <3>3
    <3> QED BY <2>3, <3>2, <3>3
  <2>7. i \in 0..Len(found)
    BY <1>2
  <2> QED BY <2>6, <2>7
<1> HIDE DEF S
<1>6. Len(found) \in S
  <2>1. 0..Len(found) \subseteq S
    BY <1>2, <1>4, <1>5, UpTo
  <2> QED BY <1>2, <2>1
<1>7. all \in Seq(1..n) /\ Len(all) <= Len(found)
  BY <1>3, <1>6 DEF S
<1>8. ASSUME filter.size = 0 PROVE Len(found) <= n
  <2>1. Limit(filter, Len(found)) = Limit(filter, Behind(s, SkipEntriesCount(filter)))
    BY FoundIsPage DEF found
  <2>2. Len(s) \in Nat /\ Len(s) <= n /\ SkipEntriesCount(filter) \in Nat
    BY <1>1, MatchingSorted, SkipIsNumber
  <2> HIDE DEF s
  <2>3. Behind(s, SkipEntriesCount(filter)) <= Len(s)
    BY <2>2 DEF Behind
  <2>4. Len(found) = Behind(s, SkipEntriesCount(filter))
    BY <1>8, <2>1 DEF Limit
  <2> QED BY <1>1, <1>2, <2>2, <2>3, <2>4
<1>9. ASSUME filter.size = 0 PROVE Len(all) \in 0..Len(Ledger)
  <2>1. Len(found) <= n
    BY <1>8, <1>9
  <2>2. Len(all) \in Nat
    BY <1>7
  <2> QED BY <1>1, <1>2, <1>7, <2>1, <2>2, LedgerAssumption
<1> QED BY <1>7, <1>9 DEF all

-----------------------------------------------------------------------------
(* Sequences in the order of a search.  Two with the same members are the  *)
(* same; and if what the longer one has more comes after what both have,   *)
(* the shorter one is its beginning.                                       *)

LEMMA SortedBegins ==
  ASSUME NEW filter, NEW s \in Seq(Nat), NEW t \in Seq(Nat), Ascends(filter, s), Ascends(filter, t),
         Range(s) \subseteq Range(t),
         \A j \in 1..Len(t) : t[j] \in Range(s) \/ \A i \in 1..Len(s) : Precedes(filter, s[i], t[j])
  PROVE  Len(s) <= Len(t) /\ \A i \in 1..Len(s) : s[i] = t[i]
<1> DEFINE Same(i) == \A k \in 1..i : k <= Len(t) /\ s[k] = t[k]
           S == {i \in 0..Len(s) : Same(i)}
<1>1. /\ Len(s) \in Nat /\ Len(t) \in Nat
      /\ \A i \in 1..Len(s) : s[i] \in Nat /\ (\E j \in 1..Len(t) : t[j] = s[i])
      /\ \A j \in 1..Len(t) : t[j] \in Nat
      /\ \A j \in 1..Len(t) : t[j] \in Range(s) => \E i \in 1..Len(s) : s[i] = t[j]
  <2>1. Len(s) \in Nat /\ Len(t) \in Nat /\ DOMAIN s = 1..Len(s) /\ DOMAIN t = 1..Len(t)
    OBVIOUS
  <2>2. \A i \in 1..Len(s) : s[i] \in Nat /\ s[i] \in Range(t)
    <3>1. \A i \in 1..Len(s) : s[i] \in Range(s)
      BY <2>1 DEF Range
    <3>2. \A i \in 1..Len(s) : s[i] \in Nat
      OBVIOUS
    <3> QED BY <3>1, <3>2
  <2>3. \A i \in 1..Len(t) : t[i] \in Nat
    OBVIOUS
  <2> QED BY <2>1, <2>2, <2>3 DEF Range
<1>2. /\ \A x \in Nat : ~Precedes(filter, x, x)
      /\ \A x, y, z \in Nat :
           Precedes(filter, x, y) /\ Precedes(filter, y, z) => Precedes(filter, x, z)
  BY PrecedesIsOrder
<1>3. /\ \A i, j \in 1..Len(s) : i < j => Precedes(filter, s[i], s[j])
      /\ \A i, j \in 1..Len(t) : i < j => Precedes(filter, t[i], t[j])
  BY DEF Ascends
<1>4. 0 \in S
  BY <1>1
<1>5. ASSUME NEW i \in 1..Len(s), i - 1 \in S PROVE i \in S
  <2>1. i \in Nat /\ i \in 0..Len(s) /\ Same(i - 1)
    BY <1>1, <1>5
  <2>2. \A k \in 1..Len(s) : k < i => k \in 1..Len(t) /\ s[k] = t[k] /\ Precedes(filter, s[k], s[i])
    <3>1. \A k \in 1..Len(s) : k < i => k \in 1..i - 1 /\ (k <= Len(t) => k \in 1..Len(t))
      BY <1>1, <2>1
    <3> QED BY <1>3, <2>1, <3>1
  <2>3. PICK j \in 1..Len(t) : t[j] = s[i]
    BY <1>1
  <2>4. ~(j < i)
    <3> SUFFICES ASSUME j < i PROVE FALSE
      OBVIOUS
    <3>1. j \in 1..Len(s)
      BY <1>1, <2>1
    <3> QED BY <1>1, <1>2, <2>2, <2>3, <3>1
  <2>5. ~(i < j)
    <3> SUFFICES ASSUME i < j PROVE FALSE
      OBVIOUS
    <3>1. i \in 1..Len(t)
      BY <1>1, <2>1
    <3>2. Precedes(filter, t[i], s[i]) /\ t[i] \in Nat /\ s[i] \in Nat
      BY <1>1, <1>3, <2>3, <3>1
    <3>3. ~Precedes(filter, s[i], t[i])
      BY <1>2, <3>2
    <3>4. PICK k \in 1..Len(s) : s[k] = t[i]
      BY <1>1, <3>1, <3>3
    <3>5. k < i
      <4>1. k # i
        BY <1>2, <3>2, <3>4
      <4>2. ~(i < k)
        BY <1>3, <3>3, <3>4
      <4> QED BY <1>1, <2>1, <4>1, <4>2
    <3>6. k \in 1..Len(t) /\ t[k] = t[i] /\ Precedes(filter, t[k], t[i])
      BY <1>3, <2>2, <3>1, <3>4, <3>5
    <3> QED BY <1>2, <3>2, <3>6
  <2>6. i = j
    BY <1>1, <2>1, <2>4, <2>5
  <2>7. \A k \in 1..i : k \in 1..i - 1 \/ k = i
    BY <2>1
  <2>8. i <= Len(t)
    BY <1>1, <2>6
  <2>9. Same(i)
    BY <2>1, <2>3, <2>6, <2>7, <2>8
  <2> QED BY <2>1, <2>9
<1> HIDE DEF S
<1>6. Len(s) \in S
  <2>1. 0..Len(s) \subseteq S
    BY <1>1, <1>4, <1>5, UpTo
  <2> QED BY <1>1, <2>1
<1>7. Same(Len(s))
  BY <1>6 DEF S
<1>8. Len(s) <= Len(t)
  <2>1. CASE Len(s) = 0
    BY <1>1, <2>1
  <2>2. CASE Len(s) # 0
    <3>1. Len(s) \in 1..Len(s)
      BY <1>1, <2>2
    <3> QED BY <1>7, <3>1
  <2> QED BY <2>1, <2>2
<1> QED BY <1>7, <1>8

LEMMA SortedOnce ==
  ASSUME NEW filter, NEW s \in Seq(Nat), NEW t \in Seq(Nat), Ascends(filter, s), Ascends(filter, t),
         Range(s) = Range(t)
  PROVE  s = t
<1>1. /\ \A j \in 1..Len(t) : t[j] \in Range(s)
      /\ \A j \in 1..Len(s) : s[j] \in Range(t)
  <2>1. DOMAIN s = 1..Len(s) /\ DOMAIN t = 1..Len(t)
    OBVIOUS
  <2> QED BY <2>1 DEF Range
<1>2. Len(s) <= Len(t) /\ \A i \in 1..Len(s) : s[i] = t[i]
  BY <1>1, SortedBegins
<1>3. Len(t) <= Len(s)
  BY <1>1, SortedBegins
<1>4. Len(s) = Len(t)
  BY <1>2, <1>3
<1> QED BY <1>2, <1>4, SeqEqual

(* Reversed if the search went backwards, they are in the order of numbers.*)
Grows(s) == \A i, j \in 1..Len(s) : i < j => s[i] < s[j]

LEMMA ReverseType ==
  ASSUME NEW N, NEW s \in Seq(N)
  PROVE  Reverse(s) \in Seq(N)
<1>1. Len(s) \in Nat
  OBVIOUS
<1>2. \A i \in 1..Len(s) : (Len(s) - i) + 1 \in 1..Len(s)
  BY <1>1
<1>3. \A i \in 1..Len(s) : s[(Len(s) - i) + 1] \in N
  BY <1>2
<1> QED BY <1>1, <1>3 DEF Reverse

LEMMA ReverseSame ==
  ASSUME NEW N, NEW s \in Seq(N)
  PROVE  /\ Reverse(s) \in Seq(N) /\ Len(Reverse(s)) = Len(s) /\ Range(Reverse(s)) = Range(s)
         /\ \A i \in 1..Len(s) : Reverse(s)[i] = s[(Len(s) - i) + 1] /\ (Len(s) - i) + 1 \in 1..Len(s)
<1> DEFINE r == Reverse(s)
<1>1. Len(s) \in Nat /\ r \in Seq(N)
  BY ReverseType
<1>2. \A i \in 1..Len(s) : (Len(s) - i) + 1 \in 1..Len(s) /\ (Len(s) - ((Len(s) - i) + 1)) + 1 = i
  BY <1>1
<1>3. Len(r) = Len(s) /\ \A i \in 1..Len(s) : r[i] = s[(Len(s) - i) + 1]
  BY <1>1 DEF Reverse
<1> HIDE DEF r
<1>4. \A i \in 1..Len(s) : s[i] = r[(Len(s) - i) + 1]
  BY <1>2, <1>3
<1>5. Range(r) = Range(s)
  <2>1. DOMAIN r = 1..Len(s) /\ DOMAIN s = 1..Len(s)
    BY <1>1, <1>3
  <2> QED BY <1>2, <1>3, <1>4, <2>1 DEF Range
<1> QED BY <1>1, <1>2, <1>3, <1>5 DEF r

LEMMA AscendingSorts ==
  ASSUME NEW filter, NEW N \in SUBSET Nat, NEW s \in Seq(N)
  PROVE  /\ Ascending(filter, s) \in Seq(N) /\ Len(Ascending(filter, s)) = Len(s)
         /\ Range(Ascending(filter, s)) = Range(s)
         /\ Ascends(filter, s) => Grows(Ascending(filter, s))
         /\ Grows(s) => Ascends(filter, Ascending(filter, s))
<1>1. CASE filter.dir # "DESC"
  BY <1>1 DEF Ascending, Ascends, Grows, Precedes
<1>2. CASE filter.dir = "DESC"
  <2> DEFINE r == Reverse(s)
             L == Len(s)
  <2>1. /\ r \in Seq(N) /\ Len(r) = L /\ Range(r) = Range(s)
        /\ \A i \in 1..L : r[i] = s[(L - i) + 1] /\ (L - i) + 1 \in 1..L
    BY ReverseSame
  <2>2. L \in Nat /\ Ascending(filter, s) = r
    BY <1>2 DEF Ascending
  <2>3. \A i, j \in 1..L : i < j => (L - j) + 1 < (L - i) + 1
    BY <2>2
  <2>4. /\ Ascends(filter, s) <=> \A i, j \in 1..L : i < j => s[i] > s[j]
        /\ Ascends(filter, r) <=> \A i, j \in 1..L : i < j => r[i] > r[j]
    BY <1>2, <2>1 DEF Ascends, Precedes
  <2>5. \A i \in 1..L : s[i] \in Nat
    <3>1. \A i \in 1..Len(s) : s[i] \in N
      OBVIOUS
    <3> QED BY <3>1
  <2> HIDE DEF r, L
  <2>6. Ascends(filter, s) => Grows(r)
    BY <2>1, <2>3, <2>4, <2>5 DEF Grows
  <2>7. Grows(s) => Ascends(filter, r)
    BY <2>1, <2>3, <2>4, <2>5 DEF Grows, L
  <2> QED BY <2>1, <2>2, <2>6, <2>7 DEF L
<1> QED BY <1>1, <1>2

(* What a search finds is in its order, and comes after the skipped.       *)
LEMMA FoundAscends ==
  ASSUME NEW filter, FilterOK(filter), NEW n \in 0..Len(Ledger)
  PROVE  LET found == IterateBlocks(filter, n)
             s == MatchingNrs(filter, n)
             skip == SkipEntriesCount(filter) IN
         /\ Ascends(filter, found)
         /\ \A i \in 1..Len(found) : found[i] \in Range(s)
         /\ found # <<>> /\ skip # 0 =>
              skip \in 1..Len(s) /\ \A i \in 1..Len(found) : Precedes(filter, s[skip], found[i])
<1> DEFINE found == IterateBlocks(filter, n)
           s == MatchingNrs(filter, n)
           skip == SkipEntriesCount(filter)
<1>1. n \in Nat /\ skip \in Nat /\ filter.size \in Nat /\ found \in Seq(1..n)
  BY LedgerAssumption, SkipIsNumber, FoundIsPage DEF FilterOK
<1>2. /\ Len(s) \in Nat /\ DOMAIN s = 1..Len(s)
      /\ \A x \in 1..n : Wanted(filter, x) => \E i \in 1..Len(s) : s[i] = x
  BY <1>1, MatchingSorted
<1>3. CASE found = <<>>
  BY <1>3 DEF Ascends
<1>4. CASE found # <<>>
  <2>1. n # 0 /\ ~(filter.from > n) /\ found = FindTransactions(filter, n)
    BY <1>4 DEF IterateBlocks, TransactionsCount, FindTransactions
  <2>2. n \in 1..Len(Ledger)
    BY <1>1, <2>1
  <2>3. PICK acc : found = acc.result /\ Searched(filter, acc, 1..n)
    BY <2>1, <2>2, FindSearches
  <2>4. PICK K : Looked(filter, acc, 1..n, K)
    BY <2>3 DEF Searched
  <2> HIDE DEF s, found
  <2>5. /\ K \in Seq(1..n) /\ Len(K) \in Nat
        /\ \A i, j \in 1..Len(K) : i < j => Precedes(filter, K[i], K[j])
        /\ \A i \in 1..Len(K) : K[i] \in 1..n /\ IsMatchingFilter(filter, K[i])
    BY <2>4 DEF Looked, Ascends
  <2>6. /\ Len(found) = IF Len(K) <= skip THEN 0 ELSE Len(K) - skip
        /\ \A i \in 1..Len(found) : found[i] = K[skip + i]
    BY <2>3, <2>4 DEF Looked
  <2>7. Len(found) \in Nat /\ Len(found) # 0
    BY <1>1, <1>4
  <2>8. /\ Len(K) = skip + Len(found)
        /\ \A i \in 1..Len(found) : skip + i \in 1..Len(K)
        /\ \A i, j \in 1..Len(found) : i < j => skip + i < skip + j
    <3>1. ~(Len(K) <= skip) /\ Len(found) = Len(K) - skip
      BY <2>6, <2>7
    <3>2. Len(K) = skip + Len(found)
      BY <1>1, <2>5, <3>1
    <3>3. \A i \in 1..Len(found) : skip + i \in 1..skip + Len(found)
      BY <1>1, <2>7
    <3>4. \A i, j \in 1..Len(found) : i < j => skip + i < skip + j
      BY <1>1, <2>7
    <3> QED BY <3>2, <3>3, <3>4
  <2>9. Ascends(filter, found)
    BY <2>5, <2>6, <2>8 DEF Ascends
  <2>10. \A i \in 1..Len(found) : found[i] \in Range(s)
    <3>1. \A i \in 1..Len(found) : found[i] \in 1..n /\ Wanted(filter, found[i])
      <4>1. \A i \in 1..Len(found) : found[i] \in 1..n /\ IsMatchingFilter(filter, found[i])
        BY <2>5, <2>6, <2>8
      <4> QED BY <1>1, <4>1, WantedIsMatching
    <3> QED BY <1>2, <3>1 DEF Range
  <2>11. ASSUME skip # 0
         PROVE  skip \in 1..Len(s) /\ \A i \in 1..Len(found) : Precedes(filter, s[skip], found[i])
    <3>1. skip \in 1..Len(K) /\ \A i \in 1..Len(found) : skip < skip + i
      BY <1>1, <2>7, <2>8, <2>11
    <3>2. \A i \in 1..Len(found) : Precedes(filter, K[skip], found[i])
      BY <2>5, <2>6, <2>8, <3>1
    <3>3. skip <= skip + filter.size
      BY <1>1
    <3>4. skip \in 1..Len(s) /\ K[skip] = s[skip]
      BY <1>1, <2>4, <3>1, <3>3, LookedIsPrefix DEF s, skip
    <3> QED BY <3>2, <3>4
  <2> QED BY <2>9, <2>10, <2>11 DEF s, found
<1> QED BY <1>3, <1>4

-----------------------------------------------------------------------------
(* findAll with the filter function of the wallet: some first entries of   *)
(* what was found, at least those of the page, without those that are not  *)
(* for the wallet.                                                         *)
Usable(filter, found, e) == {found[j] : j \in {k \in 1..e : Use(filter, found[k])}}

LEMMA FindAllUses ==
  ASSUME NEW filter, FilterOK(filter), filter.function = "wallet", NEW n \in 0..Len(Ledger)
  PROVE  LET found == IterateBlocks(filter, n)
             all == FindAll(filter, n) IN
         /\ all \in Seq(1..n) /\ Ascends(filter, all)
         /\ filter.size # 0 => Len(all) <= filter.size
         /\ \E e \in 0..Len(found) : /\ Limit(filter, Len(found)) <= e
                                     /\ Range(all) = Usable(filter, found, e)
<1> DEFINE found == IterateBlocks(filter, n)
           all == FindAll(filter, n)
<1>1. n \in Nat /\ filter.size \in Nat /\ found \in Seq(1..n) /\ 1..n \in SUBSET Nat
  BY LedgerAssumption, FoundIsPage DEF FilterOK
<1>2. Ascends(filter, found)
  BY FoundAscends
<1>3. all \in Seq(1..n)
  BY FindAllType
<1>4. IterateBlocks(filter, n) \in Seq(Nat)
  BY <1>1, SeqMonotonic
<1>5. PICK f : KeepSteps(f, filter, found) /\ all = f[Len(found)].result
  BY <1>4, FindAllSteps
<1> HIDE DEF found, all
<1>6. Len(found) \in Nat /\ \A i \in 1..Len(found) : found[i] \in 1..n /\ found[i] \in Nat
  BY <1>1
<1>7. \A i, j \in 1..Len(found) : i < j => Precedes(filter, found[i], found[j])
  BY <1>2 DEF Ascends
<1> DEFINE Part(a, e, i) ==
             /\ a.stopped = FALSE
             /\ a.result \in Seq(1..n) /\ Len(a.result) <= e
             /\ Ascends(filter, a.result)
             /\ Range(a.result) = Usable(filter, found, e)
             /\ filter.size # 0 => Len(a.result) <= filter.size
             /\ e = i \/ ~HasCapacityLeft(filter, Len(a.result))
           S == {i \in 0..Len(found) : \E e \in 0..i : Part(f[i], e, i)}
<1>8. 0 \in S
  <2>1. f[0].result = <<>> /\ f[0].stopped = FALSE
    BY <1>5 DEF KeepSteps
  <2>2. Usable(filter, found, 0) = {} /\ Range(<<>>) = {} /\ Ascends(filter, <<>>)
    BY DEF Usable, Range, Ascends
  <2>3. <<>> \in Seq(1..n) /\ Len(<<>>) = 0 /\ 0 \in 0..0
    OBVIOUS
  <2>4. Part(f[0], 0, 0)
    <3>1. Len(f[0].result) <= 0 /\ (filter.size # 0 => Len(f[0].result) <= filter.size)
      BY <1>1, <2>1, <2>3
    <3>2. f[0].result \in Seq(1..n) /\ Ascends(filter, f[0].result)
      BY <2>1, <2>2, <2>3
    <3>3. Range(f[0].result) = Usable(filter, found, 0)
      BY <2>1, <2>2
    <3>4. 0 = 0
      OBVIOUS
    <3> QED BY <2>1, <3>1, <3>2, <3>3, <3>4
  <2> HIDE DEF Part
  <2> QED BY <1>6, <2>3, <2>4
<1>9. ASSUME NEW i \in 1..Len(found), i - 1 \in S PROVE i \in S
  <2>1. i \in Nat /\ i - 1 \in Nat /\ i \in 0..Len(found)
    BY <1>6
  <2>2. PICK e \in 0..i - 1 : Part(f[i - 1], e, i - 1)
    BY <1>9
  <2> DEFINE a == f[i - 1]
             r == a.result
             x == found[i]
  <2>3. f[i] = Keep(filter, a, x) /\ Stop(filter, x) = FALSE
    BY <1>5 DEF KeepSteps, Stop
  <2>4. x \in 1..n /\ x \in Nat /\ r \in Seq(1..n) /\ Len(r) \in Nat /\ Len(r) <= e /\ a.stopped = FALSE
    BY <1>6, <2>2
  <2>5. CASE ~HasCapacityLeft(filter, Len(r))
    <3>1. f[i] = a
      BY <2>3, <2>5 DEF Keep
    <3>2. Part(f[i], e, i) /\ e \in 0..i
      BY <2>1, <2>2, <2>5, <3>1
    <3> HIDE DEF Part
    <3> QED BY <2>1, <3>2
  <2>6. CASE HasCapacityLeft(filter, Len(r))
    <3>1. e = i - 1 /\ (filter.size # 0 => Len(r) + 1 <= filter.size) /\ Len(r) + 1 <= i
      BY <1>1, <2>1, <2>2, <2>4, <2>6 DEF HasCapacityLeft
    <3>2. f[i].stopped = FALSE /\ f[i].result = IF Use(filter, x) THEN Append(r, x) ELSE r
      BY <2>3, <2>4, <2>6 DEF Keep
    <3>3. /\ Range(r) = Usable(filter, found, i - 1) /\ Ascends(filter, r)
          /\ filter.size # 0 => Len(r) <= filter.size
      BY <2>2, <3>1
    <3> HIDE DEF r, x, a, S, Part
    <3>4. \A k : k \in 1..i <=> k \in 1..i - 1 \/ k = i
      BY <2>1
    <3>5. CASE ~Use(filter, x)
      <4>1. Usable(filter, found, i) = Usable(filter, found, i - 1)
        BY <3>4, <3>5 DEF Usable, x
      <4>2. Part(f[i], i, i)
        BY <2>1, <2>4, <3>1, <3>2, <3>3, <3>5, <4>1 DEF Part
      <4> QED BY <2>1, <4>2 DEF S
    <3>6. CASE Use(filter, x)
      <4> DEFINE t == Append(r, x)
      <4>1. /\ t \in Seq(1..n) /\ Len(t) = Len(r) + 1 /\ t[Len(r) + 1] = x
            /\ DOMAIN t = 1..Len(r) + 1 /\ DOMAIN r = 1..Len(r)
            /\ \A k \in 1..Len(r) : t[k] = r[k]
        BY <2>4
      <4> HIDE DEF t
      <4>2. \A k : k \in 1..Len(r) + 1 <=> k \in 1..Len(r) \/ k = Len(r) + 1
        BY <2>4
      <4>3. Range(t) = Range(r) \cup {x}
        BY <4>1, <4>2 DEF Range
      <4>4. Usable(filter, found, i) = Usable(filter, found, i - 1) \cup {x}
        BY <3>4, <3>6 DEF Usable, x
      <4>5. \A k \in 1..Len(r) : Precedes(filter, r[k], x)
        <5>1. \A k \in 1..Len(r) : r[k] \in Usable(filter, found, i - 1)
          BY <3>3, <4>1 DEF Range
        <5>2. \A j \in 1..i - 1 : j \in 1..Len(found) /\ i \in 1..Len(found) /\ j < i
          BY <1>6, <2>1
        <5>3. \A y \in Usable(filter, found, i - 1) : Precedes(filter, y, x)
          BY <1>7, <5>2 DEF Usable, x
        <5> QED BY <5>1, <5>3
      <4>6. Ascends(filter, t)
        <5> SUFFICES ASSUME NEW j \in 1..Len(t), NEW k \in 1..Len(t), j < k
                     PROVE  Precedes(filter, t[j], t[k])
          BY DEF Ascends
        <5>1. j \in 1..Len(r)
          BY <2>4, <4>1
        <5>2. CASE k = Len(r) + 1
          BY <4>1, <4>5, <5>1, <5>2
        <5>3. CASE k \in 1..Len(r)
          BY <3>3, <4>1, <5>1, <5>3 DEF Ascends
        <5> QED BY <4>1, <4>2, <5>2, <5>3
      <4>7. f[i].result = t
        BY <3>2, <3>6 DEF t
      <4>8. Part(f[i], i, i)
        BY <2>1, <3>1, <3>2, <3>3, <4>1, <4>3, <4>4, <4>6, <4>7 DEF Part
      <4> QED BY <2>1, <4>8 DEF S
    <3> QED BY <3>5, <3>6
  <2> QED BY <2>5, <2>6
<1> HIDE DEF S
<1>10. Len(found) \in S
  <2>1. 0..Len(found) \subseteq S
    BY <1>6, <1>8, <1>9, UpTo
  <2> QED BY <1>6, <2>1
<1>11. PICK e \in 0..Len(found) : Part(f[Len(found)], e, Len(found))
  BY <1>10 DEF S
<1>12. Limit(filter, Len(found)) <= e
  <2>1. Len(all) \in Nat /\ Len(all) <= e /\ (e = Len(found) \/ ~HasCapacityLeft(filter, Len(all)))
    BY <1>3, <1>5, <1>11
  <2>2. CASE e = Len(found)
    BY <1>1, <1>6, <2>2 DEF Limit
  <2>3. CASE ~HasCapacityLeft(filter, Len(all))
    BY <1>1, <1>6, <2>1, <2>3 DEF Limit, HasCapacityLeft
  <2> QED BY <2>1, <2>2, <2>3
<1>13. /\ Ascends(filter, all) /\ Range(all) = Usable(filter, found, e)
       /\ filter.size # 0 => Len(all) <= filter.size
  BY <1>5, <1>11
<1> QED BY <1>3, <1>12, <1>13 DEF found, all

-----------------------------------------------------------------------------
(* generateList leaves out what gives no line.                             *)
NoLine == {"COMMUNITY_ROOT", "REGISTER_ADDRESS"}

WithLine(all, i) == {all[j] : j \in {k \in 1..i : Ledger[all[k]].type \notin NoLine}}

LEMMA GivesLine ==
  ASSUME NEW nr \in 1..Len(Ledger), NEW key, NEW isLink
  PROVE  CreateTransaction(nr, key, isLink) = <<>> <=> Ledger[nr].type \in NoLine
<1>1. \A t, x, y : LineWithChange(t, x, y) # <<>>
  BY DEF LineWithChange
<1>2. \A t, x : Line(t, x) # <<>>
  BY <1>1 DEF Line
<1>3. RedeemDeferredTransferTransactionRole(nr, key, isLink) # <<>>
  BY <1>1, <1>2 DEF RedeemDeferredTransferTransactionRole, SetChange
<1>4. /\ CreationTransactionRole(nr, key) # <<>> /\ TransferTransactionRole(nr, key) # <<>>
      /\ DeferredTransferTransactionRole(nr, key) # <<>>
      /\ TimeoutDeferredTransferTransactionRole(nr, key) # <<>>
  BY <1>2 DEF CreationTransactionRole, TransferTransactionRole, DeferredTransferTransactionRole,
              TimeoutDeferredTransferTransactionRole
<1>5. Ledger[nr].type \in Types
  BY LedgerAssumption
<1> QED BY <1>3, <1>4, <1>5 DEF CreateTransaction, NoLine, Types

LEMMA LinesAre ==
  ASSUME NEW filter, FilterOK(filter), NEW n \in 0..Len(Ledger)
  PROVE  LET all == Ascending(filter, FindAll(filter, n))
             lines == Lines(filter, n) IN
         /\ lines \in Seq(1..n) /\ Len(lines) <= Len(all)
         /\ Range(lines) = WithLine(all, Len(all))
         /\ Grows(all) => Grows(lines)
<1> DEFINE all == Ascending(filter, FindAll(filter, n))
           link == IsLink(filter.key, n)
           After(f) == f = [i \in 0..Len(all) |->
                              IF i = 0 THEN <<>> ELSE AddLine(filter, f[i - 1], all[i], link)]
           A == CHOOSE f : After(f)
           L == Seq(1..n)
<1>1. Lines(filter, n) = A[Len(all)]
  BY DEF Lines, AddLines
<1> HIDE DEF link
<1>2. all \in Seq(1..n)
  BY FindAllType, ReverseType DEF Ascending
<1> HIDE DEF all
<1>3. n \in Nat /\ Len(all) \in Nat /\ \A i \in 1..Len(all) : all[i] \in 1..n
  BY <1>2, LedgerAssumption
<1>4. <<>> \in L /\ \A l \in L, nr \in 1..n : AddLine(filter, l, nr, link) \in L
  <2>1. <<>> \in Seq(1..n) /\ \A l \in Seq(1..n), nr \in 1..n : Append(l, nr) \in Seq(1..n)
    OBVIOUS
  <2> QED BY <2>1 DEF AddLine
<1> HIDE DEF L
<1>5. \E f : After(f)
  <2> DEFINE g == [i \in 1..Len(all) |-> [l \in L |-> AddLine(filter, l, all[i], link)]]
  <2>1. g \in [1..Len(all) -> [L -> L]]
    BY <1>3, <1>4
  <2>2. \A i \in 1..Len(all), l \in L : g[i][l] = AddLine(filter, l, all[i], link)
    OBVIOUS
  <2> HIDE DEF g
  <2>3. PICK h \in [0..Len(all) -> L] : Loop(h, <<>>, g, Len(all))
    BY <1>3, <1>4, <2>1, LoopExists
  <2>4. ASSUME NEW i \in 0..Len(all)
        PROVE  h[i] = IF i = 0 THEN <<>> ELSE AddLine(filter, h[i - 1], all[i], link)
    <3>1. CASE i # 0
      <4>1. i \in 1..Len(all) /\ h[i - 1] \in L
        BY <1>3, <3>1
      <4> QED BY <2>2, <2>3, <3>1, <4>1 DEF Loop
    <3> QED BY <2>3, <3>1 DEF Loop
  <2> QED BY <2>3, <2>4
<1>6. After(A)
  <2> HIDE DEF After
  <2> QED BY <1>5
<1> HIDE DEF A
<1>7. \A i \in 0..Len(all) : A[i] = IF i = 0 THEN <<>> ELSE AddLine(filter, A[i - 1], all[i], link)
  BY <1>6
<1> HIDE DEF After
<1> DEFINE Part(l, i) == /\ l \in Seq(1..n) /\ Len(l) <= i
                         /\ Range(l) = WithLine(all, i)
                         /\ Grows(all) => Grows(l)
           S == {i \in 0..Len(all) : Part(A[i], i)}
<1>8. 0 \in S
  <2>1. A[0] = <<>> /\ 0 \in 0..Len(all)
    BY <1>3, <1>7
  <2>2. WithLine(all, 0) = {} /\ Range(<<>>) = {} /\ Grows(<<>>)
    BY DEF WithLine, Range, Grows
  <2>3. <<>> \in Seq(1..n) /\ Len(<<>>) <= 0
    OBVIOUS
  <2> QED BY <2>1, <2>2, <2>3
<1>9. ASSUME NEW i \in 1..Len(all), i - 1 \in S PROVE i \in S
  <2> DEFINE l == A[i - 1]
             x == all[i]
  <2>1. i \in 0..Len(all) /\ i # 0 /\ i - 1 \in Nat /\ A[i] = AddLine(filter, l, x, link)
    BY <1>3, <1>7
  <2>2. Part(l, i - 1)
    BY <1>9
  <2>3. x \in 1..n /\ l \in Seq(1..n) /\ Len(l) \in Nat /\ Len(l) <= i - 1
        /\ \A k \in 1..Len(l) : l[k] \in 1..n
    BY <1>3, <2>2
  <2> HIDE DEF l, x
  <2>4. \A k : k \in 1..i <=> k \in 1..i - 1 \/ k = i
    BY <2>1
  <2>7. CreateTransaction(x, filter.key, link) = <<>> <=> Ledger[x].type \in NoLine
    <3>1. x \in 1..Len(Ledger)
      BY <1>3, <2>3
    <3> QED BY <3>1, GivesLine
  <2>5. CASE Ledger[x].type \in NoLine
    <3>1. A[i] = l
      BY <2>1, <2>5, <2>7 DEF AddLine
    <3>2. WithLine(all, i) = WithLine(all, i - 1)
      BY <2>4, <2>5 DEF WithLine, x
    <3>3. Len(l) <= i
      BY <2>1, <2>3
    <3> QED BY <2>1, <2>2, <3>1, <3>2, <3>3
  <2>6. CASE Ledger[x].type \notin NoLine
    <3> DEFINE t == Append(l, x)
    <3>1. A[i] = t
      BY <2>1, <2>6, <2>7 DEF AddLine
    <3>2. /\ t \in Seq(1..n) /\ Len(t) = Len(l) + 1 /\ t[Len(l) + 1] = x
          /\ DOMAIN t = 1..Len(l) + 1 /\ DOMAIN l = 1..Len(l)
          /\ \A k \in 1..Len(l) : t[k] = l[k]
      BY <2>3
    <3> HIDE DEF t
    <3>3. \A k : k \in 1..Len(l) + 1 <=> k \in 1..Len(l) \/ k = Len(l) + 1
      BY <2>3
    <3>4. Range(t) = Range(l) \cup {x}
      BY <3>2, <3>3 DEF Range
    <3>5. WithLine(all, i) = WithLine(all, i - 1) \cup {x}
      BY <2>4, <2>6 DEF WithLine, x
    <3>6. ASSUME Grows(all) PROVE Grows(t)
      <4>1. \A k \in 1..Len(l) : l[k] < x
        <5>1. \A k \in 1..Len(l) : l[k] \in WithLine(all, i - 1)
          BY <2>2, <3>2 DEF Range
        <5>2. \A j \in 1..i - 1 : j \in 1..Len(all) /\ i \in 1..Len(all) /\ j < i
          BY <1>3, <2>1
        <5>3. \A y \in WithLine(all, i - 1) : y < x
          BY <3>6, <5>2 DEF WithLine, Grows, x
        <5> QED BY <5>1, <5>3
      <4>2. Grows(l)
        BY <2>2, <3>6
      <4> SUFFICES ASSUME NEW j \in 1..Len(t), NEW k \in 1..Len(t), j < k
                   PROVE  t[j] < t[k]
        BY DEF Grows
      <4>3. j \in 1..Len(l)
        BY <2>3, <3>2
      <4>4. CASE k = Len(l) + 1
        BY <3>2, <4>1, <4>3, <4>4
      <4>5. CASE k \in 1..Len(l)
        BY <3>2, <4>2, <4>3, <4>5 DEF Grows
      <4> QED BY <3>2, <3>3, <4>4, <4>5
    <3>7. Len(t) <= i
      BY <2>1, <2>3, <3>2
    <3>8. Range(t) = WithLine(all, i)
      BY <2>2, <3>4, <3>5
    <3> QED BY <2>1, <3>1, <3>2, <3>6, <3>7, <3>8
  <2> QED BY <2>5, <2>6
<1> HIDE DEF S
<1>10. Len(all) \in S
  <2>1. 0..Len(all) \subseteq S
    BY <1>3, <1>8, <1>9, UpTo
  <2> QED BY <1>3, <2>1
<1>11. Part(Lines(filter, n), Len(all))
  BY <1>1, <1>10 DEF S
<1> QED BY <1>11 DEF all

(* The page an account is shown.                                           *)
Visible(filter, s) == Directed(filter, {nr \in Range(s) : ~Hidden(filter.key, nr)})

LEMMA VisibleSorts ==
  ASSUME NEW filter, NEW N \in SUBSET Nat, IsFiniteSet(N), NEW s \in Seq(N)
  PROVE  /\ Visible(filter, s) \in Seq(Nat) /\ Ascends(filter, Visible(filter, s))
         /\ Range(Visible(filter, s)) = {nr \in Range(s) : ~Hidden(filter.key, nr)}
<1> DEFINE V == {nr \in Range(s) : ~Hidden(filter.key, nr)}
           v == Directed(filter, V)
<1>1. V \in SUBSET Nat /\ IsFiniteSet(V)
  <2>1. DOMAIN s = 1..Len(s) /\ \A i \in 1..Len(s) : s[i] \in N
    OBVIOUS
  <2>2. V \subseteq N
    BY <2>1 DEF Range
  <2> HIDE DEF V
  <2> QED BY <2>2, FS_Subset
<1> HIDE DEF V
<1>2. /\ v \in Seq(V) /\ \A x \in V : \E i \in 1..Len(v) : v[i] = x
      /\ \A i \in 1..Len(v) : v[i] \in V /\ v[i] \in Nat
      /\ \A i, j \in 1..Len(v) : i < j => Precedes(filter, v[i], v[j])
  BY <1>1, DirectedSorts
<1> HIDE DEF v
<1>3. v \in Seq(Nat) /\ DOMAIN v = 1..Len(v)
  BY <1>1, <1>2, SeqMonotonic
<1>4. Range(v) = V
  BY <1>2, <1>3 DEF Range
<1>5. Ascends(filter, v)
  BY <1>2 DEF Ascends
<1> QED BY <1>3, <1>4, <1>5 DEF v, V, Visible

(* The lines in the direction of the search are what is not hidden in a    *)
(* beginning of what was found, which has at least the page.               *)
NotHidden(filter, found, e) == {found[j] : j \in {k \in 1..e : ~Hidden(filter.key, found[k])}}

LEMMA LinesFound ==
  ASSUME NEW filter, FilterOK(filter), filter.function = "wallet", NEW n \in 0..Len(Ledger)
  PROVE  LET found == IterateBlocks(filter, n)
             lines == Lines(filter, n)
             nrs == Ascending(filter, lines) IN
         /\ lines \in Seq(1..n) /\ Grows(lines) /\ Range(nrs) = Range(lines) /\ Len(nrs) = Len(lines)
         /\ nrs \in Seq(1..n) /\ Ascends(filter, nrs)
         /\ filter.size # 0 => Len(nrs) <= filter.size
         /\ \E e \in 0..Len(found) : /\ Limit(filter, Len(found)) <= e
                                     /\ Range(nrs) = NotHidden(filter, found, e)
<1> DEFINE found == IterateBlocks(filter, n)
           all == FindAll(filter, n)
           up == Ascending(filter, all)
           lines == Lines(filter, n)
           nrs == Ascending(filter, lines)
           key == filter.key
<1>1. n \in Nat /\ filter.size \in Nat /\ 1..n \in SUBSET Nat
  BY LedgerAssumption DEF FilterOK
<1>2. /\ all \in Seq(1..n) /\ Ascends(filter, all)
      /\ filter.size # 0 => Len(all) <= filter.size
      /\ \E e \in 0..Len(found) : Limit(filter, Len(found)) <= e /\ Range(all) = Usable(filter, found, e)
  BY FindAllUses
<1>3. PICK e \in 0..Len(found) : Limit(filter, Len(found)) <= e /\ Range(all) = Usable(filter, found, e)
  BY <1>2
<1>4. up \in Seq(1..n) /\ Len(up) = Len(all) /\ Range(up) = Range(all) /\ Grows(up)
  BY <1>1, <1>2, AscendingSorts
<1>5. /\ lines \in Seq(1..n) /\ Len(lines) <= Len(up)
      /\ Range(lines) = WithLine(up, Len(up))
      /\ Grows(lines)
  BY <1>4, LinesAre
<1> HIDE DEF up, lines, all, found
<1>6. nrs \in Seq(1..n) /\ Len(nrs) = Len(lines) /\ Range(nrs) = Range(lines) /\ Ascends(filter, nrs)
  BY <1>1, <1>5, AscendingSorts
<1> HIDE DEF nrs
<1>7. WithLine(up, Len(up)) = {nr \in Range(up) : Ledger[nr].type \notin NoLine}
  <2>1. DOMAIN up = 1..Len(up)
    BY <1>4
  <2> QED BY <2>1 DEF WithLine, Range
<1>8. \A nr : ~Hidden(key, nr) <=> Use(filter, nr) /\ Ledger[nr].type \notin NoLine
  BY DEF Hidden, Use, NotForWallet, NoLine
<1>9. Range(nrs) = NotHidden(filter, found, e)
  BY <1>3, <1>4, <1>5, <1>6, <1>7, <1>8 DEF Usable, NotHidden
<1>10. filter.size # 0 => Len(nrs) <= filter.size
  <2>1. Len(nrs) \in Nat /\ Len(all) \in Nat /\ Len(nrs) <= Len(all)
    BY <1>2, <1>4, <1>5, <1>6
  <2> QED BY <1>1, <1>2, <2>1
<1> QED BY <1>3, <1>5, <1>6, <1>9, <1>10 DEF nrs, lines, found

(***************************************************************************)
(* The wallet view of a page, in the direction of the search: first the    *)
(* entries of the page that are not hidden; all of them and no more, if    *)
(* none of them is.                                                        *)
(***************************************************************************)
LEMMA LinesSlice ==
  ASSUME NEW filter, FilterOK(filter), filter.function = "wallet", NEW n \in 0..Len(Ledger)
  PROVE  LET page == PageOf(filter, MatchingNrs(filter, n))
             shown == Visible(filter, page)
             nrs == Ascending(filter, Lines(filter, n)) IN
         IsPrefix(shown, nrs) /\ (shown = page => nrs = page)
<1> DEFINE s == MatchingNrs(filter, n)
           skip == SkipEntriesCount(filter)
           found == IterateBlocks(filter, n)
           lines == Lines(filter, n)
           page == PageOf(filter, s)
           shown == Visible(filter, page)
           nrs == Ascending(filter, lines)
           key == filter.key
           Beginning(k) == NotHidden(filter, found, k)
<1>1. n \in Nat /\ filter.size \in Nat /\ 1..n \in SUBSET Nat /\ IsFiniteSet(1..n)
  <2>1. n \in Nat /\ filter.size \in Nat
    BY LedgerAssumption DEF FilterOK
  <2> QED BY <2>1, FS_Interval
<1>2. /\ found \in Seq(1..n) /\ Ascends(filter, found)
      /\ Limit(filter, Len(found)) = Limit(filter, Behind(s, skip))
      /\ \A k \in 1..Limit(filter, Len(found)) : found[k] = s[skip + k]
  BY FoundIsPage, FoundAscends
<1>3. /\ page \in Seq(1..n) /\ Len(page) = Limit(filter, Behind(s, skip))
      /\ \A k \in 1..Len(page) : page[k] = s[skip + k]
  BY <1>1, MatchingSorted, PageIsBehind
<1>4. /\ nrs \in Seq(1..n) /\ Ascends(filter, nrs)
      /\ filter.size # 0 => Len(nrs) <= filter.size
      /\ \E e \in 0..Len(found) : Limit(filter, Len(found)) <= e /\ Range(nrs) = Beginning(e)
  BY LinesFound
<1>5. PICK e \in 0..Len(found) : Limit(filter, Len(found)) <= e /\ Range(nrs) = Beginning(e)
  BY <1>4
<1> HIDE DEF s, skip, found, lines, page, nrs
<1>6. Len(found) \in Nat /\ e \in Nat /\ e <= Len(found) /\ Len(page) \in Nat /\ Len(page) <= e
      /\ Len(page) = Limit(filter, Len(found))
  BY <1>2, <1>3, <1>5
<1>7. \A k \in 1..Len(page) : page[k] = found[k] /\ k \in 1..e /\ k \in 1..Len(found)
  <2>1. \A k \in 1..Len(page) : k \in 1..e /\ k \in 1..Len(found)
    BY <1>6
  <2>2. \A k \in 1..Len(page) : found[k] = s[skip + k]
    BY <1>2, <1>6
  <2> QED BY <1>3, <2>1, <2>2
<1>8. Range(page) = {found[j] : j \in 1..Len(page)} /\ page \in Seq(Nat) /\ Ascends(filter, page)
  <2>1. DOMAIN page = 1..Len(page) /\ page \in Seq(Nat)
    BY <1>1, <1>3, SeqMonotonic
  <2>2. Ascends(filter, page)
    BY <1>2, <1>7 DEF Ascends
  <2> QED BY <1>7, <2>1, <2>2 DEF Range
<1>9. /\ shown \in Seq(Nat) /\ Ascends(filter, shown)
       /\ Range(shown) = {nr \in Range(page) : ~Hidden(key, nr)}
  BY <1>1, <1>3, VisibleSorts
<1> HIDE DEF shown
<1>10. Range(shown) = Beginning(Len(page))
  BY <1>8, <1>9 DEF NotHidden
<1>11. nrs \in Seq(Nat) /\ DOMAIN nrs = 1..Len(nrs) /\ \A i \in 1..Len(nrs) : nrs[i] \in Range(nrs)
  <2>1. nrs \in Seq(Nat) /\ DOMAIN nrs = 1..Len(nrs)
    BY <1>1, <1>4, SeqMonotonic
  <2> QED BY <2>1 DEF Range
<1>12. DOMAIN shown = 1..Len(shown) /\ \A i \in 1..Len(shown) : shown[i] \in Range(shown)
  BY <1>9 DEF Range
<1>13. Range(shown) \subseteq Range(nrs)
  BY <1>5, <1>7, <1>10 DEF NotHidden
<1>14. \A j \in 1..Len(nrs) : nrs[j] \in Range(shown)
                            \/ \A i \in 1..Len(shown) : Precedes(filter, shown[i], nrs[j])
  <2> SUFFICES ASSUME NEW j \in 1..Len(nrs), nrs[j] \notin Range(shown), NEW i \in 1..Len(shown)
               PROVE  Precedes(filter, shown[i], nrs[j])
    OBVIOUS
  <2>1. PICK b \in 1..e : nrs[j] = found[b] /\ ~Hidden(key, found[b])
    BY <1>5, <1>11 DEF NotHidden
  <2>2. PICK k \in 1..Len(page) : shown[i] = found[k]
    BY <1>10, <1>12 DEF NotHidden
  <2>3. b \notin 1..Len(page)
    BY <1>10, <2>1 DEF NotHidden
  <2>4. k < b /\ b \in 1..Len(found) /\ k \in 1..Len(found)
    BY <1>6, <1>7, <2>3
  <2> QED BY <1>2, <2>1, <2>2, <2>4 DEF Ascends
<1>15. Len(shown) <= Len(nrs) /\ \A i \in 1..Len(shown) : shown[i] = nrs[i]
  BY <1>9, <1>11, <1>4, <1>13, <1>14, SortedBegins
<1>16. IsPrefix(shown, nrs)
  <2>1. /\ SubSeq(shown, 1, Len(shown)) = [i \in 1..Len(shown) |-> shown[i]]
        /\ SubSeq(nrs, 1, Len(shown)) = [i \in 1..Len(shown) |-> nrs[i]]
    <3>1. Len(shown) \in Nat /\ (1 + Len(shown)) - 1 = Len(shown)
          /\ \A i \in 1..Len(shown) : (i + 1) - 1 = i
      BY <1>9
    <3> QED BY <1>9, <1>11, <1>15, <3>1
  <2> QED BY <1>15, <2>1 DEF IsPrefix
<1>17. ASSUME shown = page PROVE nrs = page
  <2>1. CASE Len(page) = Len(found)
    <3>1. e = Len(page)
      BY <1>6, <2>1
    <3>2. Range(nrs) = Range(page)
      BY <1>5, <1>10, <1>17, <3>1
    <3> QED BY <1>4, <1>8, <1>11, <3>2, SortedOnce
  <2>2. CASE Len(page) # Len(found)
    <3>1. filter.size # 0 /\ Len(page) = filter.size
      BY <1>6, <2>2 DEF Limit
    <3>2. Len(nrs) \in Nat /\ Len(nrs) <= Len(page)
      BY <1>4, <1>6, <3>1
    <3>3. Len(page) <= Len(nrs) /\ \A i \in 1..Len(page) : page[i] = nrs[i]
      BY <1>15, <1>17
    <3>4. Len(nrs) = Len(page)
      BY <1>6, <3>2, <3>3
    <3> QED BY <1>8, <1>11, <3>3, <3>4, SeqEqual
  <2> QED BY <2>1, <2>2
<1> QED BY <1>16, <1>17 DEF nrs, lines, shown, page, s

-----------------------------------------------------------------------------
(* Pages of the chain itself.                                              *)

Unfiltered(filter) == filter.type = "NONE" /\ filter.key = NoKey

LEMMA ChainFrom ==
  ASSUME NEW filter, FilterOK(filter), Unfiltered(filter), filter.dir = "ASC", NEW n \in Nat
  PROVE  LET s == MatchingNrs(filter, n)
             first == IF filter.from = 0 THEN 1 ELSE filter.from IN
         /\ \A i \in 1..Len(s) : s[i] = first + i - 1
         /\ filter.from = 0 => Len(s) = n
<1> DEFINE s == MatchingNrs(filter, n)
           first == IF filter.from = 0 THEN 1 ELSE filter.from
<1>1. filter.from \in Nat /\ first \in Nat \ {0}
  BY DEF FilterOK
<1>2. \A x \in 1..n : Wanted(filter, x) <=> first <= x
  BY <1>1 DEF Wanted, Unfiltered
<1>3. /\ Len(s) \in Nat /\ Len(s) <= n
      /\ \A i \in 1..Len(s) : s[i] \in 1..n /\ s[i] \in Nat /\ Wanted(filter, s[i])
      /\ \A x \in 1..n : Wanted(filter, x) => \E i \in 1..Len(s) : s[i] = x
      /\ \A i, j \in 1..Len(s) : i < j => s[i] < s[j]
  BY MatchingSorted DEF Ascends, Precedes
<1> HIDE DEF s
<1>4. \A x \in 1..n : first <= x => \E i \in 1..Len(s) : s[i] = x
  BY <1>2, <1>3
<1>5. \A i \in 1..Len(s) : s[i] \in 1..n /\ s[i] \in Nat /\ first <= s[i]
  BY <1>2, <1>3
<1> HIDE DEF first
<1> DEFINE S == {i \in 0..Len(s) : i = 0 \/ s[i] = first + i - 1}
<1>6. 0 \in S
  BY <1>3
<1>7. ASSUME NEW i \in 1..Len(s), i - 1 \in S PROVE i \in S
  <2> DEFINE x == first + i - 1
  <2>1. x \in Nat /\ first <= x /\ i \in 0..Len(s)
    BY <1>1, <1>3
  <2>2. x <= s[i]
    <3>1. CASE i = 1
      BY <1>1, <1>5, <3>1
    <3>2. CASE i # 1
      <4>1. i - 1 \in 1..Len(s) /\ i - 1 < i /\ i - 1 # 0
        BY <1>3, <3>2
      <4>2. s[i - 1] = first + (i - 1) - 1 /\ s[i - 1] < s[i] /\ s[i] \in Nat
        BY <1>3, <1>7, <4>1
      <4> QED BY <1>1, <1>3, <4>2
    <3> QED BY <3>1, <3>2
  <2>3. x \in 1..n
    BY <1>1, <1>5, <2>1, <2>2
  <2>4. PICK j \in 1..Len(s) : s[j] = x
    BY <1>4, <2>1, <2>3
  <2>5. ~(j < i)
    <3> SUFFICES ASSUME j < i PROVE FALSE
      OBVIOUS
    <3>1. i - 1 \in 1..Len(s) /\ i - 1 # 0 /\ (j = i - 1 \/ j < i - 1)
      BY <1>3
    <3>2. s[i - 1] = first + (i - 1) - 1 /\ s[i - 1] \in Nat
      BY <1>5, <1>7, <3>1
    <3>3. s[j] <= s[i - 1]
      BY <1>3, <3>1, <3>2
    <3> QED BY <1>1, <1>3, <2>4, <3>2, <3>3
  <2>6. s[i] <= s[j]
    <3>1. i = j \/ i < j
      BY <1>3, <2>5
    <3> QED BY <1>3, <1>5, <3>1
  <2>7. s[i] = x
    BY <1>5, <2>1, <2>2, <2>4, <2>6
  <2> QED BY <2>1, <2>7
<1> HIDE DEF S
<1>8. ASSUME NEW i \in 1..Len(s) PROVE s[i] = first + i - 1
  <2>1. 0..Len(s) \subseteq S
    BY <1>3, <1>6, <1>7, UpTo
  <2>2. i \in 0..Len(s) /\ i # 0
    BY <1>3
  <2> QED BY <2>1, <2>2 DEF S
<1>9. ASSUME filter.from = 0 PROVE Len(s) = n
  <2>1. first = 1
    BY <1>9 DEF first
  <2>2. CASE n = 0
    BY <1>3, <2>2
  <2>3. CASE n # 0
    <3>1. n \in 1..n /\ first <= n
      BY <2>1, <2>3
    <3>2. PICK i \in 1..Len(s) : s[i] = n
      BY <1>4, <3>1
    <3> QED BY <1>3, <1>8, <2>1, <3>2
  <2> QED BY <2>2, <2>3
<1> QED BY <1>8, <1>9 DEF s, first

(* From the end the newest is the first.                                   *)
LEMMA NewestFirst ==
  ASSUME NEW filter, Unfiltered(filter), filter.from = 0, filter.dir = "DESC", NEW n \in Nat
  PROVE  LET s == MatchingNrs(filter, n) IN
         IF n = 0 THEN Len(s) = 0 ELSE Len(s) >= 1 /\ s[1] = n
<1> DEFINE s == MatchingNrs(filter, n)
<1>1. \A x \in 1..n : Wanted(filter, x)
  BY DEF Wanted, Unfiltered
<1>2. /\ Len(s) \in Nat /\ Len(s) <= n
      /\ \A i \in 1..Len(s) : s[i] \in 1..n /\ s[i] \in Nat
      /\ \A x \in 1..n : Wanted(filter, x) => \E i \in 1..Len(s) : s[i] = x
      /\ \A i, j \in 1..Len(s) : i < j => s[i] > s[j]
  BY MatchingSorted DEF Ascends, Precedes
<1> HIDE DEF s
<1>3. CASE n = 0
  BY <1>2, <1>3 DEF s
<1>4. CASE n # 0
  <2>1. n \in 1..n
    BY <1>4
  <2>2. PICK i \in 1..Len(s) : s[i] = n
    BY <1>1, <1>2, <2>1
  <2>3. 1 \in 1..Len(s) /\ Len(s) >= 1
    BY <1>2
  <2>4. i = 1
    BY <1>2, <2>2, <2>3
  <2> QED BY <1>4, <2>2, <2>3, <2>4 DEF s
<1> QED BY <1>3, <1>4

-----------------------------------------------------------------------------
(* The inductive invariant: the types, and what each answer was when it    *)
(* was given; an answer does not change any more, and what it claims is    *)
(* about the constants and itself.                                         *)

StateOK ==
  /\ pushed \in 0..Len(Ledger)
  /\ confirming \in {"idle", "pushed", "terminated"} /\ (confirming = "pushed" => pushed # 0)
  /\ mMessageIds \subseteq 1..pushed
  /\ mCommunityServer \in {"none", "json", "graphql"}
  /\ mCommunityServer = "none" => notifyTasks \cup running = {}
  /\ notifyTasks \subseteq 1..pushed /\ running \subseteq 1..pushed
  /\ Cardinality(running) <= NotificationWorkers
  /\ told \in 0..pushed

(* The number of the transactions of the wallet a call asks for.           *)
AllOfWallet(c) == [Filter(c, "wallet") EXCEPT !.size = 0, !.page = 0, !.dir = c.dir,
                                              !.type = OnlyCreations(c)]
Counted(c, n) == Len(FindAll(AllOfWallet(c), n))

RequestOK ==
  /\ calls \in Seq(Asked)
  /\ step \in {"handle", "page"} /\ toldBefore \in BOOLEAN
  /\ counted \in 0..Len(Ledger) /\ countedAt \in 0..Len(Ledger)
  /\ toldBefore => Call.nr \in 1..pushed
  /\ step = "page" /\ Call.method = "getTransactions" => counted = countedAt
  /\ step = "page" /\ Call.method = "listTransactions" => counted = Counted(Call, countedAt)

ReadOK == read \in Seq(Nrs) /\ ClientReadsAll

WalletOK(a) ==
  /\ a.call \in Asked /\ a.call.pubkey # NoKey /\ a.at \in 0..Len(Ledger)
  /\ a.result.nrs = Lines(WalletPage(a), a.at)
  /\ a.countedAt = a.at => a.result.count = Counted(a.call, a.at)
  /\ a.result.decay = IF a.result.nrs # <<>> /\ HasLastDecay(WalletPage(a), a.result.count)
                      THEN {DecayLine(Last(a.result.nrs), a.call.pubkey)} ELSE NoDecay

FoundOK(a) ==
  /\ a.call.method = "getTransactionsForAddress" =>
       Scan([Filter(a.call, "none") EXCEPT !.from = a.call.from, !.size = a.call.size, !.page = 1],
            a.result.nrs, a.at)
  /\ a.call.method = "getAddressTxids" => Scan(Filter(a.call, "none"), a.result.nrs, a.at)
  /\ a.call.method = "getLastTransaction" => a.result.nrs = <<a.at>>
  /\ a.call.method = "getTransactions" => a.result.count = a.countedAt
  /\ a.call.method = "listTransactions" => WalletOK(a)

ToldOK(a) ==
  a.call.method = "getTransaction" /\ "transactionId" \in a.call.given
    /\ ~Refused(a.call) /\ a.told => a.result.nrs = <<a.call.nr>>

OutcomeOK(a) ==
  (a.call.method = "getLastTransaction" => "format" \in a.call.given) => a.errors + a.results = 1

AnswerOK(a) ==
  /\ a.result.nrs \in Seq(Nrs)
  /\ a.errors = 0 => FoundOK(a)
  /\ ToldOK(a)
  /\ OutcomeOK(a)

AnswersOK ==
  /\ answers \in Seq(Range(answers))
  /\ \A i \in DOMAIN answers : AnswerOK(answers[i])

Inv == StateOK /\ RequestOK /\ ReadOK /\ AnswersOK

LEMMA InitInv == Init => Inv
<1> SUFFICES ASSUME Init PROVE Inv
  OBVIOUS
<1>1. Len(Ledger) \in Nat /\ NotificationWorkers \in Nat
  BY LedgerAssumption, QueriesAssumption
<1>2. StateOK
  <2>1. Cardinality({}) = 0
    BY FS_EmptySet
  <2>2. mCommunityServer \in {"none", "json", "graphql"}
    BY DEF Init, Client
  <2> QED BY <1>1, <2>1, <2>2 DEF Init, StateOK
<1>3. RequestOK
  <2>1. calls \in Seq(Asked)
    BY DEF Init
  <2>2. step = "handle" /\ toldBefore = FALSE
    BY DEF Init
  <2>3. counted \in 0..Len(Ledger) /\ countedAt \in 0..Len(Ledger)
    BY <1>1 DEF Init
  <2> QED BY <2>1, <2>2, <2>3 DEF RequestOK
<1>4. ReadOK
  BY DEF Init, ReadOK, ClientReadsAll
<1>5. AnswersOK
  BY DEF Init, AnswersOK
<1> QED BY <1>2, <1>3, <1>4, <1>5 DEF Inv

(* Outside of handle() an answer is kept, or sent.                         *)
LEMMA ElsewhereKeeps ==
  ASSUME RequestOK, ReadOK, AnswersOK, Elsewhere, pushed' >= pushed,
         pushed \in Nat, pushed' \in Nat
  PROVE  RequestOK' /\ ReadOK' /\ AnswersOK'
<1>1. RequestOK'
  <2>1. UNCHANGED request /\ 1..pushed \subseteq 1..pushed'
    BY DEF Elsewhere
  <2> QED BY <2>1 DEF RequestOK, request, Call
<1>2. ReadOK'
  BY DEF Elsewhere, ReadOK, ClientReadsAll
<1>3. CASE answers' = answers
  BY <1>1, <1>2, <1>3 DEF AnswersOK
<1>4. CASE answers' = <<>>
  <2>1. AnswersOK'
    BY <1>4 DEF AnswersOK
  <2> QED BY <1>1, <1>2, <2>1
<1> QED BY <1>3, <1>4 DEF Elsewhere

(* The response to a call.                                                 *)
Response(errors, results, result) ==
  [call |-> Call, errors |-> errors, results |-> results,
   result |-> result, at |-> pushed, countedAt |-> countedAt, told |-> toldBefore]

LEMMA AppendAnswer ==
  ASSUME NEW s, s \in Seq(Range(s)), NEW e
  PROVE  /\ Append(s, e) \in Seq(Range(Append(s, e)))
         /\ \A i \in DOMAIN Append(s, e) :
              (i \in DOMAIN s /\ Append(s, e)[i] = s[i]) \/ Append(s, e)[i] = e
<1> DEFINE T == Range(s) \cup {e}
           t == Append(s, e)
<1>1. s \in Seq(T)
  <2>1. Range(s) \subseteq T
    OBVIOUS
  <2> QED BY <2>1, SeqMonotonic
<1> HIDE DEF T
<1>2. e \in T
  BY DEF T
<1>3. /\ t \in Seq(T) /\ Len(s) \in Nat /\ Len(t) = Len(s) + 1
      /\ DOMAIN t = 1..Len(t) /\ DOMAIN s = 1..Len(s)
      /\ \A i \in 1..Len(s) : t[i] = s[i]
      /\ t[Len(s) + 1] = e
  BY <1>1, <1>2
<1> HIDE DEF t
<1>4. t \in Seq(Range(t))
  <2>1. \A i \in 1..Len(t) : t[i] \in Range(t)
    BY <1>3 DEF Range
  <2>2. t \in [1..Len(t) -> Range(t)]
    BY <1>3, <2>1
  <2>3. Len(t) \in Nat
    BY <1>3
  <2> QED BY <2>2, <2>3
<1>5. \A i \in DOMAIN t : i \in 1..Len(s) \/ i = Len(s) + 1
  BY <1>3
<1> QED BY <1>3, <1>4, <1>5 DEF t

LEMMA Responds ==
  ASSUME Inv, calls # <<>>, NEW errors, NEW results, NEW result,
         Respond(errors, results, result), AnswerOK(Response(errors, results, result)),
         Call \in FromNumber /\ errors = 0 => ReadOK'
  PROVE  Inv'
<1>1. StateOK'
  BY DEF Inv, StateOK, Respond, chainVars, notifications
<1>2. RequestOK'
  <2>1. calls' \in Seq(Asked)
    BY HeadTailProperties DEF Inv, RequestOK, Respond
  <2>2. step' = "handle" /\ counted' = 0 /\ countedAt' = 0 /\ toldBefore' = FALSE
    BY DEF Respond
  <2>3. 0 \in 0..Len(Ledger)
    BY LedgerAssumption
  <2> QED BY <2>1, <2>2, <2>3 DEF RequestOK
<1>3. ReadOK'
  <2>1. CASE Call \in FromNumber /\ errors = 0
    BY <2>1
  <2>2. CASE ~(Call \in FromNumber /\ errors = 0)
    <3>1. read' = read
      BY <2>2 DEF Respond
    <3> QED BY <3>1 DEF Inv, ReadOK, ClientReadsAll
  <2> QED BY <2>1, <2>2
<1>4. AnswersOK'
  <2>1. answers' = Append(answers, Response(errors, results, result))
    BY DEF Respond, Response
  <2>2. AnswersOK
    BY DEF Inv
  <2> HIDE DEF Response
  <2> QED BY <2>1, <2>2, AppendAnswer DEF AnswersOK
<1> QED BY <1>1, <1>2, <1>3, <1>4 DEF Inv

-----------------------------------------------------------------------------
(* The actions outside of handle().                                        *)

LEMMA Constants ==
  /\ Len(Ledger) \in Nat /\ NotificationWorkers \in Nat
  /\ \A c \in Asked : c.size \in Nat /\ c.page \in Nat /\ c.from \in Nat
  /\ \A c \in FromNumber : c.method = "getTransactions"
BY LedgerAssumption, QueriesAssumption

LEMMA NextPush == Inv /\ (Push \/ Notify) => Inv'
<1> SUFFICES ASSUME Inv, Push \/ Notify PROVE Inv'
  OBVIOUS
<1>1. pushed \in Nat /\ Len(Ledger) \in Nat
  BY Constants DEF Inv, StateOK
<1>2. CASE Push
  <2>1. pushed' \in 0..Len(Ledger) /\ pushed' >= pushed /\ pushed' # 0 /\ pushed' \in Nat
    BY <1>1, <1>2 DEF Push, Inv, StateOK
  <2>2. 1..pushed \subseteq 1..pushed' /\ told \in 0..pushed'
    BY <1>1, <2>1 DEF Inv, StateOK
  <2>3. UNCHANGED <<mMessageIds, mCommunityServer, notifyTasks, running, told>>
    BY <1>2 DEF Push, notifications
  <2>4. StateOK'
    BY <1>2, <2>1, <2>2, <2>3 DEF Push, Inv, StateOK
  <2> QED BY <1>1, <1>2, <2>1, <2>4, ElsewhereKeeps DEF Push, Inv
<1>3. CASE Notify
  <2>1. pushed \in 1..pushed
    BY <1>1, <1>3 DEF Notify, Inv, StateOK
  <2>2. mMessageIds' \subseteq 1..pushed /\ notifyTasks' \subseteq 1..pushed
    BY <1>3, <2>1 DEF Notify, Inv, StateOK
  <2>3. UNCHANGED <<pushed, mCommunityServer, running, told>> /\ confirming' = "idle"
    BY <1>3 DEF Notify
  <2>4. mCommunityServer = "none" => notifyTasks' \cup running = {}
    BY <1>3 DEF Notify, Inv, StateOK
  <2>5. StateOK'
    BY <2>2, <2>3, <2>4 DEF Inv, StateOK
  <2> QED BY <1>1, <1>3, <2>3, <2>5, ElsewhereKeeps DEF Notify, Inv
<1> QED BY <1>2, <1>3

LEMMA NextNotifications ==
  Inv /\ (TakeNotification \/ \E nr \in Nrs : NotificateNewTransaction(nr) \/ NotificationThrows(nr))
    => Inv'
<1> SUFFICES ASSUME Inv,
                    \/ TakeNotification
                    \/ \E nr \in Nrs : NotificateNewTransaction(nr) \/ NotificationThrows(nr)
             PROVE  Inv'
  OBVIOUS
<1>1. pushed \in Nat /\ NotificationWorkers \in Nat
  BY Constants DEF Inv, StateOK
<1>2. IsFiniteSet(running) /\ running \subseteq 1..pushed /\ notifyTasks \subseteq 1..pushed
  <2>1. running \subseteq 1..pushed /\ notifyTasks \subseteq 1..pushed
    BY DEF Inv, StateOK
  <2>2. IsFiniteSet(1..pushed)
    BY <1>1, FS_Interval
  <2>3. IsFiniteSet(running)
    BY <2>1, <2>2, FS_Subset
  <2> QED BY <2>1, <2>3
<1>3. Cardinality(running) \in Nat
  BY <1>2, FS_CardinalityType
<1>4. CASE TakeNotification
  <2> DEFINE nr == Min(notifyTasks)
  <2>1. nr \in notifyTasks
    <3>1. notifyTasks \in SUBSET Nat /\ notifyTasks # {}
      BY <1>1, <1>2, <1>4 DEF TakeNotification
    <3>2. \E m \in notifyTasks : \A k \in notifyTasks : m <= k
      BY <3>1, SmallestMember
    <3> QED BY <3>2 DEF Min
  <2> HIDE DEF nr
  <2>2. /\ running' = running \cup {nr} /\ notifyTasks' = notifyTasks \ {nr}
        /\ Cardinality(running) < NotificationWorkers
        /\ UNCHANGED <<pushed, confirming, mMessageIds, mCommunityServer, told>>
    BY <1>4 DEF TakeNotification, nr, chainVars
  <2>3. Cardinality(running') <= NotificationWorkers
    <3>1. CASE nr \in running
      <4>1. running' = running
        BY <2>2, <3>1
      <4> QED BY <4>1 DEF Inv, StateOK
    <3>2. CASE nr \notin running
      <4>1. Cardinality(running') = Cardinality(running) + 1
        BY <1>2, <2>2, <3>2, FS_AddElement
      <4> QED BY <1>1, <1>3, <2>2, <4>1
    <3> QED BY <3>1, <3>2
  <2>4. running' \cup notifyTasks' = running \cup notifyTasks
    BY <2>1, <2>2
  <2>5. StateOK'
    BY <1>2, <2>1, <2>2, <2>3, <2>4 DEF Inv, StateOK
  <2> QED BY <1>1, <1>4, <2>2, <2>5, ElsewhereKeeps DEF TakeNotification, Inv
<1>5. CASE \E nr \in Nrs : NotificateNewTransaction(nr)
  <2>1. PICK nr \in running : \E outcome : Notificate(nr, outcome)
    BY <1>5 DEF NotificateNewTransaction
  <2>2. PICK outcome : Notificate(nr, outcome)
    BY <2>1
  <2>3. UNCHANGED <<pushed, confirming, mMessageIds, mCommunityServer, notifyTasks>> /\ Elsewhere
    BY <1>5 DEF NotificateNewTransaction, chainVars
  <2>4. running' = running \ {nr}
    BY <2>2 DEF Notificate
  <2>5. told' \in 0..pushed
    <3>1. told' = nr \/ told' = 0
      BY <2>2 DEF Notificate
    <3> QED BY <1>1, <1>2, <3>1
  <2>6. Cardinality(running') <= NotificationWorkers
    <3>1. Cardinality(running') \in Nat /\ Cardinality(running') <= Cardinality(running)
      BY <1>2, <2>4, FS_Subset, FS_CardinalityType
    <3> QED BY <1>1, <1>3, <3>1 DEF Inv, StateOK
  <2>7. mCommunityServer = "none" => notifyTasks' \cup running' = {}
    BY <2>3, <2>4 DEF Inv, StateOK
  <2>8. running' \subseteq 1..pushed
    BY <1>2, <2>4
  <2>9. StateOK'
    BY <2>3, <2>5, <2>6, <2>7, <2>8 DEF Inv, StateOK
  <2> QED BY <1>1, <2>3, <2>9, ElsewhereKeeps DEF Inv
<1>6. CASE \E nr \in Nrs : NotificationThrows(nr)
  <2>1. /\ confirming' = "terminated" /\ answers' = <<>>
        /\ UNCHANGED <<pushed, mMessageIds, mCommunityServer, notifyTasks, running, told,
                       calls, step, counted, countedAt, toldBefore, read>>
    BY <1>6 DEF NotificationThrows, notifications, request
  <2>2. StateOK' /\ ReadOK' /\ AnswersOK'
    BY <2>1 DEF Inv, StateOK, ReadOK, ClientReadsAll, AnswersOK
  <2>3. RequestOK'
    BY <2>1 DEF Inv, RequestOK, Call
  <2> QED BY <2>2, <2>3 DEF Inv
<1> QED BY <1>4, <1>5, <1>6

LEMMA NextRequest == \A r \in Requests : Inv /\ HandleRequest(r) => Inv'
<1> SUFFICES ASSUME NEW r \in Requests, Inv, HandleRequest(r) PROVE Inv'
  OBVIOUS
<1>1. r \in Seq(Asked) /\ r # <<>> /\ Head(r) = r[1]
  <2>1. r \in Seq(Asked) /\ r # <<>>
    BY QueriesAssumption
  <2> QED BY <2>1
<1>2. StateOK'
  <2>1. UNCHANGED <<pushed, confirming, mMessageIds, mCommunityServer, notifyTasks, running>> /\ told' = 0
    BY DEF HandleRequest, chainVars
  <2>2. 0 \in 0..pushed
    BY Constants DEF Inv, StateOK
  <2> QED BY <2>1, <2>2 DEF Inv, StateOK
<1>3. RequestOK'
  <2>1. calls' = r /\ step' = "handle" /\ counted' = 0 /\ countedAt' = 0 /\ pushed' = pushed
    BY DEF HandleRequest, chainVars
  <2>2. toldBefore' = (told # 0 /\ r[1].nr = told)
    BY DEF HandleRequest
  <2>3. toldBefore' \in BOOLEAN
    BY <2>2
  <2>4. toldBefore' => r[1].nr \in 1..pushed
    <3>1. told \in 0..pushed /\ pushed \in Nat
      BY Constants DEF Inv, StateOK
    <3>2. toldBefore' => told # 0 /\ r[1].nr = told
      BY <2>2
    <3> QED BY <3>1, <3>2
  <2>5. 0 \in 0..Len(Ledger)
    BY Constants
  <2> QED BY <1>1, <2>1, <2>3, <2>4, <2>5 DEF RequestOK, Call
<1>4. ReadOK' /\ AnswersOK'
  <2>1. read' = read /\ answers' = <<>>
    BY DEF HandleRequest
  <2> QED BY <2>1 DEF Inv, ReadOK, ClientReadsAll, AnswersOK
<1> QED BY <1>2, <1>3, <1>4 DEF Inv

-----------------------------------------------------------------------------
(* The handlers.                                                           *)

LEMMA Handled ==
  ASSUME Inv, calls # <<>>
  PROVE  /\ Call \in Asked /\ pushed \in 0..Len(Ledger) /\ pushed \in Nat
         /\ Call.size \in Nat /\ Call.page \in Nat /\ Call.from \in Nat
         /\ \A nrs \in Seq(1..pushed) : nrs \in Seq(Nrs)
<1>1. Call \in Asked
  BY HeadTailProperties DEF Inv, RequestOK, Call
<1>2. pushed \in 0..Len(Ledger) /\ pushed \in Nat
  BY Constants DEF Inv, StateOK
<1>3. 1..pushed \subseteq Nrs
  BY <1>2, Constants DEF Nrs
<1> QED BY <1>1, <1>2, <1>3, SeqMonotonic, Constants

(* Most responses are not what the properties are about.                   *)
LEMMA PlainResponse ==
  ASSUME Inv, calls # <<>>, NEW errors, NEW results, NEW result,
         Respond(errors, results, result), errors + results = 1,
         result.nrs \in Seq(1..pushed), errors # 0 \/ Call.method \notin
           {"getTransactionsForAddress", "getAddressTxids", "getLastTransaction", "getTransactions",
            "listTransactions"},
         Call.method # "getTransaction" \/ Refused(Call)
  PROVE  Inv'
<1> DEFINE a == Response(errors, results, result)
<1>1. /\ a.call = Call /\ a.errors = errors /\ a.results = results /\ a.result = result
  BY DEF Response
<1> HIDE DEF a
<1>2. a.result.nrs \in Seq(Nrs)
  BY <1>1, Handled
<1>3. ToldOK(a) /\ OutcomeOK(a)
  BY <1>1 DEF ToldOK, OutcomeOK
<1>4. a.errors = 0 => FoundOK(a)
  BY <1>1 DEF FoundOK
<1>5. AnswerOK(a)
  BY <1>2, <1>3, <1>4 DEF AnswerOK
<1>6. ~(Call \in FromNumber /\ errors = 0)
  BY Constants
<1> QED BY <1>5, <1>6, Responds DEF a

LEMMA EmptyResult ==
  /\ NoResult.nrs = <<>>
  /\ \A N : <<>> \in Seq(N)
  /\ \A nrs : Result(nrs).nrs = nrs
BY DEF NoResult, Result

LEMMA RefusedResponse ==
  ASSUME Inv, calls # <<>>, Respond(1, 0, NoResult),
         Call.method # "getTransaction" \/ Refused(Call)
  PROVE  Inv'
<1>1. NoResult.nrs \in Seq(1..pushed)
  BY EmptyResult
<1>2. 1 + 0 = 1 /\ 1 # 0
  OBVIOUS
<1> QED BY <1>1, <1>2, PlainResponse

LEMMA EmptyResponse ==
  ASSUME Inv, calls # <<>>, Respond(0, 1, NoResult),
         Call.method \notin {"getTransactionsForAddress", "getAddressTxids", "getLastTransaction",
                             "getTransactions", "getTransaction", "listTransactions"}
  PROVE  Inv'
<1>1. NoResult.nrs \in Seq(1..pushed)
  BY EmptyResult
<1>2. 0 + 1 = 1
  OBVIOUS
<1> QED BY <1>1, <1>2, PlainResponse

LEMMA NextRefused ==
  Inv /\ (HandleRefused \/ ListCommunities \/ GetOfAddress) => Inv'
<1> SUFFICES ASSUME Inv, HandleRefused \/ ListCommunities \/ GetOfAddress PROVE Inv'
  OBVIOUS
<1>1. CASE HandleRefused
  <2>1. calls # <<>> /\ Refused(Call) /\ Respond(1, 0, NoResult)
    BY <1>1 DEF HandleRefused
  <2> QED BY <2>1, RefusedResponse
<1>2. CASE ListCommunities
  <2>1. calls # <<>> /\ Call.method = "listCommunities" /\ Respond(0, 1, NoResult)
    BY <1>2 DEF ListCommunities
  <2> QED BY <2>1, EmptyResponse
<1>3. CASE GetOfAddress
  <2>1. /\ calls # <<>> /\ Respond(0, 1, NoResult)
        /\ Call.method \in {"getAddressBalance", "getAddressType", "getCreationSumForMonth"}
    BY <1>3 DEF GetOfAddress, Handling
  <2> QED BY <2>1, EmptyResponse
<1> QED BY <1>1, <1>2, <1>3

LEMMA NextGetTransaction == Inv /\ GetTransaction => Inv'
<1> SUFFICES ASSUME Inv, GetTransaction PROVE Inv'
  OBVIOUS
<1>1. calls # <<>> /\ Call.method = "getTransaction" /\ ~Refused(Call)
  BY DEF GetTransaction, Handling
<1>2. PICK nr : /\ Found(nr) /\ nr \in 0..pushed
                /\ "transactionId" \in Call.given => nr = TransactionForId(Call.nr)
  <2>1. \A x : TransactionForId(x) \in 0..pushed
    BY <1>1, Handled DEF TransactionForId, HasTransactionNr
  <2>2. FindByMessageId(Call.nr) \in 0..pushed
    BY <2>1 DEF FindByMessageId
  <2> QED BY <2>1, <2>2 DEF GetTransaction
<1>3. PICK errors, results, result :
        /\ Respond(errors, results, result) /\ errors + results = 1
        /\ result.nrs \in Seq(1..pushed) /\ (nr # 0 => result.nrs = <<nr>>)
  <2>1. CASE nr = 0
    <3>1. Respond(1, 0, NoResult) /\ 1 + 0 = 1
      BY <1>2, <2>1 DEF Found
    <3>2. NoResult.nrs \in Seq(1..pushed)
      BY EmptyResult
    <3> WITNESS 1, 0, NoResult
    <3> QED BY <2>1, <3>1, <3>2
  <2>2. CASE nr # 0
    <3>1. nr \in 1..pushed
      BY <1>1, <1>2, <2>2, Handled
    <3>2. Respond(0, 1, Result(<<nr>>)) /\ 0 + 1 = 1
      BY <1>2, <2>2 DEF Found
    <3>3. Result(<<nr>>).nrs = <<nr>> /\ <<nr>> \in Seq(1..pushed)
      BY <3>1, EmptyResult
    <3> WITNESS 0, 1, Result(<<nr>>)
    <3> QED BY <3>2, <3>3
  <2> QED BY <2>1, <2>2
<1> DEFINE a == Response(errors, results, result)
<1>4. /\ a.call = Call /\ a.errors = errors /\ a.results = results /\ a.result = result
      /\ a.told = toldBefore
  BY DEF Response
<1> HIDE DEF a
<1>5. a.result.nrs \in Seq(Nrs)
  BY <1>1, <1>3, <1>4, Handled
<1>6. ToldOK(a)
  <2> SUFFICES ASSUME "transactionId" \in Call.given, toldBefore PROVE result.nrs = <<Call.nr>>
    BY <1>4 DEF ToldOK
  <2>1. Call.nr \in 1..pushed /\ Call.nr # 0
    <3>1. Call.nr \in 1..pushed
      BY DEF Inv, RequestOK
    <3> QED BY <1>1, <3>1, Handled
  <2>2. nr = Call.nr
    BY <1>2, <2>1 DEF TransactionForId, HasTransactionNr
  <2> QED BY <1>3, <2>1, <2>2
<1>7. OutcomeOK(a) /\ FoundOK(a)
  BY <1>1, <1>3, <1>4 DEF OutcomeOK, FoundOK
<1>8. AnswerOK(a)
  BY <1>5, <1>6, <1>7 DEF AnswerOK
<1>9. Call \notin FromNumber
  BY <1>1, Constants
<1> QED BY <1>1, <1>3, <1>8, <1>9, Responds DEF a

(* A search that finds entries is answered with them.                      *)
LEMMA FoundResponse ==
  ASSUME Inv, calls # <<>>, NEW nrs \in Seq(1..pushed), Respond(0, 1, Result(nrs)),
         Call.method # "getTransaction", Call.method # "getTransactions",
         FoundOK(Response(0, 1, Result(nrs)))
  PROVE  Inv'
<1> DEFINE a == Response(0, 1, Result(nrs))
<1>1. /\ a.call = Call /\ a.errors = 0 /\ a.results = 1 /\ a.result.nrs = nrs
  BY EmptyResult DEF Response
<1>2. FoundOK(a)
  OBVIOUS
<1> HIDE DEF a
<1>3. nrs \in Seq(Nrs)
  BY Handled
<1>4. ToldOK(a) /\ OutcomeOK(a)
  <2>1. 0 + 1 = 1
    OBVIOUS
  <2> QED BY <1>1, <2>1 DEF ToldOK, OutcomeOK
<1>5. AnswerOK(a)
  BY <1>1, <1>2, <1>3, <1>4 DEF AnswerOK
<1>6. Call \notin FromNumber
  BY Constants
<1> QED BY <1>5, <1>6, Responds DEF a

LEMMA CountKeeps ==
  ASSUME Inv, calls # <<>>, counted' \in 0..Len(Ledger), countedAt' = pushed, step' = "page",
         UNCHANGED <<chainVars, notifications, calls, answers, toldBefore, read>>,
         Call.method = "getTransactions" => counted' = pushed,
         Call.method = "listTransactions" => counted' = Counted(Call, pushed)
  PROVE  Inv'
<1>1. StateOK'
  BY DEF Inv, StateOK, chainVars, notifications
<1>2. RequestOK'
  <2>1. pushed' = pushed /\ countedAt' \in 0..Len(Ledger)
    BY Handled DEF chainVars
  <2>2. toldBefore' \in BOOLEAN /\ (toldBefore' => Call'.nr \in 1..pushed')
    BY <2>1 DEF Inv, RequestOK, Call
  <2>3. calls' \in Seq(Asked)
    BY DEF Inv, RequestOK
  <2>4. step' = "page" /\ Call'.method = "getTransactions" => counted' = countedAt'
    BY DEF Call
  <2>5. step' = "page" /\ Call'.method = "listTransactions" => counted' = Counted(Call', countedAt')
    BY DEF Call
  <2> QED BY <2>1, <2>2, <2>3, <2>4, <2>5 DEF RequestOK, Call
<1>3. ReadOK' /\ AnswersOK'
  BY DEF Inv, ReadOK, ClientReadsAll, AnswersOK
<1> QED BY <1>1, <1>2, <1>3 DEF Inv

LEMMA NextFollowing == Inv /\ (CountTransactions \/ FindAllTransactions) => Inv'
<1> SUFFICES ASSUME Inv, CountTransactions \/ FindAllTransactions PROVE Inv'
  OBVIOUS
<1>1. calls # <<>> /\ Call.method = "getTransactions"
  BY DEF CountTransactions, FindAllTransactions, Handling
<1>2. /\ pushed \in 0..Len(Ledger) /\ pushed \in Nat /\ Len(Ledger) \in Nat
      /\ Call.size \in Nat /\ Call.from \in Nat
      /\ read \in Seq(Nrs) /\ Len(read) \in Nat
  BY <1>1, Handled, Constants DEF Inv, ReadOK
<1>3. CASE CountTransactions
  <2> DEFINE filter == [Filter(Call, "none") EXCEPT !.key = NoKey]
             s == MatchingNrs(filter, pushed)
  <2>1. /\ filter.from = 0 /\ filter.size = 0 /\ filter.page = 0 /\ filter.dir = "ASC"
        /\ filter.type = "NONE" /\ filter.key = NoKey /\ filter.function = "none"
    BY DEF Filter
  <2>2. counted' = Len(FindAll(filter, pushed))
    BY <1>3 DEF CountTransactions
  <2> HIDE DEF filter
  <2>3. FilterOK(filter) /\ Unfiltered(filter)
    BY <2>1 DEF FilterOK, Unfiltered
  <2>4. FindAll(filter, pushed) = PageOf(filter, s)
    BY <1>2, <2>1, <2>3, FindAllIsPage
  <2>5. PageOf(filter, s) = s
    BY <2>1 DEF PageOf
  <2>6. Len(s) = pushed
    BY <1>2, <2>1, <2>3, ChainFrom
  <2>7. counted' = pushed
    BY <2>2, <2>4, <2>5, <2>6
  <2>8. counted' \in 0..Len(Ledger)
    BY <1>2, <2>7
  <2> QED BY <1>1, <1>3, <2>7, <2>8, CountKeeps DEF CountTransactions
<1>4. CASE FindAllTransactions
  <2> DEFINE filter == [Filter(Call, "none") EXCEPT !.key = NoKey, !.from = FromTransactionId,
                                                    !.size = Call.size, !.page = 1]
             s == MatchingNrs(filter, pushed)
             page == FindAll(filter, pushed)
             result == [Result(page) EXCEPT !.count = counted]
             a == Response(0, 1, result)
  <2>1. /\ filter.from = FromTransactionId /\ filter.size = Call.size /\ filter.page = 1
        /\ filter.dir = "ASC" /\ filter.type = "NONE" /\ filter.key = NoKey
        /\ filter.function = "none"
    BY DEF Filter
  <2>2. Respond(0, 1, result) /\ step = "page"
    BY <1>4 DEF FindAllTransactions
  <2>3. result.nrs = page /\ result.count = counted
    BY DEF Result, NoResult
  <2> HIDE DEF filter, result
  <2>4. FromTransactionId \in Nat
    BY <1>2 DEF FromTransactionId
  <2>5. FilterOK(filter) /\ Unfiltered(filter)
    BY <1>2, <2>1, <2>4 DEF FilterOK, Unfiltered
  <2>6. page \in Seq(1..pushed) /\ page = PageOf(filter, s)
    BY <1>2, <2>1, <2>5, FindAllType, FindAllIsPage
  <2>7. page \in Seq(Nrs)
    BY <1>1, <2>6, Handled
  <2>8. ASSUME Call \in FromNumber
        PROVE  /\ Len(page) \in Nat
               /\ \A k \in 1..Len(page) : page[k] = Len(read) + k
    <3>1. s \in Seq(1..pushed) /\ Len(s) \in Nat
      BY <1>2, MatchingSorted
    <3>2. filter.from = Len(read) + 1
      BY <2>1, <2>8 DEF FromTransactionId
    <3>3. \A i \in 1..Len(s) : s[i] = (Len(read) + 1) + i - 1
      BY <1>2, <2>1, <2>5, <3>2, ChainFrom
    <3>4. SkipEntriesCount(filter) = 0
      BY <1>2, <2>1 DEF SkipEntriesCount
    <3>5. /\ Len(page) = Limit(filter, Behind(s, 0))
          /\ \A k \in 1..Len(page) : page[k] = s[0 + k]
      BY <2>5, <2>6, <3>1, <3>4, PageIsBehind
    <3> HIDE DEF s, page
    <3>6. Len(page) \in Nat /\ Len(page) <= Len(s)
      BY <1>2, <2>1, <3>1, <3>5 DEF Limit, Behind
    <3>7. \A k \in 1..Len(page) : k \in 1..Len(s) /\ 0 + k = k /\ (Len(read) + 1) + k - 1 = Len(read) + k
      BY <1>2, <3>1, <3>6
    <3> QED BY <3>3, <3>5, <3>6, <3>7
  <2> HIDE DEF page, s
  <2>9. ASSUME Call \in FromNumber PROVE ReadOK'
    <3>1. read' = read \o page
      BY <2>2, <2>3, <2>9 DEF Respond
    <3>2. /\ read' \in Seq(Nrs) /\ Len(read') = Len(read) + Len(page)
          /\ \A i \in 1..Len(read) + Len(page) :
               read'[i] = IF i <= Len(read) THEN read[i] ELSE page[i - Len(read)]
      BY <1>2, <2>7, <3>1, ConcatProperties
    <3>3. \A i \in 1..Len(read) : read[i] = i
      BY <1>2 DEF Inv, ReadOK, ClientReadsAll
    <3>4. ASSUME NEW i \in 1..Len(read) + Len(page) PROVE read'[i] = i
      <4>1. CASE i <= Len(read)
        BY <1>2, <2>8, <2>9, <3>2, <3>3, <4>1
      <4>2. CASE ~(i <= Len(read))
        <5>1. i - Len(read) \in 1..Len(page)
          BY <1>2, <2>8, <2>9, <4>2
        <5>2. page[i - Len(read)] = Len(read) + (i - Len(read))
          BY <2>8, <2>9, <5>1
        <5> QED BY <1>2, <2>8, <2>9, <3>2, <4>2, <5>2
      <4> QED BY <4>1, <4>2
    <3>5. DOMAIN read' = 1..Len(read) + Len(page)
      BY <3>2
    <3> QED BY <3>2, <3>4, <3>5 DEF ReadOK, ClientReadsAll
  <2>10. /\ a.call = Call /\ a.errors = 0 /\ a.results = 1 /\ a.result = result
         /\ a.countedAt = countedAt
    BY DEF Response
  <2> HIDE DEF a
  <2>11. counted = countedAt
    BY <1>1, <2>2 DEF Inv, RequestOK
  <2>12. AnswerOK(a)
    <3>1. 0 + 1 = 1
      OBVIOUS
    <3>2. FoundOK(a)
      BY <1>1, <2>3, <2>10, <2>11 DEF FoundOK
    <3>3. ToldOK(a) /\ OutcomeOK(a)
      BY <1>1, <2>10, <3>1 DEF ToldOK, OutcomeOK
    <3> QED BY <2>3, <2>7, <2>10, <3>2, <3>3 DEF AnswerOK
  <2> QED BY <1>1, <2>2, <2>9, <2>12, Responds DEF a
<1> QED BY <1>3, <1>4

LEMMA NextLast == Inv /\ GetLastTransaction => Inv'
<1> SUFFICES ASSUME Inv, GetLastTransaction PROVE Inv'
  OBVIOUS
<1> DEFINE filter == [Filter(Call, "none") EXCEPT !.key = NoKey, !.size = 1,
                                                  !.page = 1, !.dir = "DESC"]
           s == MatchingNrs(filter, pushed)
           last == FindAll(filter, pushed)
           noFormat == IF "format" \in Call.given THEN 0 ELSE 1
           errors == noFormat + (IF last = <<>> THEN 1 ELSE 0)
           results == IF errors = 0 THEN 1 ELSE 0
           a == Response(errors, results, Result(last))
<1>1. calls # <<>> /\ Call.method = "getLastTransaction"
  BY DEF GetLastTransaction, Handling
<1>2. Respond(errors, results, Result(last))
  BY DEF GetLastTransaction
<1>3. /\ filter.from = 0 /\ filter.size = 1 /\ filter.page = 1 /\ filter.dir = "DESC"
      /\ filter.type = "NONE" /\ filter.key = NoKey /\ filter.function = "none"
  BY DEF Filter
<1>4. pushed \in 0..Len(Ledger) /\ pushed \in Nat
  BY <1>1, Handled
<1> HIDE DEF filter
<1>5. FilterOK(filter) /\ Unfiltered(filter)
  BY <1>3 DEF FilterOK, Unfiltered
<1>6. last \in Seq(1..pushed) /\ last = PageOf(filter, s)
  BY <1>3, <1>4, <1>5, FindAllType, FindAllIsPage
<1>7. last \in Seq(Nrs)
  BY <1>1, <1>6, Handled
<1>8. last = <<>> \/ last = <<pushed>>
  <2>1. SkipEntriesCount(filter) = 0
    BY <1>3 DEF SkipEntriesCount
  <2>2. s \in Seq(1..pushed) /\ Len(s) \in Nat
    BY <1>4, MatchingSorted
  <2>3. /\ Len(last) = Limit(filter, Behind(s, 0))
        /\ \A k \in 1..Len(last) : last[k] = s[0 + k]
    BY <1>5, <1>6, <2>1, <2>2, PageIsBehind
  <2>4. IF pushed = 0 THEN Len(s) = 0 ELSE Len(s) >= 1 /\ s[1] = pushed
    BY <1>3, <1>4, <1>5, NewestFirst
  <2> HIDE DEF s, last
  <2>5. IF pushed = 0 THEN Len(last) = 0 ELSE Len(last) = 1
    <3>1. Behind(s, 0) = Len(s)
      BY <2>2 DEF Behind
    <3>2. Len(last) = IF 1 < Len(s) THEN 1 ELSE Len(s)
      BY <1>3, <2>3, <3>1 DEF Limit
    <3> QED BY <2>2, <2>4, <3>2
  <2>6. CASE pushed = 0
    BY <1>6, <2>5, <2>6
  <2>7. CASE pushed # 0
    <3>1. Len(last) = 1 /\ last[1] = pushed
      BY <2>3, <2>4, <2>5, <2>7
    <3> QED BY <1>6, <3>1
  <2> QED BY <2>6, <2>7
<1> HIDE DEF last
<1>9. /\ last # <<>> => noFormat + 0 = noFormat
      /\ errors = 0 => last # <<>>
      /\ errors \in {0, 1, 2}
      /\ "format" \in Call.given => errors + results = 1
  OBVIOUS
<1> HIDE DEF errors, results
<1>10. /\ a.call = Call /\ a.errors = errors /\ a.results = results /\ a.result.nrs = last
       /\ a.at = pushed
  BY EmptyResult DEF Response
<1> HIDE DEF a
<1>11. AnswerOK(a)
  <2>1. errors = 0 => FoundOK(a)
    BY <1>1, <1>8, <1>9, <1>10 DEF FoundOK
  <2>2. ToldOK(a) /\ OutcomeOK(a)
    BY <1>1, <1>9, <1>10 DEF ToldOK, OutcomeOK
  <2> QED BY <1>7, <1>10, <2>1, <2>2 DEF AnswerOK
<1>12. Call \notin FromNumber
  BY <1>1, Constants
<1> QED BY <1>1, <1>2, <1>11, <1>12, Responds DEF a

(* The two searches of an account.                                         *)
LEMMA NextTxids == Inv /\ GetAddressTxids => Inv'
<1> SUFFICES ASSUME Inv, GetAddressTxids PROVE Inv'
  OBVIOUS
<1>1. calls # <<>> /\ Call.method = "getAddressTxids"
  BY DEF GetAddressTxids, Handling
<1> DEFINE base == Filter(Call, "none")
           filter(dir) == [base EXCEPT !.dir = dir]
<1>2. PICK dir \in Direction : Respond(0, 1, Result(FindAllFast(filter(dir), pushed)))
  BY DEF GetAddressTxids
<1> DEFINE f == filter(dir)
           s == MatchingNrs(f, pushed)
           nrs == FindAllFast(f, pushed)
           a == Response(0, 1, Result(nrs))
<1>3. /\ f.from = 0 /\ f.size = 0 /\ f.page = 0
      /\ base.size = 0
  BY DEF Filter
<1>4. pushed \in 0..Len(Ledger) /\ pushed \in Nat
  BY <1>1, Handled
<1>5. /\ a.call = Call /\ a.errors = 0 /\ a.result.nrs = nrs /\ a.at = pushed
  BY EmptyResult DEF Response
<1> HIDE DEF filter, base, a
<1>6. nrs = PageOf(f, s) /\ PageOf(f, s) = s /\ PageOf(base, s) = s
  <2>1. FilterOK(f)
    BY <1>3 DEF FilterOK
  <2>2. nrs = PageOf(f, s)
    BY <1>3, <1>4, <2>1, FindAllFastIsAll
  <2>3. PageOf(f, s) = s /\ PageOf(base, s) = s
    BY <1>3 DEF PageOf
  <2> QED BY <2>2, <2>3
<1>7. nrs \in Seq(1..pushed)
  BY <1>4, <1>6, MatchingSorted
<1>8. FoundOK(a)
  <2>1. nrs = PageOf(base, MatchingNrs([base EXCEPT !.dir = dir], pushed))
    BY <1>6 DEF filter
  <2>2. Scan(base, nrs, pushed)
    BY <2>1 DEF Scan
  <2>3. Scan(Filter(Call, "none"), nrs, pushed)
    BY <2>2 DEF base
  <2> QED BY <1>1, <1>5, <2>3 DEF FoundOK
<1>9. Respond(0, 1, Result(nrs))
  BY <1>2
<1> HIDE DEF nrs
<1> QED BY <1>1, <1>7, <1>8, <1>9, FoundResponse DEF a

LEMMA NextForAddress == Inv /\ GetTransactionsForAddress => Inv'
<1> SUFFICES ASSUME Inv, GetTransactionsForAddress PROVE Inv'
  OBVIOUS
<1>1. calls # <<>> /\ Call.method = "getTransactionsForAddress"
  BY DEF GetTransactionsForAddress, Handling
<1> DEFINE base == [Filter(Call, "none") EXCEPT !.from = Call.from, !.size = Call.size, !.page = 1]
           filter(dir) == [Filter(Call, "none") EXCEPT !.from = Call.from, !.size = Call.size,
                                                       !.page = 1, !.dir = dir]
<1>2. PICK dir \in Direction : Respond(0, 1, Result(FindAll(filter(dir), pushed)))
  BY DEF GetTransactionsForAddress
<1> DEFINE f == filter(dir)
           s == MatchingNrs(f, pushed)
           nrs == FindAll(f, pushed)
           a == Response(0, 1, Result(nrs))
<1>3. /\ f.from = Call.from /\ f.size = Call.size /\ f.page = 1 /\ f.function = "none"
      /\ base.size = Call.size /\ base.page = 1
      /\ [base EXCEPT !.dir = dir] = f
  BY DEF Filter
<1>4. /\ pushed \in 0..Len(Ledger) /\ pushed \in Nat
      /\ Call.from \in Nat /\ Call.size \in Nat
  BY <1>1, Handled
<1>5. /\ a.call = Call /\ a.errors = 0 /\ a.result.nrs = nrs /\ a.at = pushed
  BY EmptyResult DEF Response
<1> HIDE DEF filter, a
<1>6. nrs \in Seq(1..pushed) /\ nrs = PageOf(f, s)
  <2>1. FilterOK(f)
    BY <1>3, <1>4 DEF FilterOK
  <2> QED BY <1>3, <1>4, <2>1, FindAllType, FindAllIsPage
<1>7. PageOf(f, s) = PageOf(base, s)
  <2> HIDE DEF base
  <2> QED BY <1>3 DEF PageOf
<1>8. FoundOK(a)
  <2>1. nrs = PageOf(base, MatchingNrs([base EXCEPT !.dir = dir], pushed))
    BY <1>3, <1>6, <1>7
  <2> HIDE DEF base, nrs
  <2>2. Scan(base, nrs, pushed)
    BY <2>1 DEF Scan
  <2>3. Scan([Filter(Call, "none") EXCEPT !.from = Call.from, !.size = Call.size, !.page = 1],
             nrs, pushed)
    BY <2>2 DEF base
  <2> QED BY <1>1, <1>5, <2>3 DEF FoundOK
<1>9. Respond(0, 1, Result(nrs))
  BY <1>2
<1> HIDE DEF nrs
<1> QED BY <1>1, <1>6, <1>8, <1>9, FoundResponse DEF a

LEMMA NextUser == Inv /\ FindUserByNameHash => Inv'
<1> SUFFICES ASSUME Inv, FindUserByNameHash PROVE Inv'
  OBVIOUS
<1>1. calls # <<>> /\ Call.method = "findUserByNameHash"
  BY DEF FindUserByNameHash, Handling
<1> DEFINE filter(dir) == [Filter(Call, "nameHash") EXCEPT !.key = NoKey, !.dir = dir,
                             !.type = "REGISTER_ADDRESS", !.user = Call.user]
<1>2. PICK dir \in Direction :
        LET found == FindAll(filter(dir), pushed) IN
        IF found = <<>> THEN Respond(1, 0, NoResult) ELSE Respond(0, 1, Result(found))
  BY DEF FindUserByNameHash
<1> DEFINE f == filter(dir)
           found == FindAll(f, pushed)
<1>3. f.from = 0 /\ f.size = 0 /\ f.page = 0
  BY DEF Filter
<1>4. pushed \in 0..Len(Ledger)
  BY <1>1, Handled
<1> HIDE DEF filter
<1>5. found \in Seq(1..pushed)
  <2>1. FilterOK(f)
    BY <1>3 DEF FilterOK
  <2> QED BY <1>4, <2>1, FindAllType
<1>6. IF found = <<>> THEN Respond(1, 0, NoResult) ELSE Respond(0, 1, Result(found))
  BY <1>2
<1> HIDE DEF found
<1>7. CASE found = <<>>
  BY <1>1, <1>6, <1>7, RefusedResponse
<1>8. CASE found # <<>>
  <2> DEFINE a == Response(0, 1, Result(found))
  <2>1. a.call = Call
    BY DEF Response
  <2> HIDE DEF a
  <2>2. FoundOK(a)
    BY <1>1, <2>1 DEF FoundOK
  <2> QED BY <1>1, <1>5, <1>6, <1>8, <2>2, FoundResponse DEF a
<1> QED BY <1>7, <1>8

LEMMA NextWallet == Inv /\ (CountForWallet \/ ListTransactions) => Inv'
<1> SUFFICES ASSUME Inv, CountForWallet \/ ListTransactions PROVE Inv'
  OBVIOUS
<1>1. calls # <<>> /\ Call.method = "listTransactions" /\ Call.pubkey # NoKey
  BY DEF CountForWallet, ListTransactions, Handling, Refused, KeyGiven, NoNeedForPubkey
<1>2. Call \in Asked /\ pushed \in 0..Len(Ledger) /\ Call.size \in Nat /\ Call.page \in Nat
  BY <1>1, Handled
<1>3. CASE CountForWallet
  <2> DEFINE filter == [WalletFilter EXCEPT !.size = 0, !.page = 0]
  <2>1. filter.from = 0 /\ filter.size = 0 /\ filter.page = 0
    BY DEF WalletFilter, Filter
  <2>2. counted' = Len(FindAll(filter, pushed)) /\ filter = AllOfWallet(Call)
    BY <1>3 DEF CountForWallet, AllOfWallet, WalletFilter, Filter
  <2> HIDE DEF filter
  <2>3. FilterOK(filter)
    BY <2>1 DEF FilterOK
  <2>4. counted' \in 0..Len(Ledger) /\ counted' = Counted(Call, pushed)
    BY <1>2, <2>1, <2>2, <2>3, FindAllType DEF Counted
  <2> QED BY <1>1, <1>3, <2>4, CountKeeps DEF CountForWallet
<1>4. CASE ListTransactions
  <2> DEFINE lines == Lines(WalletFilter, pushed)
             result == [nrs |-> lines, count |-> counted,
                        decay |-> IF lines # <<>> /\ HasLastDecay(WalletFilter, counted)
                                  THEN {DecayLine(Last(lines), Call.pubkey)} ELSE NoDecay]
             a == Response(0, 1, result)
  <2>1. FilterOK(WalletFilter)
    BY <1>2 DEF FilterOK, WalletFilter, Filter
  <2>2. lines \in Seq(1..pushed)
    BY <1>2, <2>1, LinesAre
  <2>3. Respond(0, 1, result) /\ step = "page"
    BY <1>4 DEF ListTransactions
  <2>4. /\ a.call = Call /\ a.errors = 0 /\ a.results = 1 /\ a.result = result
        /\ a.at = pushed /\ a.countedAt = countedAt /\ WalletPage(a) = WalletFilter
    BY DEF Response, WalletPage, WalletFilter
  <2>5. counted = Counted(Call, countedAt)
    BY <1>1, <2>3 DEF Inv, RequestOK
  <2>6. /\ result.nrs = lines /\ result.count = counted
        /\ result.decay = IF lines # <<>> /\ HasLastDecay(WalletFilter, counted)
                          THEN {DecayLine(Last(lines), Call.pubkey)} ELSE NoDecay
    OBVIOUS
  <2> HIDE DEF lines, result, a
  <2>7. WalletOK(a)
    BY <1>1, <1>2, <2>4, <2>5, <2>6 DEF WalletOK, lines
  <2>8. 0 + 1 = 1
    OBVIOUS
  <2>9. FoundOK(a)
    BY <1>1, <2>4, <2>7 DEF FoundOK
  <2>10. a.result.nrs \in Seq(Nrs)
    BY <1>1, <2>2, <2>4, <2>6, Handled
  <2>11. ToldOK(a) /\ OutcomeOK(a)
    BY <1>1, <2>4, <2>8 DEF ToldOK, OutcomeOK
  <2>12. AnswerOK(a)
    BY <2>9, <2>10, <2>11 DEF AnswerOK
  <2>13. Call \notin FromNumber
    BY <1>1, Constants
  <2> QED BY <1>1, <2>3, <2>12, <2>13, Responds DEF a
<1> QED BY <1>3, <1>4

LEMMA NextInv == Inv /\ [Next]_vars => Inv'
<1> SUFFICES ASSUME Inv, [Next]_vars PROVE Inv'
  OBVIOUS
<1>1. CASE Push \/ Notify
  BY <1>1, NextPush
<1>2. CASE \/ TakeNotification
           \/ \E nr \in Nrs : NotificateNewTransaction(nr) \/ NotificationThrows(nr)
  BY <1>2, NextNotifications
<1>3. CASE \E r \in Requests : HandleRequest(r)
  BY <1>3, NextRequest
<1>4. CASE Handle
  BY <1>4, NextRefused, NextLast, NextFollowing, NextTxids, NextGetTransaction, NextWallet,
     NextForAddress, NextUser DEF Handle
<1>5. CASE UNCHANGED vars \/ Terminated
  <2>1. UNCHANGED <<pushed, confirming, mMessageIds, mCommunityServer, notifyTasks, running, told,
                    calls, step, counted, countedAt, toldBefore, answers, read>>
    BY <1>5 DEF Terminated, vars, chainVars, notifications, request
  <2>2. StateOK' /\ ReadOK' /\ AnswersOK'
    BY <2>1 DEF Inv, StateOK, ReadOK, ClientReadsAll, AnswersOK
  <2>3. RequestOK'
    BY <2>1 DEF Inv, RequestOK, Call
  <2> QED BY <2>2, <2>3 DEF Inv
<1> QED BY <1>1, <1>2, <1>3, <1>4, <1>5 DEF Next

LEMMA Always == Spec => []Inv
BY InitInv, NextInv, PTL DEF Spec

-----------------------------------------------------------------------------
(***************************************************************************)
(* The variables keep their types: in particular, no answer names a        *)
(* transaction that is not on the chain, and there are never more          *)
(* notifications under way than workers (TypeOK).                          *)
(***************************************************************************)
THEOREM TypeCorrect == Spec => []TypeOK
<1>1. Inv => TypeOK
  <2> SUFFICES ASSUME Inv PROVE TypeOK
    OBVIOUS
  <2>1. pushed \in 0..Len(Ledger) /\ pushed \in Nat /\ 1..pushed \subseteq Nrs
    BY Constants DEF Inv, StateOK, Nrs
  <2>2. \A s \in Seq(Nrs) : Range(s) \subseteq Nrs
    BY DEF Range
  <2>3. \A i \in DOMAIN answers : Range(answers[i].result.nrs) \subseteq Nrs
    BY <2>2 DEF Inv, AnswersOK, AnswerOK
  <2>4. Range(read) \subseteq Nrs
    BY <2>2 DEF Inv, ReadOK
  <2>5. told \in 0..Len(Ledger)
    BY <2>1, Constants DEF Inv, StateOK
  <2>6. mMessageIds \subseteq Nrs /\ notifyTasks \subseteq Nrs /\ running \subseteq Nrs
    BY <2>1 DEF Inv, StateOK
  <2>7. toldBefore \in BOOLEAN
    BY DEF Inv, RequestOK
  <2> QED BY <2>1, <2>3, <2>4, <2>5, <2>6, <2>7 DEF TypeOK, Inv, StateOK, RequestOK
<1> QED BY <1>1, Always, PTL

(***************************************************************************)
(* A client that follows the chain with getTransactions gets every         *)
(* transaction, each once and in order, for any size of its pages, any     *)
(* months and whatever is confirmed in between (ClientReadsAll).           *)
(***************************************************************************)
THEOREM FollowerReadsAll == Spec => []ClientReadsAll
<1>1. Inv => ClientReadsAll
  BY DEF Inv, ReadOK
<1> QED BY <1>1, Always, PTL

(* Every answer of a request was right when it was given.                  *)
LEMMA EachAnswer ==
  Inv => /\ \A i \in DOMAIN answers : AnswerOK(answers[i])
         /\ \A method : \A a \in Answers(method) :
              a.call.method = method /\ a.errors = 0 /\ AnswerOK(a)
BY DEF Inv, AnswersOK, Answers, Range

(***************************************************************************)
(* The searches of getTransactionsForAddress, getAddressTxids,             *)
(* getLastTransaction and the count of getTransactions give what a scan of *)
(* the chain finds at that time (AnswersMatchScan): findTransactions goes  *)
(* by months and forgets at each of them that the page was full.           *)
(***************************************************************************)
THEOREM SearchesScan == Spec => []AnswersMatchScan
<1>1. Inv => AnswersMatchScan
  <2> SUFFICES ASSUME Inv PROVE AnswersMatchScan
    OBVIOUS
  <2>1. \A method : \A a \in Answers(method) : a.call.method = method /\ FoundOK(a)
    BY EachAnswer DEF AnswerOK
  <2> QED BY <2>1 DEF AnswersMatchScan, FoundOK
<1> QED BY <1>1, Always, PTL

(***************************************************************************)
(* A community server that asks by number for the transaction it was told  *)
(* of finds it (ToldIsFound): NotifyClient is scheduled when the           *)
(* transaction is in the block.                                            *)
(***************************************************************************)
THEOREM ToldFinds == Spec => []ToldIsFound
<1>1. Inv => ToldIsFound
  BY EachAnswer DEF ToldIsFound, AnswerOK, ToldOK
<1> QED BY <1>1, Always, PTL

(***************************************************************************)
(* Every call gets a result or one error, except getLastTransaction        *)
(* without a format (OneOutcome).                                          *)
(***************************************************************************)
THEOREM EitherOutcome == Spec => []OneOutcome
<1>1. Inv => OneOutcome
  BY EachAnswer DEF OneOutcome, AnswerOK, OutcomeOK
<1> QED BY <1>1, Always, PTL

(* What an answer of listTransactions is.                                  *)
LEMMA WalletAnswer ==
  ASSUME Inv, NEW a \in Answers("listTransactions")
  PROVE  /\ WalletOK(a) /\ FilterOK(WalletPage(a)) /\ a.at \in 0..Len(Ledger)
         /\ WalletPage(a).key = a.call.pubkey /\ WalletPage(a).function = "wallet"
         /\ WalletPage(a).dir = a.call.dir /\ WalletPage(a).size = a.call.size
<1>1. WalletOK(a)
  BY EachAnswer DEF AnswerOK, FoundOK
<1>2. a.call.size \in Nat /\ a.call.page \in Nat
  BY <1>1, QueriesAssumption DEF WalletOK
<1>3. /\ WalletPage(a).size = a.call.size /\ WalletPage(a).page = a.call.page
      /\ WalletPage(a).from = 0 /\ WalletPage(a).key = a.call.pubkey
      /\ WalletPage(a).dir = a.call.dir /\ WalletPage(a).function = "wallet"
  BY DEF WalletPage, Filter
<1> QED BY <1>1, <1>2, <1>3 DEF WalletOK, FilterOK

(***************************************************************************)
(* The wallet view shows pages of the list of the account's transactions,  *)
(* for any size and direction, though hidden entries are taken out of a    *)
(* page that is full already, and later months add to it (WalletSlices).   *)
(***************************************************************************)
THEOREM WalletShowsSlices == Spec => []WalletSlices
<1>1. Inv => WalletSlices
  <2> SUFFICES ASSUME Inv, NEW a \in Answers("listTransactions")
               PROVE  LET page == PageOf(WalletPage(a), OfAccount(a))
                          nrs == IF a.call.dir = "DESC" THEN Reverse(a.result.nrs) ELSE a.result.nrs IN
                      IsPrefix(Shown(a, page), nrs) /\ (Shown(a, page) = page => nrs = page)
    BY DEF WalletSlices
  <2> DEFINE filter == WalletPage(a)
             page == PageOf(filter, OfAccount(a))
             nrs == Ascending(filter, Lines(filter, a.at))
  <2>1. /\ WalletOK(a) /\ FilterOK(filter) /\ a.at \in 0..Len(Ledger)
        /\ filter.key = a.call.pubkey /\ filter.function = "wallet" /\ filter.dir = a.call.dir
    BY WalletAnswer
  <2>2. nrs = IF a.call.dir = "DESC" THEN Reverse(a.result.nrs) ELSE a.result.nrs
    BY <2>1 DEF Ascending, WalletOK
  <2>3. Shown(a, page) = Visible(filter, page)
    BY <2>1 DEF Shown, Visible
  <2>4. page = PageOf(filter, MatchingNrs(filter, a.at))
    BY DEF OfAccount
  <2> HIDE DEF filter, page
  <2>5. IsPrefix(Visible(filter, page), nrs) /\ (Visible(filter, page) = page => nrs = page)
    BY <2>1, <2>4, LinesSlice
  <2> QED BY <2>2, <2>3, <2>5 DEF page, filter
<1> QED BY <1>1, Always, PTL

-----------------------------------------------------------------------------
(* Balances.                                                               *)

LEMMA GainType ==
  ASSUME NEW nr \in 1..Len(Ledger), NEW key
  PROVE  /\ Ledger[nr].amount \in Int /\ Gain(nr, key) \in Int
         /\ Ledger[nr].link # 0 => LinkOf(nr).amount \in Int
<1>1. Ledger[nr].amount \in Int
  BY LedgerAssumption
<1>2. Ledger[nr].link # 0 => LinkOf(nr).amount \in Int
  <2> SUFFICES ASSUME Ledger[nr].link # 0 PROVE Ledger[Ledger[nr].link].amount \in Int
    BY DEF LinkOf
  <2>1. Ledger[nr].link \in 0..nr - 1 /\ Len(Ledger) \in Nat
    BY LedgerAssumption
  <2>2. Ledger[nr].link \in 1..Len(Ledger)
    BY <2>1
  <2> QED BY <2>2, LedgerAssumption
<1> DEFINE to == IF Ledger[nr].to = key THEN Ledger[nr].amount ELSE 0
           origin == IF Ledger[nr].link # 0 /\ LinkOf(nr).from = key
                     THEN LinkOf(nr).amount - Ledger[nr].amount ELSE 0
           out == IF Ledger[nr].from = key
                  THEN IF Ledger[nr].link # 0 THEN LinkOf(nr).amount ELSE Ledger[nr].amount
                  ELSE 0
<1>3. to \in Int /\ origin \in Int /\ out \in Int
  BY <1>1, <1>2
<1>4. Gain(nr, key) = IF Ledger[nr].type \in {"COMMUNITY_ROOT", "REGISTER_ADDRESS"} THEN 0
                      ELSE IF Ledger[nr].type = "CREATION" THEN to ELSE to + origin - out
  BY DEF Gain
<1> HIDE DEF to, origin, out
<1> QED BY <1>1, <1>2, <1>3, <1>4

LEMMA BalanceSteps ==
  ASSUME NEW key
  PROVE  /\ Balance(0, key) = 0
         /\ \A n \in 0..Len(Ledger) : Balance(n, key) \in Int
         /\ \A nr \in 1..Len(Ledger) : Balance(nr, key) = Balance(nr - 1, key) + Gain(nr, key)
<1> DEFINE L == Len(Ledger)
           g == [i \in 1..L |-> [x \in Int |-> x + Gain(i, key)]]
<1>1. L \in Nat
  BY LedgerAssumption
<1>2. \A i \in 1..L : Gain(i, key) \in Int
  BY GainType
<1> HIDE DEF L
<1>3. g \in [1..L -> [Int -> Int]]
  BY <1>2
<1>4. \A i \in 1..L, x \in Int : g[i][x] = x + Gain(i, key)
  OBVIOUS
<1> HIDE DEF g
<1>5. PICK h \in [0..L -> Int] : Loop(h, 0, g, L)
  <2>1. 0 \in Int
    OBVIOUS
  <2> QED BY <1>1, <1>3, <2>1, LoopExists
<1>6. h[0] = 0 /\ \A i \in 1..L : h[i] = h[i - 1] + Gain(i, key)
  <2>1. \A i \in 1..L : h[i - 1] \in Int
    BY <1>1, <1>5
  <2> QED BY <1>4, <1>5, <2>1 DEF Loop
<1>7. ASSUME NEW n \in 0..L PROVE Balance(n, key) = h[n]
  <2> DEFINE After(f) == f = [nr \in 0..n |-> IF nr = 0 THEN 0 ELSE f[nr - 1] + Gain(nr, key)]
             A == CHOOSE f : After(f)
             r == [nr \in 0..n |-> h[nr]]
  <2>1. n \in Nat /\ \A i \in 1..n : i \in 1..L /\ i - 1 \in 0..n
    BY <1>1
  <2>2. After(r)
    <3>1. \A i \in 0..n : r[i] = IF i = 0 THEN 0 ELSE r[i - 1] + Gain(i, key)
      <4> SUFFICES ASSUME NEW i \in 0..n PROVE r[i] = IF i = 0 THEN 0 ELSE r[i - 1] + Gain(i, key)
        OBVIOUS
      <4>1. CASE i = 0
        BY <1>6, <4>1
      <4>2. CASE i # 0
        <5>1. i \in 1..n
          BY <2>1, <4>2
        <5> QED BY <1>6, <2>1, <4>2, <5>1
      <4> QED BY <4>1, <4>2
    <3> QED BY <3>1
  <2>3. After(A)
    <3>1. \E f : After(f)
      <4> HIDE DEF After, r
      <4> QED BY <2>2
    <3> HIDE DEF After
    <3> QED BY <3>1
  <2>4. Balance(n, key) = A[n]
    BY DEF Balance
  <2> HIDE DEF A
  <2>5. \A i \in 0..n : A[i] = IF i = 0 THEN 0 ELSE A[i - 1] + Gain(i, key)
    BY <2>3
  <2> HIDE DEF After, r
  <2> DEFINE S == {i \in 0..n : A[i] = h[i]}
  <2>6. 0 \in S
    BY <1>6, <2>1, <2>5
  <2>7. ASSUME NEW i \in 1..n, i - 1 \in S PROVE i \in S
    <3>1. i \in 0..n /\ i # 0 /\ A[i - 1] = h[i - 1] /\ i \in 1..L
      BY <2>1, <2>7
    <3> QED BY <1>6, <2>5, <3>1
  <2> HIDE DEF S
  <2>8. n \in S
    <3>1. 0..n \subseteq S
      BY <2>1, <2>6, <2>7, UpTo
    <3> QED BY <2>1, <3>1
  <2> QED BY <2>4, <2>8 DEF S
<1>8. \A nr \in 1..L : nr \in 0..L /\ nr - 1 \in 0..L
  BY <1>1
<1>9. 0 \in 0..L
  BY <1>1
<1> QED BY <1>5, <1>6, <1>7, <1>8, <1>9 DEF L

(* A transaction that has nothing to do with an account leaves its balance.*)
LEMMA GainOfOthers ==
  ASSUME NEW nr \in 1..Len(Ledger), NEW key, key \notin AddressIndices(nr)
  PROVE  Gain(nr, key) = 0
<1>1. Ledger[nr].from # key /\ Ledger[nr].to # key /\ (Ledger[nr].link # 0 => LinkOf(nr).from # key)
  BY DEF AddressIndices
<1>2. 0 + 0 - 0 = 0
  OBVIOUS
<1> QED BY <1>1, <1>2 DEF Gain

LEMMA BalanceStays ==
  ASSUME NEW key, NEW n \in 0..Len(Ledger), NEW m \in 0..n,
         \A nr \in m + 1..n : Gain(nr, key) = 0
  PROVE  Balance(n, key) = Balance(m, key)
<1>1. Len(Ledger) \in Nat /\ n \in Nat /\ m \in Nat /\ n - m \in Nat /\ n <= Len(Ledger)
  BY LedgerAssumption
<1> DEFINE S == {i \in 0..n - m : Balance(m + i, key) = Balance(m, key)}
<1>2. 0 \in S
  BY <1>1
<1>3. ASSUME NEW i \in 1..n - m, i - 1 \in S PROVE i \in S
  <2>1. /\ i \in 0..n - m /\ m + i \in 1..Len(Ledger) /\ m + i \in m + 1..n
        /\ (m + i) - 1 = m + (i - 1) /\ m \in 0..Len(Ledger)
    BY <1>1
  <2>2. Balance(m + i, key) = Balance(m + (i - 1), key) + Gain(m + i, key)
    BY <2>1, BalanceSteps
  <2>3. Balance(m + (i - 1), key) = Balance(m, key)
    BY <1>3
  <2>4. Gain(m + i, key) = 0 /\ Balance(m, key) \in Int
    BY <2>1, BalanceSteps
  <2>5. Balance(m + i, key) = Balance(m, key)
    BY <2>2, <2>3, <2>4
  <2> QED BY <2>1, <2>5
<1> HIDE DEF S
<1>4. n - m \in S
  <2>1. 0..n - m \subseteq S
    BY <1>1, <1>2, <1>3, UpTo
  <2> QED BY <1>1, <2>1
<1>5. m + (n - m) = n
  BY <1>1
<1> QED BY <1>4, <1>5 DEF S

-----------------------------------------------------------------------------
(* The count of the wallet, and its newest transaction.                    *)

SameSearch(F, G) ==
  /\ G.dir = F.dir /\ G.type = F.type /\ G.from = F.from /\ G.key = F.key
  /\ G.function = F.function

LEMMA CountsUsed ==
  ASSUME NEW filter, NEW G, FilterOK(G), G.size = 0, SameSearch(filter, G),
         filter.function = "wallet", NEW n \in 0..Len(Ledger)
  PROVE  LET s == MatchingNrs(filter, n)
             all == FindAll(G, n) IN
         /\ all \in Seq(1..n) /\ Ascends(filter, all)
         /\ Range(all) = {nr \in Range(s) : ~NotForWallet(filter.key, nr)}
<1> DEFINE s == MatchingNrs(G, n)
           found == IterateBlocks(G, n)
           all == FindAll(G, n)
<1>1. s = MatchingNrs(filter, n) /\ \A t : Ascends(G, t) <=> Ascends(filter, t)
  BY DEF SameSearch, MatchingNrs, Directed, Wanted, Ascends, Precedes
<1>2. /\ all \in Seq(1..n) /\ Ascends(G, all)
      /\ \E e \in 0..Len(found) : Limit(G, Len(found)) <= e /\ Range(all) = Usable(G, found, e)
  BY FindAllUses DEF SameSearch
<1>3. found = s
  <2>1. found = PageOf(G, s)
    BY FindAllFastIsAll DEF FindAllFast
  <2> QED BY <2>1 DEF PageOf
<1>4. s \in Seq(1..n) /\ Len(s) \in Nat
  BY LedgerAssumption, MatchingSorted
<1> HIDE DEF s, found, all
<1>5. Range(all) = Usable(G, s, Len(s))
  <2>1. PICK e \in 0..Len(s) : Limit(G, Len(s)) <= e /\ Range(all) = Usable(G, s, e)
    BY <1>2, <1>3
  <2>2. e = Len(s)
    BY <1>4, <2>1 DEF Limit
  <2> QED BY <2>1, <2>2
<1>6. Usable(G, s, Len(s)) = {nr \in Range(s) : ~NotForWallet(filter.key, nr)}
  <2>1. DOMAIN s = 1..Len(s) /\ \A nr : Use(G, nr) <=> ~NotForWallet(filter.key, nr)
    BY <1>4 DEF Use, SameSearch
  <2> QED BY <2>1 DEF Usable, Range
<1> QED BY <1>1, <1>2, <1>5, <1>6 DEF all, s

(* Lines are of what is visible, behind what is skipped.                   *)
LEMMA LinesInside ==
  ASSUME NEW filter, FilterOK(filter), filter.function = "wallet", NEW n \in 0..Len(Ledger)
  PROVE  LET s == MatchingNrs(filter, n)
             skip == SkipEntriesCount(filter)
             lines == Lines(filter, n) IN
         /\ Range(lines) \subseteq Range(Visible(filter, s))
         /\ skip # 0 => \A x \in Range(lines) : skip \in 1..Len(s) /\ Precedes(filter, s[skip], x)
<1> DEFINE s == MatchingNrs(filter, n)
           skip == SkipEntriesCount(filter)
           found == IterateBlocks(filter, n)
           lines == Lines(filter, n)
<1>1. n \in Nat /\ 1..n \in SUBSET Nat /\ IsFiniteSet(1..n)
  <2>1. n \in Nat
    BY LedgerAssumption
  <2> QED BY <2>1, FS_Interval
<1>2. s \in Seq(1..n)
  BY <1>1, MatchingSorted
<1>3. Range(Visible(filter, s)) = {nr \in Range(s) : ~Hidden(filter.key, nr)}
  BY <1>1, <1>2, VisibleSorts
<1>4. \E e \in 0..Len(found) : Range(lines) = NotHidden(filter, found, e)
  BY LinesFound
<1>5. /\ found \in Seq(1..n)
      /\ \A i \in 1..Len(found) : found[i] \in Range(s)
      /\ found # <<>> /\ skip # 0 =>
           skip \in 1..Len(s) /\ \A i \in 1..Len(found) : Precedes(filter, s[skip], found[i])
  BY FoundIsPage, FoundAscends
<1> HIDE DEF s, skip, found, lines
<1>6. PICK e \in 0..Len(found) : Range(lines) = NotHidden(filter, found, e)
  BY <1>4
<1>7. Len(found) \in Nat /\ \A j \in 1..e : j \in 1..Len(found)
  BY <1>5
<1>8. \A x \in Range(lines) : ~Hidden(filter.key, x) /\ \E j \in 1..Len(found) : x = found[j]
  BY <1>6, <1>7 DEF NotHidden
<1>9. Range(lines) \subseteq Range(Visible(filter, s))
  BY <1>3, <1>5, <1>8
<1>10. ASSUME skip # 0, NEW x \in Range(lines)
       PROVE  skip \in 1..Len(s) /\ Precedes(filter, s[skip], x)
  <2>1. PICK j \in 1..Len(found) : x = found[j]
    BY <1>8
  <2>2. found # <<>>
    BY <1>7, <2>1
  <2> QED BY <1>5, <1>10, <2>1, <2>2
<1> QED BY <1>9, <1>10 DEF s, skip, lines

(* The newest of them, if it is among the lines, is the last.              *)
LEMMA MaxOfSequence ==
  ASSUME NEW n \in Nat, NEW s \in Seq(Nat), Range(s) \subseteq 1..n, s # <<>>
  PROVE  /\ Max(Range(s)) \in Range(s) /\ Max(Range(s)) \in 1..n
         /\ \A y \in Range(s) : y <= Max(Range(s))
<1>1. Range(s) \in SUBSET Nat /\ Range(s) # {} /\ \A k \in Range(s) : k <= n
  <2>1. DOMAIN s = 1..Len(s) /\ Len(s) \in Nat /\ 1 \in 1..Len(s)
    BY EmptySeq
  <2>2. s[1] \in Range(s)
    BY <2>1 DEF Range
  <2> QED BY <2>2
<1>2. PICK m \in Range(s) : \A k \in Range(s) : k <= m
  BY <1>1, GreatestMember
<1>3. \A k \in Range(s) : m >= k
  BY <1>1, <1>2
<1>4. Max(Range(s)) \in Range(s) /\ \A k \in Range(s) : Max(Range(s)) >= k
  BY <1>3 DEF Max
<1> QED BY <1>1, <1>4

LEMMA LastOfGrowing ==
  ASSUME NEW s \in Seq(Nat), Grows(s), NEW m \in Range(s), \A y \in Range(s) : y <= m
  PROVE  Last(s) = m
<1>1. DOMAIN s = 1..Len(s) /\ Len(s) \in Nat /\ \A i \in 1..Len(s) : s[i] \in Nat
  OBVIOUS
<1>2. PICK i \in 1..Len(s) : s[i] = m
  BY <1>1 DEF Range
<1>3. Len(s) \in 1..Len(s) /\ s[Len(s)] <= m
  BY <1>1, <1>2 DEF Range
<1>4. ~(i < Len(s))
  <2> SUFFICES ASSUME i < Len(s) PROVE FALSE
    OBVIOUS
  <2>1. s[i] < s[Len(s)]
    BY <1>3 DEF Grows
  <2>2. s[Len(s)] \in Nat /\ m \in Nat
    BY <1>1, <1>2, <1>3
  <2> QED BY <1>2, <1>3, <2>1, <2>2
<1>5. Len(s) \in Nat
  OBVIOUS
<1>6. i = Len(s)
  BY <1>4, <1>5
<1> QED BY <1>2, <1>6 DEF Last

(***************************************************************************)
(* The visible entries of an account, if all are or only the oldest is not *)
(* in a search from the newest.                                            *)
(***************************************************************************)
AllButOldest(filter, s, v) == v = s \/ (filter.dir = "DESC" /\ v = Front(s))

LEMMA AllButOldestBegins ==
  ASSUME NEW filter, NEW n \in Nat, NEW s \in Seq(1..n), NEW v, AllButOldest(filter, s, v)
  PROVE  /\ v \in Seq(1..n) /\ Len(v) \in Nat /\ Len(v) <= Len(s) /\ Len(s) <= Len(v) + 1
         /\ \A i \in 1..Len(v) : v[i] = s[i] /\ i \in 1..Len(s)
         /\ v # s => filter.dir = "DESC" /\ Len(s) = Len(v) + 1
<1>1. Len(s) \in Nat /\ \A i \in 1..Len(s) : s[i] \in 1..n
  OBVIOUS
<1>2. CASE v = s
  BY <1>1, <1>2
<1>3. CASE v # s
  <2>1. v = SubSeq(s, 1, Len(s) - 1) /\ filter.dir = "DESC"
    BY <1>3 DEF AllButOldest, Front
  <2>2. \A i \in 1..Len(s) - 1 : s[i] \in 1..n /\ i \in 1..Len(s)
    BY <1>1
  <2>3. /\ v \in Seq(1..n)
        /\ Len(v) = IF 1 <= Len(s) - 1 THEN (Len(s) - 1) - 1 + 1 ELSE 0
        /\ \A i \in 1..(Len(s) - 1) - 1 + 1 : v[i] = s[1 + i - 1]
    <3>1. 1 \in Int /\ Len(s) - 1 \in Int
      BY <1>1
    <3>2. \A i \in 1..Len(s) - 1 : s[i] \in 1..n
      BY <2>2
    <3> QED BY <2>1, <3>1, <3>2, SubSeqProperties
  <2>4. Len(s) # 0
    <3> SUFFICES ASSUME Len(s) = 0 PROVE FALSE
      OBVIOUS
    <3>1. Len(v) = 0
      BY <2>3
    <3> QED BY <1>3, <2>3, <3>1, EmptySeq
  <2>5. Len(v) = Len(s) - 1
    <3> DEFINE k == Len(s)
    <3>1. k \in Nat /\ k # 0 /\ Len(v) = IF 1 <= k - 1 THEN (k - 1) - 1 + 1 ELSE 0
      BY <1>1, <2>3, <2>4
    <3> HIDE DEF k
    <3>2. Len(v) = k - 1
      BY <3>1
    <3> QED BY <3>2 DEF k
  <2>6. \A i \in 1..Len(v) : i \in 1..(Len(s) - 1) - 1 + 1 /\ 1 + i - 1 = i /\ i \in 1..Len(s)
    BY <1>1, <2>5
  <2>7. \A i \in 1..Len(v) : v[i] = s[i]
    BY <2>3, <2>6
  <2> QED BY <1>1, <2>1, <2>3, <2>5, <2>6, <2>7
<1> QED BY <1>2, <1>3

(* As many are counted, or the hidden one as well.                         *)
LEMMA CountOfVisible ==
  ASSUME NEW filter, NEW G, FilterOK(filter), FilterOK(G), G.size = 0, SameSearch(filter, G),
         filter.function = "wallet", NEW n \in 0..Len(Ledger),
         AllButOldest(filter, MatchingNrs(filter, n), Visible(filter, MatchingNrs(filter, n)))
  PROVE  LET s == MatchingNrs(filter, n)
             v == Visible(filter, s)
             count == Len(FindAll(G, n)) IN
         count \in Nat /\ Len(v) <= count /\ (v = s => count = Len(s))
<1> DEFINE s == MatchingNrs(filter, n)
           v == Visible(filter, s)
           all == FindAll(G, n)
<1>1. n \in Nat /\ 1..n \in SUBSET Nat /\ IsFiniteSet(1..n)
  <2>1. n \in Nat
    BY LedgerAssumption
  <2> QED BY <2>1, FS_Interval
<1>2. s \in Seq(1..n) /\ Ascends(filter, s) /\ Len(s) \in Nat
  BY <1>1, MatchingSorted
<1>3. /\ v \in Seq(1..n) /\ Len(v) \in Nat /\ Len(v) <= Len(s) /\ Len(s) <= Len(v) + 1
      /\ \A i \in 1..Len(v) : v[i] = s[i] /\ i \in 1..Len(s)
      /\ v # s => Len(s) = Len(v) + 1
  BY <1>1, <1>2, AllButOldestBegins
<1>4. Ascends(filter, v) /\ Range(v) = {nr \in Range(s) : ~Hidden(filter.key, nr)}
  BY <1>1, <1>2, VisibleSorts
<1>5. /\ all \in Seq(1..n) /\ Ascends(filter, all)
      /\ Range(all) = {nr \in Range(s) : ~NotForWallet(filter.key, nr)}
  BY CountsUsed
<1> HIDE DEF s, v, all
<1>6. s \in Seq(Nat) /\ v \in Seq(Nat) /\ all \in Seq(Nat)
  BY <1>1, <1>2, <1>3, <1>5, SeqMonotonic
<1>7. Range(v) \subseteq Range(all) /\ Range(all) \subseteq Range(s)
  BY <1>4, <1>5 DEF Hidden
<1>8. \A j \in 1..Len(all) : all[j] \in Range(v) \/ \A i \in 1..Len(v) : Precedes(filter, v[i], all[j])
  <2> SUFFICES ASSUME NEW j \in 1..Len(all), all[j] \notin Range(v), NEW i \in 1..Len(v)
               PROVE  Precedes(filter, v[i], all[j])
    OBVIOUS
  <2>1. all[j] \in Range(s)
    <3>1. DOMAIN all = 1..Len(all)
      BY <1>5
    <3>2. all[j] \in Range(all)
      BY <3>1 DEF Range
    <3> QED BY <1>7, <3>2
  <2>2. PICK k \in 1..Len(s) : all[j] = s[k]
    <3>1. DOMAIN s = 1..Len(s)
      BY <1>2
    <3> QED BY <2>1, <3>1 DEF Range
  <2>3. k \notin 1..Len(v)
    <3>1. DOMAIN v = 1..Len(v)
      BY <1>3
    <3> QED BY <1>3, <2>2, <3>1 DEF Range
  <2>4. i < k /\ i \in 1..Len(s)
    BY <1>2, <1>3, <2>3
  <2> QED BY <1>2, <1>3, <2>2, <2>4 DEF Ascends
<1>9. Len(v) <= Len(all)
  BY <1>4, <1>5, <1>6, <1>7, <1>8, SortedBegins
<1>10. ASSUME v = s PROVE Len(all) = Len(s)
  <2>1. Range(all) = Range(s)
    BY <1>7, <1>10
  <2>2. all = s
    BY <1>2, <1>5, <1>6, <2>1, SortedOnce
  <2> QED BY <2>2
<1>11. Len(all) \in Nat
  BY <1>5
<1> QED BY <1>9, <1>10, <1>11 DEF s, v, all

(* A page is a piece of what there is.                                     *)
LEMMA PageOfSearch ==
  ASSUME NEW filter, FilterOK(filter), NEW n \in 0..Len(Ledger)
  PROVE  LET s == MatchingNrs(filter, n)
             skip == SkipEntriesCount(filter)
             page == PageOf(filter, s) IN
         /\ page \in Seq(1..n) /\ Ascends(filter, page)
         /\ Len(page) = Limit(filter, Behind(s, skip))
         /\ \A k \in 1..Len(page) : page[k] = s[skip + k] /\ skip + k \in 1..Len(s)
<1> DEFINE s == MatchingNrs(filter, n)
           skip == SkipEntriesCount(filter)
           page == PageOf(filter, s)
<1>1. n \in Nat /\ skip \in Nat /\ filter.size \in Nat
  BY LedgerAssumption, SkipIsNumber DEF FilterOK
<1>2. s \in Seq(1..n) /\ Len(s) \in Nat /\ Ascends(filter, s)
  BY <1>1, MatchingSorted
<1>3. /\ page \in Seq(1..n) /\ Len(page) = Limit(filter, Behind(s, skip))
      /\ \A k \in 1..Len(page) : page[k] = s[skip + k]
  BY <1>2, PageIsBehind
<1> HIDE DEF s, skip, page
<1>4. ASSUME NEW k \in 1..Len(page) PROVE skip + k \in 1..Len(s)
  <2>1. Behind(s, skip) \in Nat /\ (Behind(s, skip) # 0 => Behind(s, skip) = Len(s) - skip)
    BY <1>1, <1>2 DEF Behind
  <2>2. Len(page) \in Nat /\ Len(page) <= Behind(s, skip)
    BY <1>1, <1>3, <2>1 DEF Limit
  <2>3. Behind(s, skip) # 0 /\ k \in Nat /\ k >= 1 /\ k <= Behind(s, skip)
    BY <2>1, <2>2
  <2>4. Behind(s, skip) = Len(s) - skip
    BY <2>1, <2>3
  <2> QED BY <1>1, <1>2, <2>3, <2>4
<1>5. Ascends(filter, page)
  <2>1. \A i, j \in 1..Len(page) : i < j => skip + i < skip + j
    BY <1>1, <1>3
  <2> QED BY <1>2, <1>3, <1>4, <2>1 DEF Ascends
<1> QED BY <1>3, <1>4, <1>5 DEF s, skip, page

(* In the order of the chain the newest is on the last page.               *)
LEMMA NewestAscending ==
  ASSUME NEW filter, NEW G, FilterOK(filter), FilterOK(G), G.size = 0, SameSearch(filter, G),
         filter.function = "wallet", filter.size # 0, filter.dir = "ASC", NEW n \in 0..Len(Ledger),
         Visible(filter, MatchingNrs(filter, n)) = MatchingNrs(filter, n),
         MatchingNrs(filter, n) # <<>>
  PROVE  LET s == MatchingNrs(filter, n)
             lines == Lines(filter, n) IN
         lines # <<>> /\ HasLastDecay(filter, Len(FindAll(G, n))) <=> Max(Range(s)) \in Range(lines)
<1> DEFINE s == MatchingNrs(filter, n)
           skip == SkipEntriesCount(filter)
           page == PageOf(filter, s)
           lines == Lines(filter, n)
           m == Max(Range(s))
<1>1. /\ n \in Nat /\ skip \in Nat /\ filter.size \in Nat \ {0}
      /\ 1..n \in SUBSET Nat /\ IsFiniteSet(1..n)
  <2>1. n \in Nat /\ skip \in Nat /\ filter.size \in Nat \ {0}
    BY LedgerAssumption, SkipIsNumber DEF FilterOK
  <2> QED BY <2>1, FS_Interval
<1>2. s \in Seq(1..n) /\ Len(s) \in Nat /\ Ascends(filter, s) /\ \A i \in 1..Len(s) : s[i] \in 1..n
  BY <1>1, MatchingSorted
<1>3. /\ page \in Seq(1..n) /\ Ascends(filter, page)
      /\ Len(page) = Limit(filter, Behind(s, skip))
      /\ \A k \in 1..Len(page) : page[k] = s[skip + k] /\ skip + k \in 1..Len(s)
  BY PageOfSearch
<1>4. /\ Range(Visible(filter, s)) = {nr \in Range(s) : ~Hidden(filter.key, nr)}
      /\ Visible(filter, page) \in Seq(Nat) /\ Ascends(filter, Visible(filter, page))
      /\ Range(Visible(filter, page)) = {nr \in Range(page) : ~Hidden(filter.key, nr)}
  BY <1>1, <1>2, <1>3, VisibleSorts
<1>5. Visible(filter, page) = page => Ascending(filter, lines) = page
  BY LinesSlice
<1>6. AllButOldest(filter, s, Visible(filter, s))
  BY DEF AllButOldest
<1>7. Len(FindAll(G, n)) = Len(s)
  BY <1>6, CountOfVisible
<1>8. s \in Seq(Nat) /\ page \in Seq(Nat) /\ DOMAIN s = 1..Len(s) /\ DOMAIN page = 1..Len(page)
  BY <1>1, <1>2, <1>3, SeqMonotonic
<1>9. Visible(filter, s) = s
  OBVIOUS
<1> HIDE DEF s, skip, page, lines, m
<1>10. Range(page) \subseteq Range(s)
  BY <1>3, <1>8 DEF Range
<1>11. Range(Visible(filter, page)) = Range(page)
  BY <1>4, <1>9, <1>10
<1>12. Visible(filter, page) = page
  BY <1>3, <1>4, <1>8, <1>11, SortedOnce
<1>13. lines = page
  BY <1>5, <1>12 DEF Ascending
<1>14. Len(s) \in 1..Len(s)
  BY <1>2, EmptySeq DEF s
<1>15. m = s[Len(s)] /\ m \in Range(s)
  <2>1. Range(s) \subseteq 1..n
    BY <1>2, <1>8 DEF Range
  <2>2. m \in Range(s) /\ \A y \in Range(s) : y <= m
    BY <1>1, <1>8, <1>14, <2>1, MaxOfSequence, EmptySeq DEF m
  <2>3. Grows(s)
    BY <1>2 DEF Grows, Ascends, Precedes
  <2>4. Last(s) = m
    BY <1>8, <2>2, <2>3, LastOfGrowing
  <2> QED BY <2>2, <2>4 DEF Last
<1>16. m \in Range(page) <=> \E k \in 1..Len(page) : skip + k = Len(s)
  <2>1. ASSUME NEW k \in 1..Len(page), page[k] = m PROVE skip + k = Len(s)
    <3>1. skip + k \in 1..Len(s) /\ s[skip + k] = s[Len(s)] /\ Len(s) \in Nat
      BY <1>2, <1>3, <1>15, <2>1
    <3>2. ~(skip + k < Len(s))
      <4> SUFFICES ASSUME skip + k < Len(s) PROVE FALSE
        OBVIOUS
      <4>1. s[skip + k] < s[Len(s)]
        BY <1>2, <1>14, <3>1 DEF Ascends, Precedes
      <4>2. s[Len(s)] \in Nat
        BY <1>8, <1>14
      <4> QED BY <3>1, <4>1, <4>2
    <3> QED BY <3>1, <3>2
  <2> QED BY <1>3, <1>8, <1>15, <2>1 DEF Range
<1>17. HasLastDecay(filter, Len(s)) <=> skip + filter.size >= Len(s)
  BY <1>1, <1>2 DEF HasLastDecay, skip
<1>18. page # <<>> <=> Len(page) # 0
  BY <1>3, EmptySeq
<1>19. Len(page) # 0 /\ skip + filter.size >= Len(s) <=> \E k \in 1..Len(page) : skip + k = Len(s)
  <2> DEFINE L == Len(s)
             p == Len(page)
  <2>1. /\ L \in Nat /\ L # 0
        /\ p = IF (IF L <= skip THEN 0 ELSE L - skip) > filter.size THEN filter.size
               ELSE IF L <= skip THEN 0 ELSE L - skip
    BY <1>1, <1>2, <1>3, <1>14 DEF Limit, Behind
  <2> HIDE DEF L, p
  <2>2. p \in Nat
    BY <1>1, <2>1
  <2>3. p # 0 /\ skip + filter.size >= L <=> L > skip /\ L - skip <= p
    BY <1>1, <2>1
  <2>4. L > skip /\ L - skip <= p <=> \E k \in 1..p : skip + k = L
    <3>1. L > skip /\ L - skip <= p => L - skip \in 1..p /\ skip + (L - skip) = L
      BY <1>1, <2>1, <2>2
    <3>2. \A k \in 1..p : skip + k = L => L > skip /\ L - skip <= p
      BY <1>1, <2>1, <2>2
    <3> QED BY <3>1, <3>2
  <2> QED BY <2>3, <2>4 DEF L, p
<1> QED BY <1>7, <1>13, <1>16, <1>17, <1>18, <1>19 DEF s, lines, m, page

LEMMA PrefixAgrees ==
  ASSUME NEW N, NEW s \in Seq(N), NEW t \in Seq(N), IsPrefix(s, t)
  PROVE  Len(s) <= Len(t) /\ \A i \in 1..Len(s) : s[i] = t[i]
<1>1. Len(s) \in Nat /\ Len(s) <= Len(t) /\ SubSeq(s, 1, Len(s)) = SubSeq(t, 1, Len(s))
  BY DEF IsPrefix
<1>2. ASSUME NEW i \in 1..Len(s) PROVE s[i] = t[i]
  <2>1. /\ SubSeq(s, 1, Len(s)) = [j \in 1..Len(s) |-> s[j]]
        /\ SubSeq(t, 1, Len(s)) = [j \in 1..Len(s) |-> t[j]]
    <3>1. (1 + Len(s)) - 1 = Len(s) /\ \A j \in 1..Len(s) : (j + 1) - 1 = j
      BY <1>1
    <3> QED BY <1>1, <3>1
  <2> QED BY <1>1, <2>1
<1> QED BY <1>1, <1>2

(* From the newest it is on the first page.                                *)
LEMMA NewestDescending ==
  ASSUME NEW filter, NEW G, FilterOK(filter), FilterOK(G), G.size = 0, SameSearch(filter, G),
         filter.function = "wallet", filter.size # 0, filter.dir = "DESC", NEW n \in 0..Len(Ledger),
         AllButOldest(filter, MatchingNrs(filter, n), Visible(filter, MatchingNrs(filter, n))),
         Visible(filter, MatchingNrs(filter, n)) # <<>>
  PROVE  LET v == Visible(filter, MatchingNrs(filter, n))
             lines == Lines(filter, n) IN
         /\ Max(Range(v)) = v[1]
         /\ lines # <<>> /\ HasLastDecay(filter, Len(FindAll(G, n))) <=> Max(Range(v)) \in Range(lines)
<1> DEFINE s == MatchingNrs(filter, n)
           v == Visible(filter, s)
           skip == SkipEntriesCount(filter)
           page == PageOf(filter, s)
           shown == Visible(filter, page)
           lines == Lines(filter, n)
           nrs == Ascending(filter, lines)
           count == Len(FindAll(G, n))
           m == Max(Range(v))
<1>1. /\ n \in Nat /\ skip \in Nat /\ filter.size \in Nat \ {0} /\ filter.page \in Nat
      /\ 1..n \in SUBSET Nat /\ IsFiniteSet(1..n)
  <2>1. n \in Nat /\ skip \in Nat /\ filter.size \in Nat \ {0} /\ filter.page \in Nat
    BY LedgerAssumption, SkipIsNumber DEF FilterOK
  <2> QED BY <2>1, FS_Interval
<1>2. s \in Seq(1..n) /\ Len(s) \in Nat /\ Ascends(filter, s) /\ \A i \in 1..Len(s) : s[i] \in Nat
  BY <1>1, MatchingSorted
<1>3. /\ v \in Seq(1..n) /\ Len(v) \in Nat
      /\ \A i \in 1..Len(v) : v[i] = s[i] /\ i \in 1..Len(s)
  BY <1>1, <1>2, AllButOldestBegins
<1>4. Ascends(filter, v) /\ Range(v) = {nr \in Range(s) : ~Hidden(filter.key, nr)}
  BY <1>1, <1>2, VisibleSorts
<1>5. /\ page \in Seq(1..n) /\ Len(page) = Limit(filter, Behind(s, skip))
      /\ \A k \in 1..Len(page) : page[k] = s[skip + k] /\ skip + k \in 1..Len(s)
  BY PageOfSearch
<1>6. shown \in Seq(Nat) /\ Range(shown) = {nr \in Range(page) : ~Hidden(filter.key, nr)}
  BY <1>1, <1>5, VisibleSorts
<1>7. IsPrefix(shown, nrs)
  BY LinesSlice
<1>8. lines \in Seq(1..n) /\ nrs \in Seq(1..n) /\ Range(nrs) = Range(lines)
  BY LinesFound
<1>9. /\ Range(lines) \subseteq Range(v)
      /\ skip # 0 => \A x \in Range(lines) : skip \in 1..Len(s) /\ Precedes(filter, s[skip], x)
  BY LinesInside
<1>10. count \in Nat /\ Len(v) <= count
  BY CountOfVisible
<1>11. v # <<>>
  OBVIOUS
<1>12. skip = IF filter.page < 1 THEN 0 ELSE (filter.page - 1) * filter.size
  BY DEF SkipEntriesCount
<1>13. HasLastDecay(filter, count) <=> count <= filter.size \/ filter.page <= 1
  BY DEF HasLastDecay
<1> HIDE DEF s, v, skip, page, shown, lines, nrs, count, m
<1>14. 1 \in 1..Len(v) /\ 1 \in 1..Len(s) /\ DOMAIN v = 1..Len(v) /\ v \in Seq(Nat)
  <2>1. 1 \in 1..Len(v)
    BY <1>3, <1>11, EmptySeq
  <2> QED BY <1>1, <1>3, <2>1, SeqMonotonic
<1>15. m = v[1] /\ m = s[1] /\ m \in Nat
  <2>1. Range(v) \subseteq 1..n
    BY <1>3, <1>14 DEF Range
  <2>2. m \in Range(v) /\ \A y \in Range(v) : y <= m
    BY <1>1, <1>11, <1>14, <2>1, MaxOfSequence DEF m
  <2>3. PICK i \in 1..Len(v) : v[i] = m
    BY <1>14, <2>2 DEF Range
  <2>4. v[1] <= m /\ v[1] \in Nat /\ v[i] \in Nat
    <3>1. v[1] \in Range(v)
      BY <1>14 DEF Range
    <3> QED BY <1>14, <2>2, <3>1
  <2>5. i = 1
    <3> SUFFICES ASSUME i # 1 PROVE FALSE
      OBVIOUS
    <3>1. 1 < i
      BY <2>3
    <3>2. v[1] > v[i]
      BY <1>4, <1>14, <3>1 DEF Ascends, Precedes
    <3> QED BY <2>3, <2>4, <3>2
  <2> QED BY <1>3, <1>14, <2>3, <2>4, <2>5
<1>16. CASE filter.page <= 1
  <2>1. skip = 0
    <3>1. 0 * filter.size = 0
      BY <1>1
    <3>2. CASE filter.page = 0
      BY <1>12, <3>2
    <3>3. CASE filter.page = 1
      BY <1>12, <3>1, <3>3
    <3> QED BY <1>1, <1>16, <3>2, <3>3
  <2>2. Len(s) # 0 /\ Len(s) \in Nat
    BY <1>2, <1>14
  <2>3. Len(page) \in Nat /\ Len(page) >= 1
    BY <1>1, <2>1, <2>2, <1>5 DEF Limit, Behind
  <2>4. m \in Range(page)
    <3>1. 1 \in 1..Len(page) /\ DOMAIN page = 1..Len(page) /\ 0 + 1 = 1
      BY <1>5, <2>3
    <3>2. page[1] = s[1]
      BY <1>5, <2>1, <3>1
    <3> QED BY <1>15, <3>1, <3>2 DEF Range
  <2>5. m \in Range(shown)
    <3>1. ~Hidden(filter.key, m)
      BY <1>4, <1>14, <1>15 DEF Range
    <3> QED BY <1>6, <2>4, <3>1
  <2>6. m \in Range(lines)
    <3>1. PICK i \in 1..Len(shown) : shown[i] = m
      BY <1>6, <2>5 DEF Range
    <3>2. Len(shown) <= Len(nrs) /\ \A j \in 1..Len(shown) : shown[j] = nrs[j]
      <4>1. nrs \in Seq(Nat)
        BY <1>1, <1>8, SeqMonotonic
      <4> QED BY <1>6, <1>7, <4>1, PrefixAgrees
    <3>3. i \in 1..Len(nrs) /\ DOMAIN nrs = 1..Len(nrs)
      BY <1>6, <1>8, <3>2
    <3> QED BY <1>8, <3>1, <3>2, <3>3 DEF Range
  <2>7. lines # <<>>
    BY <2>6 DEF Range
  <2> QED BY <1>13, <1>15, <1>16, <2>6, <2>7 DEF v, s, lines, count, m
<1>17. CASE filter.page > 1
  <2>1. skip \in Nat /\ skip >= filter.size
    <3> DEFINE z == filter.size
               p == filter.page - 2
    <3>1. p \in Nat /\ z \in Nat /\ filter.page - 1 = p + 1
      BY <1>1, <1>17
    <3> HIDE DEF z, p
    <3>2. (p + 1) * z = p * z + z /\ p * z \in Nat
      BY <3>1
    <3>3. skip = (p + 1) * z
      BY <1>1, <1>12, <1>17, <3>1 DEF z
    <3> QED BY <1>1, <3>1, <3>2, <3>3 DEF z
  <2>2. skip # 0 /\ skip >= 1
    BY <1>1, <2>1
  <2>3. m \notin Range(lines)
    <3> SUFFICES ASSUME m \in Range(lines) PROVE FALSE
      OBVIOUS
    <3>1. skip \in 1..Len(s) /\ s[skip] > m
      BY <1>9, <2>2 DEF Precedes
    <3>2. CASE skip = 1
      BY <1>15, <3>1, <3>2
    <3>3. CASE skip # 1
      <4>1. 1 < skip
        BY <2>1, <2>2, <3>3
      <4>2. s[1] > s[skip] /\ s[skip] \in Nat
        BY <1>2, <1>14, <3>1, <4>1 DEF Ascends, Precedes
      <4> QED BY <1>15, <3>1, <4>2
    <3> QED BY <3>2, <3>3
  <2>4. ASSUME lines # <<>> PROVE ~HasLastDecay(filter, count)
    <3>1. PICK x : x \in Range(lines)
      <4>1. 1 \in DOMAIN lines
        BY <1>8, <2>4, EmptySeq
      <4> QED BY <4>1 DEF Range
    <3>2. PICK j \in 1..Len(v) : v[j] = x
      BY <1>9, <1>14, <3>1 DEF Range
    <3>3. j \in 1..Len(s) /\ s[j] = x /\ skip \in 1..Len(s) /\ s[skip] > s[j]
      BY <1>3, <1>9, <2>2, <3>1, <3>2 DEF Precedes
    <3>4. ~(j <= skip)
      <4> SUFFICES ASSUME j <= skip PROVE FALSE
        OBVIOUS
      <4>1. s[j] \in Nat /\ s[skip] \in Nat
        BY <1>2, <3>3
      <4>2. CASE j = skip
        BY <3>3, <4>1, <4>2
      <4>3. CASE j < skip
        <5>1. s[j] > s[skip]
          BY <1>2, <3>3, <4>3 DEF Ascends, Precedes
        <5> QED BY <3>3, <4>1, <5>1
      <4> QED BY <2>1, <3>2, <4>2, <4>3
    <3>5. Len(v) > filter.size
      BY <1>1, <1>3, <2>1, <3>2, <3>4
    <3>6. ~(count <= filter.size)
      BY <1>1, <1>3, <1>10, <3>5
    <3> QED BY <1>1, <1>13, <1>17, <3>6
  <2> QED BY <1>15, <2>3, <2>4 DEF v, s, lines, count, m
<1> QED BY <1>1, <1>16, <1>17

(* What the account has after the newest of them it has until the end of   *)
(* the chain.                                                              *)
LEMMA BalanceOfNewest ==
  ASSUME NEW filter, FilterOK(filter), filter.type = "NONE", filter.from = 0,
         filter.dir \in {"ASC", "DESC"}, NEW n \in 0..Len(Ledger),
         AllButOldest(filter, MatchingNrs(filter, n), Visible(filter, MatchingNrs(filter, n))),
         Visible(filter, MatchingNrs(filter, n)) # <<>>
  PROVE  LET m == Max(Range(Visible(filter, MatchingNrs(filter, n)))) IN
         Balance(m, filter.key) = Balance(n, filter.key)
<1> DEFINE s == MatchingNrs(filter, n)
           v == Visible(filter, s)
           m == Max(Range(v))
<1>1. n \in Nat /\ 1..n \in SUBSET Nat /\ IsFiniteSet(1..n) /\ Len(Ledger) \in Nat /\ n <= Len(Ledger)
  <2>1. n \in Nat /\ Len(Ledger) \in Nat /\ n <= Len(Ledger)
    BY LedgerAssumption
  <2> QED BY <2>1, FS_Interval
<1>2. /\ s \in Seq(1..n) /\ Len(s) \in Nat /\ Ascends(filter, s)
      /\ \A i \in 1..Len(s) : s[i] \in Nat
      /\ \A x \in 1..n : Wanted(filter, x) => \E i \in 1..Len(s) : s[i] = x
  BY <1>1, MatchingSorted
<1>3. /\ v \in Seq(1..n) /\ Len(v) \in Nat
      /\ \A i \in 1..Len(v) : v[i] = s[i] /\ i \in 1..Len(s)
      /\ v # s => filter.dir = "DESC" /\ Len(s) = Len(v) + 1
  BY <1>1, <1>2, AllButOldestBegins
<1>4. v # <<>>
  OBVIOUS
<1> HIDE DEF s, v, m
<1>5. 1 \in 1..Len(v) /\ DOMAIN v = 1..Len(v) /\ v \in Seq(Nat)
  <2>1. 1 \in 1..Len(v)
    BY <1>3, <1>4, EmptySeq
  <2> QED BY <1>1, <1>3, <2>1, SeqMonotonic
<1>6. m \in 1..n /\ \A y \in Range(v) : y <= m
  <2>1. Range(v) \subseteq 1..n
    BY <1>3, <1>5 DEF Range
  <2> QED BY <1>1, <1>4, <1>5, <2>1, MaxOfSequence DEF m
<1>7. ASSUME NEW nr \in m + 1..n PROVE ~Wanted(filter, nr)
  <2> SUFFICES ASSUME Wanted(filter, nr) PROVE FALSE
    OBVIOUS
  <2>1. nr \in 1..n /\ nr > m /\ nr \in Nat /\ m \in Nat
    BY <1>1, <1>6, <1>7
  <2>2. PICK i \in 1..Len(s) : s[i] = nr
    BY <1>2, <2>1
  <2>3. nr \notin Range(v)
    BY <1>6, <2>1
  <2>4. i \notin 1..Len(v)
    BY <1>3, <1>5, <2>2, <2>3 DEF Range
  <2>5. v # s
    BY <2>2, <2>4
  <2>6. 1 < i /\ 1 \in 1..Len(s)
    BY <1>3, <1>5, <2>2, <2>4
  <2>7. s[1] > s[i]
    BY <1>2, <1>3, <2>2, <2>5, <2>6 DEF Ascends, Precedes
  <2>8. s[1] <= m /\ s[1] \in Nat
    BY <1>2, <1>3, <1>5, <1>6, <2>6 DEF Range
  <2> QED BY <2>1, <2>2, <2>7, <2>8
<1>8. ASSUME NEW nr \in m + 1..n PROVE Gain(nr, filter.key) = 0
  <2>1. nr \in 1..Len(Ledger) /\ 0 <= nr
    BY <1>1, <1>6, <1>8
  <2>2. filter.key \notin AddressIndices(nr)
    BY <1>7, <1>8, <2>1 DEF Wanted
  <2> QED BY <2>1, <2>2, GainOfOthers
<1>9. m \in 0..n
  BY <1>6
<1> QED BY <1>8, <1>9, BalanceStays DEF m, v, s

(* The line of the last decay.                                             *)
LEMMA DecayOfNewest ==
  ASSUME NEW filter, NEW G, FilterOK(filter), FilterOK(G), G.size = 0, SameSearch(filter, G),
         filter.function = "wallet", filter.size # 0, filter.type = "NONE", filter.from = 0,
         filter.dir \in {"ASC", "DESC"}, NEW n \in 0..Len(Ledger),
         AllButOldest(filter, MatchingNrs(filter, n), Visible(filter, MatchingNrs(filter, n)))
  PROVE  LET v == Visible(filter, MatchingNrs(filter, n))
             newest == Max(Range(v))
             lines == Lines(filter, n)
             count == Len(FindAll(G, n)) IN
         IF v # <<>> /\ newest \in Range(lines)
         THEN /\ lines # <<>> /\ HasLastDecay(filter, count)
              /\ Last(lines) = newest /\ Balance(newest, filter.key) = Balance(n, filter.key)
         ELSE ~(lines # <<>> /\ HasLastDecay(filter, count))
<1> DEFINE s == MatchingNrs(filter, n)
           v == Visible(filter, s)
           newest == Max(Range(v))
           lines == Lines(filter, n)
           count == Len(FindAll(G, n))
<1>1. n \in Nat /\ 1..n \in SUBSET Nat /\ IsFiniteSet(1..n)
  <2>1. n \in Nat
    BY LedgerAssumption
  <2> QED BY <2>1, FS_Interval
<1>2. s \in Seq(1..n)
  BY <1>1, MatchingSorted
<1>3. v \in Seq(1..n) /\ (v # s => filter.dir = "DESC")
  BY <1>1, <1>2, AllButOldestBegins
<1>4. lines \in Seq(1..n) /\ Grows(lines) /\ Range(lines) \subseteq Range(v)
  BY LinesFound, LinesInside
<1>5. lines \in Seq(Nat) /\ v \in Seq(Nat) /\ DOMAIN lines = 1..Len(lines) /\ DOMAIN v = 1..Len(v)
  BY <1>1, <1>3, <1>4, SeqMonotonic
<1>6. CASE v = <<>>
  <2>1. Range(v) = {}
    BY <1>6 DEF Range
  <2>2. lines = <<>>
    <3> SUFFICES ASSUME lines # <<>> PROVE FALSE
      OBVIOUS
    <3>1. 1 \in DOMAIN lines
      BY <1>4, EmptySeq
    <3> QED BY <1>4, <2>1, <3>1 DEF Range
  <2> QED BY <1>6, <2>2
<1>7. CASE v # <<>>
  <2>1. lines # <<>> /\ HasLastDecay(filter, count) <=> newest \in Range(lines)
    <3>1. CASE filter.dir = "ASC"
      <4>1. v = s
        BY <1>3, <3>1
      <4> QED BY <1>7, <3>1, <4>1, NewestAscending
    <3>2. CASE filter.dir = "DESC"
      BY <1>7, <3>2, NewestDescending
    <3> QED BY <3>1, <3>2
  <2>2. Balance(newest, filter.key) = Balance(n, filter.key)
    BY <1>7, BalanceOfNewest
  <2>3. newest \in Range(lines) => Last(lines) = newest
    <3>1. \A y \in Range(v) : y <= newest
      <4>1. Range(v) \subseteq 1..n
        BY <1>3, <1>5 DEF Range
      <4> HIDE DEF v
      <4> QED BY <1>1, <1>5, <1>7, <4>1, MaxOfSequence
    <3> HIDE DEF v, newest, lines
    <3> QED BY <1>4, <1>5, <3>1, LastOfGrowing
  <2> QED BY <1>7, <2>1, <2>2, <2>3
<1> QED BY <1>6, <1>7

(***************************************************************************)
(* The line of the decay since then is there with the newest transaction   *)
(* of the account and begins with the balance it has, or with none if that *)
(* transaction has a plain memo, though the last page is found with a      *)
(* count that another search made, and that has entries which are not      *)
(* shown (DecayFollowsNewest).                                             *)
(***************************************************************************)
THEOREM DecayIsOfNewest == Spec => []DecayFollowsNewest
<1>1. Inv => DecayFollowsNewest
  <2> SUFFICES ASSUME Inv, NEW a \in Answers("listTransactions"),
                      a.countedAt = a.at, OnlyCreations(a.call) = "NONE", a.call.size # 0,
                      NothingHidden(a, OfAccount(a), Shown(a, OfAccount(a)))
               PROVE  LET shown == Shown(a, OfAccount(a))
                          newest == Max(Range(shown)) IN
                      a.result.decay = IF shown # <<>> /\ newest \in Range(a.result.nrs)
                                       THEN {DecaySince(newest, a.at, a.call.pubkey)} ELSE NoDecay
    BY DEF DecayFollowsNewest
  <2> DEFINE filter == WalletPage(a)
             G == AllOfWallet(a.call)
             v == Visible(filter, MatchingNrs(filter, a.at))
  <2>1. /\ WalletOK(a) /\ FilterOK(filter) /\ a.at \in 0..Len(Ledger)
        /\ filter.key = a.call.pubkey /\ filter.function = "wallet"
        /\ filter.dir = a.call.dir /\ filter.size = a.call.size
    BY WalletAnswer
  <2>2. filter.type = "NONE" /\ filter.from = 0
    BY DEF WalletPage, Filter
  <2>3. filter.dir \in {"ASC", "DESC"}
    BY <2>1, QueriesAssumption DEF WalletOK
  <2>4. FilterOK(G) /\ G.size = 0 /\ SameSearch(filter, G)
    BY DEF AllOfWallet, WalletPage, Filter, SameSearch, FilterOK
  <2>5. v = Shown(a, OfAccount(a))
    BY <2>1 DEF Shown, OfAccount, Visible
  <2>6. AllButOldest(filter, MatchingNrs(filter, a.at), v)
    BY <2>1, <2>5 DEF AllButOldest, NothingHidden, OfAccount
  <2>7. /\ a.result.nrs = Lines(filter, a.at) /\ a.result.count = Len(FindAll(G, a.at))
        /\ a.result.decay = IF a.result.nrs # <<>> /\ HasLastDecay(filter, a.result.count)
                            THEN {DecaySince(Last(a.result.nrs), Last(a.result.nrs), a.call.pubkey)}
                            ELSE NoDecay
    BY <2>1 DEF WalletOK, Counted, DecayLine, DecaySince
  <2> HIDE DEF filter, G
  <2>8. IF v # <<>> /\ Max(Range(v)) \in Range(Lines(filter, a.at))
        THEN /\ Lines(filter, a.at) # <<>> /\ HasLastDecay(filter, Len(FindAll(G, a.at)))
             /\ Last(Lines(filter, a.at)) = Max(Range(v))
             /\ Balance(Max(Range(v)), filter.key) = Balance(a.at, filter.key)
        ELSE ~(Lines(filter, a.at) # <<>> /\ HasLastDecay(filter, Len(FindAll(G, a.at))))
    BY <2>1, <2>2, <2>3, <2>4, <2>6, DecayOfNewest
  <2> HIDE DEF v
  <2> QED BY <2>1, <2>5, <2>7, <2>8 DEF DecaySince
<1> QED BY <1>1, Always, PTL

(***************************************************************************)
(* The amount of a line is what its transaction changes the balance by.    *)
(***************************************************************************)
LEMMA LineIsGain ==
  ASSUME NEW nr \in 1..Len(Ledger), NEW key, key \in AddressIndices(nr), ~Hidden(key, nr),
         NEW n \in nr..Len(Ledger), ~OneSided(nr, key, IsLink(key, n))
  PROVE  LET line == CreateTransaction(nr, key, IsLink(key, n))[1] IN line.amount + line.change = Gain(nr, key)
<1> DEFINE isLink == IsLink(key, n)
           line == CreateTransaction(nr, key, isLink)[1]
           type == Ledger[nr].type
           amount == Ledger[nr].amount
           linked == LinkOf(nr).amount
           to == IF Ledger[nr].to = key THEN amount ELSE 0
           origin == IF Ledger[nr].link # 0 /\ LinkOf(nr).from = key THEN linked - amount ELSE 0
           out == IF Ledger[nr].from = key
                  THEN IF Ledger[nr].link # 0 THEN linked ELSE amount
                  ELSE 0
<1>1. amount \in Int /\ (Ledger[nr].link # 0 => linked \in Int)
  BY GainType
<1>2. Gain(nr, key) = IF type \in {"COMMUNITY_ROOT", "REGISTER_ADDRESS"} THEN 0
                      ELSE IF type = "CREATION" THEN to ELSE to + origin - out
  BY DEF Gain
<1>3. /\ Ledger[nr].link # 0 <=> type \in {"REDEEM_DEFERRED_TRANSFER", "TIMEOUT_DEFERRED_TRANSFER"}
      /\ Ledger[nr].link # 0 => Ledger[nr].from = LinkOf(nr).to /\ LinkOf(nr).type = "DEFERRED_TRANSFER"
      /\ type = "TIMEOUT_DEFERRED_TRANSFER" => Ledger[nr].to = LinkOf(nr).from /\ amount = 0
  BY LinkAssumption
<1>4. /\ \/ key \in {Ledger[nr].from, Ledger[nr].to}
         \/ Ledger[nr].link # 0 /\ key \in {LinkOf(nr).from, LinkOf(nr).to}
      /\ ~NotForWallet(key, nr) /\ type # "COMMUNITY_ROOT"
  <2>1. \/ key \in {Ledger[nr].from, Ledger[nr].to}
        \/ Ledger[nr].link # 0 /\ key \in {LinkOf(nr).from, LinkOf(nr).to}
    BY DEF AddressIndices
  <2> QED BY <2>1 DEF Hidden
<1>5. \A t, x, y : LineWithChange(t, x, y)[1].amount = x /\ LineWithChange(t, x, y)[1].change = y
  BY DEF LineWithChange
<1>6. \A t, x : Line(t, x)[1].amount = x /\ Line(t, x)[1].change = 0
  BY <1>5 DEF Line
<1>7. CASE type = "CREATION"
  <2>1. line.amount = amount /\ line.change = 0
    BY <1>6, <1>7 DEF CreateTransaction, CreationTransactionRole
  <2>2. to = amount
    BY <1>4, <1>7 DEF NotForWallet
  <2>3. Gain(nr, key) = amount
    BY <1>2, <1>7, <2>2
  <2> QED BY <1>1, <2>1, <2>3
<1>8. CASE type \in {"TRANSFER", "DEFERRED_TRANSFER"}
  <2>1. Ledger[nr].link = 0 /\ key \in {Ledger[nr].from, Ledger[nr].to}
    BY <1>3, <1>4, <1>8
  <2>2. line.amount = (IF Ledger[nr].to = key THEN amount ELSE -amount) /\ line.change = 0
    BY <1>6, <1>8 DEF CreateTransaction, TransferTransactionRole, DeferredTransferTransactionRole
  <2>3. Gain(nr, key) = to + origin - out /\ origin = 0
    BY <1>2, <1>8, <2>1
  <2>4. CASE Ledger[nr].to = key
    <3>1. Ledger[nr].from # key
      BY <2>4 DEF OneSided
    <3>2. to = amount /\ out = 0
      BY <2>4, <3>1
    <3> QED BY <1>1, <2>2, <2>3, <2>4, <3>2
  <2>5. CASE Ledger[nr].to # key
    <3>1. to = 0 /\ out = amount
      BY <2>1, <2>5
    <3> QED BY <1>1, <2>2, <2>3, <2>5, <3>1
  <2> QED BY <2>4, <2>5
<1>9. CASE type = "REDEEM_DEFERRED_TRANSFER"
  <2>1. /\ Ledger[nr].link # 0 /\ linked \in Int
        /\ Ledger[nr].to = key \/ Ledger[nr].from = key \/ LinkOf(nr).from = key
    BY <1>1, <1>3, <1>4, <1>9
  <2>2. CreateTransaction(nr, key, isLink) = RedeemDeferredTransferTransactionRole(nr, key, isLink)
    BY <1>9 DEF CreateTransaction
  <2>3. Gain(nr, key) = to + origin - out
    BY <1>2, <1>9
  <2>4. CASE Ledger[nr].to = key
    <3>1. Ledger[nr].from # key /\ LinkOf(nr).from # key
      BY <1>9, <2>4 DEF OneSided
    <3>2. to = amount /\ origin = 0 /\ out = 0
      BY <2>4, <3>1
    <3>3. line.amount = amount /\ line.change = 0
      <4>1. CreateTransaction(nr, key, isLink) = Line("LINK_RECEIVE", amount)
        BY <2>2, <2>4, <3>1, <1>9 DEF RedeemDeferredTransferTransactionRole, OneSided
      <4> QED BY <1>6, <4>1
    <3> QED BY <1>1, <2>3, <3>2, <3>3
  <2>5. CASE Ledger[nr].to # key /\ Ledger[nr].from = key
    <3>1. LinkOf(nr).from # key
      BY <1>9, <2>5 DEF OneSided
    <3>2. to = 0 /\ origin = 0 /\ out = linked
      BY <2>1, <2>5, <3>1
    <3>5. isLink
      <4>1. Ledger[nr].link \in 1..n /\ LinkOf(nr).type = "DEFERRED_TRANSFER" /\ LinkOf(nr).to = key
        BY <1>3, <2>1, <2>5, LedgerAssumption
      <4> QED BY <4>1 DEF IsLink, LinkOf
    <3>6. CreateTransaction(nr, key, isLink) = SetChange(Line("SEND", -amount), nr)
      BY <2>2, <2>5, <3>5 DEF RedeemDeferredTransferTransactionRole
    <3>3. line.amount = -amount /\ line.change = -Change(nr)
      BY <1>5, <1>6, <3>6 DEF SetChange
    <3>4. Change(nr) = linked - amount
      BY DEF Change
    <3> QED BY <1>1, <2>1, <2>3, <3>2, <3>3, <3>4
  <2>6. CASE Ledger[nr].to # key /\ Ledger[nr].from # key
    <3>1. to = 0 /\ origin = linked - amount /\ out = 0
      BY <2>1, <2>6
    <3>4. ~isLink
      BY <1>9, <2>6 DEF OneSided
    <3>2. line.amount = Change(nr) /\ line.change = 0
      BY <1>6, <2>2, <2>6, <3>4 DEF RedeemDeferredTransferTransactionRole
    <3>3. Change(nr) = linked - amount
      BY DEF Change
    <3> QED BY <1>1, <2>1, <2>3, <3>1, <3>2, <3>3
  <2> QED BY <2>4, <2>5, <2>6
<1>10. CASE type = "TIMEOUT_DEFERRED_TRANSFER"
  <2>1. Ledger[nr].link # 0 /\ linked \in Int /\ amount = 0
    BY <1>1, <1>3, <1>10
  <2>2. Ledger[nr].from # key /\ Ledger[nr].to = key /\ LinkOf(nr).from = key
    BY <1>3, <1>4, <1>10, <2>1 DEF OneSided
  <2>3. Gain(nr, key) = to + origin - out
    BY <1>2, <1>10
  <2>4. to = 0 /\ origin = linked - 0 /\ out = 0
    BY <2>1, <2>2
  <2>5. line.amount = linked /\ line.change = 0
    BY <1>6, <1>10 DEF CreateTransaction, TimeoutDeferredTransferTransactionRole
  <2> QED BY <2>1, <2>3, <2>4, <2>5
<1>11. type \notin {"COMMUNITY_ROOT", "REGISTER_ADDRESS"}
  BY <1>4 DEF NotForWallet
<1>12. type \in Types
  BY LedgerAssumption
<1> QED BY <1>7, <1>8, <1>9, <1>10, <1>11, <1>12 DEF Types

(* What lies between two of a page is on it.                               *)
LEMMA PageWithoutHoles ==
  ASSUME NEW filter, FilterOK(filter), NEW n \in 0..Len(Ledger),
         NEW p, NEW q, NEW x \in 1..n, Wanted(filter, x), p < x, x < q,
         p \in Range(PageOf(filter, MatchingNrs(filter, n))),
         q \in Range(PageOf(filter, MatchingNrs(filter, n)))
  PROVE  x \in Range(PageOf(filter, MatchingNrs(filter, n)))
<1> DEFINE s == MatchingNrs(filter, n)
           skip == SkipEntriesCount(filter)
           page == PageOf(filter, s)
<1>1. n \in Nat /\ skip \in Nat
  BY LedgerAssumption, SkipIsNumber
<1>2. /\ Len(s) \in Nat /\ Ascends(filter, s) /\ \A i \in 1..Len(s) : s[i] \in Nat
      /\ \E k \in 1..Len(s) : s[k] = x
  BY <1>1, MatchingSorted
<1>3. /\ page \in Seq(1..n)
      /\ Len(page) = Limit(filter, Behind(s, skip))
      /\ \A k \in 1..Len(page) : page[k] = s[skip + k] /\ skip + k \in 1..Len(s)
  BY PageOfSearch
<1>4. p \in Range(page) /\ q \in Range(page)
  OBVIOUS
<1> HIDE DEF s, skip, page
<1>5. DOMAIN page = 1..Len(page) /\ Len(page) \in Nat
  BY <1>3
<1>6. PICK i \in 1..Len(page), j \in 1..Len(page) : page[i] = p /\ page[j] = q
  BY <1>4, <1>5 DEF Range
<1>7. PICK k \in 1..Len(s) : s[k] = x
  BY <1>2
<1>8. /\ skip + i \in 1..Len(s) /\ s[skip + i] = p /\ skip + j \in 1..Len(s) /\ s[skip + j] = q
      /\ s[k] \in Nat /\ p \in Nat /\ q \in Nat
  BY <1>2, <1>3, <1>6, <1>7
<1>9. \A a, b \in 1..Len(s) :
        IF filter.dir = "DESC" THEN s[a] > s[b] => a < b ELSE s[a] < s[b] => a < b
  <2> SUFFICES ASSUME NEW a \in 1..Len(s), NEW b \in 1..Len(s), ~(a < b), Precedes(filter, s[a], s[b])
               PROVE  FALSE
    BY DEF Precedes
  <2>1. s[a] \in Nat /\ s[b] \in Nat
    BY <1>2
  <2>2. CASE a = b
    BY <2>1, <2>2 DEF Precedes
  <2>3. CASE b < a
    <3>1. Precedes(filter, s[b], s[a])
      BY <1>2, <2>3 DEF Ascends
    <3> QED BY <2>1, <3>1 DEF Precedes
  <2> QED BY <1>2, <2>2, <2>3
<1>10. \E m \in 1..Len(page) : skip + m = k
  <2>1. CASE filter.dir = "DESC"
    <3>1. skip + j < k /\ k < skip + i
      BY <1>7, <1>8, <1>9, <2>1
    <3>2. k - skip \in 1..Len(page) /\ skip + (k - skip) = k
      BY <1>1, <1>2, <1>5, <3>1
    <3> QED BY <3>2
  <2>2. CASE filter.dir # "DESC"
    <3>1. skip + i < k /\ k < skip + j
      BY <1>7, <1>8, <1>9, <2>2
    <3>2. k - skip \in 1..Len(page) /\ skip + (k - skip) = k
      BY <1>1, <1>2, <1>5, <3>1
    <3> QED BY <3>2
  <2> QED BY <2>1, <2>2
<1>11. PICK m \in 1..Len(page) : skip + m = k
  BY <1>10
<1>12. page[m] = x
  BY <1>3, <1>7, <1>11
<1> QED BY <1>5, <1>12 DEF Range, page, s

(***************************************************************************)
(* The balance a line of a whole page begins with.                         *)
(***************************************************************************)
LEMMA BalanceBetween ==
  ASSUME NEW filter, FilterOK(filter), filter.function = "wallet", filter.type = "NONE",
         filter.from = 0, NEW n \in 0..Len(Ledger),
         Visible(filter, PageOf(filter, MatchingNrs(filter, n))) = PageOf(filter, MatchingNrs(filter, n)),
         NEW i \in 2..Len(Lines(filter, n))
  PROVE  LET lines == Lines(filter, n) IN
         Balance(lines[i - 1], filter.key) = Balance(lines[i] - 1, filter.key)
<1> DEFINE page == PageOf(filter, MatchingNrs(filter, n))
           lines == Lines(filter, n)
<1>1. n \in Nat /\ Len(Ledger) \in Nat /\ n <= Len(Ledger) /\ 1..n \in SUBSET Nat
  BY LedgerAssumption
<1>2. /\ lines \in Seq(1..n) /\ Grows(lines)
      /\ Range(Ascending(filter, lines)) = Range(lines)
  BY LinesFound
<1>3. Ascending(filter, lines) = page
  BY LinesSlice
<1>4. \A p, q \in Range(page) : \A x \in 1..n :
        Wanted(filter, x) /\ p < x /\ x < q => x \in Range(page)
  BY PageWithoutHoles
<1>5. i \in 2..Len(lines)
  OBVIOUS
<1> HIDE DEF page, lines
<1>6. DOMAIN lines = 1..Len(lines) /\ Range(page) = Range(lines) /\ Len(lines) \in Nat
  BY <1>2, <1>3
<1> DEFINE p == lines[i - 1]
           q == lines[i]
<1>7. i - 1 \in 1..Len(lines) /\ i \in 1..Len(lines) /\ i - 1 < i
  BY <1>5, <1>6
<1>8. p \in Range(page) /\ q \in Range(page)
  BY <1>6, <1>7 DEF Range
<1>9. p \in 1..n /\ q \in 1..n /\ p < q
  <2>1. \A j \in 1..Len(lines) : lines[j] \in 1..n
    BY <1>2
  <2>2. p < q
    BY <1>2, <1>7 DEF Grows
  <2> QED BY <1>7, <2>1, <2>2
<1> HIDE DEF p, q
<1>10. ASSUME NEW x \in p + 1..q - 1 PROVE Gain(x, filter.key) = 0
  <2>1. x \in 1..n /\ p < x /\ x < q /\ x \in 1..Len(Ledger) /\ 0 <= x
    BY <1>1, <1>9, <1>10
  <2>2. ~Wanted(filter, x)
    <3> SUFFICES ASSUME Wanted(filter, x) PROVE FALSE
      OBVIOUS
    <3>1. x \in Range(lines)
      BY <1>4, <1>6, <1>8, <2>1
    <3>2. PICK j \in 1..Len(lines) : lines[j] = x
      BY <1>6, <3>1 DEF Range
    <3>3. ~(j <= i - 1)
      <4> SUFFICES ASSUME j <= i - 1 PROVE FALSE
        OBVIOUS
      <4>1. CASE j = i - 1
        BY <1>9, <2>1, <3>2, <4>1 DEF p
      <4>2. CASE j # i - 1
        <5>1. j < i - 1
          BY <1>6, <1>7, <4>2
        <5>2. lines[j] < lines[i - 1]
          BY <1>2, <1>7, <5>1 DEF Grows
        <5> QED BY <1>9, <2>1, <3>2, <5>2 DEF p
      <4> QED BY <4>1, <4>2
    <3>4. ~(j >= i)
      <4> SUFFICES ASSUME j >= i PROVE FALSE
        OBVIOUS
      <4>1. CASE j = i
        BY <1>9, <2>1, <3>2, <4>1 DEF q
      <4>2. CASE j # i
        <5>1. i < j
          BY <1>6, <1>7, <4>2
        <5>2. lines[i] < lines[j]
          BY <1>2, <1>7, <5>1 DEF Grows
        <5> QED BY <1>9, <2>1, <3>2, <5>2 DEF q
      <4> QED BY <4>1, <4>2
    <3> QED BY <1>6, <1>7, <3>3, <3>4
  <2>3. filter.key \notin AddressIndices(x)
    BY <2>1, <2>2 DEF Wanted
  <2> QED BY <2>1, <2>3, GainOfOthers
<1>11. q - 1 \in 0..Len(Ledger) /\ p \in 0..q - 1
  BY <1>1, <1>9
<1>12. Balance(q - 1, filter.key) = Balance(p, filter.key)
  BY <1>10, <1>11, BalanceStays
<1> QED BY <1>12 DEF p, q, lines

(***************************************************************************)
(* The lines of a page add up, for any chain: each shows what the          *)
(* transaction changes the balance of the account by, though a transfer by *)
(* link is shown from three sides that get different parts of it, and      *)
(* begins with the balance before it, though that is taken from the line   *)
(* before (AmountsAddUp).                                                  *)
(***************************************************************************)
THEOREM LinesAddUp == Spec => []AmountsAddUp
<1>1. Inv => AmountsAddUp
  <2> SUFFICES ASSUME Inv, NEW a \in Answers("listTransactions"), NEW i \in DOMAIN a.result.nrs
               PROVE  LET page == PageOf(WalletPage(a), OfAccount(a))
                          whole == OnlyCreations(a.call) = "NONE" /\ Shown(a, page) = page
                          nr == a.result.nrs[i]
                          key == a.call.pubkey
                          isLink == IsLink(key, a.at)
                          line == CreateTransaction(nr, key, isLink)[1] IN
                      /\ ~OneSided(nr, key, isLink) =>
                           line.amount + line.change = Balance(nr, key) - Balance(nr - 1, key)
                      /\ whole /\ i > 1 => PreviousBalance(a.result.nrs, i, key) = Balance(nr - 1, key)
    BY DEF AmountsAddUp
  <2> DEFINE filter == WalletPage(a)
             n == a.at
             s == MatchingNrs(filter, n)
             page == PageOf(filter, s)
             lines == Lines(filter, n)
             nr == lines[i]
             key == a.call.pubkey
  <2>1. /\ WalletOK(a) /\ FilterOK(filter) /\ n \in 0..Len(Ledger)
        /\ filter.key = key /\ filter.function = "wallet"
    BY WalletAnswer
  <2>2. a.result.nrs = lines /\ key # NoKey
    BY <2>1 DEF WalletOK
  <2>3. filter.from = 0 /\ filter.type = OnlyCreations(a.call)
    BY DEF WalletPage, Filter
  <2>4. Shown(a, page) = Visible(filter, page) /\ OfAccount(a) = s
    BY <2>1 DEF Shown, Visible, OfAccount
  <2> HIDE DEF filter
  <2>5. n \in Nat /\ 1..n \in SUBSET Nat /\ IsFiniteSet(1..n) /\ Len(Ledger) \in Nat /\ n <= Len(Ledger)
    <3>1. n \in Nat /\ Len(Ledger) \in Nat /\ n <= Len(Ledger)
      BY <2>1, LedgerAssumption
    <3> QED BY <3>1, FS_Interval
  <2>6. lines \in Seq(1..n) /\ Range(lines) \subseteq Range(Visible(filter, s))
    BY <2>1, LinesFound, LinesInside
  <2>7. /\ s \in Seq(1..n) /\ DOMAIN s = 1..Len(s)
        /\ \A j \in 1..Len(s) : Wanted(filter, s[j])
    BY <2>5, MatchingSorted
  <2>8. Range(Visible(filter, s)) = {x \in Range(s) : ~Hidden(key, x)}
    BY <2>1, <2>5, <2>7, VisibleSorts
  <2> HIDE DEF s, lines, page
  <2>9. i \in 1..Len(lines) /\ DOMAIN lines = 1..Len(lines) /\ Len(lines) \in Nat
    BY <2>2, <2>6
  <2> HIDE DEF n, key
  <2>10. nr \in 1..n /\ nr \in Range(lines)
    <3>1. \A j \in 1..Len(lines) : lines[j] \in 1..n
      BY <2>5, <2>6
    <3> QED BY <2>9, <3>1 DEF Range
  <2>11. Wanted(filter, nr) /\ ~Hidden(key, nr)
    BY <2>6, <2>7, <2>8, <2>10 DEF Range
  <2>12. nr \in 1..Len(Ledger) /\ nr \in 0..Len(Ledger) /\ nr - 1 \in 0..Len(Ledger)
    BY <2>5, <2>10
  <2>13. key \in AddressIndices(nr)
    BY <2>1, <2>2, <2>11 DEF Wanted
  <2>14. ASSUME ~OneSided(nr, key, IsLink(key, n))
         PROVE  LET line == CreateTransaction(nr, key, IsLink(key, n))[1] IN
                line.amount + line.change = Balance(nr, key) - Balance(nr - 1, key)
    <3>1. Balance(nr, key) = Balance(nr - 1, key) + Gain(nr, key)
      BY <2>12, BalanceSteps
    <3>2. Balance(nr - 1, key) \in Int /\ Gain(nr, key) \in Int
      BY <2>12, BalanceSteps, GainType
    <3>3. Gain(nr, key) = Balance(nr, key) - Balance(nr - 1, key)
      BY <3>1, <3>2
    <3>4. n \in nr..Len(Ledger)
      BY <2>5, <2>10
    <3> QED BY <2>11, <2>12, <2>13, <2>14, <3>3, <3>4, LineIsGain
  <2>15. ASSUME OnlyCreations(a.call) = "NONE", Visible(filter, page) = page, i > 1
         PROVE  PreviousBalance(lines, i, key) = Balance(nr - 1, key)
    <3>1. i \in 2..Len(lines) /\ i # 1
      BY <2>9, <2>15
    <3>2. Balance(lines[i - 1], key) = Balance(lines[i] - 1, key)
      BY <2>1, <2>3, <2>15, <3>1, BalanceBetween DEF lines, page, s
    <3> QED BY <3>1, <3>2 DEF PreviousBalance
  <2> QED BY <2>2, <2>4, <2>14, <2>15 DEF filter, page, key, n
<1> QED BY <1>1, Always, PTL
=============================================================================
