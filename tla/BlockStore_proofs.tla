-------------------------- MODULE BlockStore_proofs --------------------------
(***************************************************************************)
(* Proofs about BlockStore, for any messages and months, any number of IO  *)
(* workers and any number of restarts; first about the format of its index *)
(* file: what serialize writes for an index, any index, is what            *)
(* readFromFile makes the same index of.                                   *)
(***************************************************************************)
EXTENDS BlockStore, NaturalSets, SequenceTheorems

LEMMA MaxIsGreatest ==
  ASSUME NEW S \in SUBSET Nat, S # {}, NEW n \in Nat, \A k \in S : k <= n
  PROVE  /\ Max(S) \in S
         /\ \A k \in S : k <= Max(S)
<1>1. \E x \in S : \A y \in S : x >= y
  <2>1. PICK m \in S : \A k \in S : k <= m
    BY GreatestMember
  <2> QED BY <2>1
<1> QED BY <1>1 DEF Max

-----------------------------------------------------------------------------
(* The places of an index, by date.                                        *)

Date == [year : Nat, month : 1..12]
Nr == Nat \ {0}

LEMMA PlacesInOrder ==
  ASSUME NEW D \in SUBSET Nr, IsFiniteSet(D), NEW months \in [D -> Date], NEW cursors
  PROVE  LET P == PlacesOf(Index(months, cursors)) IN
         /\ IsFiniteSet(P)
         /\ Orders(ByDate(P), P)
         /\ \A p \in P : \E nr \in D : p \in PlacesFor(months[nr], nr)
         /\ \A nr \in D : PlacesFor(months[nr], nr) \subseteq P
<1> DEFINE P == PlacesOf(Index(months, cursors))
           for == [nr \in D |-> PlacesFor(months[nr], nr)]
           F == {PlacesFor(months[nr], nr) : nr \in D}
<1>1. P = UNION F
  BY DEF PlacesOf, Index
<1>2. IsFiniteSet(P)
  <2>1. for \in Surjection(D, F)
    BY DEF Surjection
  <2>2. IsFiniteSet(F)
    BY <2>1, FS_Surjection
  <2>3. ASSUME NEW x, NEW y, NEW z PROVE IsFiniteSet({x, y, z})
    <3>1. IsFiniteSet({} \cup {x}) /\ IsFiniteSet(({} \cup {x}) \cup {y})
          /\ IsFiniteSet((({} \cup {x}) \cup {y}) \cup {z})
      BY FS_EmptySet, FS_AddElement
    <3>2. {x, y, z} = (({} \cup {x}) \cup {y}) \cup {z}
      OBVIOUS
    <3> QED BY <3>1, <3>2
  <2>4. ASSUME NEW T \in F PROVE IsFiniteSet(T)
    <3>1. PICK nr \in D : T = PlacesFor(months[nr], nr)
      OBVIOUS
    <3> QED BY <2>3, <3>1 DEF PlacesFor
  <2> QED BY <1>1, <2>2, <2>4, FS_UNION
<1>3. \A p \in P : \E nr \in D : p \in PlacesFor(months[nr], nr)
  BY <1>1
<1>4. \A nr \in D : PlacesFor(months[nr], nr) \subseteq P
  BY <1>1
<1>5. ASSUME NEW p \in P
      PROVE p \in [year : Nat, month : Nat, nr : Nat]
  <2>1. PICK nr \in D : p \in PlacesFor(months[nr], nr)
    BY <1>3
  <2>2. months[nr] \in Date
    OBVIOUS
  <2> QED BY <2>1, <2>2 DEF PlacesFor, Place, Date, Nr
<1>6. \A p, q \in P : <<p, q>> \in ByDate(P) <=> Before(p, q)
  BY DEF ByDate
<1>7. ASSUME NEW p \in P, NEW q \in P, p # q PROVE Before(p, q) \/ Before(q, p)
  <2>1. p.year # q.year \/ p.month # q.month \/ p.nr # q.nr
    BY <1>5, <1>7
  <2> QED BY <2>1, <1>5 DEF Before
<1>8. \A p \in P : ~Before(p, p)
  BY <1>5 DEF Before
<1>9. \A p, q, r \in P : Before(p, q) /\ Before(q, r) => Before(p, r)
  BY <1>5 DEF Before
<1>10. Orders(ByDate(P), P)
  BY <1>6, <1>7, <1>8, <1>9 DEF Orders
<1> QED BY <1>2, <1>3, <1>4, <1>10

(***************************************************************************)
(* What serialize writes: one data block for each transaction, and the     *)
(* last year and month block before it are those of its month.             *)
(***************************************************************************)
PlainBlock ==
  [type : {"year"}, year : Nat] \cup [type : {"month"}, month : Nat]
    \cup [type : {"data"}, transactionNr : Nr, fileCursor : Nr]

LEMMA BlockKinds ==
  /\ \A y \in Nat : /\ YearBlock(y) \in PlainBlock /\ YearBlock(y).type = "year"
                    /\ YearBlock(y).year = y
  /\ \A m \in Nat : /\ MonthBlock(m) \in PlainBlock /\ MonthBlock(m).type = "month"
                    /\ MonthBlock(m).month = m
  /\ \A nr, c \in Nr : /\ DataBlock(nr, c) \in PlainBlock /\ DataBlock(nr, c).type = "data"
                       /\ DataBlock(nr, c).transactionNr = nr
                       /\ DataBlock(nr, c).fileCursor = c
<1>1. \A y \in Nat : YearBlock(y) \in [type : {"year"}, year : Nat]
  BY DEF YearBlock
<1>2. \A m \in Nat : MonthBlock(m) \in [type : {"month"}, month : Nat]
  BY DEF MonthBlock
<1>3. \A nr, c \in Nr :
        DataBlock(nr, c) \in [type : {"data"}, transactionNr : Nr, fileCursor : Nr]
  BY DEF DataBlock
<1>4. \A b : \/ b \in [type : {"year"}, year : Nat]
            \/ b \in [type : {"month"}, month : Nat]
            \/ b \in [type : {"data"}, transactionNr : Nr, fileCursor : Nr]
            => b \in PlainBlock
  BY DEF PlainBlock
<1> QED BY <1>1, <1>2, <1>3, <1>4 DEF YearBlock, MonthBlock, DataBlock

LEMMA PlaceFields ==
  ASSUME NEW y, NEW m, NEW nr
  PROVE  Place(y, m, nr).year = y /\ Place(y, m, nr).month = m /\ Place(y, m, nr).nr = nr
BY DEF Place

LEMMA IndexWritten ==
  ASSUME NEW D \in SUBSET Nr, IsFiniteSet(D), NEW months \in [D -> Date],
         NEW C, NEW cursors \in [C -> Nr], D \subseteq C
  PROVE  LET blocks == IndexBlocks(Index(months, cursors)) IN
         /\ blocks \in Seq(PlainBlock)
         /\ \A i \in DataIn(blocks) :
              /\ blocks[i].transactionNr \in D
              /\ blocks[i].fileCursor = cursors[blocks[i].transactionNr]
              /\ MonthAt(blocks, i) = months[blocks[i].transactionNr]
         /\ \A nr \in D : \E i \in DataIn(blocks) : blocks[i].transactionNr = nr
         /\ \A i, k \in DataIn(blocks) :
              k < i /\ MonthAt(blocks, k) = MonthAt(blocks, i) =>
                blocks[k].transactionNr < blocks[i].transactionNr
         /\ \A i, k \in DataIn(blocks) :
              blocks[i].transactionNr = blocks[k].transactionNr => i = k
<1> DEFINE ix == Index(months, cursors)
           P == PlacesOf(ix)
           n == Cardinality(P)
           s == InOrder(P, ByDate(P))
           blocks == IndexBlocks(ix)
<1>1. /\ IsFiniteSet(P) /\ Orders(ByDate(P), P)
      /\ \A p \in P : \E nr \in D : p \in PlacesFor(months[nr], nr)
      /\ \A nr \in D : PlacesFor(months[nr], nr) \subseteq P
  BY PlacesInOrder
<1>2. /\ n \in Nat /\ s \in [1..n -> P]
      /\ \A x \in P : \E i \in 1..n : s[i] = x
      /\ \A i, j \in 1..n : i < j => <<s[i], s[j]>> \in ByDate(P)
  <2> HIDE DEF P
  <2> QED BY <1>1, InOrderSorts
<1>3. ix.cursors = cursors
  BY DEF Index
<1>4. blocks = [i \in 1..n |-> BlockAt(ix, s[i])]
  <2>1. DOMAIN s = 1..n
    BY <1>2
  <2> QED BY <2>1 DEF IndexBlocks
<1> HIDE DEF blocks, s, n, P, ix
<1>5. ASSUME NEW p \in P
      PROVE  /\ p \in [year : Nat, month : Nat, nr : Nat]
             /\ p.month = 0 => p.nr = 0
             /\ p.nr # 0 => p.nr \in D /\ months[p.nr] = Month(p.year, p.month) /\ p.month # 0
             /\ Place(p.year, 0, 0) \in P
             /\ p.month # 0 => Place(p.year, p.month, 0) \in P
  <2>1. PICK nr \in D : p \in PlacesFor(months[nr], nr)
    BY <1>1
  <2>2. months[nr] \in Date /\ nr \in Nat /\ nr # 0
    BY DEF Nr
  <2>3. PlacesFor(months[nr], nr) \subseteq P
    BY <1>1
  <2> QED BY <2>1, <2>2, <2>3 DEF PlacesFor, Place, Date, Month
<1>6. ASSUME NEW i \in 1..n
      PROVE  /\ s[i] \in P
             /\ s[i].month = 0 => blocks[i] = YearBlock(s[i].year)
             /\ s[i].month # 0 /\ s[i].nr = 0 => blocks[i] = MonthBlock(s[i].month)
             /\ s[i].nr # 0 => blocks[i] = DataBlock(s[i].nr, cursors[s[i].nr])
  BY <1>2, <1>3, <1>4, <1>5 DEF BlockAt
<1>7. ASSUME NEW i \in 1..n
      PROVE  /\ blocks[i] \in PlainBlock
             /\ blocks[i].type = "year" <=> s[i].month = 0
             /\ blocks[i].type = "month" <=> s[i].month # 0 /\ s[i].nr = 0
             /\ blocks[i].type = "data" <=> s[i].nr # 0
  <2>1. s[i] \in [year : Nat, month : Nat, nr : Nat]
    BY <1>5, <1>6
  <2>2. CASE s[i].month = 0
    <3>1. s[i].nr = 0
      BY <1>5, <1>6, <2>2
    <3> QED BY <1>6, <2>1, <2>2, <3>1, BlockKinds
  <2>3. CASE s[i].month # 0 /\ s[i].nr = 0
    BY <1>6, <2>1, <2>3, BlockKinds
  <2>4. CASE s[i].nr # 0
    <3>1. s[i].nr \in D /\ s[i].month # 0
      BY <1>5, <1>6, <2>4
    <3>2. s[i].nr \in Nr /\ cursors[s[i].nr] \in Nr
      BY <3>1
    <3> QED BY <1>6, <2>4, <3>1, <3>2, BlockKinds
  <2> QED BY <2>1, <2>2, <2>3, <2>4
<1>8. blocks \in Seq(PlainBlock) /\ Len(blocks) = n
  BY <1>2, <1>4, <1>7
<1>9. DataIn(blocks) = {i \in 1..n : s[i].nr # 0}
  BY <1>7, <1>8 DEF DataIn
<1>10. \A i, k \in 1..n : i < k => Before(s[i], s[k])
  BY <1>2 DEF ByDate
<1>11. ASSUME NEW i \in 1..n, NEW p \in P, Before(p, s[i])
       PROVE  \E k \in 1..n : s[k] = p /\ k < i
  <2>1. PICK k \in 1..n : s[k] = p
    BY <1>2
  <2>2. CASE i < k
    <3>1. Before(s[i], p)
      BY <1>10, <2>1, <2>2
    <3> QED BY <1>5, <1>6, <1>11, <3>1 DEF Before
  <2>3. CASE i = k
    BY <1>5, <1>11, <2>1, <2>3 DEF Before
  <2> QED BY <2>1, <2>2, <2>3
(* The last year block, and the last month block.                          *)
<1>12. ASSUME NEW i \in DataIn(blocks)
       PROVE  LastOf(blocks, "year", i).year = s[i].year
  <2> DEFINE Y == {k \in 1..i : blocks[k].type = "year"}
  <2>1. /\ i \in 1..n /\ s[i].nr # 0 /\ s[i] \in P /\ s[i].month # 0
        /\ s[i].year \in Nat /\ s[i].month \in Nat /\ s[i].nr \in Nat
    BY <1>5, <1>6, <1>9
  <2>2. Before(Place(s[i].year, 0, 0), s[i]) /\ Place(s[i].year, 0, 0) \in P
    BY <1>5, <2>1, PlaceFields DEF Before
  <2>3. PICK y \in 1..n : s[y] = Place(s[i].year, 0, 0) /\ y < i
    BY <1>11, <2>1, <2>2
  <2>4. y \in Y
    BY <1>7, <2>1, <2>3, PlaceFields
  <2>5. Max(Y) \in Y /\ y <= Max(Y)
    <3>1. Y \in SUBSET Nat /\ i \in Nat /\ \A k \in Y : k <= i
      BY <2>1
    <3> HIDE DEF Y
    <3> QED BY <2>4, <3>1, MaxIsGreatest
  <2> DEFINE m == Max(Y)
  <2>11. m \in 1..i /\ blocks[m].type = "year"
    BY <2>5
  <2> HIDE DEF m
  <2>12. m \in 1..n /\ m <= i
    BY <1>2, <2>1, <2>11
  <2>6. m \in 1..n /\ m <= i /\ s[m].month = 0 /\ s[m] \in P /\ s[m].year \in Nat
    BY <1>5, <1>6, <1>7, <2>11, <2>12
  <2>7. s[m].year <= s[i].year
    <3>1. m = i \/ Before(s[m], s[i])
      BY <1>10, <2>1, <2>6
    <3> QED BY <2>1, <2>6, <3>1 DEF Before
  <2>8. s[i].year <= s[m].year
    <3>1. y = m \/ Before(s[y], s[m])
      BY <1>10, <2>3, <2>5, <2>6 DEF m
    <3> QED BY <2>1, <2>3, <2>6, <3>1, PlaceFields DEF Before
  <2>9. s[m].year = s[i].year
    BY <2>1, <2>6, <2>7, <2>8
  <2>10. LastOf(blocks, "year", i) = YearBlock(s[m].year)
    BY <1>6, <2>4, <2>6 DEF LastOf, m
  <2> QED BY <2>9, <2>10 DEF YearBlock
<1>13. ASSUME NEW i \in DataIn(blocks)
       PROVE  LastOf(blocks, "month", i).month = s[i].month
  <2> DEFINE Y == {k \in 1..i : blocks[k].type = "month"}
  <2>1. /\ i \in 1..n /\ s[i].nr # 0 /\ s[i] \in P /\ s[i].month # 0
        /\ s[i].year \in Nat /\ s[i].month \in Nat /\ s[i].nr \in Nat
    BY <1>5, <1>6, <1>9
  <2>2. /\ Before(Place(s[i].year, s[i].month, 0), s[i])
        /\ Place(s[i].year, s[i].month, 0) \in P
    BY <1>5, <2>1, PlaceFields DEF Before
  <2>3. PICK y \in 1..n : s[y] = Place(s[i].year, s[i].month, 0) /\ y < i
    BY <1>11, <2>1, <2>2
  <2>4. y \in Y
    BY <1>7, <2>1, <2>3, PlaceFields
  <2>5. Max(Y) \in Y /\ y <= Max(Y)
    <3>1. Y \in SUBSET Nat /\ i \in Nat /\ \A k \in Y : k <= i
      BY <2>1
    <3> HIDE DEF Y
    <3> QED BY <2>4, <3>1, MaxIsGreatest
  <2> DEFINE m == Max(Y)
  <2>11. m \in 1..i /\ blocks[m].type = "month"
    BY <2>5
  <2> HIDE DEF m
  <2>12. m \in 1..n /\ m <= i
    BY <1>2, <2>1, <2>11
  <2>6. m \in 1..n /\ m <= i /\ s[m].nr = 0 /\ s[m].month # 0 /\ s[m] \in P
        /\ s[m].year \in Nat /\ s[m].month \in Nat
    BY <1>5, <1>6, <1>7, <2>11, <2>12
  <2>7. \/ s[m].year < s[i].year
        \/ s[m].year = s[i].year /\ s[m].month <= s[i].month
    <3>1. m = i \/ Before(s[m], s[i])
      BY <1>10, <2>1, <2>6
    <3> QED BY <2>1, <2>6, <3>1 DEF Before
  <2>8. y = m \/ Before(s[y], s[m])
    BY <1>10, <2>3, <2>5, <2>6 DEF m
  <2>9. s[m].month = s[i].month
    BY <2>1, <2>3, <2>6, <2>7, <2>8, PlaceFields DEF Before
  <2>10. LastOf(blocks, "month", i) = MonthBlock(s[m].month)
    BY <1>6, <2>4, <2>6 DEF LastOf, m
  <2> QED BY <2>9, <2>10 DEF MonthBlock
<1>14. ASSUME NEW i \in DataIn(blocks)
       PROVE  /\ i \in 1..n /\ s[i].nr \in D /\ s[i] \in P
              /\ blocks[i].transactionNr = s[i].nr
              /\ blocks[i].fileCursor = cursors[s[i].nr]
              /\ MonthAt(blocks, i) = Month(s[i].year, s[i].month)
              /\ MonthAt(blocks, i) = months[s[i].nr]
  <2>1. i \in 1..n /\ s[i].nr # 0 /\ s[i] \in P
    BY <1>6, <1>9
  <2>2. /\ s[i].nr \in D /\ months[s[i].nr] = Month(s[i].year, s[i].month)
        /\ cursors[s[i].nr] \in Nr /\ s[i].nr \in Nr
    BY <1>5, <2>1
  <2>3. blocks[i] = DataBlock(s[i].nr, cursors[s[i].nr])
    BY <1>6, <2>1
  <2>4. MonthAt(blocks, i) = Month(s[i].year, s[i].month)
    BY <1>12, <1>13 DEF MonthAt
  <2> QED BY <2>1, <2>2, <2>3, <2>4, BlockKinds
<1>15. ASSUME NEW nr \in D PROVE \E i \in DataIn(blocks) : blocks[i].transactionNr = nr
  <2>1. Place(months[nr].year, months[nr].month, nr) \in P
    BY <1>1 DEF PlacesFor
  <2>2. PICK i \in 1..n : s[i] = Place(months[nr].year, months[nr].month, nr)
    BY <1>2, <2>1
  <2>3. s[i].nr = nr /\ nr # 0
    BY <2>2 DEF Place, Nr
  <2>4. i \in DataIn(blocks)
    BY <1>9, <2>3
  <2> QED BY <1>14, <2>3, <2>4
<1>16. \A i, k \in DataIn(blocks) :
         k < i /\ MonthAt(blocks, k) = MonthAt(blocks, i) =>
           blocks[k].transactionNr < blocks[i].transactionNr
  BY <1>5, <1>10, <1>14 DEF Before, Month
<1>17. \A i, k \in DataIn(blocks) :
         blocks[i].transactionNr = blocks[k].transactionNr => i = k
  <2> SUFFICES ASSUME NEW i \in DataIn(blocks), NEW k \in DataIn(blocks), k < i,
                      blocks[i].transactionNr = blocks[k].transactionNr
               PROVE  FALSE
    BY <1>14
  <2>1. MonthAt(blocks, i) = MonthAt(blocks, k) /\ blocks[i].transactionNr \in Nat
    BY <1>14 DEF Nr
  <2> QED BY <1>16, <2>1
<1> QED BY <1>8, <1>14, <1>15, <1>16, <1>17 DEF blocks, ix

-----------------------------------------------------------------------------
(* The hash at the end is not read as an entry.                            *)

LEMMA HashIsNoEntry ==
  ASSUME NEW blocks \in Seq(PlainBlock)
  PROVE  LET f == WriteToFile(blocks) IN
         /\ IsWhole(f) /\ ~IsEmpty(f)
         /\ DataIn(f) = DataIn(blocks)
         /\ \A i \in DataIn(blocks) : f[i] = blocks[i] /\ MonthAt(f, i) = MonthAt(blocks, i)
<1> DEFINE f == WriteToFile(blocks)
           n == Len(blocks)
<1>1. /\ n \in Nat /\ DOMAIN f = 1..(n + 1) /\ Len(f) = n + 1
      /\ f[n + 1] = HashBlock(blocks) /\ \A i \in 1..n : f[i] = blocks[i]
  BY DEF WriteToFile
<1>2. Front(f) = blocks
  <2>1. Front(f) = [i \in 1..n |-> f[i]]
    BY <1>1 DEF Front
  <2>2. blocks = [i \in 1..n |-> blocks[i]]
    OBVIOUS
  <2> QED BY <1>1, <2>1, <2>2
<1>3. IsWhole(f) /\ ~IsEmpty(f)
  BY <1>1, <1>2 DEF IsWhole, IsEmpty, Last
<1>4. DataIn(f) = DataIn(blocks)
  <2>1. f[n + 1].type # "data"
    BY <1>1 DEF HashBlock
  <2> HIDE DEF f
  <2>2. \A i \in 1..(n + 1) : i \in 1..n \/ i = n + 1
    BY <1>1
  <2>3. 1..n \subseteq 1..(n + 1)
    BY <1>1
  <2> QED BY <1>1, <2>1, <2>2, <2>3 DEF DataIn
<1>5. ASSUME NEW i \in DataIn(blocks), NEW type
      PROVE LastOf(f, type, i) = LastOf(blocks, type, i)
  <2> DEFINE B == {k \in 1..i : blocks[k].type = type}
             F == {k \in 1..i : f[k].type = type}
  <2>1. i \in 1..n
    BY DEF DataIn
  <2>2. \A k \in 1..i : k \in 1..n
    BY <1>1, <2>1
  <2>3. \A k \in 1..i : f[k] = blocks[k]
    BY <1>1, <2>2
  <2>4. CASE \E k \in 1..i : blocks[k].type = type
    <3>1. B \in SUBSET Nat /\ B # {} /\ i \in Nat /\ \A k \in B : k <= i
      BY <1>1, <2>1, <2>4
    <3>2. Max(B) \in B
      <4> HIDE DEF B
      <4> QED BY <3>1, MaxIsGreatest
    <3>3. F = B
      BY <2>3
    <3> QED BY <2>3, <3>2, <3>3 DEF LastOf
  <2>5. CASE ~\E k \in 1..i : blocks[k].type = type
    <3>1. B = {} /\ F = {}
      BY <2>3, <2>5
    <3> QED BY <3>1 DEF LastOf
  <2> QED BY <2>4, <2>5
<1>6. \A i \in DataIn(blocks) : f[i] = blocks[i] /\ MonthAt(f, i) = MonthAt(blocks, i)
  BY <1>1, <1>5 DEF MonthAt, DataIn
<1> QED BY <1>3, <1>4, <1>6

(***************************************************************************)
(* readFromFile makes of what serialize and writeToFile have written the   *)
(* index it was, for any transactions and months, if the first transaction *)
(* is the only one that may be at offset 0.                                *)
(***************************************************************************)
THEOREM IndexReadsBack ==
  ASSUME NEW D \in SUBSET Nr, IsFiniteSet(D),
         NEW months \in [D -> Date], NEW cursors \in [D -> Nr],
         \A nr, k \in D : cursors[nr] = 1 => nr <= k
  PROVE  LET f == WriteToFile(IndexBlocks(Index(months, cursors))) IN
         IsWhole(f) /\ CanRead(f) /\ ReadFromFile(f) = Index(months, cursors)
<1> DEFINE blocks == IndexBlocks(Index(months, cursors))
           f == WriteToFile(blocks)
<1>1. /\ blocks \in Seq(PlainBlock)
      /\ \A i \in DataIn(blocks) :
           /\ blocks[i].transactionNr \in D
           /\ blocks[i].fileCursor = cursors[blocks[i].transactionNr]
           /\ MonthAt(blocks, i) = months[blocks[i].transactionNr]
      /\ \A nr \in D : \E i \in DataIn(blocks) : blocks[i].transactionNr = nr
      /\ \A i, k \in DataIn(blocks) :
           k < i /\ MonthAt(blocks, k) = MonthAt(blocks, i) =>
             blocks[k].transactionNr < blocks[i].transactionNr
  BY IndexWritten
<1> HIDE DEF blocks
<1>2. /\ IsWhole(f) /\ DataIn(f) = DataIn(blocks)
      /\ \A i \in DataIn(blocks) : f[i] = blocks[i] /\ MonthAt(f, i) = MonthAt(blocks, i)
  BY <1>1, HashIsNoEntry
<1> HIDE DEF f
<1>3. CanRead(f)
  BY <1>1, <1>2 DEF CanRead
<1>4. {f[i].transactionNr : i \in DataIn(f)} = D
  BY <1>1, <1>2
<1>5. ASSUME NEW nr \in D
      PROVE  MonthAt(f, DataOf(f, nr)) = months[nr] /\ f[DataOf(f, nr)].fileCursor = cursors[nr]
  <2>1. DataOf(f, nr) \in DataIn(f) /\ f[DataOf(f, nr)].transactionNr = nr
    BY <1>1, <1>2 DEF DataOf
  <2> QED BY <1>1, <1>2, <2>1
<1>6. ReadFromFile(f) = Index(months, cursors)
  <2>1. [nr \in D |-> MonthAt(f, DataOf(f, nr))] = months
    BY <1>5
  <2>2. [nr \in D |-> f[DataOf(f, nr)].fileCursor] = cursors
    BY <1>5
  <2> QED BY <1>4, <2>1, <2>2 DEF ReadFromFile
<1> QED BY <1>2, <1>3, <1>6 DEF f, blocks

-----------------------------------------------------------------------------
(***************************************************************************)
(* The inductive invariant.  On disk: a line of the block file is torn or  *)
(* that of an accepted message, and a data block in the index file, or in  *)
(* what a thread is about to write there, leads to its line and comes      *)
(* after the month of the message.                                         *)
(***************************************************************************)
LineType == [nr : Nat, msg : 0..MaxMessage]
Sound(line) == line = Torn \/ (line.msg \in Accepted /\ line.nr \in 1..line.msg)
IndexFile == Seq(PlainBlock) \cup {WriteToFile(b) : b \in Seq(PlainBlock)}

FiledIn(blocks, f) ==
  \A i \in DataIn(blocks) :
    /\ blocks[i].transactionNr \in Nr
    /\ blocks[i].fileCursor \in DOMAIN f
    /\ f[blocks[i].fileCursor].nr = blocks[i].transactionNr
    /\ MonthAt(blocks, i) = MonthOf[f[blocks[i].fileCursor].msg]

DiskOK ==
  /\ file \in Seq(LineType)
  /\ \A i \in DOMAIN file : Sound(file[i])
  /\ indexFile \in IndexFile /\ FiledIn(indexFile, file)
  /\ persisted \in 0..MaxMessage

(* The index: a cursor leads to the line of the entry.                     *)
IndexOK ==
  /\ entry \in [Nrs -> Accepted] /\ Nrs \in SUBSET Nr
  /\ \A nr \in Nrs : nr <= entry[nr]
  /\ mYearMonthAddressIndexEntries = [nr \in Nrs |-> MonthOf[entry[nr]]]
  /\ DOMAIN mTransactionNrsFileCursors \subseteq Nrs
  /\ mTransactionNrsFileCursors \in [DOMAIN mTransactionNrsFileCursors -> DOMAIN file]
  /\ \A nr \in DOMAIN mTransactionNrsFileCursors :
       file[mTransactionNrsFileCursors[nr]] = Line(nr, entry[nr])

(* The numbers of the transactions stay behind those of the messages.      *)
ManagerOK ==
  /\ lastSeq \in 0..MaxMessage /\ persistDue \in BOOLEAN
  /\ persistDue => lastSeq + 1 \in Accepted
  /\ mode \in {"up", "exiting"} =>
       \A nr \in Nrs : nr <= lastSeq + (IF persistDue THEN 1 ELSE 0)

(* Every transaction is in one task at a time, and has its cursor when and *)
(* only when the task has set it.                                          *)
Cursored == DOMAIN mTransactionNrsFileCursors
BeforeCursors == {"append", "locked", "cursors"}
AfterCursors == {"index", "store", "storing", "finish"}

(* The line of nr that file has last.                                      *)
LastLine(f, i, line) ==
  /\ i \in DOMAIN f /\ f[i] = line
  /\ \A k \in DOMAIN f : k > i => f[k].nr # line.nr

TasksOK ==
  /\ queue \in Seq(SUBSET Nrs)
  /\ work \in [Threads -> SUBSET Nrs]
  /\ at \in [Threads -> Where]
  /\ snapshot \in [Threads -> Seq(PlainBlock)]
  /\ \A w \in Threads : FiledIn(snapshot[w], file)
  /\ mTransactionWriteTask \subseteq Nrs
  /\ mSerializedTransactions \subseteq Nrs
  /\ mTransactionsFromPendingTasks \subseteq Nrs

OwnedOnce ==
  /\ mTransactionWriteTask \cap Cursored = {}
  /\ \A i \in DOMAIN queue :
       /\ queue[i] \cap Cursored = {} /\ queue[i] \cap mTransactionWriteTask = {}
       /\ \A k \in DOMAIN queue : i # k => queue[i] \cap queue[k] = {}
       /\ \A w \in Threads : queue[i] \cap work[w] = {}
  /\ \A w \in Threads :
       /\ work[w] \cap mTransactionWriteTask = {}
       /\ \A v \in Threads : v # w => work[w] \cap work[v] = {}

AtWork ==
  \A w \in Threads :
    /\ at[w] = "idle" => work[w] = {}
    /\ at[w] \in BeforeCursors => work[w] \cap Cursored = {}
    /\ at[w] \in AfterCursors => work[w] \subseteq Cursored
    /\ at[w] = "cursors" =>
         \A nr \in work[w] : \E i \in DOMAIN file : LastLine(file, i, Line(nr, entry[nr]))

(* getTransaction.                                                         *)
ReaderOK ==
  /\ readAt \in ReadWhere \ {"missing"}
  /\ Reading => mode = "up" /\ reading \in Nrs \ mTransactionWriteTask
  /\ readAt \in {"cursor", "file"} => reading \in Cursored
  /\ mode = "up" =>
       Nrs \subseteq Cursored \cup mTransactionWriteTask \cup mTransactionsFromPendingTasks

ProcessOK ==
  /\ mode \in Mode /\ starts \in 0..MaxStarts /\ started \subseteq Worker
  /\ mode \notin {"up", "exiting"} =>
       /\ mTransactionNrsFileCursors = NoCursors
       /\ mSerializedTransactions = {} /\ mTransactionWriteTask = {}
       /\ mTransactionsFromPendingTasks = {}
       /\ queue = <<>>
       /\ \A w \in Threads : work[w] = {} /\ at[w] = "idle" /\ snapshot[w] = <<>>
       /\ lastSeq = 0 /\ ~persistDue /\ readAt = "none"

IInv ==
  DiskOK /\ IndexOK /\ ManagerOK /\ TasksOK /\ OwnedOnce /\ AtWork /\ ReaderOK /\ ProcessOK

-----------------------------------------------------------------------------
(* What is read from the file stays, whatever lines are added to it.       *)

Grows(f, g) == \A i \in DOMAIN f : i \in DOMAIN g /\ g[i] = f[i]

LEMMA FiledStays ==
  ASSUME NEW blocks, NEW f, NEW g, Grows(f, g), FiledIn(blocks, f)
  PROVE  FiledIn(blocks, g)
BY DEF FiledIn, Grows

LEMMA FiledWritten ==
  ASSUME NEW blocks \in Seq(PlainBlock), NEW f, FiledIn(blocks, f)
  PROVE  WriteToFile(blocks) \in IndexFile /\ FiledIn(WriteToFile(blocks), f)
BY HashIsNoEntry DEF FiledIn, IndexFile

LEMMA FiledNothing ==
  ASSUME NEW f
  PROVE  <<>> \in Seq(PlainBlock) /\ <<>> \in IndexFile /\ FiledIn(<<>>, f)
<1>1. DataIn(<<>>) = {}
  BY DEF DataIn
<1> QED BY <1>1 DEF FiledIn, IndexFile

LEMMA Concatenated ==
  ASSUME NEW T, NEW f \in Seq(T), NEW g \in Seq(T)
  PROVE  /\ f \o g \in Seq(T) /\ Grows(f, f \o g)
         /\ DOMAIN (f \o g) = 1..(Len(f) + Len(g))
         /\ \A i \in 1..Len(g) : (f \o g)[Len(f) + i] = g[i]
         /\ \A i \in DOMAIN (f \o g) :
              i \notin DOMAIN f => i - Len(f) \in 1..Len(g) /\ (f \o g)[i] = g[i - Len(f)]
<1>1. /\ f \o g \in Seq(T) /\ Len(f) \in Nat /\ Len(g) \in Nat
      /\ DOMAIN f = 1..Len(f) /\ DOMAIN (f \o g) = 1..(Len(f) + Len(g))
  OBVIOUS
<1>2. \A i \in 1..(Len(f) + Len(g)) :
        (f \o g)[i] = IF i <= Len(f) THEN f[i] ELSE g[i - Len(f)]
  OBVIOUS
<1> QED BY <1>1, <1>2 DEF Grows

LEMMA Appended ==
  ASSUME NEW T, NEW f \in Seq(T), NEW x \in T
  PROVE  /\ Append(f, x) \in Seq(T) /\ Grows(f, Append(f, x))
         /\ \A i \in DOMAIN Append(f, x) : i \in DOMAIN f \/ Append(f, x)[i] = x
BY DEF Grows

-----------------------------------------------------------------------------
(* The memory is empty: at the first start, and when the process is down.  *)

LEMMA InitIInv == Init => IInv
<1> SUFFICES ASSUME Init PROVE IInv
  OBVIOUS
<1> USE StoreAssumption
<1>1. DiskOK
  BY FiledNothing DEF Init, DiskOK
<1>6. Nrs = {}
  BY DEF Init, Nrs
<1>7. IndexOK
  <2>1. mYearMonthAddressIndexEntries = [nr \in {} |-> 0]
    BY DEF Init, EmptyIndex, Index
  <2>2. [nr \in {} |-> 0] = [nr \in {} |-> MonthOf[entry[nr]]]
    OBVIOUS
  <2>3. entry \in [Nrs -> Accepted]
    BY <1>6 DEF Init
  <2>4. /\ DOMAIN mTransactionNrsFileCursors = {}
        /\ mTransactionNrsFileCursors \in [{} -> DOMAIN file]
    BY DEF Init, NoCursors
  <2> QED BY <1>6, <2>1, <2>2, <2>3, <2>4 DEF IndexOK
<1>2. ManagerOK
  <2>1. lastSeq \in 0..MaxMessage
    BY DEF Init
  <2>2. persistDue = FALSE /\ \A nr \in Nrs : nr <= lastSeq + (IF persistDue THEN 1 ELSE 0)
    BY <1>6 DEF Init
  <2>3. persistDue \in BOOLEAN /\ (persistDue => lastSeq + 1 \in Accepted)
    BY <2>2, Zenon
  <2> QED BY <2>1, <2>2, <2>3 DEF ManagerOK
<1>3. TasksOK
  BY FiledNothing DEF Init, TasksOK, Nrs, Where
<1>4. OwnedOnce /\ AtWork /\ ReaderOK
  BY DEF Init, OwnedOnce, AtWork, ReaderOK, Cursored, NoCursors, BeforeCursors, AfterCursors,
         ReadWhere, Reading, Nrs
<1>5. ProcessOK
  BY DEF Init, ProcessOK, Mode
<1> QED BY <1>1, <1>2, <1>3, <1>4, <1>5, <1>7 DEF IInv

LEMMA DownIInv ==
  ASSUME IInv, NEW how \in Mode \ {"up", "exiting"}, Down(how)
  PROVE  IInv'
<1> USE StoreAssumption
<1>1. file' = file \/ file' = Append(file, Torn)
  BY DEF Down
<1>2. file' \in Seq(LineType) /\ Grows(file, file') /\ \A i \in DOMAIN file' : Sound(file'[i])
  <2>1. Torn \in LineType /\ Sound(Torn)
    BY DEF Torn, Line, LineType, Sound
  <2>2. file \in Seq(LineType) /\ \A i \in DOMAIN file : Sound(file[i])
    BY DEF IInv, DiskOK
  <2>3. CASE file' = Append(file, Torn)
    BY <2>1, <2>2, <2>3, Appended DEF Grows
  <2>4. CASE file' = file
    BY <2>2, <2>4 DEF Grows
  <2> QED BY <1>1, <2>3, <2>4
<1>3. indexFile' \in IndexFile /\ FiledIn(indexFile', file')
  <2>1. indexFile' = indexFile \/ \E w \in Threads : indexFile' = snapshot[w]
    BY DEF Down
  <2>2. indexFile' \in IndexFile /\ FiledIn(indexFile', file)
    BY <2>1 DEF IInv, DiskOK, TasksOK, IndexFile
  <2> QED BY <1>2, <2>2, FiledStays
<1>4. DiskOK'
  BY <1>2, <1>3 DEF Down, IInv, DiskOK
<1>5. ForgetMemory /\ UNCHANGED <<persisted, index, starts, started>> /\ mode' = how
  BY DEF Down
<1>6. Nrs' = Nrs
  BY <1>5 DEF Nrs, index
<1>11. DOMAIN mTransactionNrsFileCursors' = {} /\ mTransactionNrsFileCursors' \in [{} -> DOMAIN file']
  BY <1>5 DEF ForgetMemory, NoCursors
<1>12. IndexOK'
  BY <1>5, <1>6, <1>11 DEF IInv, IndexOK, index
<1>7. ManagerOK'
  <2>1. lastSeq' \in 0..MaxMessage
    BY <1>5 DEF ForgetMemory
  <2>2. persistDue' = FALSE /\ mode' \notin {"up", "exiting"}
    BY <1>5 DEF ForgetMemory
  <2>3. persistDue' \in BOOLEAN /\ (persistDue' => lastSeq' + 1 \in Accepted)
    BY <2>2, Zenon
  <2> QED BY <2>1, <2>2, <2>3 DEF ManagerOK
<1>8. TasksOK'
  BY <1>5, <1>6, FiledNothing DEF TasksOK, ForgetMemory, Where
<1>9. OwnedOnce' /\ AtWork' /\ ReaderOK'
  BY <1>5 DEF OwnedOnce, AtWork, ReaderOK, ForgetMemory, Cursored, NoCursors, BeforeCursors,
              AfterCursors, ReadWhere, Reading
<1>10. ProcessOK'
  BY <1>5 DEF IInv, ProcessOK, ForgetMemory
<1> QED BY <1>4, <1>7, <1>8, <1>9, <1>10, <1>12 DEF IInv
-----------------------------------------------------------------------------
(* The ordering manager's thread, and the timer.                           *)

LEMMA LastNrIsLast ==
  ASSUME NEW n \in Nat, Nrs \in SUBSET Nr, \A nr \in Nrs : nr <= n
  PROVE  LastNr \in 0..n /\ \A nr \in Nrs : nr <= LastNr
<1>1. CASE Nrs = {}
  BY <1>1 DEF LastNr
<1>2. CASE Nrs # {}
  <2>1. Nrs \in SUBSET Nat
    BY DEF Nr
  <2>2. Max(Nrs) \in Nrs /\ \A nr \in Nrs : nr <= Max(Nrs)
    BY <1>2, <2>1, MaxIsGreatest
  <2>3. LastNr = Max(Nrs)
    BY <1>2 DEF LastNr
  <2>4. LastNr \in Nrs /\ \A nr \in Nrs : nr <= LastNr
    BY <2>2, <2>3
  <2> QED BY <2>1, <2>4
<1> QED BY <1>1, <1>2

LEMMA ConfirmIInv ==
  ASSUME IInv, Confirm
  PROVE  IInv'
<1> DEFINE m == lastSeq + 1
           nr == LastNr + 1
<1>1. /\ mode = "up" /\ ~Reading /\ persistDue = FALSE /\ m \in Accepted
      /\ mTransactionWriteTask' = mTransactionWriteTask \cup {nr}
      /\ mSerializedTransactions' = mSerializedTransactions \cup {nr}
      /\ persistDue' = TRUE
      /\ UNCHANGED <<disk, mTransactionsFromPendingTasks, tasks, lastSeq, reader, process>>
  <2>1. persistDue = FALSE
    BY Zenon DEF Confirm, IInv, ManagerOK
  <2> QED BY <2>1 DEF Confirm
<1>2. /\ entry' = [k \in Nrs \cup {nr} |-> IF k = nr THEN m ELSE entry[k]]
      /\ mYearMonthAddressIndexEntries' =
           [k \in DOMAIN mYearMonthAddressIndexEntries \cup {nr} |->
              IF k = nr THEN MonthOf[m] ELSE mYearMonthAddressIndexEntries[k]]
      /\ mTransactionNrsFileCursors' = mTransactionNrsFileCursors
  BY DEF Confirm, AddIndicesForTransaction, AddIndices
<1>3. lastSeq \in Nat /\ Nrs \in SUBSET Nr /\ \A k \in Nrs : k <= lastSeq
  <2>1. \A k \in Nrs : k <= lastSeq + 0
    BY <1>1 DEF IInv, ManagerOK
  <2>2. lastSeq \in Nat /\ Nrs \in SUBSET Nr
    BY StoreAssumption DEF IInv, ManagerOK, IndexOK
  <2> QED BY <2>1, <2>2 DEF Nr
<1>4. /\ nr \in Nr /\ nr <= m /\ nr \notin Nrs
      /\ \A k \in Nrs : k < nr
  <2>1. LastNr \in 0..lastSeq /\ \A k \in Nrs : k <= LastNr
    BY <1>3, LastNrIsLast
  <2>2. nr \in Nr /\ nr <= m
    BY <1>3, <2>1 DEF Nr
  <2>3. \A k \in Nrs : k < nr
    BY <1>3, <2>1 DEF Nr
  <2> QED BY <1>3, <2>2, <2>3 DEF Nr
<1>5. Nrs' = Nrs \cup {nr} /\ \A k \in Nrs : entry'[k] = entry[k] /\ entry'[nr] = m
  BY <1>2, <1>4 DEF Nrs
<1> HIDE DEF m, nr
<1>6. DiskOK'
  BY <1>1 DEF IInv, DiskOK, disk
<1>7. IndexOK'
  <2>1. entry' \in [Nrs' -> Accepted]
    BY <1>1, <1>2, <1>5 DEF IInv, IndexOK
  <2>2. Nrs' \in SUBSET Nr /\ \A k \in Nrs' : k <= entry'[k]
    <3>1. \A k \in Nrs : k <= entry'[k]
      BY <1>5 DEF IInv, IndexOK
    <3>2. nr <= entry'[nr]
      BY <1>4, <1>2
    <3> QED BY <1>3, <1>4, <1>5, <3>1, <3>2
  <2>3. mYearMonthAddressIndexEntries' = [k \in Nrs' |-> MonthOf[entry'[k]]]
    <3>1. mYearMonthAddressIndexEntries = [k \in Nrs |-> MonthOf[entry[k]]]
      BY DEF IInv, IndexOK
    <3> QED BY <1>2, <1>4, <1>5, <3>1
  <2>4. /\ Cursored' = Cursored /\ Cursored \subseteq Nrs
        /\ mTransactionNrsFileCursors \in [Cursored -> DOMAIN file]
        /\ \A k \in Cursored : file[mTransactionNrsFileCursors[k]] = Line(k, entry[k])
        /\ file' = file
    BY <1>1, <1>2 DEF IInv, IndexOK, Cursored, disk
  <2>5. \A k \in Cursored : file'[mTransactionNrsFileCursors'[k]] = Line(k, entry'[k])
    BY <1>2, <1>5, <2>4
  <2> QED BY <1>2, <1>5, <2>1, <2>2, <2>3, <2>4, <2>5 DEF IndexOK, Cursored
<1>8. ManagerOK'
  <2>1. lastSeq' \in 0..MaxMessage /\ lastSeq' + 1 \in Accepted
    BY <1>1 DEF IInv, ManagerOK, m
  <2>2. \A k \in Nrs' : k <= lastSeq' + (IF persistDue' THEN 1 ELSE 0)
    BY <1>1, <1>3, <1>4, <1>5 DEF m, Nr
  <2> QED BY <1>1, <2>1, <2>2 DEF ManagerOK
<1>9. TasksOK'
  BY <1>1, <1>5 DEF IInv, TasksOK, tasks, disk
<1>10. OwnedOnce'
  <2>1. /\ \A i \in DOMAIN queue : nr \notin queue[i]
        /\ \A w \in Threads : nr \notin work[w]
        /\ nr \notin Cursored
    BY <1>4 DEF IInv, TasksOK, IndexOK, Cursored
  <2> QED BY <1>1, <1>2, <2>1 DEF IInv, OwnedOnce, Cursored, tasks
<1>11. AtWork'
  <2>1. \A w \in Threads : \A k \in work[w] : entry'[k] = entry[k]
    BY <1>5 DEF IInv, TasksOK
  <2> QED BY <1>1, <1>2, <2>1 DEF IInv, AtWork, Cursored, tasks, disk
<1>12. ReaderOK'
  BY <1>1, <1>2, <1>5 DEF IInv, ReaderOK, Reading, Cursored, reader, process
<1>13. ProcessOK'
  BY <1>1 DEF IInv, ProcessOK, process
<1> QED BY <1>6, <1>7, <1>8, <1>9, <1>10, <1>11, <1>12, <1>13 DEF IInv

LEMMA ManagerIInv ==
  ASSUME IInv, Persist \/ Skip
  PROVE  IInv'
<1>1. /\ mode \in {"up", "exiting"} /\ lastSeq' = lastSeq + 1 /\ persistDue' = FALSE
      /\ persisted' \in {persisted, lastSeq}
      /\ UNCHANGED <<file, indexFile, blockVars, tasks, reader, process>>
  <2>1. CASE Persist
    BY <2>1 DEF Persist
  <2>2. CASE Skip
    <3>1. persistDue' = FALSE
      BY <2>2, Zenon DEF IInv, ManagerOK, Skip
    <3> QED BY <2>2, <3>1 DEF Skip
  <2> QED BY <2>1, <2>2
<1>2. lastSeq \in 0..MaxMessage /\ lastSeq + 1 \in 1..MaxMessage
  <2>1. lastSeq \in 0..MaxMessage
    BY DEF IInv, ManagerOK
  <2>2. CASE Persist
    <3>1. lastSeq + 1 \in Accepted
      BY <2>2 DEF IInv, ManagerOK, Persist
    <3> QED BY <2>1, <3>1, StoreAssumption
  <2>3. CASE Skip
    BY <2>1, <2>3, StoreAssumption DEF Skip
  <2> QED BY <2>2, <2>3, <2>1
<1>3. DiskOK'
  BY <1>1, <1>2 DEF IInv, DiskOK
<1>4. IndexOK' /\ Nrs' = Nrs
  BY <1>1 DEF IInv, IndexOK, Nrs, blockVars, index
<1>5. ManagerOK'
  <2>1. \A nr \in Nrs : nr <= lastSeq + 1
    <3>1. \A nr \in Nrs : nr <= lastSeq + (IF persistDue THEN 1 ELSE 0)
      BY <1>1 DEF IInv, ManagerOK
    <3>2. Nrs \in SUBSET Nr
      BY DEF IInv, IndexOK
    <3> QED BY <1>2, <3>1, <3>2 DEF Nr
  <2>2. \A nr \in Nrs' : nr <= lastSeq' + (IF persistDue' THEN 1 ELSE 0)
    BY <1>1, <1>2, <1>4, <2>1
  <2>3. persistDue' \in BOOLEAN /\ (persistDue' => lastSeq' + 1 \in Accepted)
    BY <1>1, Zenon
  <2>4. lastSeq' \in 0..MaxMessage
    BY <1>1, <1>2, StoreAssumption
  <2> QED BY <2>2, <2>3, <2>4 DEF ManagerOK
<1>6. TasksOK' /\ OwnedOnce' /\ AtWork' /\ ReaderOK'
  BY <1>1, <1>4 DEF IInv, TasksOK, OwnedOnce, AtWork, ReaderOK, Reading, Cursored,
                    blockVars, index, tasks, reader, process
<1>7. ProcessOK'
  BY <1>1 DEF IInv, ProcessOK, process
<1> QED BY <1>3, <1>4, <1>5, <1>6, <1>7 DEF IInv

LEMMA CacheTimeoutIInv ==
  ASSUME IInv, NEW nr \in Nrs, CacheTimeout(nr)
  PROVE  IInv'
<1>1. /\ mode = "up" /\ mSerializedTransactions' \subseteq mSerializedTransactions
      /\ UNCHANGED <<disk, index, mTransactionNrsFileCursors, mTransactionWriteTask,
                     mTransactionsFromPendingTasks, tasks, manager, reader, process>>
  BY DEF CacheTimeout
<1>2. Nrs' = Nrs
  BY <1>1 DEF Nrs, index
<1>3. DiskOK' /\ IndexOK' /\ ManagerOK'
  BY <1>1, <1>2 DEF IInv, DiskOK, IndexOK, ManagerOK, disk, index, manager, process
<1>4. TasksOK' /\ OwnedOnce' /\ AtWork' /\ ReaderOK'
  BY <1>1, <1>2 DEF IInv, TasksOK, OwnedOnce, AtWork, ReaderOK, Reading, Cursored,
                    disk, index, tasks, reader, process
<1>5. ProcessOK'
  BY <1>1 DEF IInv, ProcessOK, process
<1> QED BY <1>3, <1>4, <1>5 DEF IInv

LEMMA CallFromTimerIInv ==
  ASSUME IInv, CallFromTimer
  PROVE  IInv'
<1>1. /\ mode = "up" /\ ~Reading
      /\ mTransactionsFromPendingTasks' = mTransactionsFromPendingTasks \cup mTransactionWriteTask
      /\ queue' = Append(queue, mTransactionWriteTask)
      /\ mTransactionWriteTask' = {}
      /\ UNCHANGED <<disk, index, mTransactionNrsFileCursors, mSerializedTransactions,
                     work, at, snapshot, manager, reader, process>>
  BY DEF CallFromTimer, AddBlockWriteTask
<1>2. Nrs' = Nrs /\ Cursored' = Cursored
  BY <1>1 DEF Nrs, Cursored, index
<1>3. DiskOK' /\ IndexOK' /\ ManagerOK'
  BY <1>1, <1>2 DEF IInv, DiskOK, IndexOK, ManagerOK, disk, index, manager, process
<1>4. /\ queue \in Seq(SUBSET Nrs) /\ mTransactionWriteTask \in SUBSET Nrs
  BY DEF IInv, TasksOK
<1>5. /\ queue' \in Seq(SUBSET Nrs)
      /\ DOMAIN queue' = DOMAIN queue \cup {Len(queue) + 1}
      /\ Len(queue) + 1 \notin DOMAIN queue
      /\ \A i \in DOMAIN queue : queue'[i] = queue[i]
      /\ queue'[Len(queue) + 1] = mTransactionWriteTask
  BY <1>1, <1>4
<1>6. TasksOK'
  BY <1>1, <1>2, <1>4, <1>5 DEF IInv, TasksOK, disk
<1>7. OwnedOnce'
  <2>1. ASSUME NEW i \in DOMAIN queue'
        PROVE  /\ queue'[i] \cap Cursored = {}
               /\ \A k \in DOMAIN queue' : i # k => queue'[i] \cap queue'[k] = {}
               /\ \A w \in Threads : queue'[i] \cap work[w] = {}
    <3>1. CASE i \in DOMAIN queue
      BY <1>5, <3>1 DEF IInv, OwnedOnce
    <3>2. CASE i = Len(queue) + 1
      BY <1>5, <3>2 DEF IInv, OwnedOnce
    <3> QED BY <1>5, <3>1, <3>2
  <2>2. \A w, v \in Threads : v # w => work[w] \cap work[v] = {}
    BY DEF IInv, OwnedOnce
  <2> HIDE DEF Cursored
  <2> QED BY <1>1, <1>2, <2>1, <2>2 DEF OwnedOnce
<1>8. AtWork' /\ ReaderOK'
  BY <1>1, <1>2 DEF IInv, AtWork, ReaderOK, Reading, disk, index, reader, process
<1>9. ProcessOK'
  BY <1>1 DEF IInv, ProcessOK, process
<1> QED BY <1>3, <1>6, <1>7, <1>8, <1>9 DEF IInv
-----------------------------------------------------------------------------
(* getTransaction.                                                         *)

LEMMA ProcessRuns ==
  ASSUME IInv, queue # <<>> \/ Reading \/ \E w \in Threads : at[w] # "idle"
  PROVE  mode \in {"up", "exiting"}
BY DEF IInv, ProcessOK, Reading

LEMMA ReadStepIInv ==
  ASSUME IInv, ReadStep, mode = "up", mSerializedTransactions' \subseteq Nrs, ReaderOK'
  PROVE  IInv'
<1>1. UNCHANGED <<disk, index, mTransactionNrsFileCursors, mTransactionWriteTask,
                  mTransactionsFromPendingTasks, tasks, manager, process>>
  BY DEF ReadStep
<1>2. Nrs' = Nrs
  BY <1>1 DEF Nrs, index
<1>3. DiskOK' /\ IndexOK' /\ ManagerOK'
  BY <1>1, <1>2 DEF IInv, DiskOK, IndexOK, ManagerOK, disk, index, manager, process
<1>4. TasksOK' /\ OwnedOnce' /\ AtWork'
  BY <1>1, <1>2 DEF IInv, TasksOK, OwnedOnce, AtWork, Cursored, disk, index, tasks
<1>5. ProcessOK'
  BY <1>1 DEF IInv, ProcessOK, process
<1> QED BY <1>3, <1>4, <1>5 DEF IInv

LEMMA ReadIInv ==
  ASSUME IInv, Read
  PROVE  IInv'
<1>1. ReadStep
  BY DEF Read, GetTransaction, IsTransactionPending, GetFromObserver, GetFileCursor, ReadLine
<1>2. /\ Nrs' = Nrs /\ Cursored' = Cursored /\ mode' = mode
      /\ mTransactionWriteTask' = mTransactionWriteTask
      /\ mTransactionsFromPendingTasks' = mTransactionsFromPendingTasks
  BY <1>1 DEF ReadStep, Nrs, Cursored, index, process
<1>3. mode = "up"
  BY DEF Read, GetTransaction, IsTransactionPending, GetFromObserver, GetFileCursor, ReadLine,
         IInv, ReaderOK, Reading
<1>4. /\ mSerializedTransactions \subseteq Nrs
      /\ Nrs \subseteq Cursored \cup mTransactionWriteTask \cup mTransactionsFromPendingTasks
  BY <1>3 DEF IInv, TasksOK, ReaderOK
(* What a call that goes on, and one that returns, leaves to be shown.     *)
<1>5. ASSUME readAt' \in {"pending", "observer", "cursor", "file"},
             reading' \in Nrs \ mTransactionWriteTask,
             readAt' \in {"cursor", "file"} => reading' \in Cursored
      PROVE  ReaderOK'
  BY <1>2, <1>3, <1>4, <1>5 DEF ReaderOK, ReadWhere
<1>6. ASSUME readAt' = "none" PROVE ReaderOK'
  BY <1>2, <1>4, <1>6 DEF ReaderOK, Reading, ReadWhere
<1>7. Reading => reading \in Nrs \ mTransactionWriteTask
  BY DEF IInv, ReaderOK
<1>8. CASE \E nr \in Nrs : GetTransaction(nr)
  BY <1>1, <1>3, <1>4, <1>5, <1>8, ReadStepIInv DEF GetTransaction
<1>9. CASE IsTransactionPending
  <2>1. /\ reading \in Nrs \ mTransactionWriteTask /\ reading' = reading
        /\ readAt' = IF reading \in mTransactionsFromPendingTasks THEN "observer" ELSE "cursor"
        /\ mSerializedTransactions' = mSerializedTransactions
    BY <1>7, <1>9 DEF IsTransactionPending, Reading
  <2>2. readAt' \in {"cursor", "file"} => reading' \in Cursored
    BY <1>4, <2>1
  <2> QED BY <1>1, <1>3, <1>4, <1>5, <2>1, <2>2, ReadStepIInv
<1>10. CASE GetFromObserver
  <2>1. /\ reading \in Nrs \ mTransactionWriteTask
        /\ mSerializedTransactions' = mSerializedTransactions
    BY <1>7, <1>10 DEF GetFromObserver, Reading
  <2>2. CASE reading \in mTransactionsFromPendingTasks
    BY <1>1, <1>3, <1>4, <1>6, <1>10, <2>1, <2>2, ReadStepIInv DEF GetFromObserver, Return
  <2>3. CASE reading \notin mTransactionsFromPendingTasks
    <3>1. readAt' = "cursor" /\ reading' = reading /\ reading \in Cursored
      BY <1>4, <1>10, <2>1, <2>3 DEF GetFromObserver
    <3> QED BY <1>1, <1>3, <1>4, <1>5, <2>1, <3>1, ReadStepIInv
  <2> QED BY <2>2, <2>3
<1>11. CASE GetFileCursor
  <2>1. /\ reading \in Nrs \ mTransactionWriteTask /\ reading \in Cursored
        /\ readAt' = "file" /\ reading' = reading
        /\ mSerializedTransactions' = mSerializedTransactions
    BY <1>7, <1>11 DEF GetFileCursor, Reading, IInv, ReaderOK, Cursored
  <2> QED BY <1>1, <1>3, <1>4, <1>5, <2>1, ReadStepIInv
<1>12. CASE ReadLine
  <2>1. reading \in Nrs /\ reading \in Cursored
    BY <1>7, <1>12 DEF ReadLine, Reading, IInv, ReaderOK
  <2>2. file[mTransactionNrsFileCursors[reading]] = Line(reading, entry[reading])
    BY <2>1 DEF IInv, IndexOK, Cursored
  <2>3. file[mTransactionNrsFileCursors[reading]].nr = reading
    BY <2>2 DEF Line
  <2>4. readAt' = "none" /\ mSerializedTransactions' = mSerializedTransactions \cup {reading}
    BY <1>12, <2>3 DEF ReadLine, Return
  <2> QED BY <1>1, <1>3, <1>4, <1>6, <2>1, <2>4, ReadStepIInv
<1> QED BY <1>8, <1>9, <1>10, <1>11, <1>12 DEF Read

-----------------------------------------------------------------------------
(* Shutdown.                                                               *)

LEMMA ExitIInv ==
  ASSUME IInv, Exit
  PROVE  IInv'
<1>1. /\ mode = "up" /\ ~Reading /\ mode' = "exiting" /\ queue' = <<>>
      /\ UNCHANGED <<disk, blockVars, work, at, snapshot, manager, reader, starts, started>>
  BY DEF Exit
<1>2. Nrs' = Nrs
  BY <1>1 DEF Nrs, index, blockVars
<1>3. DiskOK' /\ IndexOK' /\ ManagerOK'
  BY <1>1, <1>2 DEF IInv, DiskOK, IndexOK, ManagerOK, disk, blockVars, index, manager
<1>4. TasksOK' /\ OwnedOnce' /\ AtWork'
  BY <1>1, <1>2 DEF IInv, TasksOK, OwnedOnce, AtWork, Cursored, disk, blockVars, index
<1>5. ReaderOK'
  BY <1>1 DEF IInv, ReaderOK, Reading, reader
<1>6. ProcessOK'
  BY <1>1 DEF IInv, ProcessOK, Mode
<1> QED BY <1>3, <1>4, <1>5, <1>6 DEF IInv

LEMMA CloseBlockIInv ==
  ASSUME IInv, CloseBlock
  PROVE  IInv'
<1>1. /\ mode = "exiting" /\ at[Closer] = "idle"
      /\ work' = [work EXCEPT ![Closer] = mTransactionWriteTask]
      /\ mTransactionWriteTask' = {}
      /\ at' = [at EXCEPT ![Closer] = IF mTransactionWriteTask = {} THEN "index" ELSE "append"]
      /\ UNCHANGED <<disk, index, mTransactionNrsFileCursors, mSerializedTransactions,
                     mTransactionsFromPendingTasks, queue, snapshot, manager, reader, process>>
  BY DEF CloseBlock, Goto
<1>2. Nrs' = Nrs /\ Cursored' = Cursored /\ Closer \in Threads
  BY <1>1 DEF Nrs, Cursored, index, Threads
<1>3. DiskOK' /\ IndexOK' /\ ManagerOK'
  BY <1>1, <1>2 DEF IInv, DiskOK, IndexOK, ManagerOK, disk, index, manager, process
<1>4. /\ work \in [Threads -> SUBSET Nrs] /\ at \in [Threads -> Where]
      /\ mTransactionWriteTask \in SUBSET Nrs
  BY DEF IInv, TasksOK
<1>5. \A w \in Threads :
        /\ w # Closer => work'[w] = work[w] /\ at'[w] = at[w]
        /\ w = Closer => /\ work'[w] = mTransactionWriteTask
                         /\ mTransactionWriteTask = {} => at'[w] = "index"
                         /\ mTransactionWriteTask # {} => at'[w] = "append"
  BY <1>1, <1>4
<1>6. TasksOK'
  <2>1. work' \in [Threads -> SUBSET Nrs] /\ at' \in [Threads -> Where]
    BY <1>1, <1>4 DEF Where
  <2> QED BY <1>1, <1>2, <2>1 DEF IInv, TasksOK, disk
<1>7. OwnedOnce'
  BY <1>1, <1>2, <1>5 DEF IInv, OwnedOnce
<1>8. AtWork'
  BY <1>1, <1>2, <1>5 DEF IInv, AtWork, OwnedOnce, BeforeCursors, AfterCursors, disk, index
<1>9. ReaderOK'
  BY <1>1, <1>2 DEF IInv, ReaderOK, Reading, reader, process
<1>10. ProcessOK'
  BY <1>1 DEF IInv, ProcessOK, process
<1> QED BY <1>3, <1>6, <1>7, <1>8, <1>9, <1>10 DEF IInv

LEMMA CloseIndexIInv ==
  ASSUME IInv, CloseIndex
  PROVE  IInv'
<1>1. /\ at[Closer] = "finish"
      /\ work' = [work EXCEPT ![Closer] = {}]
      /\ at' = [at EXCEPT ![Closer] = "index"]
      /\ UNCHANGED <<disk, blockVars, queue, snapshot, manager, reader, process>>
  BY DEF CloseIndex, Goto
<1>2. Nrs' = Nrs /\ Cursored' = Cursored /\ Closer \in Threads
  BY <1>1 DEF Nrs, Cursored, index, blockVars, Threads
<1>3. mode \in {"up", "exiting"}
  BY <1>1, <1>2, ProcessRuns
<1>4. DiskOK' /\ IndexOK' /\ ManagerOK'
  BY <1>1, <1>2 DEF IInv, DiskOK, IndexOK, ManagerOK, disk, blockVars, index, manager, process
<1>5. work \in [Threads -> SUBSET Nrs] /\ at \in [Threads -> Where]
  BY DEF IInv, TasksOK
<1>6. \A w \in Threads : /\ w # Closer => work'[w] = work[w] /\ at'[w] = at[w]
                         /\ w = Closer => work'[w] = {} /\ at'[w] = "index"
  BY <1>1, <1>5
<1>7. TasksOK'
  <2>1. work' \in [Threads -> SUBSET Nrs] /\ at' \in [Threads -> Where]
    BY <1>1, <1>5 DEF Where
  <2> QED BY <1>1, <1>2, <2>1 DEF IInv, TasksOK, disk, blockVars
<1>8. OwnedOnce'
  BY <1>1, <1>2, <1>6 DEF IInv, OwnedOnce, blockVars
<1>9. AtWork'
  BY <1>1, <1>2, <1>6 DEF IInv, AtWork, BeforeCursors, AfterCursors, disk, index, blockVars
<1>10. ReaderOK'
  BY <1>1, <1>2 DEF IInv, ReaderOK, Reading, reader, process, blockVars
<1>11. ProcessOK'
  BY <1>1, <1>3 DEF IInv, ProcessOK, process
<1> QED BY <1>4, <1>7, <1>8, <1>9, <1>10, <1>11 DEF IInv

LEMMA DownStepIInv ==
  ASSUME IInv, Crash \/ Closed
  PROVE  IInv'
<1>1. Down("down") /\ "down" \in Mode \ {"up", "exiting"}
  BY DEF Crash, Closed, Mode
<1> QED BY <1>1, DownIInv
-----------------------------------------------------------------------------
(* The write tasks.                                                        *)

LEMMA TakeIInv ==
  ASSUME IInv, NEW w \in Threads, Take(w)
  PROVE  IInv'
<1>1. /\ queue # <<>> /\ at[w] = "idle"
      /\ work' = [work EXCEPT ![w] = Head(queue)]
      /\ queue' = Tail(queue)
      /\ at' = [at EXCEPT ![w] = "append"]
      /\ UNCHANGED <<disk, blockVars, snapshot, manager, reader, process>>
  BY DEF Take, Goto
<1>2. Nrs' = Nrs /\ Cursored' = Cursored
  BY <1>1 DEF Nrs, Cursored, index, blockVars
<1>3. mode \in {"up", "exiting"}
  BY <1>1, ProcessRuns
<1>4. DiskOK' /\ IndexOK' /\ ManagerOK'
  BY <1>1, <1>2 DEF IInv, DiskOK, IndexOK, ManagerOK, disk, blockVars, index, manager, process
<1>5. /\ work \in [Threads -> SUBSET Nrs] /\ at \in [Threads -> Where]
      /\ queue \in Seq(SUBSET Nrs)
  BY DEF IInv, TasksOK
<1>6. /\ 1 \in DOMAIN queue /\ Head(queue) = queue[1]
      /\ queue' \in Seq(SUBSET Nrs)
      /\ \A i \in DOMAIN queue' : /\ queue'[i] = queue[i + 1] /\ i + 1 \in DOMAIN queue
                                  /\ i + 1 # 1 /\ i \in Nat
  BY <1>1, <1>5
<1>7. \A v \in Threads : /\ v # w => work'[v] = work[v] /\ at'[v] = at[v]
                         /\ v = w => work'[v] = queue[1] /\ at'[v] = "append"
  BY <1>1, <1>5, <1>6
<1>8. TasksOK'
  <2>1. work' \in [Threads -> SUBSET Nrs] /\ at' \in [Threads -> Where]
    BY <1>1, <1>5, <1>6 DEF Where
  <2> QED BY <1>1, <1>2, <1>6, <2>1 DEF IInv, TasksOK, disk, blockVars
<1>9. OwnedOnce'
  <2>1. ASSUME NEW i \in DOMAIN queue'
        PROVE  /\ queue'[i] \cap Cursored = {} /\ queue'[i] \cap mTransactionWriteTask = {}
               /\ \A k \in DOMAIN queue' : i # k => queue'[i] \cap queue'[k] = {}
               /\ \A v \in Threads : queue'[i] \cap work'[v] = {}
    <3>1. /\ i + 1 \in DOMAIN queue /\ queue'[i] = queue[i + 1]
          /\ queue[i + 1] \cap queue[1] = {}
      BY <1>6 DEF IInv, OwnedOnce
    <3>2. \A k \in DOMAIN queue' : i # k => i + 1 # k + 1
      BY <1>6
    <3>3. \A k \in DOMAIN queue' : i # k => queue'[i] \cap queue'[k] = {}
      BY <1>6, <3>1, <3>2 DEF IInv, OwnedOnce
    <3>4. \A v \in Threads : queue'[i] \cap work'[v] = {}
      BY <1>7, <3>1 DEF IInv, OwnedOnce
    <3> QED BY <3>1, <3>3, <3>4 DEF IInv, OwnedOnce
  <2>2. \A v \in Threads : /\ work'[v] \cap mTransactionWriteTask = {}
                           /\ \A u \in Threads : u # v => work'[v] \cap work'[u] = {}
    BY <1>6, <1>7 DEF IInv, OwnedOnce
  <2>3. mTransactionWriteTask \cap Cursored = {} /\ mTransactionWriteTask' = mTransactionWriteTask
    BY <1>1 DEF IInv, OwnedOnce, blockVars
  <2> HIDE DEF Cursored
  <2> QED BY <1>2, <2>1, <2>2, <2>3 DEF OwnedOnce
<1>10. AtWork'
  <2>1. queue[1] \cap Cursored = {}
    BY <1>6 DEF IInv, OwnedOnce
  <2> QED BY <1>1, <1>2, <1>7, <2>1
          DEF IInv, AtWork, BeforeCursors, AfterCursors, disk, index, blockVars
<1>11. ReaderOK' /\ ProcessOK'
  BY <1>1, <1>2, <1>3 DEF IInv, ReaderOK, Reading, ProcessOK, reader, process, blockVars
<1> QED BY <1>4, <1>8, <1>9, <1>10, <1>11 DEF IInv

(* A step of a thread within its task, which keeps the index file sound.   *)
LEMMA GotoIInv ==
  ASSUME IInv, NEW w \in Threads, NEW p \in Where, Goto(w, p),
         at[w] # "idle", p # "idle",
         at[w] \in BeforeCursors <=> p \in BeforeCursors, p # "cursors",
         UNCHANGED <<file, persisted, blockVars, queue, work, manager, reader, process>>,
         indexFile' \in IndexFile, FiledIn(indexFile', file),
         snapshot' \in [Threads -> Seq(PlainBlock)],
         \A v \in Threads : FiledIn(snapshot'[v], file)
  PROVE  IInv'
<1>1. /\ at' = [at EXCEPT ![w] = p]
      /\ UNCHANGED <<file, persisted, blockVars, queue, work, manager, reader, process>>
  BY DEF Goto
<1>2. Nrs' = Nrs /\ Cursored' = Cursored
  BY <1>1 DEF Nrs, Cursored, index, blockVars
<1>3. mode \in {"up", "exiting"}
  BY ProcessRuns
<1>4. DiskOK' /\ IndexOK' /\ ManagerOK'
  BY <1>1, <1>2 DEF IInv, DiskOK, IndexOK, ManagerOK, blockVars, index, manager, process
<1>5. at \in [Threads -> Where]
  BY DEF IInv, TasksOK
<1>6. \A v \in Threads : (v # w => at'[v] = at[v]) /\ (v = w => at'[v] = p)
  BY <1>1, <1>5
<1>7. TasksOK'
  <2>1. at' \in [Threads -> Where]
    BY <1>1, <1>5
  <2> QED BY <1>1, <1>2, <2>1 DEF IInv, TasksOK, blockVars
<1>8. OwnedOnce' /\ ReaderOK' /\ ProcessOK'
  BY <1>1, <1>2, <1>3 DEF IInv, OwnedOnce, ReaderOK, Reading, ProcessOK, reader, process, blockVars
<1>9. AtWork'
  <2>1. p \in AfterCursors => at[w] \in AfterCursors
    BY <1>5 DEF Where, BeforeCursors, AfterCursors
  <2> QED BY <1>1, <1>2, <1>6, <2>1 DEF IInv, AtWork, index, blockVars
<1> QED BY <1>4, <1>7, <1>8, <1>9 DEF IInv

LEMMA LockFileIInv ==
  ASSUME IInv, NEW w \in Threads, LockFile(w)
  PROVE  IInv'
<1>1. /\ at[w] = "append" /\ Goto(w, "locked")
      /\ UNCHANGED <<disk, blockVars, queue, work, snapshot, manager, reader, process>>
  BY DEF LockFile
<1>2. /\ indexFile' \in IndexFile /\ FiledIn(indexFile', file)
      /\ snapshot' \in [Threads -> Seq(PlainBlock)]
      /\ \A v \in Threads : FiledIn(snapshot'[v], file)
  BY <1>1 DEF IInv, DiskOK, TasksOK, disk
<1> QED BY <1>1, <1>2, GotoIInv DEF BeforeCursors, Where, disk

LEMMA TruncateIInv ==
  ASSUME IInv, NEW w \in Threads, Truncate(w)
  PROVE  IInv'
<1>1. /\ at[w] = "store" /\ Goto(w, "storing") /\ indexFile' = <<>>
      /\ UNCHANGED <<file, persisted, blockVars, queue, work, snapshot, manager, reader, process>>
  BY DEF Truncate
<1>2. /\ snapshot' \in [Threads -> Seq(PlainBlock)]
      /\ \A v \in Threads : FiledIn(snapshot'[v], file)
  BY <1>1 DEF IInv, TasksOK
<1> QED BY <1>1, <1>2, FiledNothing, GotoIInv DEF BeforeCursors, Where

LEMMA StoreIInv ==
  ASSUME IInv, NEW w \in Threads, Store(w)
  PROVE  IInv'
<1>1. /\ at[w] = "storing" /\ Goto(w, "finish") /\ indexFile' = WriteToFile(snapshot[w])
      /\ snapshot' = [snapshot EXCEPT ![w] = <<>>]
      /\ UNCHANGED <<file, persisted, blockVars, queue, work, manager, reader, process>>
  BY DEF Store
<1>2. snapshot \in [Threads -> Seq(PlainBlock)] /\ \A v \in Threads : FiledIn(snapshot[v], file)
  BY DEF IInv, TasksOK
<1>3. indexFile' \in IndexFile /\ FiledIn(indexFile', file)
  BY <1>1, <1>2, FiledWritten
<1>4. /\ snapshot' \in [Threads -> Seq(PlainBlock)]
      /\ \A v \in Threads : FiledIn(snapshot'[v], file)
  BY <1>1, <1>2, FiledNothing
<1> QED BY <1>1, <1>3, <1>4, GotoIInv DEF BeforeCursors, Where

LEMMA NrsFinite ==
  ASSUME IInv
  PROVE  Nrs \subseteq 1..MaxMessage /\ Nrs \in SUBSET Nr /\ IsFiniteSet(Nrs)
<1>1. Nrs \subseteq 1..MaxMessage /\ Nrs \in SUBSET Nr
  <2>1. /\ Nrs \in SUBSET Nr
        /\ \A nr \in Nrs : nr <= entry[nr] /\ entry[nr] \in Accepted
    BY DEF IInv, IndexOK
  <2>2. MaxMessage \in Nat /\ Accepted \subseteq 1..MaxMessage
    BY StoreAssumption
  <2>3. ASSUME NEW nr \in Nrs PROVE nr \in 1..MaxMessage
    <3>1. nr \in Nat /\ nr # 0
      BY <2>1 DEF Nr
    <3>2. entry[nr] \in 1..MaxMessage /\ nr <= entry[nr]
      BY <2>1, <2>2
    <3> QED BY <2>2, <3>1, <3>2
  <2> QED BY <2>1, <2>3
<1>2. IsFiniteSet(1..MaxMessage)
  <2>1. MaxMessage \in Int
    BY StoreAssumption
  <2> QED BY <2>1, FS_Interval
<1> QED BY <1>1, <1>2, FS_Subset

LEMMA SerializeIInv ==
  ASSUME IInv, NEW w \in Threads, Serialize(w)
  PROVE  IInv'
<1>1. CASE Nrs \subseteq Cursored
  <2>1. PICK p \in {"finish", "store"} : Goto(w, p)
    BY <1>1 DEF Serialize, Cursored
  <2>2. /\ at[w] = "index"
        /\ snapshot' = [snapshot EXCEPT ![w] = IndexBlocks(IndexNow)]
        /\ UNCHANGED <<disk, blockVars, queue, work, manager, reader, process>>
    BY <1>1 DEF Serialize, Cursored
  <2>3. snapshot \in [Threads -> Seq(PlainBlock)] /\ \A v \in Threads : FiledIn(snapshot[v], file)
    BY DEF IInv, TasksOK
  <2>4. IndexBlocks(IndexNow) \in Seq(PlainBlock) /\ FiledIn(IndexBlocks(IndexNow), file)
    <3> DEFINE blocks == IndexBlocks(IndexNow)
    <3>1. /\ mYearMonthAddressIndexEntries = [nr \in Nrs |-> MonthOf[entry[nr]]]
          /\ entry \in [Nrs -> Accepted]
          /\ Cursored \subseteq Nrs
          /\ mTransactionNrsFileCursors \in [Cursored -> DOMAIN file]
          /\ \A nr \in Cursored : file[mTransactionNrsFileCursors[nr]] = Line(nr, entry[nr])
      BY DEF IInv, IndexOK, Cursored
    <3>2. mYearMonthAddressIndexEntries \in [Nrs -> Date]
      BY <3>1, StoreAssumption DEF Date
    <3>3. mTransactionNrsFileCursors \in [Cursored -> Nr]
      <4>1. DOMAIN file \subseteq Nr
        BY DEF IInv, DiskOK, Nr
      <4> QED BY <3>1, <4>1
    <3>4. /\ blocks \in Seq(PlainBlock)
          /\ \A i \in DataIn(blocks) :
               /\ blocks[i].transactionNr \in Nrs
               /\ blocks[i].fileCursor = mTransactionNrsFileCursors[blocks[i].transactionNr]
               /\ MonthAt(blocks, i) = mYearMonthAddressIndexEntries[blocks[i].transactionNr]
      <4> HIDE DEF Cursored
      <4> QED BY <1>1, <3>2, <3>3, NrsFinite, IndexWritten DEF IndexNow
    <3> HIDE DEF blocks
    <3>5. ASSUME NEW i \in DataIn(blocks)
          PROVE  /\ blocks[i].transactionNr \in Nr
                 /\ blocks[i].fileCursor \in DOMAIN file
                 /\ file[blocks[i].fileCursor].nr = blocks[i].transactionNr
                 /\ MonthAt(blocks, i) = MonthOf[file[blocks[i].fileCursor].msg]
      <4>1. blocks[i].transactionNr \in Nrs /\ blocks[i].transactionNr \in Cursored
        BY <1>1, <3>4
      <4> DEFINE nr == blocks[i].transactionNr
                 c == mTransactionNrsFileCursors[nr]
      <4>2. nr \in Nr
        BY <4>1, NrsFinite
      <4>3. blocks[i].fileCursor = c /\ MonthAt(blocks, i) = MonthOf[entry[nr]]
        BY <3>1, <3>4, <4>1
      <4>4. c \in DOMAIN file /\ file[c] = Line(nr, entry[nr])
        BY <3>1, <4>1
      <4>5. file[c].nr = nr /\ file[c].msg = entry[nr]
        BY <4>4 DEF Line
      <4> QED BY <4>2, <4>3, <4>4, <4>5
    <3> QED BY <3>4, <3>5 DEF FiledIn, blocks
  <2>5. /\ snapshot' \in [Threads -> Seq(PlainBlock)]
        /\ \A v \in Threads : FiledIn(snapshot'[v], file)
    BY <2>2, <2>3, <2>4
  <2>6. indexFile' \in IndexFile /\ FiledIn(indexFile', file)
    BY <2>2 DEF IInv, DiskOK, disk
  <2> QED BY <2>1, <2>2, <2>5, <2>6, GotoIInv DEF BeforeCursors, Where, disk
<1>2. CASE ~(Nrs \subseteq Cursored)
  <2>1. Down("terminated") /\ "terminated" \in Mode \ {"up", "exiting"}
    BY <1>2 DEF Serialize, Cursored, Mode
  <2> QED BY <2>1, DownIInv
<1> QED BY <1>1, <1>2

LEMMA FinishIInv ==
  ASSUME IInv, NEW w \in Threads, Finish(w)
  PROVE  IInv'
<1>1. /\ at[w] = "finish"
      /\ mTransactionsFromPendingTasks' = mTransactionsFromPendingTasks \ work[w]
      /\ work' = [work EXCEPT ![w] = {}]
      /\ at' = [at EXCEPT ![w] = "idle"]
      /\ UNCHANGED <<disk, index, mTransactionNrsFileCursors, mSerializedTransactions,
                     mTransactionWriteTask, queue, snapshot, manager, reader, process>>
  BY DEF Finish, Goto
<1>2. Nrs' = Nrs /\ Cursored' = Cursored
  BY <1>1 DEF Nrs, Cursored, index
<1>3. mode \in {"up", "exiting"}
  BY <1>1, ProcessRuns
<1>4. DiskOK' /\ IndexOK' /\ ManagerOK'
  BY <1>1, <1>2 DEF IInv, DiskOK, IndexOK, ManagerOK, disk, index, manager, process
<1>5. work \in [Threads -> SUBSET Nrs] /\ at \in [Threads -> Where]
  BY DEF IInv, TasksOK
<1>6. \A v \in Threads : /\ v # w => work'[v] = work[v] /\ at'[v] = at[v]
                         /\ v = w => work'[v] = {} /\ at'[v] = "idle"
  BY <1>1, <1>5
<1>7. TasksOK'
  <2>1. work' \in [Threads -> SUBSET Nrs] /\ at' \in [Threads -> Where]
    BY <1>1, <1>5 DEF Where
  <2>2. mTransactionsFromPendingTasks' \subseteq Nrs
    BY <1>1 DEF IInv, TasksOK
  <2> QED BY <1>1, <1>2, <2>1, <2>2 DEF IInv, TasksOK, disk
<1>8. OwnedOnce'
  BY <1>1, <1>2, <1>6 DEF IInv, OwnedOnce
<1>9. AtWork'
  BY <1>1, <1>2, <1>6 DEF IInv, AtWork, BeforeCursors, AfterCursors, disk, index
<1>10. ReaderOK'
  <2>1. work[w] \subseteq Cursored
    BY <1>1 DEF IInv, AtWork, AfterCursors
  <2> QED BY <1>1, <1>2, <2>1 DEF IInv, ReaderOK, Reading, reader, process
<1>11. ProcessOK'
  BY <1>1, <1>3 DEF IInv, ProcessOK, process
<1> QED BY <1>4, <1>7, <1>8, <1>9, <1>10, <1>11 DEF IInv

(* The lines of a task: one for each transaction, in ascending order.      *)
LEMMA LinesAscend ==
  ASSUME IInv, NEW S \in SUBSET Nrs
  PROVE  LET lines == Lines(S) IN
         /\ lines \in Seq(LineType)
         /\ \A i \in DOMAIN lines : /\ lines[i].nr \in S
                                    /\ lines[i] = Line(lines[i].nr, entry[lines[i].nr])
         /\ \A nr \in S : \E i \in DOMAIN lines : lines[i] = Line(nr, entry[nr])
         /\ \A i, k \in DOMAIN lines : i < k => lines[i].nr < lines[k].nr
<1> DEFINE s == InOrder(S, ByNr(S))
           n == Cardinality(S)
           lines == Lines(S)
<1>1. S \in SUBSET Nr /\ IsFiniteSet(S)
  BY NrsFinite, FS_Subset
<1>2. Orders(ByNr(S), S) /\ \A x, y \in S : <<x, y>> \in ByNr(S) <=> x < y
  <2>1. \A x, y \in S : <<x, y>> \in ByNr(S) <=> x < y
    BY DEF ByNr
  <2>2. S \in SUBSET Nat
    BY <1>1 DEF Nr
  <2>3. /\ \A x \in S : ~(x < x)
        /\ \A x, y, z \in S : x < y /\ y < z => x < z
        /\ \A x, y \in S : x # y => x < y \/ y < x
    BY <2>2
  <2> QED BY <2>1, <2>3 DEF Orders
<1>3. /\ n \in Nat /\ s \in [1..n -> S]
      /\ \A x \in S : \E i \in 1..n : s[i] = x
      /\ \A i, j \in 1..n : i < j => <<s[i], s[j]>> \in ByNr(S)
  BY <1>1, <1>2, InOrderSorts
<1>4. lines = [i \in 1..n |-> Line(s[i], entry[s[i]])]
  <2>1. DOMAIN s = 1..n
    BY <1>3
  <2> QED BY <2>1 DEF Lines
<1>5. \A nr \in S : Line(nr, entry[nr]) \in LineType /\ Line(nr, entry[nr]).nr = nr
  <2> SUFFICES ASSUME NEW nr \in S
               PROVE  Line(nr, entry[nr]) \in LineType /\ Line(nr, entry[nr]).nr = nr
    OBVIOUS
  <2>1. nr \in Nat /\ entry[nr] \in Accepted
    BY <1>1 DEF IInv, IndexOK, Nr
  <2>2. MaxMessage \in Nat /\ Accepted \subseteq 1..MaxMessage
    BY StoreAssumption
  <2>3. entry[nr] \in 0..MaxMessage
    <3>1. entry[nr] \in 1..MaxMessage
      BY <2>1, <2>2
    <3> QED BY <2>2, <3>1
  <2> QED BY <2>1, <2>3 DEF Line, LineType
<1> HIDE DEF s, n, lines
<1>6. ASSUME NEW i \in 1..n
      PROVE  s[i] \in S /\ lines[i] = Line(s[i], entry[s[i]]) /\ lines[i].nr = s[i]
             /\ lines[i] \in LineType
  <2>1. s[i] \in S /\ lines[i] = Line(s[i], entry[s[i]])
    BY <1>3, <1>4
  <2> QED BY <1>5, <2>1
<1>7. DOMAIN lines = 1..n /\ lines \in Seq(LineType)
  BY <1>3, <1>4, <1>6
<1>8. \A i, k \in DOMAIN lines : i < k => lines[i].nr < lines[k].nr
  <2> SUFFICES ASSUME NEW i \in 1..n, NEW k \in 1..n, i < k
               PROVE  lines[i].nr < lines[k].nr
    BY <1>7
  <2>1. <<s[i], s[k]>> \in ByNr(S) /\ s[i] \in S /\ s[k] \in S
    BY <1>3, <1>6
  <2> QED BY <1>2, <1>6, <2>1
<1>9. \A nr \in S : \E i \in DOMAIN lines : lines[i] = Line(nr, entry[nr])
  BY <1>3, <1>6, <1>7
<1>10. \A i \in DOMAIN lines : /\ lines[i].nr \in S
                               /\ lines[i] = Line(lines[i].nr, entry[lines[i].nr])
  BY <1>6, <1>7
<1> QED BY <1>7, <1>8, <1>9, <1>10 DEF lines

LEMMA AppendLinesIInv ==
  ASSUME IInv, NEW w \in Threads, AppendLines(w)
  PROVE  IInv'
<1> DEFINE lines == Lines(work[w])
<1>1. /\ at[w] = "locked" /\ file' = file \o lines
      /\ at' = [at EXCEPT ![w] = "cursors"]
      /\ UNCHANGED <<indexFile, persisted, blockVars, queue, work, snapshot,
                     manager, reader, process>>
  BY DEF AppendLines, Goto
<1>2. Nrs' = Nrs /\ Cursored' = Cursored /\ entry' = entry
  BY <1>1 DEF Nrs, Cursored, index, blockVars
<1>3. mode \in {"up", "exiting"}
  BY <1>1, ProcessRuns
<1>4. work \in [Threads -> SUBSET Nrs] /\ at \in [Threads -> Where]
  BY DEF IInv, TasksOK
<1>5. /\ lines \in Seq(LineType)
      /\ \A i \in DOMAIN lines : /\ lines[i].nr \in work[w]
                                 /\ lines[i] = Line(lines[i].nr, entry[lines[i].nr])
      /\ \A nr \in work[w] : \E i \in DOMAIN lines : lines[i] = Line(nr, entry[nr])
      /\ \A i, k \in DOMAIN lines : i < k => lines[i].nr < lines[k].nr
  BY <1>4, LinesAscend
<1> HIDE DEF lines
<1>6. file \in Seq(LineType) /\ \A i \in DOMAIN file : Sound(file[i])
  BY DEF IInv, DiskOK
<1>7. /\ file' \in Seq(LineType) /\ Grows(file, file')
      /\ DOMAIN file' = 1..(Len(file) + Len(lines))
      /\ \A i \in 1..Len(lines) : file'[Len(file) + i] = lines[i]
      /\ \A i \in DOMAIN file' :
           i \notin DOMAIN file => i - Len(file) \in 1..Len(lines) /\ file'[i] = lines[i - Len(file)]
  BY <1>1, <1>5, <1>6, Concatenated
<1>8. DOMAIN file = 1..Len(file) /\ DOMAIN lines = 1..Len(lines) /\ Len(file) \in Nat /\ Len(lines) \in Nat
  BY <1>5, <1>6
<1>9. DiskOK'
  <2>1. \A nr \in work[w] : Sound(Line(nr, entry[nr]))
    <3> SUFFICES ASSUME NEW nr \in work[w] PROVE Sound(Line(nr, entry[nr]))
      OBVIOUS
    <3>1. nr \in Nr /\ entry[nr] \in Accepted /\ nr <= entry[nr]
      BY <1>4 DEF IInv, IndexOK
    <3>2. nr \in 1..entry[nr]
      BY <3>1, StoreAssumption DEF Nr
    <3> QED BY <3>1, <3>2 DEF Sound, Line
  <2>2. ASSUME NEW i \in DOMAIN file' PROVE Sound(file'[i])
    <3>1. CASE i \in DOMAIN file
      BY <1>6, <1>7, <3>1 DEF Grows
    <3>2. CASE i \notin DOMAIN file
      <4>1. i - Len(file) \in DOMAIN lines /\ file'[i] = lines[i - Len(file)]
        BY <1>7, <1>8, <3>2
      <4>2. \A k \in DOMAIN lines : Sound(lines[k])
        BY <1>5, <2>1
      <4> QED BY <4>1, <4>2
    <3> QED BY <3>1, <3>2
  <2>3. FiledIn(indexFile, file')
    BY <1>7, FiledStays DEF IInv, DiskOK
  <2> QED BY <1>1, <1>7, <2>2, <2>3 DEF IInv, DiskOK
<1>10. IndexOK'
  <2>1. /\ mTransactionNrsFileCursors \in [Cursored -> DOMAIN file]
        /\ \A nr \in Cursored : file[mTransactionNrsFileCursors[nr]] = Line(nr, entry[nr])
    BY DEF IInv, IndexOK, Cursored
  <2>2. mTransactionNrsFileCursors' = mTransactionNrsFileCursors
    BY <1>1 DEF blockVars
  <2>3. /\ mTransactionNrsFileCursors' \in [Cursored -> DOMAIN file']
        /\ \A nr \in Cursored : file'[mTransactionNrsFileCursors'[nr]] = Line(nr, entry[nr])
    <3> HIDE DEF Cursored
    <3> QED BY <1>7, <2>1, <2>2 DEF Grows
  <2> QED BY <1>1, <1>2, <2>3 DEF IInv, IndexOK, Cursored, blockVars, index
<1>11. ManagerOK'
  BY <1>1, <1>2 DEF IInv, ManagerOK, manager, process
<1>12. \A v \in Threads : (v # w => at'[v] = at[v]) /\ (v = w => at'[v] = "cursors")
  BY <1>1, <1>4
<1>13. TasksOK'
  <2>1. at' \in [Threads -> Where]
    BY <1>1, <1>4 DEF Where
  <2>2. \A v \in Threads : FiledIn(snapshot[v], file')
    BY <1>7, FiledStays DEF IInv, TasksOK
  <2> QED BY <1>1, <1>2, <2>1, <2>2 DEF IInv, TasksOK, blockVars
<1>14. OwnedOnce' /\ ReaderOK' /\ ProcessOK'
  BY <1>1, <1>2, <1>3 DEF IInv, OwnedOnce, ReaderOK, Reading, ProcessOK, reader, process, blockVars
<1>15. AtWork'
  <2>1. ASSUME NEW v \in Threads, at'[v] = "cursors", NEW nr \in work[v]
        PROVE  \E i \in DOMAIN file' : LastLine(file', i, Line(nr, entry[nr]))
    <3>1. CASE v = w
      <4>1. PICK i \in DOMAIN lines : lines[i] = Line(nr, entry[nr])
        BY <1>5, <3>1
      <4>2. Len(file) + i \in DOMAIN file' /\ file'[Len(file) + i] = Line(nr, entry[nr])
        BY <1>7, <1>8, <4>1
      <4>3. lines[i].nr = nr /\ nr \in Nat
        BY <1>4, <4>1, NrsFinite DEF Line, Nr
      <4>4. ASSUME NEW k \in DOMAIN file', k > Len(file) + i PROVE file'[k].nr # nr
        <5>1. k \notin DOMAIN file /\ k \in Nat
          BY <1>7, <1>8, <4>4
        <5>2. k - Len(file) \in DOMAIN lines /\ file'[k] = lines[k - Len(file)]
          BY <1>7, <1>8, <5>1
        <5>3. i < k - Len(file)
          BY <1>8, <4>4, <5>1
        <5>4. nr < lines[k - Len(file)].nr
          BY <1>5, <4>3, <5>2, <5>3
        <5> QED BY <4>3, <5>2, <5>4
      <4>5. Line(nr, entry[nr]).nr = nr
        BY DEF Line
      <4> QED BY <4>2, <4>4, <4>5 DEF LastLine
    <3>2. CASE v # w
      <4>1. PICK i \in DOMAIN file : LastLine(file, i, Line(nr, entry[nr]))
        BY <1>12, <2>1, <3>2 DEF IInv, AtWork
      <4>2. nr \notin work[w]
        BY <3>2 DEF IInv, OwnedOnce
      <4>3. Line(nr, entry[nr]).nr = nr
        BY DEF Line
      <4>4. ASSUME NEW k \in DOMAIN file', k > i PROVE file'[k].nr # nr
        <5>1. CASE k \in DOMAIN file
          BY <1>7, <4>1, <4>3, <4>4, <5>1 DEF LastLine, Grows
        <5>2. CASE k \notin DOMAIN file
          BY <1>5, <1>7, <1>8, <4>2, <5>2
        <5> QED BY <5>1, <5>2
      <4>5. i \in DOMAIN file' /\ file'[i] = Line(nr, entry[nr])
        BY <1>7, <4>1 DEF LastLine, Grows
      <4> QED BY <4>3, <4>4, <4>5 DEF LastLine
    <3> QED BY <3>1, <3>2
  <2>2. \A v \in Threads : /\ at'[v] = "idle" => work[v] = {}
                           /\ at'[v] \in BeforeCursors => work[v] \cap Cursored = {}
                           /\ at'[v] \in AfterCursors => work[v] \subseteq Cursored
    BY <1>1, <1>12 DEF IInv, AtWork, BeforeCursors, AfterCursors
  <2> HIDE DEF Cursored
  <2> QED BY <1>1, <1>2, <2>1, <2>2 DEF AtWork
<1> QED BY <1>9, <1>10, <1>11, <1>13, <1>14, <1>15 DEF IInv

LEMMA SetFileCursorsIInv ==
  ASSUME IInv, NEW w \in Threads, SetFileCursors(w)
  PROVE  IInv'
<1> DEFINE ended == \E nr \in work[w] : PlaceOf(nr) = 1 /\ nr > Min(Nrs)
           C == mTransactionNrsFileCursors
<1>1. CASE ended
  <2>1. Down("terminated") /\ "terminated" \in Mode \ {"up", "exiting"}
    BY <1>1 DEF SetFileCursors, Mode
  <2> QED BY <2>1, DownIInv
<1>2. CASE ~ended
  <2>1. /\ at[w] = "cursors"
        /\ C' = [nr \in DOMAIN C \cup work[w] |->
                   IF nr \notin work[w] THEN C[nr] ELSE SetCursor(C, nr, PlaceOf(nr))[nr]]
        /\ at' = [at EXCEPT ![w] = "index"]
        /\ UNCHANGED <<disk, index, mSerializedTransactions, mTransactionWriteTask,
                       mTransactionsFromPendingTasks, queue, work, snapshot,
                       manager, reader, process>>
    BY <1>2 DEF SetFileCursors, Goto
  <2> HIDE DEF C, ended
  <2>2. mode \in {"up", "exiting"}
    BY <2>1, ProcessRuns
  <2>3. Nrs' = Nrs /\ entry' = entry
    BY <2>1 DEF Nrs, index
  <2>4. work \in [Threads -> SUBSET Nrs] /\ at \in [Threads -> Where]
    BY DEF IInv, TasksOK
  <2>5. /\ DOMAIN C \subseteq Nrs /\ C \in [DOMAIN C -> DOMAIN file]
        /\ \A nr \in DOMAIN C : file[C[nr]] = Line(nr, entry[nr])
        /\ work[w] \cap DOMAIN C = {}
    BY <2>1 DEF IInv, IndexOK, AtWork, BeforeCursors, Cursored, C
  <2>6. ASSUME NEW nr \in work[w]
        PROVE  /\ PlaceOf(nr) \in DOMAIN file
               /\ file[PlaceOf(nr)] = Line(nr, entry[nr])
               /\ SetCursor(C, nr, PlaceOf(nr))[nr] = PlaceOf(nr)
    <3>1. PICK i \in DOMAIN file : LastLine(file, i, Line(nr, entry[nr]))
      BY <2>1 DEF IInv, AtWork
    <3> DEFINE P == {k \in 1..Len(file) : file[k].nr = nr}
    <3>2. DOMAIN file = 1..Len(file) /\ Len(file) \in Nat
      BY DEF IInv, DiskOK
    <3>3. i \in P /\ \A k \in P : k <= i
      BY <3>1, <3>2 DEF LastLine, Line
    <3>4. P \in SUBSET Nat /\ i \in Nat
      BY <3>2
    <3>5. Max(P) \in P /\ \A k \in P : k <= Max(P)
      <4> HIDE DEF P
      <4> QED BY <3>3, <3>4, MaxIsGreatest
    <3>6. PlaceOf(nr) = Max(P)
      BY DEF PlaceOf
    <3>7. PlaceOf(nr) = i
      <4> HIDE DEF P
      <4> QED BY <3>3, <3>4, <3>5, <3>6
    <3>8. SetCursor(C, nr, PlaceOf(nr))[nr] = PlaceOf(nr)
      BY <2>5 DEF SetCursor
    <3> QED BY <3>1, <3>7, <3>8 DEF LastLine
  <2>7. /\ DOMAIN C' = DOMAIN C \cup work[w]
        /\ \A nr \in DOMAIN C : C'[nr] = C[nr]
        /\ \A nr \in work[w] : C'[nr] = PlaceOf(nr)
    BY <2>1, <2>5, <2>6
  <2>8. DiskOK' /\ ManagerOK'
    BY <2>1, <2>3 DEF IInv, DiskOK, ManagerOK, disk, manager, process
  <2>9. IndexOK'
    <3>1. DOMAIN C' \subseteq Nrs
      BY <2>4, <2>5, <2>7
    <3>2. \A nr \in DOMAIN C' : C'[nr] \in DOMAIN file /\ file[C'[nr]] = Line(nr, entry[nr])
      BY <2>5, <2>6, <2>7
    <3>3. C' \in [DOMAIN C' -> DOMAIN file]
      BY <2>1, <3>2
    <3>4. file' = file /\ mYearMonthAddressIndexEntries' = mYearMonthAddressIndexEntries
      BY <2>1 DEF disk, index
    <3> QED BY <2>3, <3>1, <3>2, <3>3, <3>4 DEF IInv, IndexOK, C
  <2>10. \A v \in Threads : (v # w => at'[v] = at[v]) /\ (v = w => at'[v] = "index")
    BY <2>1, <2>4
  <2>11. TasksOK'
    <3>1. at' \in [Threads -> Where]
      BY <2>1, <2>4 DEF Where
    <3> QED BY <2>1, <2>3, <3>1 DEF IInv, TasksOK, disk
  <2>12. OwnedOnce'
    <3>1. Cursored' = Cursored \cup work[w]
      BY <2>7 DEF Cursored, C
    <3> HIDE DEF Cursored
    <3> QED BY <2>1, <3>1 DEF IInv, OwnedOnce
  <2>13. AtWork'
    <3>1. Cursored' = Cursored \cup work[w]
      BY <2>7 DEF Cursored, C
    <3>2. \A v \in Threads : v # w => work[v] \cap work[w] = {}
      BY DEF IInv, OwnedOnce
    <3>3. file' = file
      BY <2>1 DEF disk
    <3> HIDE DEF Cursored
    <3> QED BY <2>1, <2>3, <2>10, <3>1, <3>2, <3>3
            DEF IInv, AtWork, BeforeCursors, AfterCursors
  <2>14. ReaderOK'
    <3>1. Cursored' = Cursored \cup work[w]
      BY <2>7 DEF Cursored, C
    <3> HIDE DEF Cursored
    <3> QED BY <2>1, <2>3, <3>1 DEF IInv, ReaderOK, Reading, reader, process
  <2>15. ProcessOK'
    BY <2>1, <2>2 DEF IInv, ProcessOK, process
  <2> QED BY <2>8, <2>9, <2>11, <2>12, <2>13, <2>14, <2>15 DEF IInv
<1> QED BY <1>1, <1>2

LEMMA WriteIInv ==
  ASSUME IInv, NEW w \in Threads, Write(w)
  PROVE  IInv'
BY TakeIInv, LockFileIInv, AppendLinesIInv, SetFileCursorsIInv, SerializeIInv, TruncateIInv,
   StoreIInv, FinishIInv DEF Write

-----------------------------------------------------------------------------
(* Start, with the index from its file or from the block file.             *)

Leads(cursors, months, f) ==
  \A nr \in DOMAIN cursors :
    /\ nr \in Nr /\ cursors[nr] \in DOMAIN f /\ f[cursors[nr]].nr = nr
    /\ months[nr] = MonthOf[f[cursors[nr]].msg]

LEMMA StartedIInv ==
  ASSUME IInv, NEW months, NEW cursors,
         Starting, Boot(Index(months, cursors)),
         months = [nr \in DOMAIN cursors |-> months[nr]],
         cursors = [nr \in DOMAIN cursors |-> cursors[nr]],
         Leads(cursors, months, file),
         persisted' \in 0..MaxMessage,
         indexFile' \in IndexFile, FiledIn(indexFile', file)
  PROVE  IInv'
<1> DEFINE D == DOMAIN cursors
<1>1. Index(months, cursors).months = months /\ Index(months, cursors).cursors = cursors
  BY DEF Index
<1>2. /\ mTransactionNrsFileCursors' = cursors /\ mYearMonthAddressIndexEntries' = months
      /\ entry' = [nr \in D |-> file[cursors[nr]].msg]
      /\ lastSeq' = LastKnownSequenceNumber(entry')
      /\ mode' = "up"
      /\ UNCHANGED <<file, mSerializedTransactions, mTransactionWriteTask,
                     mTransactionsFromPendingTasks, tasks, persistDue, reader, started>>
  BY <1>1 DEF Boot
<1>3. /\ mSerializedTransactions = {} /\ mTransactionWriteTask = {}
      /\ mTransactionsFromPendingTasks = {} /\ queue = <<>>
      /\ \A w \in Threads : work[w] = {} /\ at[w] = "idle" /\ snapshot[w] = <<>>
      /\ persistDue = FALSE /\ readAt = "none" /\ started \subseteq Worker
  <2>1. mode \notin {"up", "exiting"}
    BY DEF Starting
  <2>2. persistDue = FALSE
    BY <2>1, Zenon DEF IInv, ProcessOK, ManagerOK
  <2> QED BY <2>1, <2>2 DEF IInv, ProcessOK
<1>4. Nrs' = D /\ Cursored' = D
  BY <1>2 DEF Nrs, Cursored
<1>5. ASSUME NEW nr \in D
      PROVE  /\ nr \in Nr /\ cursors[nr] \in DOMAIN file
             /\ entry'[nr] \in Accepted /\ entry'[nr] \in 1..MaxMessage /\ nr <= entry'[nr]
             /\ file[cursors[nr]] = Line(nr, entry'[nr])
             /\ months[nr] = MonthOf[entry'[nr]]
  <2>1. nr \in Nr /\ cursors[nr] \in DOMAIN file /\ file[cursors[nr]].nr = nr
        /\ months[nr] = MonthOf[file[cursors[nr]].msg]
    BY DEF Leads
  <2>2. file[cursors[nr]] \in LineType /\ Sound(file[cursors[nr]])
    BY <2>1 DEF IInv, DiskOK
  <2>3. file[cursors[nr]] # Torn
    BY <2>1 DEF Torn, Line, Nr
  <2>4. file[cursors[nr]].msg \in Accepted /\ nr <= file[cursors[nr]].msg
    <3>1. file[cursors[nr]].msg \in Accepted /\ nr \in 1..file[cursors[nr]].msg
      BY <2>1, <2>2, <2>3 DEF Sound
    <3> QED BY <3>1
  <2>5. file[cursors[nr]] = Line(nr, file[cursors[nr]].msg)
    BY <2>1, <2>2 DEF LineType, Line
  <2>6. entry'[nr] = file[cursors[nr]].msg
    BY <1>2
  <2>7. Accepted \subseteq 1..MaxMessage
    BY StoreAssumption
  <2>8. entry'[nr] \in 1..MaxMessage
    BY <2>4, <2>6, <2>7
  <2> QED BY <2>1, <2>4, <2>5, <2>6, <2>8
<1>6. DiskOK'
  BY <1>2 DEF IInv, DiskOK
<1>7. IndexOK'
  <2>1. entry' \in [D -> Accepted]
    BY <1>2, <1>5
  <2>2. \A nr \in D : nr <= entry'[nr]
    BY <1>5
  <2>3. months = [nr \in D |-> MonthOf[entry'[nr]]]
    BY <1>5
  <2>4. cursors \in [D -> DOMAIN file]
    BY <1>5
  <2>5. \A nr \in D : file[cursors[nr]] = Line(nr, entry'[nr])
    BY <1>5
  <2>6. D \in SUBSET Nr
    BY <1>5
  <2> QED BY <1>2, <1>4, <2>1, <2>2, <2>3, <2>4, <2>5, <2>6 DEF IndexOK
<1>8. ManagerOK'
  <2>1. lastSeq' \in 0..MaxMessage /\ \A nr \in D : nr <= lastSeq'
    <3>1. lastSeq' = IF D = {} THEN persisted' ELSE entry'[Max(D)]
      BY <1>2 DEF LastKnownSequenceNumber
    <3>2. CASE D = {}
      BY <3>1, <3>2
    <3>3. CASE D # {}
      <4>1. D \in SUBSET Nat /\ MaxMessage \in Nat
        BY <1>5, StoreAssumption DEF Nr
      <4>2. \A nr \in D : nr <= MaxMessage
        <5> SUFFICES ASSUME NEW nr \in D PROVE nr <= MaxMessage
          OBVIOUS
        <5> QED BY <1>5, <4>1
      <4>3. Max(D) \in D /\ \A nr \in D : nr <= Max(D)
        <5> HIDE DEF D
        <5> QED BY <3>3, <4>1, <4>2, MaxIsGreatest
      <4>4. entry'[Max(D)] \in 1..MaxMessage /\ Max(D) <= entry'[Max(D)]
        BY <1>5, <4>3
      <4>5. lastSeq' = entry'[Max(D)]
        BY <3>1, <3>3
      <4>6. \A nr \in D : nr <= lastSeq'
        BY <4>1, <4>3, <4>4, <4>5
      <4>7. lastSeq' \in 0..MaxMessage
        BY <4>1, <4>4, <4>5
      <4> QED BY <4>6, <4>7
    <3> QED BY <3>2, <3>3
  <2>2. persistDue' = FALSE
    BY <1>2, <1>3
  <2>3. persistDue' \in BOOLEAN /\ (persistDue' => lastSeq' + 1 \in Accepted)
    BY <2>2, Zenon
  <2>4. \A nr \in Nrs' : nr <= lastSeq' + (IF persistDue' THEN 1 ELSE 0)
    BY <1>4, <2>1, <2>2
  <2> QED BY <2>1, <2>3, <2>4 DEF ManagerOK
<1>9. TasksOK' /\ OwnedOnce' /\ AtWork'
  BY <1>2, <1>3, FiledNothing DEF IInv, TasksOK, OwnedOnce, AtWork, BeforeCursors,
                                  AfterCursors, Where, tasks
<1>10. ReaderOK'
  BY <1>2, <1>3, <1>4 DEF ReaderOK, ReadWhere, Reading, reader
<1>11. ProcessOK'
  <2>1. starts' \in 0..MaxStarts
    BY StoreAssumption DEF IInv, ProcessOK, Starting
  <2> QED BY <1>2, <1>3, <2>1 DEF ProcessOK, Mode
<1> QED BY <1>6, <1>7, <1>8, <1>9, <1>10, <1>11 DEF IInv

(* What LoadIndex starts with.                                             *)
NrsIn(blocks) == {blocks[i].transactionNr : i \in DataIn(blocks)}

LEMMA Loaded ==
  ASSUME IInv, LoadIndex
  PROVE  \E months, cursors :
           /\ Starting /\ Boot(Index(months, cursors))
           /\ DOMAIN cursors = NrsIn(indexFile)
           /\ months = [nr \in DOMAIN cursors |-> months[nr]]
           /\ cursors = [nr \in DOMAIN cursors |-> cursors[nr]]
           /\ Leads(cursors, months, file)
           /\ \A nr \in NrsIn(indexFile) : \E i \in DataIn(indexFile) :
                indexFile[i].transactionNr = nr /\ indexFile[i].fileCursor = cursors[nr]
<1> DEFINE D == NrsIn(indexFile)
<1>1. PICK months, cursors :
        /\ months = [nr \in D |-> MonthAt(indexFile, DataOf(indexFile, nr))]
        /\ cursors = [nr \in D |-> indexFile[DataOf(indexFile, nr)].fileCursor]
  OBVIOUS
<1>2. ReadFromFile(indexFile) = Index(months, cursors)
  BY <1>1 DEF ReadFromFile, NrsIn
<1>3. Starting /\ Boot(Index(months, cursors))
  BY <1>2 DEF LoadIndex
<1>4. ASSUME NEW nr \in D
      PROVE  /\ nr \in Nr /\ cursors[nr] \in DOMAIN file /\ file[cursors[nr]].nr = nr
             /\ months[nr] = MonthOf[file[cursors[nr]].msg]
             /\ \E i \in DataIn(indexFile) :
                  indexFile[i].transactionNr = nr /\ indexFile[i].fileCursor = cursors[nr]
  <2> DEFINE i == DataOf(indexFile, nr)
  <2>1. i \in DataIn(indexFile) /\ indexFile[i].transactionNr = nr
    BY DEF DataOf, NrsIn
  <2>2. months[nr] = MonthAt(indexFile, i) /\ cursors[nr] = indexFile[i].fileCursor
    BY <1>1
  <2> HIDE DEF i
  <2> QED BY <2>1, <2>2 DEF IInv, DiskOK, FiledIn
<1>5. DOMAIN cursors = D
  BY <1>1
<1>6. /\ months = [nr \in DOMAIN cursors |-> months[nr]]
      /\ cursors = [nr \in DOMAIN cursors |-> cursors[nr]]
  BY <1>1
<1>7. Leads(cursors, months, file)
  BY <1>4, <1>5 DEF Leads
<1>8. \A nr \in D : \E i \in DataIn(indexFile) :
        indexFile[i].transactionNr = nr /\ indexFile[i].fileCursor = cursors[nr]
  BY <1>4
<1> QED BY <1>3, <1>5, <1>6, <1>7, <1>8

LEMMA LoadIndexIInv ==
  ASSUME IInv, LoadIndex
  PROVE  IInv'
<1>1. persisted' = persisted /\ indexFile' = indexFile
  BY DEF LoadIndex, ResetIndices
<1>2. persisted' \in 0..MaxMessage /\ indexFile' \in IndexFile /\ FiledIn(indexFile', file)
  BY <1>1 DEF IInv, DiskOK
<1> QED BY <1>2, Loaded, StartedIInv

(* What RebuildIndex starts with: the first lines of the block file.       *)
LEMMA Restored ==
  ASSUME IInv, NEW reset \in BOOLEAN, RebuildIndex(reset)
  PROVE  \E n \in 0..Len(file) : \E months, cursors :
           /\ Starting /\ Boot(Index(months, cursors))
           /\ DOMAIN cursors = {file[i].nr : i \in 1..n}
           /\ months = [nr \in DOMAIN cursors |-> months[nr]]
           /\ cursors = [nr \in DOMAIN cursors |-> cursors[nr]]
           /\ Leads(cursors, months, file)
           /\ \A nr \in DOMAIN cursors : cursors[nr] \in 1..n
<1>1. PICK n \in {Len(file), Len(file) - 1} \cap Nat : Boot(Rebuilt(n))
  BY DEF RebuildIndex
<1> DEFINE D == {file[i].nr : i \in 1..n}
<1>2. PICK cursors : cursors = [nr \in D |-> CHOOSE i \in 1..n : file[i].nr = nr]
  OBVIOUS
<1>3. PICK months : months = [nr \in D |-> MonthOf[file[cursors[nr]].msg]]
  OBVIOUS
<1>4. Rebuilt(n) = Index(months, cursors)
  BY <1>2, <1>3 DEF Rebuilt, LinesRead
<1>5. Starting /\ Boot(Index(months, cursors))
  BY <1>1, <1>4 DEF RebuildIndex
<1>6. /\ file \in Seq(LineType) /\ \A i \in DOMAIN file : file[i] # Torn /\ Sound(file[i])
      /\ DOMAIN file = 1..Len(file) /\ Len(file) \in Nat
  BY DEF RebuildIndex, Rebuildable, IInv, DiskOK
<1>7. ASSUME NEW nr \in D
      PROVE  /\ nr \in Nr /\ cursors[nr] \in DOMAIN file /\ file[cursors[nr]].nr = nr
             /\ months[nr] = MonthOf[file[cursors[nr]].msg] /\ cursors[nr] \in 1..n
  <2>1. \E i \in 1..n : file[i].nr = nr
    OBVIOUS
  <2>2. cursors[nr] \in 1..n /\ file[cursors[nr]].nr = nr
    BY <1>2, <2>1
  <2>3. cursors[nr] \in DOMAIN file
    BY <1>6, <2>2
  <2>4. file[cursors[nr]].nr \in 1..file[cursors[nr]].msg /\ file[cursors[nr]] \in LineType
    BY <1>6, <2>3 DEF Sound
  <2>5. nr \in Nr
    BY <2>2, <2>4 DEF Nr
  <2> QED BY <1>3, <2>2, <2>3, <2>5
<1>8. DOMAIN cursors = D
  BY <1>2
<1>9. /\ months = [nr \in DOMAIN cursors |-> months[nr]]
      /\ cursors = [nr \in DOMAIN cursors |-> cursors[nr]]
  <2> HIDE DEF D
  <2>1. months = [nr \in D |-> months[nr]]
    BY <1>3
  <2>2. cursors = [nr \in D |-> cursors[nr]]
    BY <1>2
  <2> QED BY <1>8, <2>1, <2>2
<1>10. Leads(cursors, months, file)
  BY <1>7, <1>8 DEF Leads
<1>11. n \in 0..Len(file)
  BY <1>6
<1>12. D = {file[i].nr : i \in 1..n}
  OBVIOUS
<1> HIDE DEF D
<1>13. DOMAIN cursors = {file[i].nr : i \in 1..n} /\ \A nr \in DOMAIN cursors : cursors[nr] \in 1..n
  BY <1>7, <1>8, <1>12
<1> QED BY <1>5, <1>9, <1>10, <1>11, <1>13

LEMMA RebuildIndexIInv ==
  ASSUME IInv, NEW reset \in BOOLEAN, RebuildIndex(reset)
  PROVE  IInv'
<1>1. persisted' \in 0..MaxMessage
  <2>1. persisted \in 0..MaxMessage /\ MaxMessage \in Nat
    BY StoreAssumption DEF IInv, DiskOK
  <2> QED BY <2>1 DEF RebuildIndex, ResetIndices
<1>2. indexFile' = <<>>
  BY DEF RebuildIndex
<1> QED BY <1>1, <1>2, FiledNothing, Restored, StartedIInv

LEMMA RefuseIInv ==
  ASSUME IInv, NEW reset \in BOOLEAN, Refuse(reset)
  PROVE  IInv'
<1>1. /\ mode \notin {"up", "exiting"} /\ mode' = "refused"
      /\ starts < MaxStarts /\ starts' = starts + 1
      /\ persisted' \in {0, persisted} /\ indexFile' \in {<<>>, indexFile}
      /\ UNCHANGED <<file, blockVars, tasks, manager, reader, started>>
  BY DEF Refuse, Starting, ResetIndices
<1>2. Nrs' = Nrs
  BY <1>1 DEF Nrs, blockVars, index
<1>3. DiskOK'
  <2>1. persisted' \in 0..MaxMessage
    BY <1>1, StoreAssumption DEF IInv, DiskOK
  <2>2. indexFile' \in IndexFile /\ FiledIn(indexFile', file)
    BY <1>1, FiledNothing DEF IInv, DiskOK
  <2> QED BY <1>1, <2>1, <2>2 DEF IInv, DiskOK
<1>4. IndexOK' /\ ManagerOK'
  BY <1>1, <1>2 DEF IInv, IndexOK, ManagerOK, blockVars, index, manager
<1>5. TasksOK' /\ OwnedOnce' /\ AtWork'
  BY <1>1, <1>2 DEF IInv, TasksOK, OwnedOnce, AtWork, Cursored, blockVars, index, tasks
<1>6. ReaderOK'
  BY <1>1 DEF IInv, ReaderOK, ProcessOK, Reading, reader
<1>7. ProcessOK'
  <2>1. starts' \in 0..MaxStarts
    BY <1>1, StoreAssumption DEF IInv, ProcessOK
  <2> QED BY <1>1, <2>1 DEF IInv, ProcessOK, Mode, blockVars, tasks, manager, reader
<1> QED BY <1>3, <1>4, <1>5, <1>6, <1>7 DEF IInv

-----------------------------------------------------------------------------

LEMMA StutterIInv ==
  ASSUME IInv, UNCHANGED vars
  PROVE  IInv'
<1>1. UNCHANGED <<disk, blockVars, tasks, manager, reader, process>>
  BY DEF vars
<1>2. Nrs' = Nrs
  BY <1>1 DEF Nrs, blockVars, index
<1>3. DiskOK' /\ IndexOK' /\ ManagerOK'
  BY <1>1, <1>2 DEF IInv, DiskOK, IndexOK, ManagerOK, disk, blockVars, index, manager, process
<1>4. TasksOK' /\ OwnedOnce' /\ AtWork'
  BY <1>1, <1>2 DEF IInv, TasksOK, OwnedOnce, AtWork, Cursored, disk, blockVars, index, tasks
<1>5. ReaderOK' /\ ProcessOK'
  BY <1>1, <1>2 DEF IInv, ReaderOK, Reading, ProcessOK, Cursored, blockVars, index, tasks,
                    manager, reader, process
<1> QED BY <1>3, <1>4, <1>5 DEF IInv

LEMMA NextIInv ==
  ASSUME IInv, [Next]_vars
  PROVE  IInv'
<1>1. CASE Confirm \/ Persist \/ Skip \/ CallFromTimer \/ \E nr \in Nrs : CacheTimeout(nr)
  BY <1>1, ConfirmIInv, ManagerIInv, CallFromTimerIInv, CacheTimeoutIInv
<1>2. CASE \E w \in Threads : Write(w)
  BY <1>2, WriteIInv
<1>3. CASE Read
  BY <1>3, ReadIInv
<1>4. CASE Exit \/ CloseBlock \/ CloseIndex \/ Closed \/ Crash
  BY <1>4, ExitIInv, CloseBlockIInv, CloseIndexIInv, DownStepIInv
<1>5. CASE Start
  BY <1>5, LoadIndexIInv, RebuildIndexIInv, RefuseIInv DEF Start
<1>6. CASE UNCHANGED vars
  BY <1>6, StutterIInv
<1> QED BY <1>1, <1>2, <1>3, <1>4, <1>5, <1>6 DEF Next

(***************************************************************************)
(* The invariant above: whatever threads, timer, crashes and restarts do,  *)
(* a cursor leads to the line of its transaction, and a transaction is in  *)
(* one task at a time.                                                     *)
(***************************************************************************)
THEOREM Inductive == Spec => []IInv
BY InitIInv, NextIInv, PTL DEF Spec

(* Each variable has a value of its type, and so has each block in the     *)
(* index file.                                                             *)
THEOREM TypeCorrect == Spec => []TypeOK
<1>1. IInv => TypeOK
  <2> SUFFICES ASSUME IInv PROVE TypeOK
    OBVIOUS
  <2>1. file \in Seq([nr : Nat, msg : 0..MaxMessage])
    BY DEF IInv, DiskOK, LineType
  <2>2. \A i \in 1..Len(indexFile) : indexFile[i].type \in BlockTypes
    <3>1. ASSUME NEW b \in Seq(PlainBlock)
          PROVE  \A i \in 1..Len(b) : b[i].type \in BlockTypes
      <4>1. \A i \in 1..Len(b) : b[i] \in PlainBlock
        OBVIOUS
      <4>2. \A x \in PlainBlock : x.type \in {"year", "month", "data"}
        BY DEF PlainBlock
      <4> QED BY <4>1, <4>2 DEF BlockTypes
    <3>2. ASSUME NEW b \in Seq(PlainBlock), NEW i \in 1..Len(WriteToFile(b))
          PROVE  WriteToFile(b)[i].type \in BlockTypes
      <4>1. /\ Len(b) \in Nat /\ Len(WriteToFile(b)) = Len(b) + 1
            /\ \A k \in 1..Len(b) : WriteToFile(b)[k] = b[k]
            /\ WriteToFile(b)[Len(b) + 1] = HashBlock(b)
        BY DEF WriteToFile
      <4>2. HashBlock(b).type = "hash"
        BY DEF HashBlock
      <4>3. i \in 1..Len(b) \/ i = Len(b) + 1
        BY <4>1
      <4> QED BY <3>1, <4>1, <4>2, <4>3 DEF BlockTypes
    <3> QED BY <3>1, <3>2 DEF IInv, DiskOK, IndexFile
  <2>3. /\ Nrs \subseteq 1..MaxMessage /\ \A nr \in Nrs : entry[nr] \in Accepted
        /\ DOMAIN mYearMonthAddressIndexEntries = Nrs
        /\ DOMAIN mTransactionNrsFileCursors \subseteq 1..MaxMessage
    BY NrsFinite DEF IInv, IndexOK
  <2>4. persisted \in 0..MaxMessage /\ lastSeq \in 0..MaxMessage
    BY DEF IInv, DiskOK, ManagerOK
  <2>5. persistDue \in BOOLEAN
    BY Zenon DEF IInv, ManagerOK
  <2>6. /\ mSerializedTransactions \subseteq Nrs /\ mTransactionWriteTask \subseteq Nrs
        /\ mTransactionsFromPendingTasks \subseteq Nrs /\ queue \in Seq(SUBSET Nrs)
        /\ work \in [Threads -> SUBSET Nrs] /\ at \in [Threads -> Where]
    BY DEF IInv, TasksOK
  <2>7. readAt \in ReadWhere /\ mode \in Mode /\ starts \in 0..MaxStarts /\ started \subseteq Worker
    BY DEF IInv, ReaderOK, ProcessOK
  <2> QED BY <2>1, <2>2, <2>3, <2>4, <2>5, <2>6, <2>7 DEF TypeOK
<1> QED BY <1>1, Inductive, PTL

(***************************************************************************)
(* A cursor, in memory and in the index file, is the place of the line of  *)
(* its transaction, and the month is the one it was confirmed in.  (See    *)
(* IndexLeadsToLine in BlockStore.)                                        *)
(***************************************************************************)
THEOREM CursorsAreRight == Spec => []IndexLeadsToLine
<1>1. IInv => IndexLeadsToLine
  <2> SUFFICES ASSUME IInv PROVE IndexLeadsToLine
    OBVIOUS
  <2>1. \A nr \in DOMAIN mTransactionNrsFileCursors :
          LET cursor == mTransactionNrsFileCursors[nr] IN
          LeadsTo(cursor, nr) /\ file[cursor].msg = entry[nr]
    <3> SUFFICES ASSUME NEW nr \in DOMAIN mTransactionNrsFileCursors
                 PROVE  /\ LeadsTo(mTransactionNrsFileCursors[nr], nr)
                        /\ file[mTransactionNrsFileCursors[nr]].msg = entry[nr]
      OBVIOUS
    <3>1. /\ mTransactionNrsFileCursors[nr] \in DOMAIN file
          /\ file[mTransactionNrsFileCursors[nr]] = Line(nr, entry[nr])
      BY DEF IInv, IndexOK
    <3>2. Line(nr, entry[nr]).nr = nr /\ Line(nr, entry[nr]).msg = entry[nr]
      BY DEF Line
    <3> QED BY <3>1, <3>2 DEF LeadsTo
  <2>2. \A i \in 1..Len(indexFile) : indexFile[i].type = "data" =>
          LeadsTo(indexFile[i].fileCursor, indexFile[i].transactionNr)
    BY DEF IInv, DiskOK, FiledIn, DataIn, LeadsTo
  <2>3. \A nr \in Nrs : mYearMonthAddressIndexEntries[nr] = MonthOf[entry[nr]]
    BY DEF IInv, IndexOK
  <2> QED BY <2>1, <2>2, <2>3 DEF IndexLeadsToLine
<1> QED BY <1>1, Inductive, PTL

(* getTransaction finds every transaction the index has, wherever the      *)
(* write tasks are.  (See ReadFinds in BlockStore.)                        *)
THEOREM GetTransactionFinds == Spec => []ReadFinds
<1>1. IInv => ReadFinds
  BY DEF IInv, ReaderOK, ReadFinds
<1> QED BY <1>1, Inductive, PTL

-----------------------------------------------------------------------------
(***************************************************************************)
(* What holds with a single IO worker: the second inductive invariant.     *)
(***************************************************************************)
Follows(m, n) == m < n /\ \A a \in Accepted : a <= m \/ n <= a

(* The transactions, and those of the index file: numbered from 1 on, and  *)
(* one the next accepted message after the other.                          *)
ChainOK ==
  \A nr \in Nrs : /\ 1..nr \subseteq Nrs
                  /\ nr + 1 \in Nrs => Follows(entry[nr], entry[nr + 1])

ChainedIn(blocks, f) ==
  /\ \A i \in DataIn(blocks) : \A nr \in 1..blocks[i].transactionNr :
       \E k \in DataIn(blocks) : blocks[k].transactionNr = nr
  /\ \A i, k \in DataIn(blocks) :
       blocks[k].transactionNr = blocks[i].transactionNr + 1 =>
         Follows(f[blocks[i].fileCursor].msg, f[blocks[k].fileCursor].msg)
  /\ \A i \in DataIn(blocks) : blocks[i].transactionNr = 1 =>
       1 \in Nrs /\ f[blocks[i].fileCursor].msg = entry[1]

(* A file that can be rebuilt from has them all, as well.                  *)
FileOK ==
  Rebuildable => \A i \in DOMAIN file :
    /\ i = 1 => file[i].nr = 1
    /\ i > 1 => /\ file[i].nr = file[i - 1].nr + 1
                /\ Follows(file[i - 1].msg, file[i].msg)

(* The manager goes on behind the last transaction.                        *)
FreshOK ==
  mode \in {"up", "exiting"} =>
    /\ persistDue => Nrs # {} /\ entry[LastNr] = lastSeq + 1
    /\ ~persistDue /\ Nrs # {} =>
         entry[LastNr] <= lastSeq /\ \A a \in Accepted : a <= entry[LastNr] \/ lastSeq < a

(* The tasks are written in the order of their transactions.               *)
Written ==
  {nr \in Nrs : \/ nr \in Cursored
                \/ \E w \in Threads : at[w] = "cursors" /\ nr \in work[w]}
Ahead == {nr \in Nrs : \E w \in Threads : at[w] \in {"append", "locked"} /\ nr \in work[w]}

OrderOK ==
  /\ \A x \in Written, y \in Nrs \ Written : x < y
  /\ \A w \in Threads : at[w] \in {"append", "locked"} =>
       \A y \in work[w], x \in Nrs \ Written : x < y => x \in work[w]
  /\ \A i \in DOMAIN queue : \A y \in queue[i], x \in Nrs \ Written :
       x < y => x \in Ahead \/ \E k \in 1..i : x \in queue[k]
  /\ mode = "up" => \A x \in Nrs \ Written :
       x \in mTransactionWriteTask \cup Ahead \/ \E k \in DOMAIN queue : x \in queue[k]
  /\ mode = "exiting" /\ at[Closer] = "idle" =>
       Nrs \subseteq Cursored \cup mTransactionWriteTask \cup mTransactionsFromPendingTasks

ThreadsOK ==
  /\ mode = "up" => at[Closer] = "idle"
  /\ mode = "exiting" => queue = <<>>
  /\ \A w \in Worker \ started : at[w] = "idle"

FirstRunOK ==
  mode \in {"up", "exiting"} /\ starts = 0 =>
    /\ \A i \in DOMAIN file : file[i].nr \in Written
    /\ \A i \in 2..Len(file) : file[i - 1].nr < file[i].nr

DataOK ==
  /\ ChainOK /\ FileOK /\ ChainedIn(indexFile, file)
  /\ \A w \in Threads : ChainedIn(snapshot[w], file)

OneByOne == DataOK /\ FreshOK /\ OrderOK /\ ThreadsOK /\ FirstRunOK

-----------------------------------------------------------------------------
(* What stays as it is.                                                    *)

LEMMA ChainStays ==
  ASSUME NEW blocks, NEW f, NEW g, Grows(f, g), FiledIn(blocks, f), ChainedIn(blocks, f)
  PROVE  ChainedIn(blocks, g)
BY DEF ChainedIn, FiledIn, Grows

LEMMA ChainWritten ==
  ASSUME NEW blocks \in Seq(PlainBlock), NEW f, ChainedIn(blocks, f)
  PROVE  ChainedIn(WriteToFile(blocks), f)
<1> DEFINE b == WriteToFile(blocks)
<1>1. DataIn(b) = DataIn(blocks) /\ \A i \in DataIn(blocks) : b[i] = blocks[i]
  BY HashIsNoEntry
<1> HIDE DEF b
<1>2. ChainedIn(b, f)
  BY <1>1 DEF ChainedIn
<1> QED BY <1>2 DEF b

LEMMA ChainNothing ==
  ASSUME NEW f
  PROVE  ChainedIn(<<>>, f)
<1>1. DataIn(<<>>) = {}
  BY DEF DataIn
<1> QED BY <1>1 DEF ChainedIn

(* No transaction, no line and no index block is changed.                  *)
LEMMA DataStays ==
  ASSUME DataOK, UNCHANGED <<file, indexFile, entry, snapshot>>
  PROVE  DataOK'
<1>1. Nrs' = Nrs
  BY DEF Nrs
<1> QED BY <1>1 DEF DataOK, ChainOK, FileOK, Rebuildable, ChainedIn

LEMMA FreshStays ==
  ASSUME FreshOK, UNCHANGED <<entry, lastSeq, persistDue>>,
         mode' \in {"up", "exiting"} => mode \in {"up", "exiting"}
  PROVE  FreshOK'
BY DEF FreshOK, Nrs, LastNr

(* A thread does a step within its task, and what is to be appended stays. *)
LEMMA OrderStays ==
  ASSUME OrderOK, Nrs' = Nrs, Written' = Written, Ahead \subseteq Ahead',
         UNCHANGED <<queue, mTransactionWriteTask, mode>>,
         \A w \in Threads : at'[w] \in {"append", "locked"} =>
           at[w] \in {"append", "locked"} /\ work'[w] = work[w],
         at'[Closer] = "idle" => at[Closer] = "idle",
         Cursored \cup mTransactionsFromPendingTasks
           \subseteq Cursored' \cup mTransactionsFromPendingTasks'
  PROVE  OrderOK'
<1>1. /\ \A x \in Written', y \in Nrs' \ Written' : x < y
      /\ \A w \in Threads : at'[w] \in {"append", "locked"} =>
           \A y \in work'[w], x \in Nrs' \ Written' : x < y => x \in work'[w]
  BY DEF OrderOK
<1>2. \A i \in DOMAIN queue' : \A y \in queue'[i], x \in Nrs' \ Written' :
        x < y => x \in Ahead' \/ \E k \in 1..i : x \in queue'[k]
  <2> HIDE DEF Ahead, Written
  <2> QED BY DEF OrderOK
<1>3. mode' = "up" => \A x \in Nrs' \ Written' :
        x \in mTransactionWriteTask' \cup Ahead' \/ \E k \in DOMAIN queue' : x \in queue'[k]
  <2> HIDE DEF Ahead, Written
  <2> QED BY DEF OrderOK
<1>4. mode' = "exiting" /\ at'[Closer] = "idle" =>
        Nrs' \subseteq Cursored' \cup mTransactionWriteTask' \cup mTransactionsFromPendingTasks'
  BY DEF OrderOK
<1> QED BY <1>1, <1>2, <1>3, <1>4 DEF OrderOK

LEMMA FirstRunStays ==
  ASSUME FirstRunOK, UNCHANGED <<file, starts>>, Written \subseteq Written',
         mode' \in {"up", "exiting"} => mode \in {"up", "exiting"}
  PROVE  FirstRunOK'
BY DEF FirstRunOK

(* The same for steps in which no thread takes or ends a task.             *)
LEMMA AllStays ==
  ASSUME OneByOne,
         UNCHANGED <<file, indexFile, entry, snapshot, mTransactionNrsFileCursors, at, work,
                     queue, mTransactionWriteTask, mTransactionsFromPendingTasks,
                     mode, starts, started>>,
         FreshOK'
  PROVE  OneByOne'
<1>1. Nrs' = Nrs /\ Cursored' = Cursored
  BY DEF Nrs, Cursored
<1>2. Written' = Written /\ Ahead' = Ahead
  BY <1>1 DEF Written, Ahead
<1>3. DataOK'
  BY DataStays DEF OneByOne
<1>4. OrderOK'
  BY <1>1, <1>2, OrderStays DEF OneByOne
<1>5. ThreadsOK'
  BY DEF OneByOne, ThreadsOK
<1>6. FirstRunOK'
  BY <1>2, FirstRunStays DEF OneByOne
<1> QED BY <1>3, <1>4, <1>5, <1>6 DEF OneByOne

(* A thread goes on to p within its task.                                  *)
LEMMA ThreadGoesOn ==
  ASSUME IInv, OneByOne, NEW w \in Threads, NEW p \in Where,
         at[w] # "idle", at[w] \notin {"locked"}, p \notin {"cursors", "idle"},
         p \in {"append", "locked"} => at[w] = "append",
         at[w] = "append" => p = "locked",
         at[w] = "cursors" => Cursored' = Cursored \cup work[w],
         at[w] # "cursors" => Cursored' = Cursored,
         Goto(w, p),
         work' = work \/ (at[w] = "finish" /\ work' = [work EXCEPT ![w] = {}]),
         UNCHANGED <<file, entry, queue, mTransactionWriteTask, mTransactionsFromPendingTasks,
                     manager, process>>,
         ChainedIn(indexFile, file)',
         \A v \in Threads : ChainedIn(snapshot[v], file)'
  PROVE  OneByOne'
<1>1. at \in [Threads -> Where] /\ work \in [Threads -> SUBSET Nrs]
  BY DEF IInv, TasksOK
<1>2. /\ Nrs' = Nrs
      /\ \A v \in Threads : /\ v # w => at'[v] = at[v] /\ work'[v] = work[v]
                            /\ v = w => at'[v] = p
                            /\ work'[v] \subseteq work[v]
                            /\ v = w /\ at[w] # "finish" => work'[v] = work[v]
  BY <1>1 DEF Goto, Nrs
<1>3. Written' = Written
  <2>1. at[w] # "cursors" => Cursored' = Cursored
    OBVIOUS
  <2>2. at[w] = "cursors" => Cursored' = Cursored \cup work[w]
    OBVIOUS
  <2>3. at'[w] # "cursors"
    BY <1>2
  <2> HIDE DEF Cursored
  <2> QED BY <1>1, <1>2, <2>1, <2>2, <2>3 DEF Written
<1>4. Ahead \subseteq Ahead'
  BY <1>2 DEF Ahead
<1>5. DataOK'
  <2>1. ChainOK' /\ FileOK'
    BY <1>2 DEF OneByOne, DataOK, ChainOK, FileOK, Rebuildable
  <2> QED BY <2>1 DEF DataOK
<1>6. FreshOK'
  BY FreshStays DEF OneByOne, manager, process
<1>7. OrderOK'
  <2>1. \A v \in Threads : at'[v] \in {"append", "locked"} =>
          at[v] \in {"append", "locked"} /\ work'[v] = work[v]
    BY <1>2
  <2>2. at'[Closer] = "idle" => at[Closer] = "idle"
    BY <1>2 DEF Threads
  <2>3. Cursored \subseteq Cursored'
    BY <1>1 DEF Where
  <2> HIDE DEF Cursored, Written, Ahead
  <2> QED BY <1>2, <1>3, <1>4, <2>1, <2>2, <2>3, OrderStays DEF OneByOne, process
<1>8. ThreadsOK'
  <2>1. mode = "up" => w # Closer
    BY DEF OneByOne, ThreadsOK
  <2>2. w \notin Worker \ started
    BY DEF OneByOne, ThreadsOK
  <2> QED BY <1>2, <2>1, <2>2 DEF OneByOne, ThreadsOK, process, Threads
<1>9. FirstRunOK'
  BY <1>3, FirstRunStays DEF OneByOne, process
<1> QED BY <1>5, <1>6, <1>7, <1>8, <1>9 DEF OneByOne

-----------------------------------------------------------------------------
(* The ordering manager's thread, the timer, and getTransaction.           *)

LEMMA LastNrIsMember ==
  ASSUME IInv
  PROVE  /\ LastNr \in Nat /\ \A nr \in Nrs : nr <= LastNr
         /\ (LastNr = 0 /\ Nrs = {}) \/ LastNr \in Nrs
<1>1. MaxMessage \in Nat /\ Nrs \in SUBSET Nr /\ \A nr \in Nrs : nr <= MaxMessage
  BY NrsFinite, StoreAssumption
<1>2. LastNr \in Nat /\ \A nr \in Nrs : nr <= LastNr
  BY <1>1, LastNrIsLast
<1>3. Nrs # {} => Max(Nrs) \in Nrs
  <2>1. Nrs \in SUBSET Nat
    BY <1>1 DEF Nr
  <2> QED BY <1>1, <2>1, MaxIsGreatest
<1> QED BY <1>2, <1>3 DEF LastNr

LEMMA EntryNat ==
  ASSUME IInv
  PROVE  /\ Accepted \subseteq Nat
         /\ \A nr \in Nrs : entry[nr] \in Nat /\ entry[nr] \in Accepted /\ nr \in Nat
<1>1. Accepted \subseteq Nat
  BY StoreAssumption
<1> QED BY <1>1 DEF IInv, IndexOK, Nr

LEMMA ConfirmInOrder ==
  ASSUME IInv, OneByOne, Confirm
  PROVE  OneByOne'
<1> DEFINE m == lastSeq + 1
           nr == LastNr + 1
<1>1. /\ mode = "up" /\ persistDue = FALSE /\ m \in Accepted
      /\ mTransactionWriteTask' = mTransactionWriteTask \cup {nr}
      /\ persistDue' = TRUE
      /\ UNCHANGED <<disk, mTransactionsFromPendingTasks, tasks, lastSeq, process,
                     mTransactionNrsFileCursors>>
      /\ entry' = [k \in Nrs \cup {nr} |-> IF k = nr THEN m ELSE entry[k]]
  <2>1. persistDue = FALSE
    BY Zenon DEF Confirm, IInv, ManagerOK
  <2> QED BY <2>1 DEF Confirm, AddIndicesForTransaction
<1>2. lastSeq \in Nat /\ Nrs \in SUBSET Nat
  BY StoreAssumption, EntryNat DEF IInv, ManagerOK
<1>3. /\ LastNr \in Nat /\ \A k \in Nrs : k <= LastNr
      /\ (LastNr = 0 /\ Nrs = {}) \/ LastNr \in Nrs
  BY LastNrIsMember
<1>4. nr \in Nat /\ nr = LastNr + 1
  BY <1>3
<1> HIDE DEF nr
<1>5. nr \notin Nrs /\ \A k \in Nrs : k < nr
  BY <1>2, <1>3, <1>4
<1>6. Nrs' = Nrs \cup {nr} /\ \A k \in Nrs : entry'[k] = entry[k]
  BY <1>1, <1>5 DEF Nrs
<1>7. entry'[nr] = m
  BY <1>1
<1>8. ChainOK'
  <2>1. \A k \in Nrs : 1..k \subseteq Nrs /\ (k + 1 \in Nrs => Follows(entry[k], entry[k + 1]))
    BY DEF OneByOne, DataOK, ChainOK
  <2>2. 1..nr \subseteq Nrs'
    <3>1. \A k \in 1..nr : k = nr \/ k \in 1..LastNr
      BY <1>3, <1>4
    <3>2. 1..LastNr \subseteq Nrs
      BY <1>3, <2>1
    <3> QED BY <1>6, <3>1, <3>2
  <2>3. \A k \in Nrs' : 1..k \subseteq Nrs'
    BY <1>6, <2>1, <2>2
  <2>4. ASSUME NEW k \in Nrs, k + 1 = nr PROVE Follows(entry[k], m)
    <3>1. k = LastNr /\ Nrs # {}
      BY <1>2, <1>3, <1>4, <2>4
    <3>2. /\ entry[k] <= lastSeq
          /\ \A a \in Accepted : a <= entry[k] \/ lastSeq < a
      BY <1>1, <3>1 DEF OneByOne, FreshOK
    <3>3. Accepted \subseteq Nat /\ entry[k] \in Nat
      BY EntryNat
    <3> QED BY <1>2, <3>2, <3>3 DEF Follows
  <2>5. ASSUME NEW k \in Nrs', k + 1 \in Nrs' PROVE Follows(entry'[k], entry'[k + 1])
    <3>1. CASE k \in Nrs /\ k + 1 \in Nrs
      BY <1>6, <2>1, <3>1
    <3>2. CASE k \in Nrs /\ k + 1 = nr
      <4>1. Follows(entry[k], m)
        BY <2>4, <3>2
      <4> QED BY <1>6, <1>7, <3>2, <4>1
    <3>3. k \in Nrs
      <4>1. k # nr
        BY <1>2, <1>4, <1>5, <1>6, <2>5
      <4> QED BY <1>6, <4>1
    <3> QED BY <1>6, <2>5, <3>1, <3>2, <3>3
  <2> QED BY <2>3, <2>5 DEF ChainOK, Follows
<1>10. DataOK'
  <2>1. FileOK'
    BY <1>1 DEF OneByOne, DataOK, FileOK, Rebuildable, disk
  <2>2. ChainedIn(indexFile, file)' /\ \A w \in Threads : ChainedIn(snapshot[w], file)'
    BY <1>1, <1>6 DEF OneByOne, DataOK, ChainedIn, disk, tasks
  <2> QED BY <1>8, <2>1, <2>2 DEF DataOK
<1>11. FreshOK'
  <2>1. LastNr' = nr
    <3>1. Nrs' \in SUBSET Nat /\ Nrs' # {} /\ \A k \in Nrs' : k <= nr
      BY <1>2, <1>4, <1>5, <1>6
    <3>2. Max(Nrs') \in Nrs' /\ \A k \in Nrs' : k <= Max(Nrs')
      BY <1>4, <3>1, MaxIsGreatest
    <3>3. LastNr' = Max(Nrs')
      BY <3>1 DEF LastNr
    <3> QED BY <1>4, <1>6, <3>1, <3>2, <3>3
  <2>2. Nrs' # {} /\ entry'[LastNr'] = lastSeq' + 1
    BY <1>1, <1>6, <1>7, <2>1
  <2>3. ~persistDue' => FALSE
    <3>1. persistDue' = TRUE
      BY <1>1
    <3> QED BY <3>1, Zenon
  <2> QED BY <2>2, <2>3 DEF FreshOK
<1>12. Written' = Written /\ Ahead' = Ahead
  <2>1. Cursored' = Cursored /\ work' = work /\ at' = at
    BY <1>1 DEF Cursored, tasks
  <2>2. nr \notin Cursored /\ \A w \in Threads : nr \notin work[w]
    BY <1>5 DEF IInv, IndexOK, TasksOK, Cursored
  <2> HIDE DEF Cursored
  <2> QED BY <1>6, <2>1, <2>2 DEF Written, Ahead
<1>13. Nrs' \ Written' = (Nrs \ Written) \cup {nr}
  BY <1>5, <1>6, <1>12 DEF Written
<1>14. OrderOK'
  <2>1. Written \subseteq Nrs
    BY DEF Written
  <2>2. \A x \in Written', y \in Nrs' \ Written' : x < y
    BY <1>5, <1>12, <1>13, <2>1 DEF OneByOne, OrderOK
  <2>3. \A k \in Nrs : ~(nr < k)
    BY <1>2, <1>4, <1>5
  <2>4. \A w \in Threads : at'[w] \in {"append", "locked"} =>
          \A y \in work'[w], x \in Nrs' \ Written' : x < y => x \in work'[w]
    <3>1. \A w \in Threads : work[w] \subseteq Nrs
      BY DEF IInv, TasksOK
    <3>2. work' = work /\ at' = at
      BY <1>1 DEF tasks
    <3> QED BY <1>13, <2>3, <3>1, <3>2 DEF OneByOne, OrderOK
  <2>5. \A i \in DOMAIN queue' : \A y \in queue'[i], x \in Nrs' \ Written' :
          x < y => x \in Ahead' \/ \E k \in 1..i : x \in queue'[k]
    <3>1. \A i \in DOMAIN queue : queue[i] \subseteq Nrs
      BY DEF IInv, TasksOK
    <3>2. queue' = queue
      BY <1>1 DEF tasks
    <3> QED BY <1>12, <1>13, <2>3, <3>1, <3>2 DEF OneByOne, OrderOK
  <2>6. \A x \in Nrs' \ Written' :
          x \in mTransactionWriteTask' \cup Ahead' \/ \E k \in DOMAIN queue' : x \in queue'[k]
    <3>1. queue' = queue
      BY <1>1 DEF tasks
    <3>2. \A x \in Nrs \ Written :
            x \in mTransactionWriteTask \cup Ahead \/ \E k \in DOMAIN queue : x \in queue[k]
      BY <1>1 DEF OneByOne, OrderOK
    <3> QED BY <1>1, <1>12, <1>13, <3>1, <3>2
  <2>7. mode' = "up"
    BY <1>1 DEF process
  <2> QED BY <2>2, <2>4, <2>5, <2>6, <2>7 DEF OrderOK
<1>15. ThreadsOK'
  BY <1>1 DEF OneByOne, ThreadsOK, tasks, process
<1>16. FirstRunOK'
  BY <1>1, <1>12, FirstRunStays DEF OneByOne, disk, process
<1> QED BY <1>10, <1>11, <1>14, <1>15, <1>16 DEF OneByOne

LEMMA ManagerInOrder ==
  ASSUME IInv, OneByOne, Persist \/ Skip
  PROVE  OneByOne'
<1>1. /\ mode \in {"up", "exiting"} /\ lastSeq' = lastSeq + 1 /\ persistDue' = FALSE
      /\ UNCHANGED <<file, indexFile, blockVars, tasks, process>>
  <2>1. CASE Persist
    BY <2>1 DEF Persist
  <2>2. CASE Skip
    <3>1. persistDue' = FALSE
      BY <2>2, Zenon DEF IInv, ManagerOK, Skip
    <3> QED BY <2>2, <3>1 DEF Skip
  <2> QED BY <2>1, <2>2
<1>2. Nrs' = Nrs /\ LastNr' = LastNr /\ entry' = entry
  BY <1>1 DEF Nrs, LastNr, blockVars, index
<1>3. lastSeq \in Nat /\ Accepted \subseteq Nat
  BY StoreAssumption DEF IInv, ManagerOK
<1>4. ASSUME Nrs # {}
      PROVE  entry[LastNr] <= lastSeq + 1
             /\ \A a \in Accepted : a <= entry[LastNr] \/ lastSeq + 1 < a
  <2>1. CASE Persist
    <3>1. entry[LastNr] = lastSeq + 1
      BY <2>1 DEF Persist, OneByOne, FreshOK
    <3> QED BY <1>3, <3>1
  <2>2. CASE Skip
    <3>1. /\ lastSeq + 1 \notin Accepted
          /\ entry[LastNr] <= lastSeq /\ \A a \in Accepted : a <= entry[LastNr] \/ lastSeq < a
      BY <1>4, <2>2 DEF Skip, OneByOne, FreshOK
    <3>2. entry[LastNr] \in Nat
      BY <1>4, LastNrIsMember, EntryNat
    <3> QED BY <1>3, <3>1, <3>2
  <2> QED BY <2>1, <2>2
<1>5. FreshOK'
  <2>1. persistDue' => FALSE
    BY <1>1, Zenon
  <2> QED BY <1>1, <1>2, <1>4, <2>1 DEF FreshOK
<1> QED BY <1>1, <1>5, AllStays DEF blockVars, index, tasks, process

LEMMA CacheInOrder ==
  ASSUME IInv, OneByOne, Read \/ \E nr \in Nrs : CacheTimeout(nr)
  PROVE  OneByOne'
<1>1. UNCHANGED <<disk, index, mTransactionNrsFileCursors, mTransactionWriteTask,
                  mTransactionsFromPendingTasks, tasks, manager, process>>
  BY DEF Read, GetTransaction, IsTransactionPending, GetFromObserver, GetFileCursor, ReadLine,
         ReadStep, CacheTimeout
<1>2. FreshOK'
  BY <1>1, FreshStays DEF OneByOne, index, manager, process
<1> QED BY <1>1, <1>2, AllStays DEF disk, index, tasks, process

(* The timer hands a task over, and exit drops those no thread has taken.  *)
LEMMA CallFromTimerInOrder ==
  ASSUME IInv, OneByOne, CallFromTimer
  PROVE  OneByOne'
<1>1. /\ mode = "up" /\ queue' = Append(queue, mTransactionWriteTask)
      /\ UNCHANGED <<disk, index, mTransactionNrsFileCursors, work, at, snapshot,
                     manager, process>>
  BY DEF CallFromTimer
<1>2. Nrs' = Nrs /\ Cursored' = Cursored
  BY <1>1 DEF Nrs, Cursored, index
<1>3. Written' = Written /\ Ahead' = Ahead
  BY <1>1, <1>2 DEF Written, Ahead
<1>4. DataOK' /\ FreshOK'
  BY <1>1, DataStays, FreshStays DEF OneByOne, disk, index, manager, process
<1>5. OrderOK'
  <2>1. queue \in Seq(SUBSET Nrs) /\ mTransactionWriteTask \in SUBSET Nrs
    BY DEF IInv, TasksOK
  <2>2. /\ \A i \in DOMAIN queue : i \in DOMAIN queue' /\ queue'[i] = queue[i] /\ i \in Nat
        /\ Len(queue) \in Nat /\ DOMAIN queue = 1..Len(queue)
        /\ DOMAIN queue' = 1..(Len(queue) + 1)
        /\ queue'[Len(queue) + 1] = mTransactionWriteTask
    BY <1>1, <2>1
  <2>3. ASSUME NEW x \in Nrs \ Written
        PROVE  x \in Ahead \/ \E k \in DOMAIN queue' : x \in queue'[k]
    <3>1. x \in mTransactionWriteTask \cup Ahead \/ \E k \in DOMAIN queue : x \in queue[k]
      BY <1>1 DEF OneByOne, OrderOK
    <3> QED BY <2>2, <3>1
  <2>4. ASSUME NEW i \in DOMAIN queue', NEW y \in queue'[i], NEW x \in Nrs \ Written, x < y
        PROVE  x \in Ahead \/ \E k \in 1..i : x \in queue'[k]
    <3>1. CASE i \in DOMAIN queue
      <4>1. x \in Ahead \/ \E k \in 1..i : x \in queue[k]
        BY <2>2, <2>4, <3>1 DEF OneByOne, OrderOK
      <4>2. 1..i \subseteq DOMAIN queue
        BY <2>2, <3>1
      <4> QED BY <2>2, <4>1, <4>2
    <3>2. CASE i = Len(queue) + 1
      BY <2>2, <2>3, <3>2
    <3> QED BY <2>2, <3>1, <3>2
  <2>5. mode' = "up"
    BY <1>1 DEF process
  <2>6. /\ \A x \in Written', y \in Nrs' \ Written' : x < y
        /\ \A w \in Threads : at'[w] \in {"append", "locked"} =>
             \A y \in work'[w], x \in Nrs' \ Written' : x < y => x \in work'[w]
    BY <1>1, <1>2, <1>3 DEF OneByOne, OrderOK
  <2>7. \A i \in DOMAIN queue' : \A y \in queue'[i], x \in Nrs' \ Written' :
          x < y => x \in Ahead' \/ \E k \in 1..i : x \in queue'[k]
    BY <1>2, <1>3, <2>4
  <2>8. \A x \in Nrs' \ Written' :
          x \in mTransactionWriteTask' \cup Ahead' \/ \E k \in DOMAIN queue' : x \in queue'[k]
    BY <1>2, <1>3, <2>3
  <2> QED BY <2>5, <2>6, <2>7, <2>8 DEF OrderOK
<1>6. ThreadsOK'
  BY <1>1 DEF OneByOne, ThreadsOK, process
<1>7. FirstRunOK'
  BY <1>1, <1>3, FirstRunStays DEF OneByOne, disk, process
<1> QED BY <1>4, <1>5, <1>6, <1>7 DEF OneByOne

LEMMA ExitInOrder ==
  ASSUME IInv, OneByOne, Exit
  PROVE  OneByOne'
<1>1. /\ mode = "up" /\ mode' = "exiting" /\ queue' = <<>>
      /\ UNCHANGED <<disk, blockVars, work, at, snapshot, manager, starts, started>>
  BY DEF Exit
<1>2. Nrs' = Nrs /\ Cursored' = Cursored
  BY <1>1 DEF Nrs, Cursored, index, blockVars
<1>3. Written' = Written
  BY <1>1, <1>2 DEF Written
<1>4. DataOK'
  BY <1>1, DataStays DEF OneByOne, disk, index, blockVars
<1>5. FreshOK'
  BY <1>1, FreshStays DEF OneByOne, index, blockVars, manager
<1>6. OrderOK'
  <2>1. Nrs \subseteq Cursored \cup mTransactionWriteTask \cup mTransactionsFromPendingTasks
    BY <1>1 DEF IInv, ReaderOK
  <2>2. Nrs' \subseteq Cursored' \cup mTransactionWriteTask' \cup mTransactionsFromPendingTasks'
    BY <1>1, <1>2, <2>1 DEF blockVars
  <2>3. /\ \A x \in Written', y \in Nrs' \ Written' : x < y
        /\ \A w \in Threads : at'[w] \in {"append", "locked"} =>
             \A y \in work'[w], x \in Nrs' \ Written' : x < y => x \in work'[w]
    BY <1>1, <1>2, <1>3 DEF OneByOne, OrderOK
  <2>4. DOMAIN queue' = {}
    BY <1>1
  <2> QED BY <1>1, <2>2, <2>3, <2>4 DEF OrderOK
<1>7. ThreadsOK'
  BY <1>1 DEF OneByOne, ThreadsOK
<1>8. FirstRunOK'
  BY <1>1, <1>3, FirstRunStays DEF OneByOne, disk
<1> QED BY <1>4, <1>5, <1>6, <1>7, <1>8 DEF OneByOne

-----------------------------------------------------------------------------
(* A write task, from one thread on to the file.                           *)

LEMMA TakeInOrder ==
  ASSUME IInv, OneByOne, OneWorker, NEW w \in Threads, Take(w)
  PROVE  OneByOne'
<1>1. /\ queue # <<>> /\ w \in started /\ at[w] = "idle"
      /\ work' = [work EXCEPT ![w] = Head(queue)]
      /\ queue' = Tail(queue)
      /\ at' = [at EXCEPT ![w] = "append"]
      /\ UNCHANGED <<disk, blockVars, snapshot, manager, process>>
  BY DEF Take, Goto
<1>2. Nrs' = Nrs /\ Cursored' = Cursored
  BY <1>1 DEF Nrs, Cursored, index, blockVars
<1>3. mode = "up" /\ at[Closer] = "idle"
  BY <1>1, ProcessRuns DEF OneByOne, ThreadsOK
<1>4. \A v \in Threads : at[v] = "idle"
  <2>1. started \subseteq Worker /\ IsFiniteSet(started)
    BY StoreAssumption, FS_Subset DEF IInv, ProcessOK
  <2>2. \A v \in started : v = w
    BY <1>1, <2>1, FS_Singleton DEF OneWorker
  <2> QED BY <1>1, <1>3, <2>2 DEF OneByOne, ThreadsOK, Threads
<1>5. /\ work \in [Threads -> SUBSET Nrs] /\ at \in [Threads -> Where]
      /\ queue \in Seq(SUBSET Nrs)
  BY DEF IInv, TasksOK
<1>6. /\ 1 \in DOMAIN queue /\ Head(queue) = queue[1] /\ queue[1] \subseteq Nrs
      /\ DOMAIN queue = 1..Len(queue) /\ Len(queue) \in Nat
      /\ DOMAIN queue' = 1..(Len(queue) - 1)
      /\ \A i \in DOMAIN queue' : queue'[i] = queue[i + 1]
  BY <1>1, <1>5
<1>7. \A v \in Threads : /\ v # w => work'[v] = work[v] /\ at'[v] = at[v]
                         /\ v = w => work'[v] = queue[1] /\ at'[v] = "append"
  BY <1>1, <1>5, <1>6
<1>8. Written' = Written /\ Ahead = {} /\ Ahead' = queue[1]
  BY <1>2, <1>4, <1>6, <1>7 DEF Written, Ahead
<1>9. DataOK' /\ FreshOK'
  BY <1>1, DataStays, FreshStays DEF OneByOne, disk, index, blockVars, manager, process
<1>10. OrderOK'
  <2>1. ASSUME NEW i \in DOMAIN queue, NEW y \in queue[i], NEW x \in Nrs \ Written, x < y
        PROVE  \E k \in 1..i : x \in queue[k]
    BY <1>8, <2>1 DEF OneByOne, OrderOK
  <2>2. ASSUME NEW v \in Threads, at'[v] \in {"append", "locked"},
               NEW y \in work'[v], NEW x \in Nrs' \ Written', x < y
        PROVE  x \in work'[v]
    <3>1. v = w /\ y \in queue[1]
      BY <1>4, <1>7, <2>2
    <3>2. \E k \in 1..1 : x \in queue[k]
      BY <1>2, <1>6, <1>8, <2>1, <2>2, <3>1
    <3> QED BY <1>7, <3>1, <3>2
  <2>3. ASSUME NEW n \in Nat, n + 1 \in DOMAIN queue, NEW x, \E k \in 1..(n + 1) : x \in queue[k]
        PROVE  x \in Ahead' \/ \E k \in 1..n : x \in queue'[k]
    <3>1. PICK k \in 1..(n + 1) : x \in queue[k]
      BY <2>3
    <3>2. CASE k = 1
      BY <1>8, <3>1, <3>2
    <3>3. CASE k # 1
      <4>1. k - 1 \in 1..n /\ k - 1 \in DOMAIN queue' /\ (k - 1) + 1 = k
        BY <1>6, <2>3, <3>3
      <4>2. x \in queue'[k - 1]
        BY <1>6, <3>1, <4>1
      <4> QED BY <4>1, <4>2
    <3> QED BY <3>2, <3>3
  <2>4. ASSUME NEW i \in DOMAIN queue', NEW y \in queue'[i], NEW x \in Nrs' \ Written', x < y
        PROVE  x \in Ahead' \/ \E k \in 1..i : x \in queue'[k]
    <3>1. i \in Nat /\ i + 1 \in DOMAIN queue /\ y \in queue[i + 1]
      BY <1>6
    <3>2. \E k \in 1..(i + 1) : x \in queue[k]
      BY <1>2, <1>8, <2>1, <2>4, <3>1
    <3> QED BY <2>3, <3>1, <3>2
  <2>5. ASSUME NEW x \in Nrs' \ Written'
        PROVE  x \in mTransactionWriteTask' \cup Ahead' \/ \E k \in DOMAIN queue' : x \in queue'[k]
    <3>1. x \in mTransactionWriteTask \/ \E k \in DOMAIN queue : x \in queue[k]
      BY <1>2, <1>3, <1>8 DEF OneByOne, OrderOK
    <3>2. CASE \E k \in DOMAIN queue : x \in queue[k]
      <4>1. Len(queue) - 1 \in Nat /\ (Len(queue) - 1) + 1 = Len(queue) /\ Len(queue) \in DOMAIN queue
        BY <1>6
      <4>2. \E k \in 1..((Len(queue) - 1) + 1) : x \in queue[k]
        BY <1>6, <3>2, <4>1
      <4>3. x \in Ahead' \/ \E k \in 1..(Len(queue) - 1) : x \in queue'[k]
        BY <2>3, <4>1, <4>2
      <4> QED BY <1>6, <4>3
    <3> QED BY <1>1, <3>1, <3>2 DEF blockVars
  <2>6. \A x \in Written', y \in Nrs' \ Written' : x < y
    BY <1>2, <1>8 DEF OneByOne, OrderOK
  <2>7. mode' = "up"
    BY <1>1, <1>3 DEF process
  <2> QED BY <2>2, <2>4, <2>5, <2>6, <2>7 DEF OrderOK
<1>11. ThreadsOK'
  <2>1. w # Closer /\ Closer \in Threads
    BY <1>1, StoreAssumption DEF IInv, ProcessOK, Threads
  <2>2. w \notin Worker \ started
    BY <1>1
  <2> QED BY <1>1, <1>3, <1>7, <2>1, <2>2 DEF OneByOne, ThreadsOK, process, Threads
<1>12. FirstRunOK'
  BY <1>1, <1>8, FirstRunStays DEF OneByOne, disk, process
<1> QED BY <1>9, <1>10, <1>11, <1>12 DEF OneByOne

(* The process is down, or starts to be: memory is empty.                  *)
LEMMA AtRest ==
  ASSUME mode' \notin {"up", "exiting"}, Cursored' = {}, queue' = <<>>,
         \A w \in Threads : work'[w] = {} /\ at'[w] = "idle"
  PROVE  FreshOK' /\ OrderOK' /\ ThreadsOK' /\ FirstRunOK'
<1>1. Written' = {}
  BY DEF Written
<1>2. FreshOK' /\ FirstRunOK'
  BY DEF FreshOK, FirstRunOK
<1>3. DOMAIN queue' = {}
  OBVIOUS
<1>4. OrderOK'
  BY <1>1, <1>3 DEF OrderOK
<1>5. ThreadsOK'
  BY DEF ThreadsOK, Threads
<1> QED BY <1>2, <1>4, <1>5

LEMMA DownInOrder ==
  ASSUME IInv, OneByOne, NEW how \in Mode \ {"up", "exiting"}, Down(how)
  PROVE  OneByOne'
<1>1. /\ mode' = how /\ ForgetMemory /\ UNCHANGED <<index, starts, started>>
      /\ file' = file \/ file' = Append(file, Torn)
      /\ indexFile' = indexFile \/ \E w \in Threads : indexFile' = snapshot[w]
  BY DEF Down
<1>2. Nrs' = Nrs /\ entry' = entry
  BY <1>1 DEF Nrs, index
<1>3. /\ file \in Seq(LineType) /\ Torn \in LineType
      /\ FiledIn(indexFile, file) /\ \A w \in Threads : FiledIn(snapshot[w], file)
  BY StoreAssumption DEF IInv, DiskOK, TasksOK, Torn, Line, LineType
<1>4. Grows(file, file')
  BY <1>1, <1>3, Appended DEF Grows
<1>5. ChainOK'
  BY <1>2 DEF OneByOne, DataOK, ChainOK
<1>6. FileOK'
  <2>1. CASE file' = file
    BY <2>1 DEF OneByOne, DataOK, FileOK, Rebuildable
  <2>2. CASE file' = Append(file, Torn)
    <3>1. Len(file') \in 1..Len(file') /\ file'[Len(file')] = Torn
      BY <1>3, <2>2
    <3>2. ~Rebuildable'
      BY <3>1 DEF Rebuildable
    <3> QED BY <3>2 DEF FileOK
  <2> QED BY <1>1, <2>1, <2>2
<1>7. ChainedIn(indexFile, file)'
  <2>1. ChainedIn(indexFile', file')
    BY <1>1, <1>3, <1>4, ChainStays DEF OneByOne, DataOK
  <2> QED BY <1>2, <2>1 DEF ChainedIn
<1>8. \A w \in Threads : ChainedIn(snapshot[w], file)'
  <2>1. DataIn(<<>>) = {} /\ \A w \in Threads : snapshot'[w] = <<>>
    BY <1>1 DEF ForgetMemory, DataIn
  <2> QED BY <2>1 DEF ChainedIn
<1>9. FreshOK' /\ OrderOK' /\ ThreadsOK' /\ FirstRunOK'
  <2>1. Cursored' = {}
    BY <1>1 DEF ForgetMemory, Cursored, NoCursors
  <2> QED BY <1>1, <2>1, AtRest DEF ForgetMemory
<1> QED BY <1>5, <1>6, <1>7, <1>8, <1>9 DEF OneByOne, DataOK

LEMMA FileTasksInOrder ==
  ASSUME IInv, OneByOne, NEW w \in Threads,
         LockFile(w) \/ Truncate(w) \/ Store(w) \/ (w = Closer /\ CloseIndex)
  PROVE  OneByOne'
<1>1. /\ ChainedIn(indexFile, file) /\ snapshot \in [Threads -> Seq(PlainBlock)]
      /\ \A v \in Threads : ChainedIn(snapshot[v], file)
  BY DEF IInv, TasksOK, OneByOne, DataOK
<1>2. ASSUME UNCHANGED blockVars PROVE Nrs' = Nrs /\ entry' = entry /\ Cursored' = Cursored
  BY <1>2 DEF Nrs, Cursored, index, blockVars
<1>3. CASE LockFile(w)
  <2>1. /\ at[w] = "append" /\ Goto(w, "locked")
        /\ UNCHANGED <<disk, blockVars, queue, work, snapshot, manager, process>>
    BY <1>3 DEF LockFile
  <2>2. Nrs' = Nrs /\ entry' = entry /\ Cursored' = Cursored
    BY <1>2, <2>1
  <2>3. ChainedIn(indexFile, file)' /\ \A v \in Threads : ChainedIn(snapshot[v], file)'
    BY <1>1, <2>1, <2>2 DEF ChainedIn, disk
  <2> QED BY <2>1, <2>2, <2>3, ThreadGoesOn DEF Where, disk, blockVars
<1>4. CASE Truncate(w)
  <2>1. /\ at[w] = "store" /\ Goto(w, "storing") /\ indexFile' = <<>>
        /\ UNCHANGED <<file, blockVars, queue, work, snapshot, manager, process>>
    BY <1>4 DEF Truncate
  <2>2. Nrs' = Nrs /\ entry' = entry /\ Cursored' = Cursored
    BY <1>2, <2>1
  <2>3. ChainedIn(indexFile, file)' /\ \A v \in Threads : ChainedIn(snapshot[v], file)'
    <3>1. ChainedIn(indexFile', file')
      BY <2>1, ChainNothing
    <3> QED BY <1>1, <2>1, <2>2, <3>1 DEF ChainedIn
  <2> QED BY <2>1, <2>2, <2>3, ThreadGoesOn DEF Where, blockVars
<1>5. CASE Store(w)
  <2>1. /\ at[w] = "storing" /\ Goto(w, "finish") /\ indexFile' = WriteToFile(snapshot[w])
        /\ snapshot' = [snapshot EXCEPT ![w] = <<>>]
        /\ UNCHANGED <<file, blockVars, queue, work, manager, process>>
    BY <1>5 DEF Store
  <2>2. Nrs' = Nrs /\ entry' = entry /\ Cursored' = Cursored
    BY <1>2, <2>1
  <2>3. ChainedIn(indexFile, file)' /\ \A v \in Threads : ChainedIn(snapshot[v], file)'
    <3>1. ChainedIn(indexFile', file')
      BY <1>1, <2>1, ChainWritten
    <3>2. \A v \in Threads : snapshot'[v] = <<>> \/ snapshot'[v] = snapshot[v]
      BY <1>1, <2>1
    <3>3. \A v \in Threads : ChainedIn(snapshot'[v], file')
      BY <1>1, <2>1, <3>2, ChainNothing
    <3> QED BY <2>2, <3>1, <3>3 DEF ChainedIn
  <2> QED BY <2>1, <2>2, <2>3, ThreadGoesOn DEF Where, blockVars
<1>6. CASE w = Closer /\ CloseIndex
  <2>1. /\ at[w] = "finish" /\ Goto(w, "index") /\ work' = [work EXCEPT ![w] = {}]
        /\ UNCHANGED <<disk, blockVars, queue, snapshot, manager, process>>
    BY <1>6 DEF CloseIndex
  <2>2. Nrs' = Nrs /\ entry' = entry /\ Cursored' = Cursored
    BY <1>2, <2>1
  <2>3. ChainedIn(indexFile, file)' /\ \A v \in Threads : ChainedIn(snapshot[v], file)'
    BY <1>1, <2>1, <2>2 DEF ChainedIn, disk
  <2> QED BY <2>1, <2>2, <2>3, ThreadGoesOn DEF Where, disk, blockVars
<1> QED BY <1>3, <1>4, <1>5, <1>6

LEMMA SetFileCursorsInOrder ==
  ASSUME IInv, OneByOne, NEW w \in Threads, SetFileCursors(w)
  PROVE  OneByOne'
<1> DEFINE ended == \E nr \in work[w] : PlaceOf(nr) = 1 /\ nr > Min(Nrs)
<1>1. CASE ended
  <2>1. Down("terminated") /\ "terminated" \in Mode \ {"up", "exiting"}
    BY <1>1 DEF SetFileCursors, Mode
  <2> QED BY <2>1, DownInOrder
<1>2. CASE ~ended
  <2>1. /\ at[w] = "cursors" /\ Goto(w, "index")
        /\ DOMAIN mTransactionNrsFileCursors' = DOMAIN mTransactionNrsFileCursors \cup work[w]
        /\ UNCHANGED <<disk, index, mTransactionWriteTask, mTransactionsFromPendingTasks,
                       queue, work, snapshot, manager, process>>
    BY <1>2 DEF SetFileCursors
  <2>2. Nrs' = Nrs /\ entry' = entry /\ Cursored' = Cursored \cup work[w]
    BY <2>1 DEF Nrs, Cursored, index
  <2>3. ChainedIn(indexFile, file)' /\ \A v \in Threads : ChainedIn(snapshot[v], file)'
    BY <2>1, <2>2 DEF OneByOne, DataOK, ChainedIn, disk
  <2> QED BY <2>1, <2>2, <2>3, ThreadGoesOn DEF Where, disk
<1> QED BY <1>1, <1>2

LEMMA SerializeInOrder ==
  ASSUME IInv, OneByOne, NEW w \in Threads, Serialize(w)
  PROVE  OneByOne'
<1>1. CASE Nrs \subseteq Cursored
  <2>1. PICK p \in {"finish", "store"} : Goto(w, p)
    BY <1>1 DEF Serialize, Cursored
  <2>2. /\ at[w] = "index"
        /\ snapshot' = [snapshot EXCEPT ![w] = IndexBlocks(IndexNow)]
        /\ UNCHANGED <<disk, blockVars, queue, work, manager, process>>
    BY <1>1 DEF Serialize, Cursored
  <2>3. /\ snapshot \in [Threads -> Seq(PlainBlock)]
        /\ \A v \in Threads : ChainedIn(snapshot[v], file)
    BY DEF IInv, TasksOK, OneByOne, DataOK
  <2>4. Nrs' = Nrs /\ entry' = entry /\ Cursored' = Cursored
    BY <2>2 DEF Nrs, Cursored, index, blockVars
  <2>5. ChainedIn(IndexBlocks(IndexNow), file)
    <3> DEFINE blocks == IndexBlocks(IndexNow)
    <3>1. /\ mYearMonthAddressIndexEntries = [nr \in Nrs |-> MonthOf[entry[nr]]]
          /\ entry \in [Nrs -> Accepted]
          /\ Cursored \subseteq Nrs
          /\ mTransactionNrsFileCursors \in [Cursored -> DOMAIN file]
          /\ \A nr \in Cursored : file[mTransactionNrsFileCursors[nr]] = Line(nr, entry[nr])
      BY DEF IInv, IndexOK, Cursored
    <3>2. mYearMonthAddressIndexEntries \in [Nrs -> Date]
      BY <3>1, StoreAssumption DEF Date
    <3>3. mTransactionNrsFileCursors \in [Cursored -> Nr]
      <4>1. DOMAIN file \subseteq Nr
        BY DEF IInv, DiskOK, Nr
      <4> QED BY <3>1, <4>1
    <3>4. /\ \A i \in DataIn(blocks) :
               /\ blocks[i].transactionNr \in Nrs
               /\ blocks[i].fileCursor = mTransactionNrsFileCursors[blocks[i].transactionNr]
          /\ \A nr \in Nrs : \E i \in DataIn(blocks) : blocks[i].transactionNr = nr
      <4> HIDE DEF Cursored
      <4> QED BY <1>1, <3>2, <3>3, NrsFinite, IndexWritten DEF IndexNow
    <3> HIDE DEF blocks
    <3>5. \A i \in DataIn(blocks) :
            /\ blocks[i].transactionNr \in Nrs
            /\ file[blocks[i].fileCursor].msg = entry[blocks[i].transactionNr]
      <4> SUFFICES ASSUME NEW i \in DataIn(blocks)
                   PROVE  /\ blocks[i].transactionNr \in Nrs
                          /\ file[blocks[i].fileCursor].msg = entry[blocks[i].transactionNr]
        OBVIOUS
      <4> DEFINE nr == blocks[i].transactionNr
      <4>1. nr \in Nrs /\ nr \in Cursored /\ blocks[i].fileCursor = mTransactionNrsFileCursors[nr]
        BY <1>1, <3>4
      <4>2. file[blocks[i].fileCursor] = Line(nr, entry[nr])
        BY <3>1, <4>1
      <4> QED BY <4>1, <4>2 DEF Line
    <3>6. \A nr \in Nrs : 1..nr \subseteq Nrs /\ (nr + 1 \in Nrs => Follows(entry[nr], entry[nr + 1]))
      BY DEF OneByOne, DataOK, ChainOK
    <3>7. ChainedIn(blocks, file)
      <4>1. \A i \in DataIn(blocks) : \A nr \in 1..blocks[i].transactionNr :
              \E k \in DataIn(blocks) : blocks[k].transactionNr = nr
        BY <3>4, <3>6
      <4>2. \A i, k \in DataIn(blocks) :
              blocks[k].transactionNr = blocks[i].transactionNr + 1 =>
                Follows(file[blocks[i].fileCursor].msg, file[blocks[k].fileCursor].msg)
        BY <3>5, <3>6
      <4>3. \A i \in DataIn(blocks) : blocks[i].transactionNr = 1 =>
              1 \in Nrs /\ file[blocks[i].fileCursor].msg = entry[1]
        BY <3>5
      <4> QED BY <4>1, <4>2, <4>3 DEF ChainedIn
    <3> QED BY <3>7 DEF blocks
  <2>6. \A v \in Threads : ChainedIn(snapshot'[v], file)
    <3>1. \A v \in Threads : snapshot'[v] = IndexBlocks(IndexNow) \/ snapshot'[v] = snapshot[v]
      BY <2>2, <2>3
    <3> QED BY <2>3, <2>5, <3>1
  <2>7. ChainedIn(indexFile, file)' /\ \A v \in Threads : ChainedIn(snapshot[v], file)'
    BY <2>2, <2>4, <2>6 DEF ChainedIn, OneByOne, DataOK, disk
  <2> QED BY <2>1, <2>2, <2>4, <2>7, ThreadGoesOn DEF Where, disk, blockVars
<1>2. CASE ~(Nrs \subseteq Cursored)
  <2>1. Down("terminated") /\ "terminated" \in Mode \ {"up", "exiting"}
    BY <1>2 DEF Serialize, Cursored, Mode
  <2> QED BY <2>1, DownInOrder
<1> QED BY <1>1, <1>2

LEMMA FinishInOrder ==
  ASSUME IInv, OneByOne, NEW w \in Threads, Finish(w)
  PROVE  OneByOne'
<1>1. /\ at[w] = "finish" /\ w # Closer
      /\ mTransactionsFromPendingTasks' = mTransactionsFromPendingTasks \ work[w]
      /\ work' = [work EXCEPT ![w] = {}]
      /\ at' = [at EXCEPT ![w] = "idle"]
      /\ UNCHANGED <<disk, index, mTransactionNrsFileCursors, mTransactionWriteTask,
                     queue, snapshot, manager, process>>
  BY DEF Finish, Goto
<1>2. Nrs' = Nrs /\ Cursored' = Cursored
  BY <1>1 DEF Nrs, Cursored, index
<1>3. work \in [Threads -> SUBSET Nrs] /\ at \in [Threads -> Where]
  BY DEF IInv, TasksOK
<1>4. \A v \in Threads : /\ v # w => work'[v] = work[v] /\ at'[v] = at[v]
                         /\ v = w => work'[v] = {} /\ at'[v] = "idle"
  BY <1>1, <1>3
<1>5. Written' = Written /\ Ahead' = Ahead
  <2>1. at[w] \notin {"cursors", "append", "locked"}
    BY <1>1
  <2> HIDE DEF Cursored
  <2> QED BY <1>2, <1>4, <2>1 DEF Written, Ahead
<1>6. DataOK' /\ FreshOK'
  BY <1>1, DataStays, FreshStays DEF OneByOne, disk, index, manager, process
<1>7. OrderOK'
  <2>1. work[w] \subseteq Cursored
    BY <1>1 DEF IInv, AtWork, AfterCursors
  <2>2. Cursored \cup mTransactionsFromPendingTasks
          \subseteq Cursored' \cup mTransactionsFromPendingTasks'
    BY <1>1, <1>2, <2>1
  <2>3. \A v \in Threads : at'[v] \in {"append", "locked"} =>
          at[v] \in {"append", "locked"} /\ work'[v] = work[v]
    BY <1>4
  <2>4. at'[Closer] = "idle" => at[Closer] = "idle"
    BY <1>1, <1>4 DEF Threads
  <2> HIDE DEF Cursored, Written, Ahead
  <2> QED BY <1>1, <1>2, <1>5, <2>2, <2>3, <2>4, OrderStays DEF OneByOne, process
<1>8. ThreadsOK'
  BY <1>1, <1>4 DEF OneByOne, ThreadsOK, Threads, process
<1>9. FirstRunOK'
  BY <1>1, <1>5, FirstRunStays DEF OneByOne, disk, process
<1> QED BY <1>6, <1>7, <1>8, <1>9 DEF OneByOne

(* The block writes the last task itself: by then the others are done.     *)
LEMMA CloseBlockInOrder ==
  ASSUME IInv, OneByOne, CloseBlock
  PROVE  OneByOne'
<1> DEFINE p == IF mTransactionWriteTask = {} THEN "index" ELSE "append"
<1>1. /\ mode = "exiting" /\ mTransactionsFromPendingTasks = {} /\ at[Closer] = "idle"
      /\ work' = [work EXCEPT ![Closer] = mTransactionWriteTask]
      /\ at' = [at EXCEPT ![Closer] = p]
      /\ UNCHANGED <<disk, index, mTransactionNrsFileCursors, mTransactionsFromPendingTasks,
                     queue, snapshot, manager, process>>
  BY DEF CloseBlock, Goto
<1>2. Nrs' = Nrs /\ Cursored' = Cursored
  BY <1>1 DEF Nrs, Cursored, index
<1>3. /\ work \in [Threads -> SUBSET Nrs] /\ at \in [Threads -> Where]
      /\ Closer \in Threads /\ mTransactionWriteTask \subseteq Nrs
  BY DEF IInv, TasksOK, Threads
<1>4. p \in {"index", "append"}
  OBVIOUS
<1> HIDE DEF p
<1>5. \A v \in Threads : /\ v # Closer => work'[v] = work[v] /\ at'[v] = at[v]
                         /\ v = Closer => work'[v] = mTransactionWriteTask /\ at'[v] = p
  BY <1>1, <1>3
<1>6. Written' = Written
  <2>1. at[Closer] # "cursors" /\ p # "cursors"
    BY <1>1, <1>4
  <2> HIDE DEF Cursored
  <2> QED BY <1>2, <1>5, <2>1 DEF Written
<1>7. DataOK' /\ FreshOK'
  BY <1>1, DataStays, FreshStays DEF OneByOne, disk, index, manager, process
<1>8. OrderOK'
  <2>1. Nrs \ Written \subseteq mTransactionWriteTask
    BY <1>1 DEF OneByOne, OrderOK, Written
  <2>2. queue' = <<>> /\ mode' = "exiting" /\ at'[Closer] # "idle"
    BY <1>1, <1>3, <1>4, <1>5 DEF OneByOne, ThreadsOK, process
  <2>3. \A w \in Threads : at'[w] \in {"append", "locked"} =>
          \A y \in work'[w], x \in Nrs' \ Written' : x < y => x \in work'[w]
    BY <1>2, <1>5, <1>6, <2>1 DEF OneByOne, OrderOK
  <2>4. \A x \in Written', y \in Nrs' \ Written' : x < y
    BY <1>2, <1>6 DEF OneByOne, OrderOK
  <2>5. DOMAIN queue' = {}
    BY <2>2
  <2> QED BY <2>2, <2>3, <2>4, <2>5 DEF OrderOK
<1>9. ThreadsOK'
  <2>1. Closer \notin Worker
    BY StoreAssumption
  <2> QED BY <1>1, <1>5, <2>1 DEF OneByOne, ThreadsOK, Threads, process
<1>10. FirstRunOK'
  BY <1>1, <1>6, FirstRunStays DEF OneByOne, disk, process
<1> QED BY <1>7, <1>8, <1>9, <1>10 DEF OneByOne

(* A block file that can be rebuilt from has the transactions 1, 2 and so  *)
(* on, one line for each.                                                  *)
LEMMA Numbered ==
  ASSUME IInv, OneByOne, Rebuildable
  PROVE  \A i \in DOMAIN file : file[i].nr = i
<1> DEFINE S == {i \in DOMAIN file : file[i].nr # i}
<1>1. SUFFICES ASSUME S # {} PROVE FALSE
  OBVIOUS
<1>2. DOMAIN file = 1..Len(file) /\ Len(file) \in Nat
  BY DEF IInv, DiskOK
<1>3. S \in SUBSET Nat
  BY <1>2
<1>4. PICK i \in S : \A k \in S : i <= k
  <2> HIDE DEF S
  <2> QED BY <1>1, <1>3, SmallestMember
<1>5. i # 1
  BY DEF OneByOne, DataOK, FileOK
<1>6. i - 1 \in DOMAIN file /\ i - 1 \notin S /\ i \in Nat
  <2>1. i - 1 \in DOMAIN file /\ i \in Nat /\ ~(i <= i - 1)
    BY <1>2, <1>5
  <2> HIDE DEF S
  <2> QED BY <1>4, <2>1
<1>7. file[i - 1].nr = i - 1
  BY <1>6
<1>8. file[i].nr = file[i - 1].nr + 1
  <2>1. i \in DOMAIN file /\ i > 1
    BY <1>2, <1>5
  <2>2. \A k \in DOMAIN file : k > 1 => file[k].nr = file[k - 1].nr + 1
    BY DEF OneByOne, DataOK, FileOK
  <2> QED BY <2>1, <2>2
<1> QED BY <1>6, <1>7, <1>8

(* A transaction that is written has its line.                             *)
LEMMA WrittenHasLine ==
  ASSUME IInv, NEW nr \in Written
  PROVE  \E i \in DOMAIN file : file[i] = Line(nr, entry[nr])
<1>1. CASE nr \in Cursored
  BY <1>1 DEF IInv, IndexOK, Cursored
<1>2. CASE \E w \in Threads : at[w] = "cursors" /\ nr \in work[w]
  BY <1>2 DEF IInv, AtWork, LastLine
<1> QED BY <1>1, <1>2 DEF Written

(* What a task is about to append is next to what is written.              *)
LEMMA NextToWrite ==
  ASSUME IInv, OneByOne, NEW w \in Threads, at[w] = "locked"
  PROVE  /\ \A x \in work[w] : x \in Nrs \ Written /\ x \in Nat
         /\ \A x \in work[w] : x > 1 => x - 1 \in work[w] \/ x - 1 \in Written
         /\ \A x \in work[w], y \in work[w] : x < y => x + 1 \in work[w]
         /\ \A x \in Written, y \in work[w] : x < y
         /\ \A x, y \in Nrs : y = x + 1 => Follows(entry[x], entry[y])
<1>1. work[w] \subseteq Nrs /\ Nrs \in SUBSET Nat
  BY NrsFinite DEF IInv, TasksOK, Nr
<1>2. ASSUME NEW x \in work[w] PROVE x \notin Written
  <2>1. x \notin Cursored
    BY DEF IInv, AtWork, BeforeCursors
  <2>2. \A v \in Threads : at[v] = "cursors" => x \notin work[v]
    BY DEF IInv, OwnedOnce
  <2> QED BY <2>1, <2>2 DEF Written
<1>3. /\ \A x \in Written, y \in Nrs \ Written : x < y
      /\ \A y \in work[w], x \in Nrs \ Written : x < y => x \in work[w]
  BY DEF OneByOne, OrderOK
<1>4. \A nr \in Nrs : 1..nr \subseteq Nrs /\ (nr + 1 \in Nrs => Follows(entry[nr], entry[nr + 1]))
  BY DEF OneByOne, DataOK, ChainOK
<1>5. ASSUME NEW x \in work[w], x > 1 PROVE x - 1 \in work[w] \/ x - 1 \in Written
  <2>1. x - 1 \in Nrs /\ x - 1 < x
    <3>1. x \in Nrs /\ x \in Nat
      BY <1>1
    <3>2. x - 1 \in 1..x /\ x - 1 < x
      BY <1>5, <3>1
    <3> QED BY <1>4, <3>1, <3>2
  <2> QED BY <1>3, <2>1
<1>6. ASSUME NEW x \in work[w], NEW y \in work[w], x < y PROVE x + 1 \in work[w]
  <2>1. x + 1 \in Nrs /\ x \in Nat /\ y \in Nat
    <3>1. x \in Nat /\ y \in Nat /\ y \in Nrs
      BY <1>1
    <3>2. x + 1 \in 1..y
      BY <1>6, <3>1
    <3> QED BY <1>4, <3>1, <3>2
  <2>2. CASE x + 1 = y
    BY <2>2
  <2>3. CASE x + 1 < y
    <3>1. x + 1 \notin Written
      BY <1>1, <1>2, <1>3, <2>1
    <3> QED BY <1>3, <2>1, <2>3, <3>1
  <2> QED BY <1>6, <2>1, <2>2, <2>3
<1> QED BY <1>1, <1>2, <1>3, <1>4, <1>5, <1>6

LEMMA AppendLinesInOrder ==
  ASSUME IInv, OneByOne, NEW w \in Threads, AppendLines(w)
  PROVE  OneByOne'
<1> DEFINE lines == Lines(work[w])
<1>1. /\ at[w] = "locked" /\ file' = file \o lines
      /\ at' = [at EXCEPT ![w] = "cursors"]
      /\ UNCHANGED <<indexFile, blockVars, queue, work, snapshot, manager, process>>
  BY DEF AppendLines, Goto
<1>2. Nrs' = Nrs /\ Cursored' = Cursored /\ entry' = entry
  BY <1>1 DEF Nrs, Cursored, index, blockVars
<1>3. work \in [Threads -> SUBSET Nrs] /\ at \in [Threads -> Where]
  BY DEF IInv, TasksOK
<1>4. /\ lines \in Seq(LineType)
      /\ \A i \in DOMAIN lines : /\ lines[i].nr \in work[w]
                                 /\ lines[i] = Line(lines[i].nr, entry[lines[i].nr])
      /\ \A nr \in work[w] : \E i \in DOMAIN lines : lines[i] = Line(nr, entry[nr])
      /\ \A i, k \in DOMAIN lines : i < k => lines[i].nr < lines[k].nr
  BY <1>3, LinesAscend
<1> HIDE DEF lines
<1>5. file \in Seq(LineType) /\ \A i \in DOMAIN file : Sound(file[i])
  BY DEF IInv, DiskOK
<1>6. /\ Grows(file, file') /\ DOMAIN file' = 1..(Len(file) + Len(lines))
      /\ DOMAIN file = 1..Len(file) /\ DOMAIN lines = 1..Len(lines)
      /\ Len(file) \in Nat /\ Len(lines) \in Nat
      /\ \A i \in DOMAIN file' :
           i \notin DOMAIN file => i - Len(file) \in DOMAIN lines /\ file'[i] = lines[i - Len(file)]
  BY <1>1, <1>4, <1>5, Concatenated
<1>7. \A v \in Threads : (v # w => at'[v] = at[v]) /\ (v = w => at'[v] = "cursors")
  BY <1>1, <1>3
<1>8. work' = work /\ work[w] \subseteq Nrs
  BY <1>1, <1>3
<1>9. Written' = Written \cup work[w] /\ Ahead \subseteq Ahead' \cup work[w]
  <2> HIDE DEF Cursored
  <2>1. Written' = Written \cup work[w]
    BY <1>1, <1>2, <1>7, <1>8 DEF Written
  <2>2. Ahead \subseteq Ahead' \cup work[w]
    BY <1>2, <1>7, <1>8 DEF Ahead
  <2> QED BY <2>1, <2>2
<1>10. /\ \A x \in work[w] : x \in Nrs \ Written /\ x \in Nat
       /\ \A x \in work[w] : x > 1 => x - 1 \in work[w] \/ x - 1 \in Written
       /\ \A x \in work[w], y \in work[w] : x < y => x + 1 \in work[w]
       /\ \A x \in Written, y \in work[w] : x < y
       /\ \A x, y \in Nrs : y = x + 1 => Follows(entry[x], entry[y])
  BY <1>1, NextToWrite
(* The lines one by one.                                                   *)
<1>11. ASSUME NEW k \in DOMAIN lines
       PROVE  /\ lines[k].nr \in work[w] /\ lines[k].nr \in Nrs /\ lines[k].nr \in Nat
              /\ lines[k].msg = entry[lines[k].nr]
  <2>1. lines[k].nr \in work[w] /\ lines[k] = Line(lines[k].nr, entry[lines[k].nr])
    BY <1>4
  <2>2. lines[k].msg = entry[lines[k].nr]
    BY <2>1 DEF Line
  <2> QED BY <1>8, <1>10, <2>1, <2>2
<1>12. ASSUME NEW k \in DOMAIN lines, k > 1
       PROVE  k - 1 \in DOMAIN lines /\ lines[k].nr = lines[k - 1].nr + 1
  <2>1. k - 1 \in DOMAIN lines /\ k \in Nat
    BY <1>6, <1>12
  <2> DEFINE x == lines[k - 1].nr
             y == lines[k].nr
  <2>2. x \in work[w] /\ y \in work[w] /\ x \in Nat /\ y \in Nat
    BY <1>11, <2>1
  <2>3. x < y
    BY <1>4, <2>1
  <2>4. PICK j \in DOMAIN lines : lines[j].nr = x + 1
    <3>1. x + 1 \in work[w]
      BY <1>10, <2>2, <2>3
    <3>2. PICK j \in DOMAIN lines : lines[j] = Line(x + 1, entry[x + 1])
      BY <1>4, <3>1
    <3> QED BY <3>2 DEF Line
  <2>5. ~(j < k - 1) /\ j # k - 1
    BY <1>4, <2>1, <2>2, <2>4
  <2>6. ~(k < j)
    <3>1. k < j => y < x + 1
      BY <1>4, <2>4
    <3> QED BY <2>2, <2>3, <3>1
  <2>7. j = k
    BY <1>6, <2>1, <2>5, <2>6
  <2> QED BY <2>1, <2>4, <2>7
<1>13. ASSUME 1 \in DOMAIN lines, lines[1].nr > 1
       PROVE  lines[1].nr - 1 \in Written
  <2> DEFINE x == lines[1].nr
  <2>1. x \in work[w] /\ x \in Nat
    BY <1>11, <1>13
  <2>2. x - 1 \in work[w] \/ x - 1 \in Written
    BY <1>10, <1>13, <2>1
  <2>3. ASSUME x - 1 \in work[w] PROVE FALSE
    <3>1. PICK j \in DOMAIN lines : lines[j] = Line(x - 1, entry[x - 1])
      BY <1>4, <2>3
    <3>2. lines[j].nr = x - 1
      BY <3>1 DEF Line
    <3>3. j = 1 \/ 1 < j
      BY <1>6
    <3>4. lines[j].nr = x \/ x < lines[j].nr
      BY <1>4, <1>13, <3>3
    <3> QED BY <2>1, <3>2, <3>4
  <2> QED BY <2>2, <2>3
<1>14. FileOK'
  <2> SUFFICES ASSUME Rebuildable', NEW i \in DOMAIN file'
               PROVE  /\ i = 1 => file'[i].nr = 1
                      /\ i > 1 => /\ file'[i].nr = file'[i - 1].nr + 1
                                  /\ Follows(file'[i - 1].msg, file'[i].msg)
    BY DEF FileOK, Follows
  <2>1. /\ Len(file') = Len(file) + Len(lines)
        /\ \A j \in 1..Len(file') : file'[j] # Torn
        /\ \A j \in 2..Len(file') : file'[j - 1].nr < file'[j].nr
    BY <1>1, <1>4, <1>5 DEF Rebuildable
  <2>2. Rebuildable
    <3>1. \A j \in 1..Len(file) : file[j] # Torn
      BY <1>6, <2>1 DEF Grows
    <3>2. ASSUME NEW j \in 2..Len(file) PROVE file[j - 1].nr < file[j].nr
      <4>1. j \in DOMAIN file /\ j - 1 \in DOMAIN file /\ j \in 2..Len(file')
        BY <1>6, <2>1
      <4> QED BY <1>6, <2>1, <4>1 DEF Grows
    <3> QED BY <3>1, <3>2 DEF Rebuildable
  <2>3. \A j \in DOMAIN file : file[j].nr = j
    BY <2>2, Numbered
  <2>4. CASE i \in DOMAIN file
    <3>1. i > 1 => i - 1 \in DOMAIN file
      BY <1>6, <2>4
    <3> QED BY <1>6, <2>2, <2>4, <3>1 DEF OneByOne, DataOK, FileOK, Grows
  <2>5. CASE i \notin DOMAIN file
    <3> DEFINE k == i - Len(file)
    <3>1. k \in DOMAIN lines /\ file'[i] = lines[k] /\ i \in Nat /\ k \in Nat /\ i = Len(file) + k
      BY <1>6, <2>5
    <3> HIDE DEF k
    <3>2. CASE k > 1
      <4>1. k - 1 \in DOMAIN lines /\ lines[k].nr = lines[k - 1].nr + 1
        BY <1>12, <3>1, <3>2
      <4>2. i - 1 \in DOMAIN file' /\ i - 1 \notin DOMAIN file /\ (i - 1) - Len(file) = k - 1 /\ i > 1
        BY <1>6, <3>1, <3>2
      <4>3. file'[i - 1] = lines[k - 1]
        BY <1>6, <4>2
      <4>4. Follows(lines[k - 1].msg, lines[k].msg)
        BY <1>10, <1>11, <3>1, <4>1
      <4> QED BY <3>1, <4>1, <4>2, <4>3, <4>4
    <3>3. CASE k = 1
      <4> DEFINE x == lines[1].nr
      <4>1. x \in work[w] /\ x \in Nrs /\ x \in Nat /\ lines[1].msg = entry[x] /\ x # 0
        <5>1. x # 0
          BY <1>11, <3>1, <3>3, NrsFinite DEF Nr
        <5> QED BY <1>11, <3>1, <3>3, <5>1
      <4>2. x > 1 => x - 1 \in DOMAIN file /\ file[x - 1] = Line(x - 1, entry[x - 1])
        <5> SUFFICES ASSUME x > 1
                     PROVE  x - 1 \in DOMAIN file /\ file[x - 1] = Line(x - 1, entry[x - 1])
          OBVIOUS
        <5>1. x - 1 \in Written
          BY <1>13, <3>1, <3>3
        <5>2. PICK c \in DOMAIN file : file[c] = Line(x - 1, entry[x - 1])
          BY <5>1, WrittenHasLine
        <5>3. c = x - 1
          BY <2>3, <5>2 DEF Line
        <5> QED BY <5>2, <5>3
      <4>3. CASE i = 1
        <5>1. DOMAIN file = {}
          BY <1>6, <3>1, <3>3, <4>3
        <5> QED BY <3>1, <3>3, <4>1, <4>2, <4>3, <5>1
      <4>4. CASE i > 1
        <5>1. i - 1 = Len(file) /\ Len(file) \in DOMAIN file
          BY <1>6, <3>1, <3>3, <4>4
        <5>2. file'[i - 1] = file[Len(file)] /\ file[Len(file)].nr = Len(file)
          BY <1>6, <2>3, <5>1 DEF Grows
        <5>3. i \in 2..Len(file')
          BY <1>6, <2>1, <3>1, <4>4
        <5>4. Len(file) < x
          BY <2>1, <3>1, <3>3, <5>2, <5>3
        <5>5. x > 1 /\ x - 1 \in DOMAIN file
          BY <1>6, <4>1, <4>2, <5>1, <5>4
        <5>6. x - 1 = Len(file)
          BY <1>6, <4>1, <5>4, <5>5
        <5>7. file'[i - 1] = Line(x - 1, entry[x - 1])
          BY <4>2, <5>2, <5>5, <5>6
        <5>8. x - 1 \in Nrs
          BY <1>13, <3>1, <3>3, <5>5 DEF Written
        <5>9. Follows(entry[x - 1], entry[x])
          <6>1. x = (x - 1) + 1
            BY <4>1
          <6> HIDE DEF x
          <6> QED BY <1>10, <4>1, <5>8, <6>1
        <5>10. file'[i - 1].nr = x - 1 /\ file'[i - 1].msg = entry[x - 1]
          BY <5>7 DEF Line
        <5> QED BY <3>1, <3>3, <4>1, <4>4, <5>9, <5>10
      <4> QED BY <3>1, <4>3, <4>4
    <3> QED BY <1>6, <3>1, <3>2, <3>3
  <2> QED BY <2>4, <2>5
<1>15. DataOK'
  <2>1. /\ FiledIn(indexFile, file) /\ \A v \in Threads : FiledIn(snapshot[v], file)
        /\ ChainedIn(indexFile, file) /\ \A v \in Threads : ChainedIn(snapshot[v], file)
    BY DEF IInv, DiskOK, TasksOK, OneByOne, DataOK
  <2>2. ChainedIn(indexFile, file') /\ \A v \in Threads : ChainedIn(snapshot[v], file')
    BY <1>6, <2>1, ChainStays
  <2>3. ChainedIn(indexFile, file)' /\ \A v \in Threads : ChainedIn(snapshot[v], file)'
    <3> DEFINE f == file'
    <3>1. ChainedIn(indexFile, f) /\ \A v \in Threads : ChainedIn(snapshot[v], f)
      BY <2>2
    <3>2. f = file' /\ indexFile' = indexFile /\ snapshot' = snapshot
      BY <1>1
    <3> HIDE DEF f
    <3>3. ChainedIn(indexFile, file)'
      BY <1>2, <3>1, <3>2 DEF ChainedIn
    <3>4. \A v \in Threads : ChainedIn(snapshot[v], file)'
      BY <1>2, <3>1, <3>2 DEF ChainedIn
    <3> QED BY <3>3, <3>4
  <2>4. ChainOK'
    BY <1>2 DEF OneByOne, DataOK, ChainOK
  <2> QED BY <1>14, <2>3, <2>4 DEF DataOK
<1>16. FreshOK'
  BY <1>1, <1>2, FreshStays DEF OneByOne, manager, process
<1>17. OrderOK'
  <2>1. \A x \in Written', y \in Nrs' \ Written' : x < y
    <3> SUFFICES ASSUME NEW x \in Written \cup work[w],
                        NEW y \in Nrs, y \notin Written, y \notin work[w]
                 PROVE  x < y
      BY <1>2, <1>9
    <3>1. CASE x \in Written
      BY <3>1 DEF OneByOne, OrderOK
    <3>2. CASE x \in work[w]
      <4>1. ~(y < x)
        BY <1>1, <3>2 DEF OneByOne, OrderOK
      <4>2. x \in Nat /\ y \in Nat /\ x # y
        BY <1>10, <3>2, NrsFinite DEF Nr
      <4> QED BY <4>1, <4>2
    <3> QED BY <3>1, <3>2
  <2>2. Nrs' \ Written' \subseteq Nrs \ Written
    BY <1>2, <1>9
  <2>3. \A v \in Threads : at'[v] \in {"append", "locked"} =>
          \A y \in work'[v], x \in Nrs' \ Written' : x < y => x \in work'[v]
    BY <1>7, <1>8, <2>2 DEF OneByOne, OrderOK
  <2>4. \A x \in Nrs' \ Written' : x \in Ahead => x \in Ahead'
    BY <1>2, <1>9
  <2>5. \A i \in DOMAIN queue' : \A y \in queue'[i], x \in Nrs' \ Written' :
          x < y => x \in Ahead' \/ \E k \in 1..i : x \in queue'[k]
    <3>1. queue' = queue
      BY <1>1
    <3>2. \A i \in DOMAIN queue : \A y \in queue[i], x \in Nrs \ Written :
            x < y => x \in Ahead \/ \E k \in 1..i : x \in queue[k]
      BY DEF OneByOne, OrderOK
    <3> HIDE DEF Ahead, Written
    <3> QED BY <2>2, <2>4, <3>1, <3>2
  <2>6. mode' = "up" => \A x \in Nrs' \ Written' :
          x \in mTransactionWriteTask' \cup Ahead' \/ \E k \in DOMAIN queue' : x \in queue'[k]
    <3>1. queue' = queue /\ mode' = mode /\ mTransactionWriteTask' = mTransactionWriteTask
      BY <1>1 DEF blockVars, process
    <3>2. mode = "up" => \A x \in Nrs \ Written :
            x \in mTransactionWriteTask \cup Ahead \/ \E k \in DOMAIN queue : x \in queue[k]
      BY DEF OneByOne, OrderOK
    <3> HIDE DEF Ahead, Written
    <3> QED BY <2>2, <2>4, <3>1, <3>2
  <2>7. mode' = "exiting" /\ at'[Closer] = "idle" =>
          Nrs' \subseteq Cursored' \cup mTransactionWriteTask' \cup mTransactionsFromPendingTasks'
    <3>1. at'[Closer] = "idle" => at[Closer] = "idle"
      BY <1>7 DEF Threads
    <3> QED BY <1>1, <1>2, <3>1 DEF OneByOne, OrderOK, blockVars, process
  <2> QED BY <2>1, <2>3, <2>5, <2>6, <2>7 DEF OrderOK
<1>18. ThreadsOK'
  BY <1>1, <1>7 DEF OneByOne, ThreadsOK, Threads, process
<1>19. FirstRunOK'
  <2> SUFFICES ASSUME mode \in {"up", "exiting"} /\ starts = 0
               PROVE  /\ \A i \in DOMAIN file' : file'[i].nr \in Written'
                      /\ \A i \in 2..Len(file') : file'[i - 1].nr < file'[i].nr
    BY <1>1 DEF FirstRunOK, process
  <2>1. /\ \A i \in DOMAIN file : file[i].nr \in Written
        /\ \A i \in 2..Len(file) : file[i - 1].nr < file[i].nr
    BY DEF OneByOne, FirstRunOK
  <2>2. Len(file') = Len(file) + Len(lines)
    BY <1>1, <1>4, <1>5
  <2>3. \A i \in DOMAIN file' : file'[i].nr \in Written'
    BY <1>6, <1>9, <1>11, <2>1 DEF Grows
  <2>4. ASSUME NEW i \in 2..Len(file') PROVE file'[i - 1].nr < file'[i].nr
    <3>1. i \in DOMAIN file' /\ i - 1 \in DOMAIN file' /\ i \in Nat
      BY <1>6, <2>2
    <3>2. CASE i \in DOMAIN file
      BY <1>6, <2>1, <3>1, <3>2 DEF Grows
    <3>3. CASE i - 1 \notin DOMAIN file
      <4>1. i \notin DOMAIN file
        BY <1>6, <3>1, <3>3
      <4>2. /\ (i - 1) - Len(file) \in DOMAIN lines /\ file'[i - 1] = lines[(i - 1) - Len(file)]
            /\ i - Len(file) \in DOMAIN lines /\ file'[i] = lines[i - Len(file)]
            /\ (i - 1) - Len(file) < i - Len(file)
        BY <1>6, <3>1, <3>3, <4>1
      <4> QED BY <1>4, <4>2
    <3>4. CASE i \notin DOMAIN file /\ i - 1 \in DOMAIN file
      <4>1. file'[i - 1].nr \in Written
        BY <1>6, <2>1, <3>4 DEF Grows
      <4>2. file'[i].nr \in work[w]
        BY <1>6, <1>11, <3>1, <3>4
      <4> QED BY <1>10, <4>1, <4>2
    <3> QED BY <3>2, <3>3, <3>4
  <2> QED BY <2>3, <2>4
<1> QED BY <1>15, <1>16, <1>17, <1>18, <1>19 DEF OneByOne

-----------------------------------------------------------------------------
(* Start.                                                                  *)

LEMMA StartedInOrder ==
  ASSUME IInv, OneByOne, NEW months, NEW cursors,
         Starting, Boot(Index(months, cursors)),
         cursors = [nr \in DOMAIN cursors |-> cursors[nr]],
         DOMAIN cursors \in SUBSET Nat,
         \A nr \in DOMAIN cursors :
           /\ 1..nr \subseteq DOMAIN cursors
           /\ nr + 1 \in DOMAIN cursors =>
                Follows(file[cursors[nr]].msg, file[cursors[nr + 1]].msg),
         \A nr \in DOMAIN cursors : file[cursors[nr]].msg \in Nat /\ nr <= MaxMessage,
         ChainedIn(indexFile, file)'
  PROVE  OneByOne'
<1> DEFINE D == DOMAIN cursors
<1>1. Index(months, cursors).months = months /\ Index(months, cursors).cursors = cursors
  BY DEF Index
<1>2. /\ mTransactionNrsFileCursors' = cursors
      /\ entry' = [nr \in D |-> file[cursors[nr]].msg]
      /\ lastSeq' = LastKnownSequenceNumber(entry')
      /\ mode' = "up" /\ starts' = starts + 1
      /\ UNCHANGED <<file, mSerializedTransactions, mTransactionWriteTask,
                     mTransactionsFromPendingTasks, tasks, persistDue, started>>
  BY <1>1 DEF Boot, Starting
<1>3. /\ queue = <<>> /\ persistDue = FALSE /\ starts \in Nat
      /\ \A w \in Threads : work[w] = {} /\ at[w] = "idle" /\ snapshot[w] = <<>>
  <2>1. mode \notin {"up", "exiting"}
    BY DEF Starting
  <2>2. persistDue = FALSE
    BY <2>1, Zenon DEF IInv, ProcessOK, ManagerOK
  <2> QED BY <2>1, <2>2, StoreAssumption DEF IInv, ProcessOK
<1>4. Nrs' = D /\ Cursored' = D
  BY <1>2 DEF Nrs, Cursored
<1>5. Written' = D
  BY <1>4 DEF Written
<1>6. ChainOK'
  <2>1. \A nr \in D : entry'[nr] = file[cursors[nr]].msg
    BY <1>2
  <2> HIDE DEF D
  <2>2. \A nr \in D : /\ 1..nr \subseteq D
                      /\ nr + 1 \in D => Follows(entry'[nr], entry'[nr + 1])
    BY <2>1 DEF D
  <2> QED BY <1>4, <2>2 DEF ChainOK, Follows
<1>7. FileOK'
  BY <1>2 DEF OneByOne, DataOK, FileOK, Rebuildable
<1>8. \A w \in Threads : ChainedIn(snapshot[w], file)'
  <2>1. DataIn(<<>>) = {} /\ \A w \in Threads : snapshot'[w] = <<>>
    BY <1>2, <1>3 DEF tasks, DataIn
  <2> QED BY <2>1 DEF ChainedIn
<1>9. FreshOK'
  <2>1. persistDue' = FALSE
    BY <1>2, <1>3
  <2>2. persistDue' => FALSE
    BY <2>1, Zenon
  <2>3. ASSUME D # {}
        PROVE  entry'[LastNr'] <= lastSeq' /\ \A a \in Accepted : a <= entry'[LastNr'] \/ lastSeq' < a
    <3>1. lastSeq' = entry'[Max(D)] /\ LastNr' = Max(D)
      BY <1>2, <1>4, <2>3 DEF LastKnownSequenceNumber, LastNr
    <3>2. Max(D) \in D
      <4>1. D \in SUBSET Nat /\ MaxMessage \in Nat /\ \A nr \in D : nr <= MaxMessage
        BY StoreAssumption
      <4> HIDE DEF D
      <4> QED BY <2>3, <4>1, MaxIsGreatest
    <3>3. lastSeq' \in Nat
      BY <1>2, <3>1, <3>2
    <3>4. Accepted \subseteq Nat
      BY EntryNat
    <3> QED BY <3>1, <3>3, <3>4
  <2> QED BY <1>4, <2>2, <2>3 DEF FreshOK
<1>10. OrderOK'
  <2>1. Nrs' \ Written' = {} /\ mode' = "up"
    BY <1>2, <1>4, <1>5
  <2> QED BY <2>1 DEF OrderOK
<1>11. ThreadsOK'
  BY <1>2, <1>3 DEF ThreadsOK, Threads, tasks
<1>12. FirstRunOK'
  BY <1>2, <1>3 DEF FirstRunOK
<1> QED BY <1>6, <1>7, <1>8, <1>9, <1>10, <1>11, <1>12 DEF OneByOne, DataOK

(* The lines the cursors lead to are those of messages.                    *)
LEMMA LedToMessage ==
  ASSUME IInv, NEW months, NEW cursors, Leads(cursors, months, file), NEW nr \in DOMAIN cursors
  PROVE  /\ nr \in Nat /\ nr <= MaxMessage /\ nr \in Nr
         /\ cursors[nr] \in DOMAIN file /\ file[cursors[nr]].nr = nr
         /\ file[cursors[nr]].msg \in Nat /\ file[cursors[nr]].msg \in Accepted
<1>1. nr \in Nr /\ cursors[nr] \in DOMAIN file /\ file[cursors[nr]].nr = nr
  BY DEF Leads
<1>2. Sound(file[cursors[nr]])
  BY <1>1 DEF IInv, DiskOK
<1>3. file[cursors[nr]] # Torn
  BY <1>1 DEF Torn, Line, Nr
<1>4. file[cursors[nr]].msg \in Accepted /\ nr \in 1..file[cursors[nr]].msg
  BY <1>1, <1>2, <1>3 DEF Sound
<1>5. Accepted \subseteq 1..MaxMessage /\ MaxMessage \in Nat
  BY StoreAssumption
<1>6. file[cursors[nr]].msg \in 1..MaxMessage
  BY <1>4, <1>5
<1> QED BY <1>1, <1>4, <1>5, <1>6 DEF Nr

LEMMA LoadIndexInOrder ==
  ASSUME IInv, OneByOne, LoadIndex
  PROVE  OneByOne' /\ (1 \in Nrs' => 1 \in Nrs /\ entry'[1] = entry[1])
<1>1. PICK months, cursors :
        /\ Starting /\ Boot(Index(months, cursors))
        /\ DOMAIN cursors = NrsIn(indexFile)
        /\ cursors = [nr \in DOMAIN cursors |-> cursors[nr]]
        /\ Leads(cursors, months, file)
        /\ \A nr \in NrsIn(indexFile) : \E i \in DataIn(indexFile) :
             indexFile[i].transactionNr = nr /\ indexFile[i].fileCursor = cursors[nr]
  BY Loaded
<1> DEFINE D == DOMAIN cursors
<1>2. /\ \A i \in DataIn(indexFile) : \A nr \in 1..indexFile[i].transactionNr :
           \E k \in DataIn(indexFile) : indexFile[k].transactionNr = nr
      /\ \A i, k \in DataIn(indexFile) :
           indexFile[k].transactionNr = indexFile[i].transactionNr + 1 =>
             Follows(file[indexFile[i].fileCursor].msg, file[indexFile[k].fileCursor].msg)
      /\ \A i \in DataIn(indexFile) : indexFile[i].transactionNr = 1 =>
           1 \in Nrs /\ file[indexFile[i].fileCursor].msg = entry[1]
  BY DEF OneByOne, DataOK, ChainedIn
<1>3. /\ entry' = [nr \in D |-> file[cursors[nr]].msg] /\ file' = file
      /\ indexFile' = indexFile
  BY <1>1 DEF Boot, LoadIndex, Index
<1>4. Nrs' = D
  BY <1>3 DEF Nrs
<1>5. ASSUME NEW nr \in D
      PROVE  \E i \in DataIn(indexFile) :
               indexFile[i].transactionNr = nr /\ indexFile[i].fileCursor = cursors[nr]
  BY <1>1
<1>6. \A i \in DataIn(indexFile) : indexFile[i].transactionNr \in D
  BY <1>1 DEF NrsIn
<1>7. \A nr \in D : 1..nr \subseteq D
  BY <1>2, <1>5, <1>6
<1>8. ASSUME NEW nr \in D, nr + 1 \in D
      PROVE  Follows(file[cursors[nr]].msg, file[cursors[nr + 1]].msg)
  <2>1. PICK i \in DataIn(indexFile) :
          indexFile[i].transactionNr = nr /\ indexFile[i].fileCursor = cursors[nr]
    BY <1>5
  <2>2. PICK k \in DataIn(indexFile) :
          indexFile[k].transactionNr = nr + 1 /\ indexFile[k].fileCursor = cursors[nr + 1]
    BY <1>5, <1>8
  <2> QED BY <1>2, <2>1, <2>2
<1>9. 1 \in D => 1 \in Nrs /\ file[cursors[1]].msg = entry[1]
  <2> SUFFICES ASSUME 1 \in D PROVE 1 \in Nrs /\ file[cursors[1]].msg = entry[1]
    OBVIOUS
  <2>1. PICK i \in DataIn(indexFile) :
          indexFile[i].transactionNr = 1 /\ indexFile[i].fileCursor = cursors[1]
    BY <1>5
  <2> QED BY <1>2, <2>1
<1>10. ChainedIn(indexFile, file)'
  <2>1. \A i \in DataIn(indexFile) : indexFile[i].transactionNr = 1 =>
          1 \in Nrs' /\ file[indexFile[i].fileCursor].msg = entry'[1]
    BY <1>2, <1>3, <1>4, <1>6, <1>9
  <2> QED BY <1>2, <1>3, <2>1 DEF ChainedIn
<1>11. \A nr \in D : nr \in Nat /\ nr <= MaxMessage /\ file[cursors[nr]].msg \in Nat
  BY <1>1, LedToMessage
<1>12. OneByOne'
  <2>1. D \in SUBSET Nat
    BY <1>11
  <2> QED BY <1>1, <1>7, <1>8, <1>10, <1>11, <2>1, StartedInOrder
<1> QED BY <1>3, <1>4, <1>9, <1>12

LEMMA RebuildIndexInOrder ==
  ASSUME IInv, OneByOne, NEW reset \in BOOLEAN, RebuildIndex(reset)
  PROVE  OneByOne' /\ (1 \in Nrs' => 1 \in DOMAIN file /\ entry'[1] = file[1].msg)
<1>1. PICK n \in 0..Len(file) : \E months, cursors :
        /\ Starting /\ Boot(Index(months, cursors))
        /\ DOMAIN cursors = {file[i].nr : i \in 1..n}
        /\ cursors = [nr \in DOMAIN cursors |-> cursors[nr]]
        /\ Leads(cursors, months, file)
        /\ \A nr \in DOMAIN cursors : cursors[nr] \in 1..n
  BY Restored
<1>2. PICK months, cursors :
        /\ Starting /\ Boot(Index(months, cursors))
        /\ DOMAIN cursors = {file[i].nr : i \in 1..n}
        /\ cursors = [nr \in DOMAIN cursors |-> cursors[nr]]
        /\ Leads(cursors, months, file)
        /\ \A nr \in DOMAIN cursors : cursors[nr] \in 1..n
  BY <1>1
<1> DEFINE D == DOMAIN cursors
<1>3. /\ DOMAIN file = 1..Len(file) /\ Len(file) \in Nat /\ n \in Nat /\ n <= Len(file)
  BY DEF IInv, DiskOK
<1>4. Rebuildable /\ \A i \in DOMAIN file : file[i].nr = i
  BY Numbered DEF RebuildIndex
<1>5. D = 1..n
  <2>1. \A i \in 1..n : file[i].nr = i
    BY <1>3, <1>4
  <2> QED BY <1>2, <2>1
<1>6. \A nr \in D : cursors[nr] = nr /\ nr \in DOMAIN file /\ file[nr].msg \in Nat /\ nr <= MaxMessage
  <2> SUFFICES ASSUME NEW nr \in D
               PROVE  cursors[nr] = nr /\ nr \in DOMAIN file /\ file[nr].msg \in Nat /\ nr <= MaxMessage
    OBVIOUS
  <2>1. /\ nr \in Nat /\ nr <= MaxMessage /\ cursors[nr] \in DOMAIN file
        /\ file[cursors[nr]].nr = nr /\ file[cursors[nr]].msg \in Nat
    BY <1>2, LedToMessage
  <2>2. cursors[nr] = nr
    BY <1>4, <2>1
  <2> QED BY <2>1, <2>2
<1>7. /\ entry' = [nr \in D |-> file[cursors[nr]].msg] /\ file' = file /\ indexFile' = <<>>
  BY <1>2 DEF Boot, RebuildIndex, Index
<1>8. \A nr \in D : 1..nr \subseteq D
  BY <1>3, <1>5
<1>9. ASSUME NEW nr \in D, nr + 1 \in D
      PROVE  Follows(file[cursors[nr]].msg, file[cursors[nr + 1]].msg)
  <2>1. nr + 1 \in DOMAIN file /\ nr + 1 > 1 /\ (nr + 1) - 1 = nr
    BY <1>3, <1>5, <1>9
  <2>2. \A i \in DOMAIN file : i > 1 => Follows(file[i - 1].msg, file[i].msg)
    BY <1>4 DEF OneByOne, DataOK, FileOK
  <2>3. Follows(file[(nr + 1) - 1].msg, file[nr + 1].msg)
    BY <2>1, <2>2
  <2>4. Follows(file[nr].msg, file[nr + 1].msg)
    BY <2>1, <2>3
  <2> QED BY <1>6, <1>9, <2>4
<1>10. ChainedIn(indexFile, file)'
  <2>1. DataIn(indexFile') = {}
    BY <1>7 DEF DataIn
  <2> QED BY <2>1 DEF ChainedIn
<1>11. \A nr \in D : file[cursors[nr]].msg \in Nat /\ nr <= MaxMessage
  BY <1>6
<1>12. OneByOne'
  <2>1. D \in SUBSET Nat
    BY <1>3, <1>5
  <2> QED BY <1>2, <1>8, <1>9, <1>10, <1>11, <2>1, StartedInOrder
<1>13. Nrs' = D
  BY <1>7 DEF Nrs
<1> QED BY <1>6, <1>7, <1>12, <1>13

LEMMA RefuseInOrder ==
  ASSUME IInv, OneByOne, NEW reset \in BOOLEAN, Refuse(reset)
  PROVE  OneByOne'
<1>1. /\ mode \notin {"up", "exiting"} /\ mode' = "refused"
      /\ indexFile' \in {<<>>, indexFile}
      /\ UNCHANGED <<file, blockVars, tasks, started>>
  BY DEF Refuse, Starting
<1>2. Nrs' = Nrs /\ entry' = entry /\ Cursored' = Cursored
  BY <1>1 DEF Nrs, Cursored, index, blockVars
<1>3. ChainedIn(indexFile, file)'
  <2>1. CASE indexFile' = indexFile
    BY <1>1, <1>2, <2>1 DEF OneByOne, DataOK, ChainedIn
  <2>2. CASE indexFile' = <<>>
    <3>1. DataIn(indexFile') = {}
      BY <2>2 DEF DataIn
    <3> QED BY <3>1 DEF ChainedIn
  <2> QED BY <1>1, <2>1, <2>2
<1>4. ChainOK' /\ FileOK'
  BY <1>1, <1>2 DEF OneByOne, DataOK, ChainOK, FileOK, Rebuildable
<1>5. \A w \in Threads : ChainedIn(snapshot[w], file)'
  BY <1>1, <1>2 DEF OneByOne, DataOK, ChainedIn, tasks
<1>6. FreshOK' /\ OrderOK' /\ ThreadsOK' /\ FirstRunOK'
  <2>1. /\ Cursored = {} /\ queue = <<>>
        /\ \A w \in Threads : work[w] = {} /\ at[w] = "idle"
    BY <1>1 DEF IInv, ProcessOK, Cursored, NoCursors
  <2> QED BY <1>1, <1>2, <2>1, AtRest DEF tasks
<1> QED BY <1>3, <1>4, <1>5, <1>6 DEF OneByOne, DataOK

-----------------------------------------------------------------------------

LEMMA InitInOrder == Init => OneByOne
<1> SUFFICES ASSUME Init PROVE OneByOne
  OBVIOUS
<1>1. /\ Nrs = {} /\ file = <<>> /\ indexFile = <<>> /\ queue = <<>> /\ persistDue = FALSE
      /\ \A w \in Threads : work[w] = {} /\ at[w] = "idle" /\ snapshot[w] = <<>>
      /\ mode = "up"
  BY DEF Init, Nrs
<1>2. DataOK
  BY <1>1, ChainNothing DEF DataOK, ChainOK, FileOK
<1>3. FreshOK
  <2>1. persistDue => FALSE
    BY <1>1, Zenon
  <2> QED BY <1>1, <2>1 DEF FreshOK
<1>4. OrderOK
  BY <1>1 DEF OrderOK, Written
<1>5. ThreadsOK
  BY <1>1 DEF ThreadsOK, Threads
<1>6. FirstRunOK
  BY <1>1 DEF FirstRunOK
<1> QED BY <1>2, <1>3, <1>4, <1>5, <1>6 DEF OneByOne

LEMMA NextInOrder ==
  ASSUME IInv, OneByOne, OneWorker, [Next]_vars
  PROVE  OneByOne'
<1>1. CASE Confirm \/ Persist \/ Skip \/ CallFromTimer \/ \E nr \in Nrs : CacheTimeout(nr)
  BY <1>1, ConfirmInOrder, ManagerInOrder, CallFromTimerInOrder, CacheInOrder
<1>2. CASE \E w \in Threads : Write(w)
  BY <1>2, TakeInOrder, FileTasksInOrder, AppendLinesInOrder, SetFileCursorsInOrder,
     SerializeInOrder, FinishInOrder DEF Write
<1>3. CASE Read
  BY <1>3, CacheInOrder
<1>4. CASE Exit \/ CloseBlock \/ CloseIndex
  <2>1. Closer \in Threads
    BY DEF Threads
  <2> QED BY <1>4, <2>1, ExitInOrder, CloseBlockInOrder, FileTasksInOrder
<1>5. CASE Closed \/ Crash
  <2>1. Down("down") /\ "down" \in Mode \ {"up", "exiting"}
    BY <1>5 DEF Closed, Crash, Mode
  <2> QED BY <2>1, DownInOrder
<1>6. CASE Start
  BY <1>6, LoadIndexInOrder, RebuildIndexInOrder, RefuseInOrder DEF Start
<1>7. CASE UNCHANGED vars
  <2>1. UNCHANGED <<disk, blockVars, tasks, manager, process>>
    BY <1>7 DEF vars
  <2>2. FreshOK'
    BY <2>1, FreshStays DEF OneByOne, index, blockVars, manager, process
  <2> QED BY <2>1, <2>2, AllStays DEF disk, index, blockVars, tasks, process
<1> QED BY <1>1, <1>2, <1>3, <1>4, <1>5, <1>6, <1>7 DEF Next

(* The number of IO workers stays what it is.                              *)
LEMMA WorkersStay ==
  ASSUME [Next]_vars
  PROVE  started' = started
<1>1. CASE Confirm \/ Persist \/ Skip \/ CallFromTimer \/ \E nr \in Nrs : CacheTimeout(nr)
  BY <1>1 DEF Confirm, Persist, Skip, CallFromTimer, CacheTimeout, process
<1>2. CASE \E w \in Threads : Write(w)
  BY <1>2 DEF Write, Take, LockFile, AppendLines, SetFileCursors, Serialize, Truncate, Store,
              Finish, Down, process
<1>3. CASE Read
  BY <1>3 DEF Read, GetTransaction, IsTransactionPending, GetFromObserver, GetFileCursor,
              ReadLine, ReadStep, process
<1>4. CASE Exit \/ CloseBlock \/ CloseIndex \/ Closed \/ Crash
  BY <1>4 DEF Exit, CloseBlock, CloseIndex, Closed, Crash, Down, process
<1>5. CASE Start
  BY <1>5 DEF Start, LoadIndex, RebuildIndex, Refuse, Boot
<1>6. CASE UNCHANGED vars
  BY <1>6 DEF vars, process
<1> QED BY <1>1, <1>2, <1>3, <1>4, <1>5, <1>6 DEF Next

(***************************************************************************)
(* With a single IO worker the transactions are numbered from 1 on and are *)
(* the consecutive accepted messages, in memory, in the index file, and in *)
(* a block file that can be rebuilt from; the tasks are written in order.  *)
(***************************************************************************)
THEOREM InductiveInOrder == Spec => [](OneWorker => OneByOne)
<1>1. Init => (OneWorker => OneByOne)
  BY InitInOrder
<1>2. IInv /\ (OneWorker => OneByOne) /\ [Next]_vars => (OneWorker => OneByOne)'
  <2> SUFFICES ASSUME IInv, OneWorker => OneByOne, [Next]_vars, OneWorker'
               PROVE  OneByOne'
    OBVIOUS
  <2>1. OneWorker
    BY WorkersStay DEF OneWorker
  <2> QED BY <2>1, NextInOrder
<1> QED BY <1>1, <1>2, Inductive, PTL DEF Spec

(* With a single IO worker no message is confirmed before one that came    *)
(* before it.  (See WithoutGap in BlockStore.)                             *)
THEOREM NoGap == Spec => []WithoutGap
<1>1. IInv /\ (OneWorker => OneByOne) => WithoutGap
  <2> SUFFICES ASSUME IInv, OneByOne, NEW nr \in Nrs, nr + 1 \in Nrs
               PROVE  /\ entry[nr] < entry[nr + 1]
                      /\ \A m \in Accepted : m <= entry[nr] \/ entry[nr + 1] <= m
    BY DEF WithoutGap
  <2> QED BY DEF OneByOne, DataOK, ChainOK, Follows
<1> QED BY <1>1, Inductive, InductiveInOrder, PTL

(* With a single IO worker the lines of the first run ascend.  (See        *)
(* WrittenInOrder in BlockStore.)                                          *)
THEOREM LinesInOrder == Spec => []WrittenInOrder
<1>1. (OneWorker => OneByOne) => WrittenInOrder
  BY DEF WrittenInOrder, OneByOne, FirstRunOK
<1> QED BY <1>1, InductiveInOrder, PTL

(* Two chains from the same first message are the same as far as both go.  *)
Chain(D, d) ==
  \A nr \in D : /\ nr \in Nr /\ d[nr] \in Accepted /\ 1..nr \subseteq D
                /\ nr + 1 \in D => Follows(d[nr], d[nr + 1])

LEMMA SameChain ==
  ASSUME NEW D, NEW E, NEW d, NEW e, Chain(D, d), Chain(E, e),
         1 \in D /\ 1 \in E => d[1] = e[1]
  PROVE  \A nr \in D \cap E : d[nr] = e[nr]
<1> DEFINE S == {nr \in D \cap E : d[nr] # e[nr]}
<1>1. SUFFICES ASSUME S # {} PROVE FALSE
  OBVIOUS
<1>2. S \in SUBSET Nat
  BY DEF Chain, Nr
<1>3. PICK nr \in S : \A k \in S : nr <= k
  <2> HIDE DEF S
  <2> QED BY <1>1, <1>2, SmallestMember
<1>4. nr \in Nat /\ nr > 1 /\ nr \in D /\ nr \in E /\ d[nr] # e[nr]
  <2>1. nr # 0 /\ nr # 1 /\ nr \in Nat
    BY DEF Chain, Nr
  <2> QED BY <2>1
<1>5. nr - 1 \in D /\ nr - 1 \in E /\ (nr - 1) + 1 = nr
  <2>1. nr - 1 \in 1..nr
    BY <1>4
  <2> QED BY <1>4, <2>1 DEF Chain
<1>6. d[nr - 1] = e[nr - 1]
  <2>1. ~(nr <= nr - 1)
    BY <1>4
  <2>2. nr - 1 \notin S
    <3> HIDE DEF S
    <3> QED BY <1>3, <2>1
  <2> QED BY <1>5, <2>2
<1>7. Follows(d[nr - 1], d[nr]) /\ Follows(e[nr - 1], e[nr])
  <2>1. \A k \in D : k + 1 = nr => Follows(d[k], d[nr])
    BY <1>4 DEF Chain
  <2>2. \A k \in E : k + 1 = nr => Follows(e[k], e[nr])
    BY <1>4 DEF Chain
  <2> QED BY <1>5, <2>1, <2>2
<1>8. d[nr - 1] \in Nat /\ d[nr] \in Nat /\ e[nr] \in Nat /\ d[nr] \in Accepted /\ e[nr] \in Accepted
  <2>1. d[nr - 1] \in Accepted /\ d[nr] \in Accepted /\ e[nr] \in Accepted
    BY <1>4, <1>5 DEF Chain
  <2>2. Accepted \subseteq Nat
    BY StoreAssumption
  <2> QED BY <2>1, <2>2
<1>9. d[nr] <= e[nr] /\ e[nr] <= d[nr]
  BY <1>6, <1>7, <1>8 DEF Follows
<1> QED BY <1>4, <1>8, <1>9

(***************************************************************************)
(* With a single IO worker a restart, from the index file or the block     *)
(* file, has the transactions from the first one on, and each keeps its    *)
(* number.  (See RestartKeepsNumbers in BlockStore.)                       *)
(***************************************************************************)
THEOREM NumbersAreKept == Spec => RestartKeepsNumbers
<1>1. ASSUME IInv, OneWorker => OneByOne, [Next]_vars, IInv',
             OneWorker, mode' = "up", mode \notin {"up", "exiting"}, Beginning
      PROVE  \A nr \in DOMAIN entry' : /\ nr \in Nrs => entry'[nr] = entry[nr]
                                       /\ 1..nr \subseteq DOMAIN entry'
  <2>1. OneByOne /\ OneByOne'
    BY <1>1, NextInOrder
  <2>2. LoadIndex \/ \E reset \in BOOLEAN : RebuildIndex(reset)
    <3>1. ~(Confirm \/ Persist \/ Skip \/ CallFromTimer \/ \E nr \in Nrs : CacheTimeout(nr))
      BY <1>1 DEF Confirm, Persist, Skip, CallFromTimer, CacheTimeout
    <3>2. ~(\E w \in Threads : Write(w))
      BY <1>1 DEF Write, Take, LockFile, AppendLines, SetFileCursors, Serialize, Truncate, Store,
                  Finish, Down, process
    <3>3. ~Read
      BY <1>1 DEF Read, GetTransaction, IsTransactionPending, GetFromObserver, GetFileCursor,
                  ReadLine, ReadStep, process
    <3>4. ~(Exit \/ CloseBlock \/ CloseIndex \/ Closed \/ Crash)
      BY <1>1 DEF Exit, CloseBlock, CloseIndex, Closed, Crash, Down, process
    <3>5. ~(UNCHANGED vars)
      BY <1>1 DEF vars, process
    <3>6. \A reset \in BOOLEAN : ~Refuse(reset)
      BY <1>1 DEF Refuse
    <3>7. Start
      BY <1>1, <3>1, <3>2, <3>3, <3>4, <3>5 DEF Next
    <3> QED BY <3>6, <3>7 DEF Start
  <2>3. 1 \in Nrs /\ 1 \in Nrs' => entry[1] = entry'[1]
    <3>1. CASE LoadIndex
      BY <1>1, <2>1, <3>1, LoadIndexInOrder
    <3>2. CASE \E reset \in BOOLEAN : RebuildIndex(reset)
      <4> SUFFICES ASSUME 1 \in Nrs, 1 \in Nrs' PROVE entry[1] = entry'[1]
        OBVIOUS
      <4>1. 1 \in DOMAIN file /\ entry'[1] = file[1].msg
        BY <1>1, <2>1, <3>2, RebuildIndexInOrder
      <4>2. entry'[1] \in Accepted /\ entry[1] \in Accepted /\ Accepted \subseteq Nat
        BY <1>1, EntryNat DEF IInv, IndexOK
      <4>3. Min(Nrs) = 1
        <5>1. Nrs \in SUBSET Nat /\ \A nr \in Nrs : 1 <= nr
          BY <1>1, NrsFinite DEF Nr
        <5>2. Min(Nrs) = CHOOSE x \in Nrs : \A y \in Nrs : x <= y
          BY DEF Min
        <5>3. \A x \in Nrs : (\A y \in Nrs : x <= y) => x = 1
          BY <5>1
        <5> QED BY <5>1, <5>2, <5>3
      <4>4. \A m \in Accepted : entry[1] <= m /\ file[1].msg <= m
        <5>1. Nrs # {} /\ file # <<>>
          BY <4>1
        <5> QED BY <1>1, <4>3, <5>1 DEF Beginning
      <4>5. entry[1] <= entry'[1] /\ entry'[1] <= entry[1]
        BY <4>1, <4>2, <4>4
      <4>6. entry[1] \in Nat /\ entry'[1] \in Nat
        BY <4>2
      <4> QED BY <4>5, <4>6
    <3> QED BY <2>2, <3>1, <3>2
  <2>4. Chain(Nrs, entry) /\ Chain(Nrs', entry')
    <3>1. /\ \A nr \in Nrs : nr \in Nr /\ entry[nr] \in Accepted
          /\ \A nr \in Nrs' : nr \in Nr /\ entry'[nr] \in Accepted
      BY <1>1 DEF IInv, IndexOK
    <3>2. Chain(Nrs, entry)
      BY <2>1, <3>1 DEF Chain, OneByOne, DataOK, ChainOK
    <3>3. \A nr \in Nrs' : /\ 1..nr \subseteq Nrs'
                           /\ nr + 1 \in Nrs' => Follows(entry'[nr], entry'[nr + 1])
      BY <2>1 DEF OneByOne, DataOK, ChainOK, Follows
    <3> QED BY <3>1, <3>2, <3>3 DEF Chain
  <2>5. \A nr \in Nrs' : 1..nr \subseteq Nrs'
    BY <2>4 DEF Chain
  <2>6. \A nr \in Nrs \cap Nrs' : entry[nr] = entry'[nr]
    BY <2>3, <2>4, SameChain
  <2>8. Nrs' = DOMAIN entry'
    BY DEF Nrs
  <2> QED BY <2>5, <2>6, <2>8
<1> DEFINE Kept == \A nr \in DOMAIN entry' : /\ nr \in Nrs => entry'[nr] = entry[nr]
                                             /\ 1..nr \subseteq DOMAIN entry'
           Starts == OneWorker /\ mode' = "up" /\ mode \notin {"up", "exiting"} /\ Beginning
<1>2. IInv /\ IInv' /\ (OneWorker => OneByOne) /\ [Next]_vars => [Starts => Kept]_vars
  BY <1>1
<1> QED BY <1>2, Inductive, InductiveInOrder, PTL DEF Spec, RestartKeepsNumbers
=============================================================================
