--------------------------- MODULE BlockIndexFile ---------------------------
(***************************************************************************)
(* The format of the block index file, in which cache::BlockIndex survives *)
(* the process: a year block, the month blocks of that year, after each of *)
(* them a data block for every transaction of the month, and a hash of all *)
(* this at the end.                                                        *)
(*                                                                         *)
(* An index is a record of two functions of its transaction nrs: the month *)
(* each of them is filed under, and its cursor in the block file (1 stands *)
(* for offset 0).                                                          *)
(***************************************************************************)
EXTENDS SequencesExt, Ordered

Month(year, month) == [year |-> year, month |-> month]
Index(months, cursors) == [months |-> months, cursors |-> cursors]
EmptyIndex == Index([nr \in {} |-> 0], [nr \in {} |-> 0])

-----------------------------------------------------------------------------
(* Writing.                                                                *)

BlockTypes == {"year", "month", "data", "hash"}
YearBlock(year) == [type |-> "year", year |-> year]
MonthBlock(month) == [type |-> "month", month |-> month]
DataBlock(nr, cursor) == [type |-> "data", transactionNr |-> nr, fileCursor |-> cursor]
HashBlock(blocks) == [type |-> "hash", of |-> blocks]

(* What serialize comes by in the maps of years and months: a year, with   *)
(* month 0, a month, with nr 0, and the transactions of the month.         *)
Place(year, month, nr) == [year |-> year, month |-> month, nr |-> nr]

PlacesFor(month, nr) ==
  {Place(month.year, 0, 0), Place(month.year, month.month, 0),
   Place(month.year, month.month, nr)}

PlacesOf(index) ==
  UNION {PlacesFor(index.months[nr], nr) : nr \in DOMAIN index.months}

Before(p, q) ==
  \/ p.year < q.year
  \/ p.year = q.year /\ p.month < q.month
  \/ p.year = q.year /\ p.month = q.month /\ p.nr < q.nr

ByDate(S) == {pq \in S \X S : Before(pq[1], pq[2])}

(* Every transaction of the index must have its cursor.                    *)
BlockAt(index, place) ==
  IF place.month = 0 THEN YearBlock(place.year)
  ELSE IF place.nr = 0 THEN MonthBlock(place.month)
  ELSE DataBlock(place.nr, index.cursors[place.nr])

IndexBlocks(index) ==
  LET order == InOrder(PlacesOf(index), ByDate(PlacesOf(index))) IN
  [i \in DOMAIN order |-> BlockAt(index, order[i])]

WriteToFile(blocks) == Append(blocks, HashBlock(blocks))

-----------------------------------------------------------------------------
(* Reading.  A file without blocks is one that was just created.           *)

IsEmpty(blocks) == blocks = <<>>
IsWhole(blocks) == Last(blocks) = HashBlock(Front(blocks))

(* The reader keeps the year and the month of the last such block.         *)
NoCursor == Month(0, 0)

LastOf(blocks, type, i) ==
  LET read == {k \in 1..i : blocks[k].type = type} IN
  IF read = {} THEN NoCursor ELSE blocks[Max(read)]

MonthAt(blocks, i) ==
  Month(LastOf(blocks, "year", i).year, LastOf(blocks, "month", i).month)

DataIn(blocks) == {i \in 1..Len(blocks) : blocks[i].type = "data"}

(* addIndicesForTransaction, and the cursor: a nr must be above those of   *)
(* its month, offset 0 is for the first transaction of the block only.     *)
CanRead(blocks) ==
  \A i, k \in DataIn(blocks) : k < i =>
    /\ MonthAt(blocks, k) = MonthAt(blocks, i) =>
         blocks[k].transactionNr < blocks[i].transactionNr
    /\ blocks[i].fileCursor = 1 => blocks[i].transactionNr <= blocks[k].transactionNr

(* A nr has one data block in a file that can be read and was written.     *)
DataOf(blocks, nr) == CHOOSE i \in DataIn(blocks) : blocks[i].transactionNr = nr

ReadFromFile(blocks) ==
  LET nrs == {blocks[i].transactionNr : i \in DataIn(blocks)} IN
  Index([nr \in nrs |-> MonthAt(blocks, DataOf(blocks, nr))],
        [nr \in nrs |-> blocks[DataOf(blocks, nr)].fileCursor])

-----------------------------------------------------------------------------
(* The index in memory.                                                    *)

AddIndices(months, month, nr) ==
  [n \in DOMAIN months \cup {nr} |-> IF n = nr THEN month ELSE months[n]]

(* A cursor is set once unless it is 0.                                    *)
SetCursor(cursors, nr, cursor) ==
  [n \in DOMAIN cursors \cup {nr} |->
     IF n = nr /\ (n \notin DOMAIN cursors \/ cursors[n] = 1) THEN cursor
     ELSE cursors[n]]
=============================================================================
