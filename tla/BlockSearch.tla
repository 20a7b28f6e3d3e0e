----------------------------- MODULE BlockSearch ----------------------------
(***************************************************************************)
(* How the blockchain is searched: cache::BlockIndex::findTransactions and *)
(* FileBased::findAll, and the wallet view of an account that              *)
(* model::Apollo makes of what they find.                                  *)
(*                                                                         *)
(* The chain is the first n entries of Ledger, all in one block.  Decay is *)
(* left out of the amounts.  A filter is a record as the callers build it: *)
(*   from: minTransactionNr, or 0;   key: involvedPublicKey, or NoKey;     *)
(*   type: transactionType, or "NONE";   size, page: pagination;           *)
(*   dir: searchDirection;   function: filterFunction.                     *)
(***************************************************************************)
EXTENDS Sequences, SequencesExt, FiniteSetsExt, Ordered

CONSTANTS
  Ledger,  \* transaction nr -> what is confirmed under it
  NoKey,   \* no public key
  UnsetBalance \* what a GradidoUnit is that nobody set

Types == {"COMMUNITY_ROOT", "REGISTER_ADDRESS", "CREATION", "TRANSFER",
          "DEFERRED_TRANSFER", "REDEEM_DEFERRED_TRANSFER", "TIMEOUT_DEFERRED_TRANSFER"}

ASSUME LedgerAssumption ==
  /\ Len(Ledger) \in Nat
  /\ \A nr \in 1..Len(Ledger) :
    /\ Ledger[nr].type \in Types
    /\ Ledger[nr].month \in Nat
    /\ \A k \in 1..nr : Ledger[k].month <= Ledger[nr].month
    /\ Ledger[nr].link \in 0..nr - 1
    /\ Ledger[nr].amount \in Int
    /\ Ledger[nr].plain \in BOOLEAN  \* one of its memos is not encrypted

LinkOf(nr) == Ledger[Ledger[nr].link]

(* What names a deferred transfer takes from its address, and what times   *)
(* out goes back to its sender.                                            *)
ASSUME LinkAssumption ==
  \A nr \in 1..Len(Ledger) :
    /\ Ledger[nr].link # 0 <=>
         Ledger[nr].type \in {"REDEEM_DEFERRED_TRANSFER", "TIMEOUT_DEFERRED_TRANSFER"}
    /\ Ledger[nr].link # 0 => LinkOf(nr).type = "DEFERRED_TRANSFER" /\ Ledger[nr].from = LinkOf(nr).to
    /\ Ledger[nr].type = "TIMEOUT_DEFERRED_TRANSFER" =>
         Ledger[nr].to = LinkOf(nr).from /\ Ledger[nr].amount = 0

(* getInvolvedAddresses: the indices of the entry's addresses.             *)
AddressIndices(nr) ==
  {Ledger[nr].from, Ledger[nr].to} \cup
    (IF Ledger[nr].link = 0 THEN {} ELSE {LinkOf(nr).from, LinkOf(nr).to})

-----------------------------------------------------------------------------
(* BlockIndex.                                                             *)

(* Mutant: only those after the minimum.                                   *)
MatchingAfter(filter, nr) ==
  /\ filter.type \in {"NONE", Ledger[nr].type}
  /\ nr > filter.from
  /\ filter.key = NoKey \/ filter.key \in AddressIndices(nr)

(* No caller filters by maximum number or by the community of the coins.   *)
IsMatchingFilter(filter, nr) ==
  /\ filter.type \in {"NONE", Ledger[nr].type}
  /\ nr >= filter.from
  /\ filter.key = NoKey \/ filter.key \in AddressIndices(nr)

(* The members of S, numbers or months, as the search comes by them.       *)
Directed(filter, S) ==
  InOrder(S, {p \in S \X S : IF filter.dir = "DESC" THEN p[1] > p[2] ELSE p[1] < p[2]})

(* Of the first n entries.                                                 *)
MonthEntries(month, n) == {nr \in 1..n : Ledger[nr].month = month}
OldestYearMonth == Ledger[1].month
NewestYearMonth(n) == Ledger[n].month
FilteredInterval(n) == OldestYearMonth..NewestYearMonth(n)

HasTransactionNr(nr, n) == nr \in 1..n
TransactionsCount(n) == n

HasCapacityLeft(filter, found) == filter.size = 0 \/ found < filter.size

(* Mutant: a page begins with the last entry of the one before.            *)
SkipAllButOne(filter) == IF filter.page < 1 THEN 0 ELSE (filter.page - 1) * (filter.size - 1)

SkipEntriesCount(filter) == IF filter.page < 1 THEN 0 ELSE (filter.page - 1) * filter.size

(* One entry of a month; a page that is full ends the month, but not the   *)
(* search: the first entry of every later month is looked at as well.      *)
Visit(filter, acc, nr) ==
  LET use == IsMatchingFilter(filter, nr)
      result == IF use /\ acc.cursor >= SkipEntriesCount(filter)
                THEN Append(acc.result, nr) ELSE acc.result IN
  IF acc.full THEN acc
  ELSE [result |-> result,
        cursor |-> IF use THEN acc.cursor + 1 ELSE acc.cursor,
        full |-> ~HasCapacityLeft(filter, Len(result))]

VisitAll(filter, acc, nrs) ==
  LET after[i \in 0..Len(nrs)] ==
        IF i = 0 THEN [acc EXCEPT !.full = FALSE] ELSE Visit(filter, after[i - 1], nrs[i])
  IN  after[Len(nrs)]

VisitMonth(filter, acc, month, n) == VisitAll(filter, acc, Directed(filter, MonthEntries(month, n)))

NothingFound == [result |-> <<>>, cursor |-> 0, full |-> FALSE]

VisitMonths(filter, months, n) ==
  LET after[i \in 0..Len(months)] ==
        IF i = 0 THEN NothingFound ELSE VisitMonth(filter, after[i - 1], months[i], n)
  IN  after[Len(months)].result

FindTransactions(filter, n) ==
  IF filter.from > n THEN <<>> ELSE VisitMonths(filter, Directed(filter, FilteredInterval(n)), n)

-----------------------------------------------------------------------------
(* FileBased.                                                              *)

(* filterOutNotForWallet.                                                  *)
NotForWallet(key, nr) ==
  \/ Ledger[nr].type = "CREATION" /\ Ledger[nr].to # key
  \/ Ledger[nr].type = "REGISTER_ADDRESS"

Use(filter, nr) ==
  CASE filter.function = "wallet" -> ~NotForWallet(filter.key, nr)
    [] filter.function = "nameHash" -> Ledger[nr].to = filter.user
    [] OTHER -> TRUE

Stop(filter, nr) == filter.function = "nameHash" /\ Ledger[nr].to = filter.user

(* What the search finds in the blocks, of which there is one: a block     *)
(* without transactions ends the iteration.                                *)
IterateBlocks(filter, n) ==
  IF TransactionsCount(n) = 0 THEN <<>> ELSE FindTransactions(filter, n)

(* findAll: the filter function sees the transactions of the page.  Mutant:*)
(* all that findTransactions has found.                                    *)
KeepOverfull(filter, n) ==
  SelectSeq(IterateBlocks(filter, n), LAMBDA nr : Use(filter, nr))

Keep(filter, acc, nr) ==
  IF acc.stopped \/ ~HasCapacityLeft(filter, Len(acc.result)) THEN acc
  ELSE [result |-> IF Use(filter, nr) THEN Append(acc.result, nr) ELSE acc.result,
        stopped |-> Stop(filter, nr)]

KeepAll(filter, found) ==
  LET after[i \in 0..Len(found)] ==
        IF i = 0 THEN [result |-> <<>>, stopped |-> FALSE] ELSE Keep(filter, after[i - 1], found[i])
  IN  after[Len(found)].result

FindAll(filter, n) == KeepAll(filter, IterateBlocks(filter, n))

FindAllFast(filter, n) == IterateBlocks(filter, n)

-----------------------------------------------------------------------------
(* getAccountBalances of the confirmed transactions, without decay: the     *)
(* balance after the first n.                                              *)
Gain(nr, key) ==
  LET to == IF Ledger[nr].to = key THEN Ledger[nr].amount ELSE 0
      origin == IF Ledger[nr].link # 0 /\ LinkOf(nr).from = key
                THEN LinkOf(nr).amount - Ledger[nr].amount ELSE 0
      out == IF Ledger[nr].from = key
             THEN IF Ledger[nr].link # 0 THEN LinkOf(nr).amount ELSE Ledger[nr].amount
             ELSE 0 IN
  CASE Ledger[nr].type \in {"COMMUNITY_ROOT", "REGISTER_ADDRESS"} -> 0
    [] Ledger[nr].type = "CREATION" -> to
    [] OTHER -> to + origin - out

Balance(n, key) ==
  LET after[nr \in 0..n] == IF nr = 0 THEN 0 ELSE after[nr - 1] + Gain(nr, key) IN after[n]

-----------------------------------------------------------------------------
(* model::Apollo::createTransaction: a line of the wallet, or none.        *)

LineWithChange(type, amount, change) == <<[type |-> type, amount |-> amount, change |-> change]>>
Line(type, amount) == LineWithChange(type, amount, 0)

CreationTransactionRole(nr, key) == Line("CREATE", Ledger[nr].amount)

TransferTransactionRole(nr, key) ==
  IF Ledger[nr].to = key THEN Line("RECEIVE", Ledger[nr].amount)
  ELSE Line("SEND", -Ledger[nr].amount)

DeferredTransferTransactionRole(nr, key) ==
  IF Ledger[nr].to = key THEN Line("LINK_CHARGE", Ledger[nr].amount)
  ELSE Line("LINK_SEND", -Ledger[nr].amount)

(* calculateChange: what is left of the deferred transfer.  The sender of  *)
(* a redeeming transfer is the address of the link.                        *)
Change(nr) == LinkOf(nr).amount - Ledger[nr].amount

(* getAddressType is DEFERRED_TRANSFER: the account is the address of a    *)
(* link.                                                                   *)
IsLink(key, n) == \E nr \in 1..n : Ledger[nr].type = "DEFERRED_TRANSFER" /\ Ledger[nr].to = key

SetChange(line, nr) == LineWithChange(line[1].type, line[1].amount, -Change(nr))

(* Mutant: the sender of the link is shown what the recipient gets.        *)
RedeemedAmount(nr, key, isLink) ==
  IF Ledger[nr].to = key THEN Line("LINK_RECEIVE", Ledger[nr].amount)
  ELSE Line("LINK_CHANGE", Ledger[nr].amount)

RedeemDeferredTransferTransactionRole(nr, key, isLink) ==
  LET line == IF Ledger[nr].to = key THEN Line("LINK_RECEIVE", Ledger[nr].amount)
              ELSE IF Ledger[nr].from = key THEN Line("SEND", -Ledger[nr].amount)
              ELSE Line("LINK_CHANGE", Change(nr))
  IN  IF isLink THEN SetChange(line, nr) ELSE line

TimeoutDeferredTransferTransactionRole(nr, key) == Line("LINK_TIMEOUT", LinkOf(nr).amount)

CreateTransaction(nr, key, isLink) ==
  CASE Ledger[nr].type = "CREATION" -> CreationTransactionRole(nr, key)
    [] Ledger[nr].type = "TRANSFER" -> TransferTransactionRole(nr, key)
    [] Ledger[nr].type = "DEFERRED_TRANSFER" -> DeferredTransferTransactionRole(nr, key)
    [] Ledger[nr].type = "REDEEM_DEFERRED_TRANSFER" ->
         RedeemDeferredTransferTransactionRole(nr, key, isLink)
    [] Ledger[nr].type = "TIMEOUT_DEFERRED_TRANSFER" -> TimeoutDeferredTransferTransactionRole(nr, key)
    [] OTHER -> <<>>

(* generateList: the transactions on the page that give a line, in the     *)
(* order of the chain.                                                     *)
AddLine(filter, lines, nr, isLink) ==
  IF CreateTransaction(nr, filter.key, isLink) # <<>> THEN Append(lines, nr) ELSE lines

AddLines(filter, all, isLink) ==
  LET after[i \in 0..Len(all)] ==
        IF i = 0 THEN <<>> ELSE AddLine(filter, after[i - 1], all[i], isLink)
  IN  after[Len(all)]

Ascending(filter, s) == IF filter.dir = "DESC" THEN Reverse(s) ELSE s

Lines(filter, n) ==
  AddLines(filter, Ascending(filter, FindAll(filter, n)), IsLink(filter.key, n))

(* The balance a line begins with is the one the line before it on the     *)
(* page ends with.                                                         *)
PreviousBalance(lines, i, key) == IF i = 1 THEN 0 ELSE Balance(lines[i - 1], key)

(* The line of the decay since the last line of the page, from its date    *)
(* and its balance.  A line's constructor returns at a plain memo: number, *)
(* date and balance are not set then, and the decay begins in 1970.        *)
DecayLine(nr, key) ==
  IF Ledger[nr].plain THEN [from |-> 0, startBalance |-> UnsetBalance]
  ELSE [from |-> nr, startBalance |-> Balance(nr, key)]

(* "check if it has last decay".  Mutant: nothing is skipped.              *)
LastPageWithoutSkip(filter, count) ==
  \/ count <= filter.size
  \/ filter.dir = "ASC" /\ filter.size >= count
  \/ filter.dir = "DESC" /\ filter.page <= 1

HasLastDecay(filter, count) ==
  \/ count <= filter.size
  \/ filter.dir = "ASC" /\ SkipEntriesCount(filter) + filter.size >= count
  \/ filter.dir = "DESC" /\ filter.page <= 1

-----------------------------------------------------------------------------
(* What a search promises, over the first n entries.                       *)

Wanted(filter, nr) ==
  /\ filter.type = "NONE" \/ Ledger[nr].type = filter.type
  /\ filter.from <= nr
  /\ filter.key = NoKey \/ filter.key \in AddressIndices(nr)

MatchingNrs(filter, n) ==
  Directed(filter, {nr \in 1..n : Wanted(filter, nr)})

(* Pages are counted from 1; 0 is the first as well.                       *)
PageOf(filter, s) ==
  LET page == IF filter.page = 0 THEN 1 ELSE filter.page IN
  IF filter.size = 0 THEN s
  ELSE SubSeq(s, (page - 1) * filter.size + 1, Min({Len(s), page * filter.size}))
=============================================================================
