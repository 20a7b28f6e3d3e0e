-------------------- MODULE SimpleOrderingManager_proofs --------------------
(***************************************************************************)
(* Proofs about SimpleOrderingManager, for every set of communities, every *)
(* topic and every number of deliveries.                                   *)
(***************************************************************************)
EXTENDS SimpleOrderingManager, NaturalSets

(* The first entry of a map that is not empty is one of its entries.       *)
LEMMA FirstIsThere ==
  ASSUME TypeOK, NEW c \in Community, mTransactions[c] # {}
  PROVE  First(c) \in mTransactions[c] /\ First(c) \in Messages(c)
<1>1. mTransactions[c] \in SUBSET Nat /\ mTransactions[c] \subseteq Messages(c)
  BY DEF TypeOK
<1>2. \E m \in mTransactions[c] : \A k \in mTransactions[c] : m <= k
  BY <1>1, SmallestMember
<1> QED BY <1>1, <1>2 DEF First, Oldest

(* Messages are numbered, and so are their sequence numbers.               *)
LEMMA MessageType == \A c \in Community : Messages(c) \subseteq Nat
<1>1. \A c \in Community : Topic[c] \in Seq(Message)
  BY TopicAssumption
<1> QED BY <1>1 DEF Messages

LEMMA SeqNoType ==
  ASSUME NEW c \in Community, NEW m \in Messages(c)
  PROVE  SeqNo(c, m) \in Nat \ {0}
<1>1. Topic[c] \in Seq(Message)
  BY TopicAssumption
<1>2. Topic[c][m] \in Message
  BY <1>1 DEF Messages
<1> QED BY <1>2 DEF SeqNo, Message

-----------------------------------------------------------------------------
(***************************************************************************)
(* The inductive invariant, one community at a time.  While the thread has *)
(* the map locked, the transaction it works on stays the first one, is out *)
(* of its task, and is next in order.  What is confirmed is decided, in    *)
(* order, and known to the persisted number up to one.                     *)
(***************************************************************************)
HoldsFirst(c) ==
  Locked(c) => /\ mTransactions[c] # {}
               /\ task[c][First(c)] = "finished"
               /\ SeqNo(c, First(c)) = mLastSequenceNumber[c] + 1

ChainDecided(c) ==
  /\ \A i \in 1..Len(chain[c]) : SeqNo(c, chain[c][i]) <= Decided(c)
  /\ \A i, j \in 1..Len(chain[c]) :
       i < j => SeqNo(c, chain[c][i]) < SeqNo(c, chain[c][j])

PersistedNumber(c) ==
  /\ persisted[c] <= mLastSequenceNumber[c]
  /\ pc[c] # "persist" =>
       \A i \in 1..Len(chain[c]) : SeqNo(c, chain[c][i]) <= persisted[c] + 1

UnfinishedInMap(c) ==
  \A m \in Messages(c) :
    task[c][m] \in {"scheduled", "returned"} => m \in mTransactions[c]

Inv(c) ==
  HoldsFirst(c) /\ ChainDecided(c) /\ PersistedNumber(c) /\ UnfinishedInMap(c)

IInv == TypeOK /\ \A c \in Community : Inv(c)

(* Nothing of a community changes.                                         *)
Same(d) ==
  /\ mTransactions'[d] = mTransactions[d]
  /\ task'[d] = task[d]
  /\ pc'[d] = pc[d]
  /\ mLastSequenceNumber'[d] = mLastSequenceNumber[d]
  /\ persisted'[d] = persisted[d]
  /\ chain'[d] = chain[d]

LEMMA SameKeepsInv ==
  ASSUME NEW d \in Community, Inv(d), Same(d)
  PROVE  Inv(d)'
BY DEF Inv, Same, HoldsFirst, ChainDecided, PersistedNumber, UnfinishedInMap,
       Locked, First, Decided, Messages, SeqNo

LEMMA InitIInv == Init => IInv
<1> SUFFICES ASSUME Init PROVE IInv
  OBVIOUS
<1> USE TopicAssumption DEF Init
<1>1. TypeOK
  BY DEF TypeOK, TaskState, Result, PC, Idle, Locking, Failure, Messages
<1>2. ASSUME NEW c \in Community PROVE Inv(c)
  BY DEF Inv, HoldsFirst, ChainDecided, PersistedNumber, UnfinishedInMap,
         Locked, Locking, Messages
<1> QED BY <1>1, <1>2 DEF IInv

(* An action of a community that leaves the others alone keeps IInv if it  *)
(* keeps the types and the invariant of its own community.                 *)
LEMMA OneCommunity ==
  ASSUME IInv, NEW c \in Community, TypeOK', Inv(c)',
         \A d \in Community \ {c} : Same(d)
  PROVE  IInv'
BY SameKeepsInv DEF IInv

(* updateSequenceNumber does not throw for the transaction in hand.        *)
LEMMA UpdateAccepts ==
  ASSUME IInv, NEW c \in Community, Locked(c), UpdateSequenceNumber(c)
  PROVE  /\ mLastSequenceNumber' =
              [mLastSequenceNumber EXCEPT ![c] = mLastSequenceNumber[c] + 1]
         /\ UNCHANGED failure
<1>1. SeqNo(c, First(c)) = mLastSequenceNumber[c] + 1
  BY DEF IInv, Inv, HoldsFirst
<1> QED BY <1>1 DEF UpdateSequenceNumber, Acceptable

(* Erasing the transaction in hand and counting it keeps the invariant.    *)
LEMMA DecisionKeepsIInv ==
  ASSUME IInv, NEW c \in Community, Locked(c), pc[c] # "persist",
         EraseFirst(c), UpdateSequenceNumber(c),
         NEW p \in {"iterate", "top"}, Goto(c, p),
         transactionsLeft' \in [Community -> BOOLEAN],
         UNCHANGED <<mLastTransactions, persisted, chain, task, result, exitCalled>>
  PROVE  IInv'
<1> USE DEF IInv
<1>1. First(c) \in mTransactions[c] /\ First(c) \in Messages(c)
  BY FirstIsThere DEF Inv, HoldsFirst
<1>2. /\ mTransactions' = [mTransactions EXCEPT ![c] = mTransactions[c] \ {First(c)}]
      /\ mLastSequenceNumber' =
           [mLastSequenceNumber EXCEPT ![c] = mLastSequenceNumber[c] + 1]
      /\ pc' = [pc EXCEPT ![c] = p]
      /\ UNCHANGED failure
  BY UpdateAccepts DEF EraseFirst, Goto
<1>3. TypeOK'
  <2>1. mTransactions' \in [Community -> SUBSET Nat]
    BY <1>2 DEF TypeOK
  <2>2. \A d \in Community : mTransactions'[d] \subseteq Messages(d)
    BY <1>2 DEF TypeOK
  <2>3. mLastSequenceNumber' \in [Community -> Nat] /\ pc' \in [Community -> PC]
    BY <1>2 DEF TypeOK, PC, Idle
  <2> QED BY <1>2, <2>1, <2>2, <2>3 DEF TypeOK, Messages
<1>4. \A d \in Community \ {c} : Same(d)
  BY <1>2 DEF Same, TypeOK
<1>5. Inv(c)'
  <2>1. ~Locked(c)' /\ pc'[c] = p
    BY <1>2 DEF Locked, Locking, TypeOK
  <2>2. mLastSequenceNumber'[c] = mLastSequenceNumber[c] + 1 /\ mLastSequenceNumber[c] \in Nat
    BY <1>2 DEF TypeOK
  <2>3. Decided(c) \in Nat /\ Decided(c)' \in Nat /\ Decided(c) <= Decided(c)'
    BY <2>1, <2>2 DEF Decided
  <2>4. \A i \in 1..Len(chain[c]) : SeqNo(c, chain[c][i]) \in Nat
    BY SeqNoType DEF TypeOK
  <2>5. ChainDecided(c)'
    BY <2>3, <2>4 DEF Inv, ChainDecided, SeqNo
  <2>6. PersistedNumber(c)'
    BY <2>1, <2>2 DEF Inv, PersistedNumber, SeqNo, TypeOK
  <2>7. UnfinishedInMap(c)'
    BY <1>2 DEF Inv, UnfinishedInMap, HoldsFirst, Messages, TypeOK
  <2> QED BY <2>1, <2>5, <2>6, <2>7 DEF Inv, HoldsFirst
<1> QED BY <1>3, <1>4, <1>5, OneCommunity

(* Going on to the next step of a pass, or ending it, keeps the invariant, *)
(* if a step under the lock has the next transaction in hand.              *)
LEMMA MoveKeepsIInv ==
  ASSUME IInv, NEW c \in Community, pc[c] \notin {"persist", "erase"},
         NEW p \in {"iterate", "top", "inbound", "lookup", "confirm", "erase"},
         Goto(c, p),
         p \in Locking => /\ mTransactions[c] # {}
                          /\ task[c][First(c)] = "finished"
                          /\ SeqNo(c, First(c)) = mLastSequenceNumber[c] + 1,
         UNCHANGED <<managerVars, taskVars, exitCalled, failure>>
  PROVE  IInv'
<1> USE DEF IInv, managerVars, taskVars
<1>1. pc' = [pc EXCEPT ![c] = p]
  BY DEF Goto
<1>2. TypeOK'
  BY <1>1 DEF TypeOK, PC, Idle, Locking, Messages
<1>3. \A d \in Community \ {c} : Same(d)
  BY <1>1 DEF Same, TypeOK
<1>4. Inv(c)'
  <2>1. pc'[c] = p
    BY <1>1 DEF TypeOK
  <2>2. HoldsFirst(c)'
    BY <2>1 DEF HoldsFirst, Locked, First, SeqNo
  <2>3. Decided(c) \in Nat /\ Decided(c)' \in Nat /\ Decided(c) <= Decided(c)'
    BY <2>1 DEF Decided, TypeOK
  <2>4. \A i \in 1..Len(chain[c]) : SeqNo(c, chain[c][i]) \in Nat
    BY SeqNoType DEF TypeOK
  <2>5. ChainDecided(c)'
    BY <2>3, <2>4 DEF Inv, ChainDecided, SeqNo
  <2>6. PersistedNumber(c)'
    BY <2>1 DEF Inv, PersistedNumber, SeqNo
  <2>7. UnfinishedInMap(c)'
    BY DEF Inv, UnfinishedInMap, Messages
  <2> QED BY <2>2, <2>5, <2>6, <2>7 DEF Inv
<1> QED BY <1>2, <1>3, <1>4, OneCommunity

(* A process that goes down changes nothing else.                          *)
LEMMA TerminateKeepsIInv ==
  ASSUME IInv, NEW reason \in {"null", "noTransactionId"}, Terminate(reason),
         UNCHANGED <<managerVars, taskVars, pc, exitCalled>>
  PROVE  IInv'
<1> USE DEF IInv, managerVars, taskVars, Terminate
<1>1. TypeOK'
  BY DEF TypeOK, Failure, Messages
<1>2. \A d \in Community : Same(d)
  BY DEF Same
<1> QED BY <1>1, <1>2, SameKeepsInv

LEMMA PushKeepsIInv ==
  ASSUME IInv, NEW c \in Community, NEW m \in Messages(c), Push(c, m)
  PROVE  IInv'
<1> USE TopicAssumption DEF IInv, Push, Goto, managerVars, taskVars
<1>1. TypeOK'
  <2>1. ASSUME NEW d \in Community
        PROVE  task'[d] \in [Messages(d) -> TaskState] /\ result'[d] \in [Messages(d) -> Result]
    BY DEF TypeOK, TaskState, Result
  <2>2. DOMAIN task' = Community /\ DOMAIN result' = Community
    BY DEF TypeOK
  <2>3. \A d \in Community : /\ mTransactions'[d] \subseteq Messages(d)
                             /\ mLastTransactions'[d] \subseteq Messages(d)
    BY DEF TypeOK, Messages
  <2>4. /\ mTransactions' \in [Community -> SUBSET Nat]
        /\ mLastTransactions' \in [Community -> SUBSET Nat]
    BY MessageType DEF TypeOK
  <2>5. pc' \in [Community -> PC]
    BY DEF TypeOK, PC, Idle
  <2> QED BY <2>1, <2>2, <2>3, <2>4, <2>5 DEF TypeOK, Messages
<1>2. \A d \in Community \ {c} : Same(d)
  BY DEF Same, TypeOK
<1>3. Inv(c)'
  BY DEF Inv, HoldsFirst, ChainDecided, PersistedNumber, UnfinishedInMap, TypeOK,
     Locked, Locking, Idle, PC, First, Decided, Messages, SeqNo
<1> QED BY <1>1, <1>2, <1>3, OneCommunity

LEMMA ExpireKeepsIInv ==
  ASSUME IInv, NEW c \in Community, NEW m \in Messages(c), Expire(c, m)
  PROVE  IInv'
<1> USE TopicAssumption DEF IInv, Expire, Goto, managerVars, taskVars
<1>1. TypeOK'
  BY DEF TypeOK, TaskState, Result, PC, Idle, Locking, Failure, Messages
<1>2. \A d \in Community \ {c} : Same(d)
  BY DEF Same, TypeOK
<1>3. Inv(c)'
  BY DEF Inv, HoldsFirst, ChainDecided, PersistedNumber, UnfinishedInMap, TypeOK,
     Locked, Locking, Idle, PC, First, Decided, Messages, SeqNo
<1> QED BY <1>1, <1>2, <1>3, OneCommunity

LEMMA RunTaskKeepsIInv ==
  ASSUME IInv, NEW c \in Community, NEW m \in Messages(c), RunTask(c, m)
  PROVE  IInv'
<1> USE DEF IInv
<1>1. PICK r \in {"garbage", "failed", "success"} :
        result' = [result EXCEPT ![c][m] = r]
  BY DEF RunTask, Outcome
<1>2. \/ pc' = pc
      \/ pc[c] = "waiting" /\ pc' = [pc EXCEPT ![c] = "woken"]
  BY DEF RunTask, CondSignal, Goto
<1>3. /\ task[c][m] = "scheduled"
      /\ task' = [task EXCEPT ![c][m] = "returned"]
      /\ UNCHANGED <<mTransactions, mLastTransactions, mLastSequenceNumber,
                     persisted, chain, transactionsLeft, exitCalled, failure>>
  BY DEF RunTask, managerVars
<1>4. TypeOK'
  <2>1. ASSUME NEW d \in Community
        PROVE  /\ task'[d] \in [Messages(d) -> TaskState]
               /\ result'[d] \in [Messages(d) -> Result]
    BY <1>1, <1>3 DEF TypeOK, TaskState, Result
  <2>2. DOMAIN task' = Community /\ DOMAIN result' = Community
    BY <1>1, <1>3 DEF TypeOK
  <2>3. pc' \in [Community -> PC]
    BY <1>2 DEF TypeOK, PC
  <2> QED BY <1>3, <2>1, <2>2, <2>3 DEF TypeOK, Messages
<1>5. \A d \in Community \ {c} : Same(d)
  BY <1>2, <1>3 DEF Same, TypeOK
<1>6. Inv(c)'
  <2>1. /\ \A k \in Messages(c) : k # m => task'[c][k] = task[c][k]
        /\ task'[c][m] = "returned"
    BY <1>3 DEF TypeOK
  <2>2. Locked(c)' => Locked(c)
    BY <1>2 DEF Locked, Locking, TypeOK
  <2>3. (pc'[c] \in {"persist", "erase"}) = (pc[c] \in {"persist", "erase"})
    BY <1>2 DEF TypeOK
  <2>4. HoldsFirst(c)'
    BY <1>3, <2>1, <2>2, FirstIsThere DEF Inv, HoldsFirst, First, SeqNo
  <2>5. ChainDecided(c)'
    BY <1>3, <2>3 DEF Inv, ChainDecided, Decided, SeqNo
  <2>6. PersistedNumber(c)'
    BY <1>2, <1>3 DEF Inv, PersistedNumber, SeqNo, TypeOK
  <2>7. UnfinishedInMap(c)'
    BY <1>3, <2>1 DEF Inv, UnfinishedInMap, Messages
  <2> QED BY <2>4, <2>5, <2>6, <2>7 DEF Inv
<1> QED BY <1>4, <1>5, <1>6, OneCommunity

LEMMA FinishTaskKeepsIInv ==
  ASSUME IInv, NEW c \in Community, NEW m \in Messages(c), FinishTask(c, m)
  PROVE  IInv'
<1> USE TopicAssumption DEF IInv, FinishTask, Goto, managerVars, taskVars
<1>1. TypeOK'
  BY DEF TypeOK, TaskState, Result, PC, Idle, Locking, Failure, Messages
<1>2. \A d \in Community \ {c} : Same(d)
  BY DEF Same, TypeOK
<1>3. Inv(c)'
  BY DEF Inv, HoldsFirst, ChainDecided, PersistedNumber, UnfinishedInMap, TypeOK,
     Locked, Locking, Idle, PC, First, Decided, Messages, SeqNo
<1> QED BY <1>1, <1>2, <1>3, OneCommunity

LEMMA CheckExitKeepsIInv ==
  ASSUME IInv, NEW c \in Community, CheckExit(c)
  PROVE  IInv'
<1> USE TopicAssumption DEF IInv, CheckExit, ThreadStep, Goto, managerVars, taskVars
<1>1. TypeOK'
  BY DEF TypeOK, TaskState, Result, PC, Idle, Locking, Failure, Messages
<1>2. \A d \in Community \ {c} : Same(d)
  BY DEF Same, TypeOK
<1>3. Inv(c)'
  BY DEF Inv, HoldsFirst, ChainDecided, PersistedNumber, UnfinishedInMap, TypeOK,
     Locked, Locking, Idle, PC, First, Decided, Messages, SeqNo
<1> QED BY <1>1, <1>2, <1>3, OneCommunity

LEMMA WaitKeepsIInv ==
  ASSUME IInv, NEW c \in Community, Wait(c)
  PROVE  IInv'
<1> USE TopicAssumption DEF IInv, Wait, ThreadStep, Goto, managerVars, taskVars
<1>1. TypeOK'
  BY DEF TypeOK, TaskState, Result, PC, Idle, Locking, Failure, Messages
<1>2. \A d \in Community \ {c} : Same(d)
  BY DEF Same, TypeOK
<1>3. Inv(c)'
  BY DEF Inv, HoldsFirst, ChainDecided, PersistedNumber, UnfinishedInMap, TypeOK,
     Locked, Locking, Idle, PC, First, Decided, Messages, SeqNo
<1> QED BY <1>1, <1>2, <1>3, OneCommunity

LEMMA SpuriousWakeupKeepsIInv ==
  ASSUME IInv, NEW c \in Community, SpuriousWakeup(c)
  PROVE  IInv'
<1> USE TopicAssumption DEF IInv, SpuriousWakeup, ThreadStep, Goto, managerVars, taskVars
<1>1. TypeOK'
  BY DEF TypeOK, TaskState, Result, PC, Idle, Locking, Failure, Messages
<1>2. \A d \in Community \ {c} : Same(d)
  BY DEF Same, TypeOK
<1>3. Inv(c)'
  BY DEF Inv, HoldsFirst, ChainDecided, PersistedNumber, UnfinishedInMap, TypeOK,
     Locked, Locking, Idle, PC, First, Decided, Messages, SeqNo
<1> QED BY <1>1, <1>2, <1>3, OneCommunity

LEMMA ResumeKeepsIInv ==
  ASSUME IInv, NEW c \in Community, Resume(c)
  PROVE  IInv'
<1> USE TopicAssumption DEF IInv, Resume, ThreadStep, Goto, managerVars, taskVars
<1>1. TypeOK'
  BY DEF TypeOK, TaskState, Result, PC, Idle, Locking, Failure, Messages
<1>2. \A d \in Community \ {c} : Same(d)
  BY DEF Same, TypeOK
<1>3. Inv(c)'
  BY DEF Inv, HoldsFirst, ChainDecided, PersistedNumber, UnfinishedInMap, TypeOK,
     Locked, Locking, Idle, PC, First, Decided, Messages, SeqNo
<1> QED BY <1>1, <1>2, <1>3, OneCommunity

LEMMA ExitKeepsIInv ==
  ASSUME IInv, NEW c \in Community, Exit(c)
  PROVE  IInv'
<1> USE TopicAssumption DEF IInv, Exit, Goto, managerVars, taskVars, CondSignal
<1>1. TypeOK'
  BY DEF TypeOK, TaskState, Result, PC, Idle, Locking, Failure, Messages
<1>2. \A d \in Community \ {c} : Same(d)
  BY DEF Same, TypeOK
<1>3. Inv(c)'
  BY DEF Inv, HoldsFirst, ChainDecided, PersistedNumber, UnfinishedInMap, TypeOK,
     Locked, Locking, Idle, PC, First, Decided, Messages, SeqNo
<1> QED BY <1>1, <1>2, <1>3, OneCommunity

LEMMA NothingToDoKeepsIInv ==
  ASSUME IInv, NEW c \in Community, NothingToDo(c)
  PROVE  IInv'
<1> USE TopicAssumption DEF IInv, NothingToDo, ThreadStep, Goto, managerVars, taskVars, ReturnZero
<1>1. TypeOK'
  BY DEF TypeOK, TaskState, Result, PC, Idle, Locking, Failure, Messages
<1>2. \A d \in Community \ {c} : Same(d)
  BY DEF Same, TypeOK
<1>3. Inv(c)'
  BY DEF Inv, HoldsFirst, ChainDecided, PersistedNumber, UnfinishedInMap, TypeOK,
     Locked, Locking, Idle, PC, First, Decided, Messages, SeqNo
<1> QED BY <1>1, <1>2, <1>3, OneCommunity

LEMMA DropStaleKeepsIInv ==
  ASSUME IInv, NEW c \in Community, DropStale(c)
  PROVE  IInv'
<1> USE TopicAssumption DEF IInv, DropStale, ThreadStep, Goto, managerVars, taskVars, Continue, EraseFirst
<1>0. First(c) \in mTransactions[c] /\ First(c) \in Messages(c)
  BY FirstIsThere DEF FirstFinished
<1>1. TypeOK'
  BY <1>0 DEF TypeOK, TaskState, Result, PC, Idle, Locking, Failure, Messages
<1>2. \A d \in Community \ {c} : Same(d)
  BY DEF Same, TypeOK
<1>3. Inv(c)'
  BY <1>0 DEF Inv, HoldsFirst, ChainDecided, PersistedNumber, UnfinishedInMap, TypeOK,
     Locked, Locking, Idle, PC, First, Decided, Messages, SeqNo, FirstFinished
<1> QED BY <1>1, <1>2, <1>3, OneCommunity

LEMMA BeginKeepsIInv ==
  ASSUME IInv, NEW c \in Community, Begin(c)
  PROVE  IInv'
<1>1. CASE result[c][First(c)] = "garbage"
  BY <1>1, TerminateKeepsIInv DEF Begin, ThreadStep
<1>2. CASE result[c][First(c)] # "garbage"
  <2>1. PICK p \in {"inbound", "confirm", "erase"} : Goto(c, p)
    BY <1>2 DEF Begin, AfterPairing
  <2>2. First(c) \in Messages(c)
    BY FirstIsThere DEF IInv, Begin, FirstFinished
  <2>3. SeqNo(c, First(c)) = mLastSequenceNumber[c] + 1
    BY <2>2, SeqNoType DEF Begin, Missing, Stale, IInv, TypeOK
  <2> QED BY <1>2, <2>1, <2>3, MoveKeepsIInv DEF Begin, ThreadStep, FirstFinished
<1> QED BY <1>1, <1>2

LEMMA SkipInboundKeepsIInv ==
  ASSUME IInv, NEW c \in Community, ThreadStep(c),
         pc[c] \in {"inbound", "lookup"}, SkipInbound(c)
  PROVE  IInv'
<1>1. PICK p \in {"iterate", "top"} : Goto(c, p)
  BY DEF SkipInbound, Continue
<1>2. /\ EraseFirst(c) /\ UpdateSequenceNumber(c) /\ Locked(c)
      /\ transactionsLeft' \in [Community -> BOOLEAN]
      /\ UNCHANGED <<mLastTransactions, persisted, chain, task, result, exitCalled>>
  BY DEF SkipInbound, ThreadStep, taskVars, Locked, Locking, IInv, TypeOK
<1> QED BY <1>1, <1>2, DecisionKeepsIInv

LEMMA GiveUpKeepsIInv ==
  ASSUME IInv, NEW c \in Community, GiveUp(c)
  PROVE  IInv'
BY SkipInboundKeepsIInv DEF GiveUp

LEMMA AskOtherKeepsIInv ==
  ASSUME IInv, NEW c \in Community, AskOther(c)
  PROVE  IInv'
<1>1. PICK p \in {"iterate", "top", "lookup"} : Goto(c, p)
  BY DEF AskOther, LookAgain, Continue
<1> QED
  BY <1>1, MoveKeepsIInv DEF AskOther, ThreadStep, IInv, Inv, HoldsFirst, Locked, Locking

LEMMA FindPairKeepsIInv ==
  ASSUME IInv, NEW c \in Community, FindPair(c)
  PROVE  IInv'
<1>1. ThreadStep(c) /\ pc[c] = "lookup" /\ Locked(c)
  BY DEF FindPair, Locked, Locking
<1>2. CASE Terminate("null") /\ UNCHANGED <<managerVars, pc>>
  BY <1>1, <1>2, TerminateKeepsIInv DEF ThreadStep
<1>3. CASE SkipInbound(c)
  BY <1>1, <1>3, SkipInboundKeepsIInv
<1>4. CASE /\ LookAgain(c) \/ Goto(c, AfterPairing(c))
           /\ UNCHANGED <<managerVars, failure>>
  <2>1. PICK p \in {"iterate", "top", "confirm", "erase"} : Goto(c, p)
    BY <1>4 DEF LookAgain, Continue, AfterPairing
  <2> QED BY <1>1, <1>4, <2>1, MoveKeepsIInv DEF ThreadStep, IInv, Inv, HoldsFirst
<1> QED BY <1>2, <1>3, <1>4 DEF FindPair

LEMMA ConfirmKeepsIInv ==
  ASSUME IInv, NEW c \in Community, Confirm(c)
  PROVE  IInv'
<1>1. CASE Terminate("noTransactionId") /\ UNCHANGED <<chain, pc>>
  BY <1>1, TerminateKeepsIInv DEF Confirm, ThreadStep, managerVars
<1>2. CASE /\ \/ chain' = [chain EXCEPT ![c] = Append(chain[c], First(c))]
              \/ UNCHANGED chain
           /\ Goto(c, "persist") /\ UNCHANGED failure
  <2> USE DEF IInv
  <2> DEFINE last == mLastSequenceNumber[c]
  <2>1. /\ First(c) \in Messages(c)
        /\ mTransactions[c] # {}
        /\ task[c][First(c)] = "finished"
        /\ SeqNo(c, First(c)) = last + 1
        /\ last \in Nat
    BY FirstIsThere DEF Confirm, Inv, HoldsFirst, Locked, Locking, TypeOK
  <2>2. /\ pc[c] = "confirm"
        /\ pc' = [pc EXCEPT ![c] = "persist"]
        /\ UNCHANGED <<mTransactions, mLastTransactions, mLastSequenceNumber, persisted,
                       task, result, transactionsLeft, exitCalled, failure>>
    BY <1>2 DEF Confirm, ThreadStep, taskVars, Goto
  <2>3. /\ chain[c] \in Seq(Messages(c))
        /\ chain'[c] \in {chain[c], Append(chain[c], First(c))}
        /\ \A d \in Community \ {c} : chain'[d] = chain[d]
        /\ DOMAIN chain' = Community
    BY <1>2 DEF TypeOK
  <2>4. TypeOK'
    <3>1. \A d \in Community : chain'[d] \in Seq(Messages(d))
      <4>1. Append(chain[c], First(c)) \in Seq(Messages(c))
        BY <2>1, <2>3
      <4>2. chain'[c] \in Seq(Messages(c))
        BY <2>3, <4>1
      <4>3. \A d \in Community \ {c} : chain'[d] \in Seq(Messages(d))
        BY <2>3 DEF TypeOK
      <4> QED BY <4>2, <4>3
    <3>2. pc' \in [Community -> PC]
      BY <2>2 DEF TypeOK, PC, Locking
    <3> QED BY <2>2, <2>3, <3>1, <3>2 DEF TypeOK, Messages
  <2>5. \A d \in Community \ {c} : Same(d)
    BY <2>2, <2>3 DEF Same, TypeOK
  <2>6. Inv(c)'
    <3>1. pc'[c] = "persist" /\ Decided(c) = last /\ Decided(c)' = last + 1
      BY <2>2 DEF Decided, TypeOK
    <3>2. HoldsFirst(c)'
      BY <2>1, <2>2 DEF HoldsFirst, First, SeqNo
    <3>3. \A i \in 1..Len(chain[c]) : /\ SeqNo(c, chain[c][i]) \in Nat
                                      /\ SeqNo(c, chain[c][i]) <= last
      BY <2>3, <3>1, SeqNoType DEF Inv, ChainDecided
    <3>4. ChainDecided(c)'
      <4>1. CASE chain'[c] = chain[c]
        <5>1. \A i \in 1..Len(chain[c]) : SeqNo(c, chain[c][i]) <= last + 1
          BY <3>3 DEF TypeOK
        <5>2. \A i, j \in 1..Len(chain[c]) : i < j => SeqNo(c, chain[c][i]) < SeqNo(c, chain[c][j])
          BY DEF Inv, ChainDecided
        <5> QED BY <2>1, <3>1, <4>1, <5>1, <5>2 DEF ChainDecided, SeqNo
      <4>2. CASE chain'[c] = Append(chain[c], First(c))
        <5>1. /\ Len(chain'[c]) = Len(chain[c]) + 1
              /\ \A i \in 1..Len(chain[c]) : chain'[c][i] = chain[c][i]
              /\ chain'[c][Len(chain[c]) + 1] = First(c)
              /\ Len(chain[c]) \in Nat
          BY <2>1, <2>3, <4>2
        <5>2. \A i \in 1..Len(chain'[c]) : SeqNo(c, chain'[c][i]) <= last + 1
          BY <2>1, <3>3, <5>1
        <5>3. \A i, j \in 1..Len(chain'[c]) :
                i < j => SeqNo(c, chain'[c][i]) < SeqNo(c, chain'[c][j])
          <6> SUFFICES ASSUME NEW i \in 1..Len(chain'[c]), NEW j \in 1..Len(chain'[c]),
                              i < j
                       PROVE  SeqNo(c, chain'[c][i]) < SeqNo(c, chain'[c][j])
            OBVIOUS
          <6>1. i \in 1..Len(chain[c]) /\ chain'[c][i] = chain[c][i]
            BY <5>1
          <6>2. CASE j \in 1..Len(chain[c])
            BY <5>1, <6>1, <6>2 DEF Inv, ChainDecided
          <6>3. CASE j = Len(chain[c]) + 1
            <7>1. chain'[c][j] = First(c)
              BY <5>1, <6>3
            <7>2. SeqNo(c, chain[c][i]) \in Nat /\ SeqNo(c, chain[c][i]) <= last
              BY <3>3, <6>1
            <7> QED BY <2>1, <6>1, <7>1, <7>2
          <6> QED BY <5>1, <6>2, <6>3
        <5> QED BY <3>1, <5>2, <5>3 DEF ChainDecided, SeqNo
      <4> QED BY <2>3, <4>1, <4>2
    <3>5. PersistedNumber(c)'
      BY <2>2, <3>1 DEF Inv, PersistedNumber
    <3>6. UnfinishedInMap(c)'
      BY <2>2 DEF Inv, UnfinishedInMap, Messages
    <3> QED BY <3>2, <3>4, <3>5, <3>6 DEF Inv
  <2> QED BY <2>4, <2>5, <2>6, OneCommunity
<1> QED BY <1>1, <1>2 DEF Confirm

LEMMA PersistKeepsIInv ==
  ASSUME IInv, NEW c \in Community, Persist(c)
  PROVE  IInv'
<1> USE TopicAssumption DEF IInv, Persist, ThreadStep, Goto, managerVars, taskVars, NumberToPersist
<1>0. First(c) \in mTransactions[c] /\ First(c) \in Messages(c)
  BY FirstIsThere DEF Inv, HoldsFirst, Locked, Locking
<1>1. TypeOK'
  BY <1>0 DEF TypeOK, TaskState, Result, PC, Idle, Locking, Failure, Messages
<1>2. \A d \in Community \ {c} : Same(d)
  BY DEF Same, TypeOK
<1>3. Inv(c)'
  BY <1>0 DEF Inv, HoldsFirst, ChainDecided, PersistedNumber, UnfinishedInMap, TypeOK,
     Locked, Locking, Idle, PC, First, Decided, Messages, SeqNo
<1> QED BY <1>1, <1>2, <1>3, OneCommunity

LEMMA EraseKeepsIInv ==
  ASSUME IInv, NEW c \in Community, Erase(c)
  PROVE  IInv'
<1>1. PICK p \in {"iterate", "top"} : Goto(c, p)
  BY DEF Erase, Continue
<1>2. /\ EraseFirst(c) /\ UpdateSequenceNumber(c) /\ Locked(c)
      /\ transactionsLeft' \in [Community -> BOOLEAN]
      /\ UNCHANGED <<mLastTransactions, persisted, chain, task, result, exitCalled>>
  BY DEF Erase, ThreadStep, taskVars, Locked, Locking, IInv, TypeOK
<1> QED BY <1>1, <1>2, DecisionKeepsIInv DEF Erase

-----------------------------------------------------------------------------
LEMMA StepIInv == IInv /\ [Next]_vars => IInv'
<1> SUFFICES ASSUME IInv, [Next]_vars PROVE IInv'
  OBVIOUS
<1>1. CASE UNCHANGED vars
  <2>1. TypeOK'
    BY <1>1 DEF IInv, TypeOK, vars, managerVars, taskVars, Messages
  <2>2. \A d \in Community : Same(d)
    BY <1>1 DEF Same, vars, managerVars, taskVars
  <2> QED BY <2>1, <2>2, SameKeepsInv DEF IInv
<1>2. CASE Next
  <2>1. PICK c \in Community :
          \/ \E m \in Messages(c) :
               Push(c, m) \/ Expire(c, m) \/ RunTask(c, m) \/ FinishTask(c, m)
          \/ Thread(c) \/ SpuriousWakeup(c) \/ Exit(c)
    BY <1>2 DEF Next
  <2>2. CASE \E m \in Messages(c) :
               Push(c, m) \/ Expire(c, m) \/ RunTask(c, m) \/ FinishTask(c, m)
    BY <2>2, PushKeepsIInv, ExpireKeepsIInv, RunTaskKeepsIInv, FinishTaskKeepsIInv
  <2>3. CASE CheckExit(c) \/ Wait(c) \/ SpuriousWakeup(c) \/ Resume(c) \/ Exit(c)
    BY <2>3, CheckExitKeepsIInv, WaitKeepsIInv, SpuriousWakeupKeepsIInv,
       ResumeKeepsIInv, ExitKeepsIInv
  <2>4. CASE NothingToDo(c) \/ DropStale(c) \/ Begin(c)
    BY <2>4, NothingToDoKeepsIInv, DropStaleKeepsIInv, BeginKeepsIInv
  <2>5. CASE GiveUp(c) \/ AskOther(c) \/ FindPair(c)
    BY <2>5, GiveUpKeepsIInv, AskOtherKeepsIInv, FindPairKeepsIInv
  <2>6. CASE Confirm(c) \/ Persist(c) \/ Erase(c)
    BY <2>6, ConfirmKeepsIInv, PersistKeepsIInv, EraseKeepsIInv
  <2> QED BY <2>1, <2>2, <2>3, <2>4, <2>5, <2>6 DEF Thread, ThreadFunction
<1> QED BY <1>1, <1>2

(* The inductive invariant holds in every behaviour of the managers.       *)
THEOREM Inductive == Spec => []IInv
<1>1. Init => IInv
  BY InitIInv
<1>2. IInv /\ [Next]_vars => IInv'
  BY StepIInv
<1> QED BY <1>1, <1>2, PTL DEF Spec

(***************************************************************************)
(* The variables keep their types; in particular updateSequenceNumber      *)
(* never meets a number it throws for (failure is never "sequenceNumber"). *)
(***************************************************************************)
THEOREM TypeCorrect == Spec => []TypeOK
<1>1. IInv => TypeOK
  BY DEF IInv
<1> QED BY <1>1, Inductive, PTL

(***************************************************************************)
(* No message is decided or dropped while its deserialize task can still   *)
(* write to it.                                                            *)
(***************************************************************************)
THEOREM TasksStayOwned == Spec => []TasksOwned
<1>1. IInv => TasksOwned
  BY DEF IInv, Inv, UnfinishedInMap, TasksOwned
<1> QED BY <1>1, Inductive, PTL

(***************************************************************************)
(* The number a restarted node goes on from is never ahead of what is      *)
(* decided, and at most one behind the chain.                              *)
(***************************************************************************)
THEOREM RestartPointHolds == Spec => []RestartPoint
<1>1. IInv => RestartPoint
  <2> SUFFICES ASSUME IInv, NEW c \in Community
               PROVE  /\ persisted[c] <= Decided(c)
                      /\ pc[c] # "persist" =>
                           \A i \in 1..Len(chain[c]) :
                             SeqNo(c, chain[c][i]) <= persisted[c] + 1
    BY DEF RestartPoint
  <2>1. persisted[c] \in Nat /\ mLastSequenceNumber[c] \in Nat
    BY DEF IInv, TypeOK
  <2> QED BY <2>1 DEF IInv, Inv, PersistedNumber, Decided
<1> QED BY <1>1, Inductive, PTL

(***************************************************************************)
(* The blockchain grows in consensus order, if sequence numbers grow with  *)
(* the timestamps.                                                         *)
(***************************************************************************)
SequenceGrows ==
  \A c \in Community : \A k, m \in Messages(c) : k < m => SeqNo(c, k) < SeqNo(c, m)

THEOREM ChainChronological == ASSUME SequenceGrows PROVE Spec => []Chronological
<1>1. IInv => Chronological
  <2> SUFFICES ASSUME IInv, NEW c \in Community,
                      NEW i \in 1..Len(chain[c]), NEW j \in 1..Len(chain[c]), i < j
               PROVE  chain[c][i] < chain[c][j]
    BY DEF Chronological
  <2>1. chain[c] \in Seq(Messages(c))
    BY DEF IInv, TypeOK
  <2>2. chain[c][i] \in Messages(c) /\ chain[c][j] \in Messages(c)
    BY <2>1
  <2>3. chain[c][i] \in Nat /\ chain[c][j] \in Nat
    BY <2>2, MessageType
  <2>4. /\ SeqNo(c, chain[c][i]) \in Nat
        /\ SeqNo(c, chain[c][j]) \in Nat
    BY <2>2, SeqNoType
  <2>5. SeqNo(c, chain[c][i]) < SeqNo(c, chain[c][j])
    BY DEF IInv, Inv, ChainDecided
  <2>6. ~(chain[c][j] < chain[c][i]) /\ chain[c][j] # chain[c][i]
    BY <2>2, <2>4, <2>5 DEF SequenceGrows
  <2> QED BY <2>3, <2>6
<1> QED BY <1>1, Inductive, PTL

-----------------------------------------------------------------------------
(***************************************************************************)
(* The outbound transaction comes first: a second inductive invariant.     *)
(* Once the lookup has found the pairing transaction, the message it is in *)
(* has been received, and a deserialize task of it is never forgotten;     *)
(* from there to the chain the inbound transaction stays the first one.    *)
(***************************************************************************)
PairReceived(c, m) ==
  LET msg == Topic[c][m] IN
  msg.kind = "inbound" => /\ msg.other \in Community
                          /\ msg.pair \in Messages(msg.other)
                          /\ task[msg.other][msg.pair] # "none"

PairInv(c) ==
  /\ \A i \in 1..Len(chain[c]) : PairReceived(c, chain[c][i])
  /\ pc[c] = "lookup" => Topic[c][First(c)].other \in Community
  /\ pc[c] = "confirm" => PairReceived(c, First(c))

PIInv == \A c \in Community : PairInv(c)

(* No message that was received becomes one that was not.                  *)
Received(S) == \A d \in Community : \A m \in Messages(d) : task[d][m] # "none" => S[d][m] # "none"

(* What the invariant says of a community does not change.                 *)
PairSame(d) ==
  /\ pc'[d] \in {"lookup", "confirm"} =>
       pc'[d] = pc[d] /\ mTransactions'[d] = mTransactions[d]
  /\ chain'[d] = chain[d]

LEMMA PairSameKeepsPairInv ==
  ASSUME NEW d \in Community, PairInv(d), PairSame(d), Received(task')
  PROVE  PairInv(d)'
<1>1. (\A i \in 1..Len(chain[d]) : PairReceived(d, chain[d][i]))'
  BY DEF PairInv, PairSame, PairReceived, Received, Messages
<1>2. pc'[d] \in {"lookup", "confirm"} => First(d)' = First(d) /\ pc'[d] = pc[d]
  BY DEF PairSame, First
<1>3. (pc[d] = "lookup" => Topic[d][First(d)].other \in Community)'
  BY <1>2 DEF PairInv
<1>4. (pc[d] = "confirm" => PairReceived(d, First(d)))'
  BY <1>2 DEF PairInv, PairReceived, Received, Messages
<1> QED BY <1>1, <1>3, <1>4 DEF PairInv

LEMMA AllPairSame ==
  ASSUME PIInv, \A d \in Community : PairSame(d), Received(task')
  PROVE  PIInv'
BY PairSameKeepsPairInv DEF PIInv

LEMMA OnePair ==
  ASSUME PIInv, NEW c \in Community, PairInv(c)',
         \A d \in Community \ {c} : PairSame(d), Received(task')
  PROVE  PIInv'
BY PairSameKeepsPairInv DEF PIInv

(* The steps that neither reach "lookup" or "confirm" nor add to the chain.*)
LEMMA TaskStepPair ==
  ASSUME TypeOK, PIInv, NEW c \in Community, NEW m \in Messages(c),
         Push(c, m) \/ Expire(c, m) \/ RunTask(c, m) \/ FinishTask(c, m)
  PROVE  PIInv'
<1>1. Received(task')
  <2>1. PICK s \in {"scheduled", "returned", "finished"} :
          task' = task \/ task' = [task EXCEPT ![c][m] = s]
    BY DEF Push, Expire, RunTask, FinishTask, taskVars
  <2>2. /\ DOMAIN task = Community
        /\ \A d \in Community : task[d] \in [Messages(d) -> TaskState]
    BY DEF TypeOK
  <2> QED BY <2>1, <2>2 DEF Received
<1>2. ASSUME NEW d \in Community PROVE PairSame(d)
  BY DEF Push, Expire, RunTask, FinishTask, CondSignal, Goto, PairSame, TypeOK,
         managerVars, Locked, Locking
<1> QED BY <1>1, <1>2, AllPairSame

LEMMA ThreadStepPair ==
  ASSUME TypeOK, PIInv, NEW c \in Community,
         \/ CheckExit(c) \/ Wait(c) \/ Resume(c) \/ SpuriousWakeup(c) \/ Exit(c)
         \/ NothingToDo(c) \/ DropStale(c) \/ GiveUp(c) \/ Persist(c) \/ Erase(c)
  PROVE  PIInv'
<1>1. Received(task')
  BY DEF CheckExit, Wait, Resume, SpuriousWakeup, Exit, NothingToDo, DropStale, GiveUp,
         Persist, Erase, ThreadStep, taskVars, Received
<1>2. chain' = chain
  BY DEF CheckExit, Wait, Resume, SpuriousWakeup, Exit, NothingToDo, DropStale, GiveUp,
         Persist, Erase, SkipInbound, managerVars
<1>3. \A d \in Community \ {c} : /\ pc'[d] = pc[d]
                                 /\ mTransactions'[d] = mTransactions[d]
  BY DEF CheckExit, Wait, Resume, SpuriousWakeup, Exit, NothingToDo, DropStale, GiveUp,
         Persist, Erase, SkipInbound, EraseFirst, ReturnZero, Continue, CondSignal, Goto,
         managerVars, TypeOK
<1>4. pc'[c] \notin {"lookup", "confirm"}
  BY DEF CheckExit, Wait, Resume, SpuriousWakeup, Exit, NothingToDo, DropStale, GiveUp,
         Persist, Erase, SkipInbound, ReturnZero, Continue, CondSignal, Goto, TypeOK, Idle
<1> QED BY <1>1, <1>2, <1>3, <1>4, AllPairSame DEF PairSame

LEMMA BeginPair ==
  ASSUME TypeOK, PIInv, NEW c \in Community, Begin(c)
  PROVE  PIInv'
<1>1. /\ mTransactions' = mTransactions /\ chain' = chain /\ task' = task
      /\ pc[c] = "iterate"
  BY DEF Begin, ThreadStep, managerVars, taskVars
<1>2. Received(task')
  BY <1>1 DEF Received
<1>3. \A d \in Community \ {c} : PairSame(d)
  BY <1>1 DEF Begin, Goto, PairSame, TypeOK
<1>4. PairInv(c)'
  <2>1. pc'[c] = "confirm" => Topic[c][First(c)].kind # "inbound"
    BY <1>1 DEF Begin, Goto, TypeOK
  <2>2. pc'[c] # "lookup"
    BY <1>1 DEF Begin, Goto, AfterPairing, TypeOK
  <2> QED BY <1>1, <2>1, <2>2 DEF PIInv, PairInv, PairReceived, First, Messages
<1> QED BY <1>2, <1>3, <1>4, OnePair

LEMMA AskOtherPair ==
  ASSUME IInv, PIInv, NEW c \in Community, AskOther(c)
  PROVE  PIInv'
<1>1. /\ mTransactions' = mTransactions /\ chain' = chain /\ task' = task
      /\ pc[c] = "inbound"
  BY DEF AskOther, ThreadStep, managerVars, taskVars
<1>2. Received(task')
  BY <1>1 DEF Received
<1>3. \A d \in Community \ {c} : PairSame(d)
  BY <1>1 DEF AskOther, LookAgain, Continue, Goto, PairSame, IInv, TypeOK
<1>4. PairInv(c)'
  <2>1. Topic[c][First(c)] \in Message
    <3>1. First(c) \in Messages(c)
      BY <1>1, FirstIsThere DEF IInv, Inv, HoldsFirst, Locked, Locking
    <3>2. Topic[c] \in Seq(Message)
      BY TopicAssumption
    <3> QED BY <3>1, <3>2 DEF Messages
  <2>2. Topic[c][First(c)].other \in Community
    BY <2>1 DEF AskOther, Message
  <2>3. pc'[c] # "confirm"
    BY <1>1 DEF AskOther, LookAgain, Continue, Goto, IInv, TypeOK
  <2> QED BY <1>1, <2>2, <2>3 DEF PIInv, PairInv, PairReceived, First, Messages
<1> QED BY <1>2, <1>3, <1>4, OnePair

LEMMA FindPairPair ==
  ASSUME TypeOK, PIInv, NEW c \in Community, FindPair(c)
  PROVE  PIInv'
<1> DEFINE o == Topic[c][First(c)].other
           p == Topic[c][First(c)].pair
<1>1. chain' = chain /\ task' = task /\ pc[c] = "lookup"
  BY DEF FindPair, ThreadStep, SkipInbound, managerVars, taskVars
<1>2. Received(task')
  BY <1>1 DEF Received
<1>3. \A d \in Community \ {c} : PairSame(d)
  BY <1>1 DEF FindPair, SkipInbound, EraseFirst, LookAgain, Continue, Goto, managerVars,
              PairSame, TypeOK
<1>4. PairInv(c)'
  <2>1. CASE pc'[c] \notin {"lookup", "confirm"}
    BY <1>1, <2>1 DEF PIInv, PairInv, PairReceived, Messages
  <2>2. CASE UNCHANGED <<mTransactions, pc>>
    BY <1>1, <2>2 DEF PIInv, PairInv, PairReceived, First, Messages
  <2>3. CASE PairThere(o, p) /\ UNCHANGED mTransactions /\ pc'[c] = "confirm"
    <3>1. o \in Community
      BY <1>1 DEF PIInv, PairInv
    <3>2. p \in Messages(o) /\ task[o][p] # "none"
      BY <2>3, <3>1 DEF PairThere, TypeOK
    <3>3. PairReceived(c, First(c))'
      BY <1>1, <2>3, <3>1, <3>2 DEF PairReceived, First, Messages
    <3> QED BY <1>1, <2>3, <3>3 DEF PIInv, PairInv, PairReceived, Messages
  <2> QED
    BY <2>1, <2>2, <2>3 DEF FindPair, SkipInbound, LookAgain, Continue, AfterPairing,
                            Goto, managerVars, TypeOK
<1> QED BY <1>2, <1>3, <1>4, OnePair

LEMMA ConfirmPair ==
  ASSUME TypeOK, PIInv, NEW c \in Community, Confirm(c)
  PROVE  PIInv'
<1>1. mTransactions' = mTransactions /\ task' = task /\ pc[c] = "confirm"
  BY DEF Confirm, ThreadStep, taskVars
<1>2. Received(task')
  BY <1>1 DEF Received
<1>3. CASE UNCHANGED <<chain, pc>>
  BY <1>1, <1>2, <1>3, AllPairSame DEF PairSame
<1>4. CASE /\ \/ chain' = [chain EXCEPT ![c] = Append(chain[c], First(c))]
              \/ UNCHANGED chain
           /\ Goto(c, "persist")
  <2>1. \A d \in Community \ {c} : PairSame(d)
    BY <1>1, <1>4 DEF Goto, PairSame, TypeOK
  <2>2. /\ pc'[c] = "persist"
        /\ chain[c] \in Seq(Messages(c))
        /\ chain'[c] \in {chain[c], Append(chain[c], First(c))}
    BY <1>4 DEF Goto, TypeOK
  <2>3. /\ \A i \in 1..Len(chain[c]) : PairReceived(c, chain[c][i])
        /\ PairReceived(c, First(c))
    BY <1>1 DEF PIInv, PairInv
  <2>4. (\A i \in 1..Len(chain[c]) : PairReceived(c, chain[c][i]))'
    <3>1. \A i \in 1..Len(chain'[c]) :
            \/ i \in 1..Len(chain[c]) /\ chain'[c][i] = chain[c][i]
            \/ chain'[c][i] = First(c)
      <4>1. CASE chain'[c] = chain[c]
        BY <4>1
      <4>2. CASE chain'[c] = Append(chain[c], First(c))
        <5>1. /\ Len(chain'[c]) = Len(chain[c]) + 1
              /\ \A i \in 1..Len(chain[c]) : chain'[c][i] = chain[c][i]
              /\ chain'[c][Len(chain[c]) + 1] = First(c)
          BY <2>2, <4>2
        <5>2. Len(chain[c]) \in Nat
          BY <2>2
        <5> QED BY <5>1, <5>2
      <4> QED BY <2>2, <4>1, <4>2
    <3>2. \A i \in 1..Len(chain'[c]) : PairReceived(c, chain'[c][i])
      BY <2>3, <3>1
    <3> QED BY <1>1, <3>2 DEF PairReceived, Messages
  <2>5. PairInv(c)'
    BY <2>2, <2>4 DEF PairInv
  <2> QED BY <1>2, <2>1, <2>5, OnePair
<1> QED BY <1>3, <1>4 DEF Confirm

LEMMA StepPair == IInv /\ PIInv /\ [Next]_vars => PIInv'
<1> SUFFICES ASSUME IInv, PIInv, [Next]_vars PROVE PIInv'
  OBVIOUS
<1>0. TypeOK
  BY DEF IInv
<1>1. CASE UNCHANGED vars
  BY <1>1, AllPairSame DEF vars, managerVars, taskVars, PairSame, Received
<1>2. CASE Next
  <2>1. PICK c \in Community :
          \/ \E m \in Messages(c) :
               Push(c, m) \/ Expire(c, m) \/ RunTask(c, m) \/ FinishTask(c, m)
          \/ Thread(c) \/ SpuriousWakeup(c) \/ Exit(c)
    BY <1>2 DEF Next
  <2>2. CASE \E m \in Messages(c) :
               Push(c, m) \/ Expire(c, m) \/ RunTask(c, m) \/ FinishTask(c, m)
    BY <1>0, <2>2, TaskStepPair
  <2>3. CASE \/ CheckExit(c) \/ Wait(c) \/ Resume(c) \/ SpuriousWakeup(c) \/ Exit(c)
             \/ NothingToDo(c) \/ DropStale(c) \/ GiveUp(c) \/ Persist(c) \/ Erase(c)
    BY <1>0, <2>3, ThreadStepPair
  <2>4. CASE Begin(c) \/ AskOther(c) \/ FindPair(c) \/ Confirm(c)
    BY <1>0, <2>4, BeginPair, AskOtherPair, FindPairPair, ConfirmPair
  <2> QED BY <2>1, <2>2, <2>3, <2>4 DEF Thread, ThreadFunction
<1> QED BY <1>1, <1>2

(***************************************************************************)
(* An inbound transaction is confirmed only after this node has received   *)
(* the outbound transaction it pairs with.                                 *)
(***************************************************************************)
THEOREM PairsFirst == Spec => []PairBeforeInbound
<1>1. Init => PIInv
  BY DEF Init, PIInv, PairInv
<1>2. IInv /\ PIInv /\ [Next]_vars => PIInv'
  BY StepPair
<1>3. PIInv => PairBeforeInbound
  BY DEF PIInv, PairInv, PairReceived, PairBeforeInbound
<1> QED BY <1>1, <1>2, <1>3, Inductive, PTL DEF Spec

-----------------------------------------------------------------------------
(***************************************************************************)
(* The managers implement TopicLedger: a step of one manager decides the   *)
(* next sequence number of its community, or changes nothing of what the   *)
(* ledger shows.                                                           *)
(***************************************************************************)
Numbers(c) == [i \in 1..Len(chain[c]) |-> SeqNo(c, chain[c][i])]

Refines == [Ledger!Next]_(Ledger!vars)

LEMMA StutterRefines ==
  ASSUME \A d \in Community : Decided(d)' = Decided(d),
         \A d \in Community : chain'[d] = chain[d]
  PROVE  Refines
<1>1. \A d \in Community : Numbers(d)' = Numbers(d)
  BY DEF Numbers, SeqNo
<1>2. UNCHANGED [d \in Community |-> Decided(d)]
  OBVIOUS
<1>3. UNCHANGED [d \in Community |-> Numbers(d)]
  BY <1>1
<1> QED BY <1>2, <1>3 DEF Refines, Ledger!vars, Numbers

LEMMA SkipRefines ==
  ASSUME NEW c \in Community, Decided(c)' = Decided(c) + 1,
         \A d \in Community \ {c} : Decided(d)' = Decided(d),
         \A d \in Community : chain'[d] = chain[d]
  PROVE  Refines
<1>1. \A d \in Community : Numbers(d)' = Numbers(d)
  BY DEF Numbers, SeqNo
<1>2. UNCHANGED [d \in Community |-> Numbers(d)]
  BY <1>1
<1>3. [d \in Community |-> Decided(d)]' =
        [[d \in Community |-> Decided(d)] EXCEPT ![c] = Decided(c) + 1]
  OBVIOUS
<1>4. Ledger!Skip(c)
  BY <1>2, <1>3 DEF Ledger!Skip, Ledger!Decide, Numbers
<1> QED BY <1>4 DEF Refines, Ledger!Next

LEMMA AppendRefines ==
  ASSUME TypeOK, NEW c \in Community, NEW m \in Messages(c),
         Decided(c)' = Decided(c) + 1, SeqNo(c, m) = Decided(c) + 1,
         \A d \in Community \ {c} : Decided(d)' = Decided(d),
         chain' = [chain EXCEPT ![c] = Append(chain[c], m)]
  PROVE  Refines
<1>1. chain[c] \in Seq(Messages(c)) /\ DOMAIN chain = Community
  BY DEF TypeOK
<1>2. /\ \A d \in Community \ {c} : chain'[d] = chain[d]
      /\ chain'[c] = Append(chain[c], m)
  BY <1>1
<1>3. \A d \in Community \ {c} : Numbers(d)' = Numbers(d)
  BY <1>2 DEF Numbers, SeqNo
<1>4. Numbers(c)' = Append(Numbers(c), Decided(c) + 1)
  <2>1. /\ Len(chain'[c]) = Len(chain[c]) + 1
        /\ \A i \in 1..Len(chain[c]) : chain'[c][i] = chain[c][i]
        /\ chain'[c][Len(chain[c]) + 1] = m
        /\ Len(chain[c]) \in Nat
    BY <1>1, <1>2
  <2>2. Numbers(c) \in Seq(Nat) /\ Len(Numbers(c)) = Len(chain[c])
    <3>1. \A i \in 1..Len(chain[c]) : SeqNo(c, chain[c][i]) \in Nat
      BY <1>1, SeqNoType
    <3> QED BY <2>1, <3>1 DEF Numbers
  <2> DEFINE S == Append(Numbers(c), SeqNo(c, m))
  <2>3. SeqNo(c, m) \in Nat
    BY SeqNoType
  <2>4. S \in Seq(Nat) /\ Len(S) = Len(chain[c]) + 1 /\ DOMAIN S = 1..Len(chain[c]) + 1
    BY <2>2, <2>3
  <2>5. \A i \in 1..Len(chain[c]) + 1 :
          S[i] = IF i = Len(chain[c]) + 1 THEN SeqNo(c, m) ELSE SeqNo(c, chain[c][i])
    BY <2>1, <2>2, <2>3 DEF Numbers
  <2>6. Numbers(c)' = [i \in 1..Len(chain[c]) + 1 |->
                         IF i = Len(chain[c]) + 1 THEN SeqNo(c, m) ELSE SeqNo(c, chain[c][i])]
    BY <2>1 DEF Numbers, SeqNo
  <2>7. S = [i \in 1..Len(chain[c]) + 1 |-> S[i]]
    BY <2>4
  <2> HIDE DEF S
  <2>8. Numbers(c)' = S
    BY <2>5, <2>6, <2>7
  <2> QED BY <2>8 DEF S
<1>5. [d \in Community |-> Numbers(d)]' =
        [[d \in Community |-> Numbers(d)] EXCEPT ![c] = Append(Numbers(c), Decided(c) + 1)]
  BY <1>3, <1>4
<1>6. [d \in Community |-> Decided(d)]' =
        [[d \in Community |-> Decided(d)] EXCEPT ![c] = Decided(c) + 1]
  OBVIOUS
<1>7. Ledger!Confirm(c)
  BY <1>5, <1>6 DEF Ledger!Confirm, Ledger!Decide, Numbers
<1> QED BY <1>7 DEF Refines, Ledger!Next

(* A step within a pass decides its transaction if it leads to the erase.  *)
LEMMA MoveRefines ==
  ASSUME TypeOK, NEW c \in Community, pc[c] \notin {"persist", "erase"},
         NEW p \in PC, pc' = [pc EXCEPT ![c] = p], p # "persist",
         UNCHANGED <<mLastSequenceNumber, chain>>
  PROVE  Refines
<1>1. pc'[c] = p /\ \A d \in Community \ {c} : pc'[d] = pc[d]
  BY DEF TypeOK
<1>2. CASE p = "erase"
  BY <1>1, <1>2, SkipRefines DEF Decided
<1>3. CASE p # "erase"
  BY <1>1, <1>3, StutterRefines DEF Decided
<1> QED BY <1>2, <1>3

(* Giving an inbound transaction up decides it.                            *)
LEMMA SkipInboundRefines ==
  ASSUME IInv, NEW c \in Community, pc[c] \in {"inbound", "lookup"}, SkipInbound(c)
  PROVE  Refines
<1>1. mLastSequenceNumber' =
        [mLastSequenceNumber EXCEPT ![c] = mLastSequenceNumber[c] + 1]
  BY UpdateAccepts DEF SkipInbound, Locked, Locking
<1>2. PICK p \in {"iterate", "top"} : pc' = [pc EXCEPT ![c] = p]
  BY DEF SkipInbound, Continue, Goto
<1>3. /\ Decided(c)' = Decided(c) + 1
      /\ \A d \in Community \ {c} : Decided(d)' = Decided(d)
  BY <1>1, <1>2 DEF Decided, IInv, TypeOK
<1> QED BY <1>3, SkipRefines DEF SkipInbound

LEMMA ConfirmRefines ==
  ASSUME IInv, NEW c \in Community, Confirm(c)
  PROVE  Refines
<1>1. CASE Terminate("noTransactionId") /\ UNCHANGED <<chain, pc>>
  BY <1>1, StutterRefines DEF Confirm, Decided
<1>2. CASE /\ \/ chain' = [chain EXCEPT ![c] = Append(chain[c], First(c))]
              \/ UNCHANGED chain
           /\ Goto(c, "persist")
  <2>1. /\ First(c) \in Messages(c)
        /\ SeqNo(c, First(c)) = mLastSequenceNumber[c] + 1
    BY FirstIsThere DEF IInv, Inv, HoldsFirst, Locked, Locking, Confirm
  <2>2. /\ pc[c] = "confirm" /\ pc'[c] = "persist"
        /\ \A d \in Community \ {c} : pc'[d] = pc[d]
        /\ UNCHANGED mLastSequenceNumber
    BY <1>2 DEF Confirm, Goto, IInv, TypeOK
  <2>3. /\ Decided(c) = mLastSequenceNumber[c] /\ Decided(c)' = Decided(c) + 1
        /\ \A d \in Community \ {c} : Decided(d)' = Decided(d)
    BY <2>2 DEF Decided
  <2> QED BY <1>2, <2>1, <2>3, SkipRefines, AppendRefines DEF IInv
<1> QED BY <1>1, <1>2 DEF Confirm

LEMMA EraseRefines ==
  ASSUME IInv, NEW c \in Community, Erase(c)
  PROVE  Refines
<1>1. mLastSequenceNumber' =
        [mLastSequenceNumber EXCEPT ![c] = mLastSequenceNumber[c] + 1]
  BY UpdateAccepts DEF Erase, Locked, Locking
<1>2. PICK p \in {"iterate", "top"} : pc' = [pc EXCEPT ![c] = p]
  BY DEF Erase, Continue, Goto
<1>3. \A d \in Community : Decided(d)' = Decided(d)
  BY <1>1, <1>2 DEF Erase, Decided, IInv, TypeOK
<1> QED BY <1>3, StutterRefines DEF Erase

LEMMA StepRefines == IInv /\ [Next]_vars => Refines
<1> SUFFICES ASSUME IInv, [Next]_vars PROVE Refines
  OBVIOUS
<1>1. CASE UNCHANGED vars
  BY <1>1, StutterRefines DEF Decided, vars, managerVars
<1>2. CASE Next
  <2>1. PICK c \in Community :
          \/ \E m \in Messages(c) :
               Push(c, m) \/ Expire(c, m) \/ RunTask(c, m) \/ FinishTask(c, m)
          \/ Thread(c) \/ SpuriousWakeup(c) \/ Exit(c)
    BY <1>2 DEF Next
  <2>2. CASE \E m \in Messages(c) : Push(c, m) \/ Expire(c, m) \/ FinishTask(c, m)
    BY <2>2, StutterRefines DEF Push, Expire, FinishTask, Decided, managerVars
  <2>3. ASSUME NEW m \in Messages(c), RunTask(c, m) PROVE Refines
    BY <2>3, StutterRefines, MoveRefines
       DEF RunTask, CondSignal, Goto, Decided, managerVars, IInv, PC
  <2>4. CASE CheckExit(c) \/ Wait(c) \/ SpuriousWakeup(c) \/ Resume(c)
    BY <2>4, MoveRefines
       DEF CheckExit, Wait, SpuriousWakeup, Resume, Goto, managerVars, IInv, PC, Idle
  <2>5. CASE Exit(c)
    BY <2>5, StutterRefines, MoveRefines
       DEF Exit, CondSignal, Goto, Decided, managerVars, IInv, PC
  <2>6. CASE NothingToDo(c) \/ DropStale(c)
    BY <2>6, MoveRefines
       DEF NothingToDo, DropStale, ReturnZero, Continue, Goto, managerVars, IInv, PC, Idle
  <2>7. CASE Begin(c) \/ AskOther(c)
    BY <2>7, StutterRefines, MoveRefines
       DEF Begin, AskOther, AfterPairing, LookAgain, Continue, Goto, Decided, managerVars, IInv,
           PC, Idle, Locking
  <2>8. CASE GiveUp(c)
    BY <2>8, SkipInboundRefines DEF GiveUp
  <2>9. CASE FindPair(c)
    BY <2>9, StutterRefines, MoveRefines, SkipInboundRefines
       DEF FindPair, AfterPairing, LookAgain, Continue, Goto, Decided, managerVars, IInv,
           PC, Idle, Locking
  <2>10. CASE Confirm(c) \/ Erase(c)
    BY <2>10, ConfirmRefines, EraseRefines
  <2>11. CASE Persist(c)
    BY <2>11, StutterRefines DEF Persist, Goto, Decided, IInv, TypeOK
  <2> QED BY <2>1, <2>2, <2>3, <2>4, <2>5, <2>6, <2>7, <2>8, <2>9, <2>10, <2>11
          DEF Thread, ThreadFunction
<1> QED BY <1>1, <1>2

(***************************************************************************)
(* The ordering managers of a node implement TopicLedger: whatever Hiero   *)
(* delivers and however the threads interleave, a sequence number is       *)
(* decided once, in order, and none is jumped over.                        *)
(***************************************************************************)
THEOREM LedgerImplemented == Spec => ImplementsLedger
<1>1. Init => Ledger!Init
  <2> SUFFICES ASSUME Init PROVE Ledger!Init
    OBVIOUS
  <2>1. [c \in Community |-> Decided(c)] = LastKnown
    BY TopicAssumption DEF Init, Decided
  <2>2. \A c \in Community : Numbers(c) = << >>
    BY DEF Init, Numbers
  <2>3. [c \in Community |-> Numbers(c)] = [c \in Community |-> << >>]
    BY <2>2
  <2> QED BY <2>1, <2>3 DEF Ledger!Init, Numbers
<1>2. IInv /\ [Next]_vars => [Ledger!Next]_(Ledger!vars)
  BY StepRefines DEF Refines
<1> QED BY <1>1, <1>2, Inductive, PTL DEF Spec, ImplementsLedger, Ledger!Spec

=============================================================================
