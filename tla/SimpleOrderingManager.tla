----------------------- MODULE SimpleOrderingManager -----------------------
(***************************************************************************)
(* controller::SimpleOrderingManager, one per community: the thread that   *)
(* puts the transactions Hiero delivers (several times, in any order, by   *)
(* several connections) into the blockchain in the order of their sequence *)
(* numbers, together with the deserialize tasks it waits for               *)
(* (task::HieroMessageToTransactionTask) and the condition variable of     *)
(* task::Thread it sleeps on.                                              *)
(*                                                                         *)
(* A message is its rank by consensus timestamp in the topic of its        *)
(* community.  mTransactionsMutex is held by the thread exactly while its  *)
(* program counter is in Locking: every other holder takes and releases it *)
(* within one step.                                                        *)
(***************************************************************************)
EXTENDS Integers, Sequences, FiniteSets

CONSTANTS
  Community,   \* the communities of this node, one manager each
  Unknown,     \* a group no blockchain of this node belongs to
  Topic,       \* Topic[c]: the messages of c in consensus order
  LastKnown    \* LastKnown[c]: the argument of init()

(***************************************************************************)
(* Of a message the manager looks at its sequence number, at the kind of   *)
(* transaction in it, and for an inbound one at the other group and the    *)
(* pairing message there (0: no Hiero transaction id).  An anonymous one   *)
(* comes in a response without transaction id.                             *)
(***************************************************************************)
Kind == {"local", "inbound", "anonymous"}

Message == [seq : Nat \ {0}, kind : Kind,
            other : Community \cup {Unknown}, pair : Nat]

ASSUME TopicAssumption ==
  /\ Unknown \notin Community
  /\ Topic \in [Community -> Seq(Message)]
  /\ LastKnown \in [Community -> Nat]

VARIABLES
  mTransactions,        \* messages received and not yet decided
  mLastTransactions,    \* ExpireCache of messages received lately
  task,                 \* deserialize task: not there, scheduled, run, finished
  result,               \* what the last run of the task found
  mLastSequenceNumber,  \* sequence number decided last
  persisted,            \* LAST_HIERO_TOPIC_SEQUENCE_NUMBER in the state db
  chain,                \* messages confirmed since the start, in order
  pc,                   \* where the manager's thread is
  transactionsLeft,     \* transactionsCount # 0 in ThreadFunction
  exitCalled,           \* mExitCalled of the manager's thread
  failure               \* why the process went down, "none" while it runs

managerVars == <<mTransactions, mLastTransactions, mLastSequenceNumber,
                 persisted, chain, transactionsLeft>>
taskVars == <<task, result>>
vars == <<managerVars, taskVars, pc, exitCalled, failure>>

Messages(c) == DOMAIN Topic[c]
SeqNo(c, m) == Topic[c][m].seq

TaskState == {"none", "scheduled", "returned", "finished"}
Result == {"none", "garbage", "failed", "success"}

(* How the process goes down.  That updateSequenceNumber throws            *)
(* ("sequenceNumber") is not among it: TypeOK says that it never does.     *)
Failure == {"none", "null", "noTransactionId"}

Locking == {"inbound", "lookup", "confirm", "persist", "erase"}
Idle == {"top", "enter", "waiting", "done"}
PC == Locking \cup Idle \cup {"woken", "iterate"}

Locked(c) == pc[c] \in Locking
Running == failure = "none"
Goto(c, p) == pc' = [pc EXCEPT ![c] = p]

(* The first entry of the multimap: the oldest consensus timestamp. *)
Oldest(S) == CHOOSE m \in S : \A k \in S : m <= k
First(c) == Oldest(mTransactions[c])

-----------------------------------------------------------------------------
(* Receiving messages.                                                     *)

(***************************************************************************)
(* pushTransaction for a message found neither in the cache nor in the     *)
(* map; the other results change nothing.  Several connections deliver a   *)
(* topic, each message any number of times.                                *)
(***************************************************************************)
Push(c, m) ==
  /\ Running /\ ~exitCalled[c] /\ ~Locked(c)
  /\ m \notin mLastTransactions[c]
  /\ m \notin mTransactions[c]
  /\ mLastTransactions' = [mLastTransactions EXCEPT ![c] = @ \cup {m}]
  /\ mTransactions' = [mTransactions EXCEPT ![c] = @ \cup {m}]
  /\ task' = [task EXCEPT ![c][m] = "scheduled"]
  /\ result' = [result EXCEPT ![c][m] = "none"]
  /\ UNCHANGED <<mLastSequenceNumber, persisted, chain, transactionsLeft,
                 pc, exitCalled, failure>>

(* The entries of mLastTransactions live for twice the time a transaction  *)
(* may be late.                                                            *)
Expire(c, m) ==
  /\ Running
  /\ m \in mLastTransactions[c]
  /\ mLastTransactions' = [mLastTransactions EXCEPT ![c] = @ \ {m}]
  /\ UNCHANGED <<mTransactions, mLastSequenceNumber, persisted, chain,
                 transactionsLeft, taskVars, pc, exitCalled, failure>>

-----------------------------------------------------------------------------
(* The deserialize task, on a worker of the CPU scheduler.                 *)

(* notify_one on the manager's condition: lost unless its thread waits.    *)
CondSignal(c) ==
  IF pc[c] = "waiting" THEN Goto(c, "woken") ELSE UNCHANGED pc

(***************************************************************************)
(* The bytes may be no transaction at all (garbage).  A transaction passes *)
(* unless it was confirmed before, its validation fails, or a later one is *)
(* already confirmed.  The hash cache that knows the confirmed ones        *)
(* forgets, so the last one of the chain may pass.                         *)
(***************************************************************************)
FromPast(c, m) == \E i \in 1..Len(chain[c]) : chain[c][i] > m

Outcome(c, m) ==
  {"garbage", "failed"} \cup (IF FromPast(c, m) THEN {} ELSE {"success"})

(* run(): only the path that sets mSuccess signals the manager.            *)
RunTask(c, m) ==
  /\ Running
  /\ task[c][m] = "scheduled"
  /\ \E r \in Outcome(c, m) :
       /\ result' = [result EXCEPT ![c][m] = r]
       /\ IF r = "success" THEN CondSignal(c) ELSE UNCHANGED pc
  /\ task' = [task EXCEPT ![c][m] = "returned"]
  /\ UNCHANGED <<managerVars, exitCalled, failure>>

(* setTaskFinished, by the worker, once run() has returned.                *)
FinishTask(c, m) ==
  /\ Running
  /\ task[c][m] = "returned"
  /\ task' = [task EXCEPT ![c][m] = "finished"]
  /\ UNCHANGED <<managerVars, result, pc, exitCalled, failure>>

-----------------------------------------------------------------------------
(* task::Thread: the loop around ThreadFunction.                           *)

ThreadStep(c) ==
  /\ Running
  /\ UNCHANGED <<mLastTransactions, taskVars, exitCalled>>

CheckExit(c) ==
  /\ ThreadStep(c)
  /\ pc[c] = "top"
  /\ Goto(c, IF exitCalled[c] THEN "done" ELSE "enter")
  /\ UNCHANGED <<managerVars, failure>>

(* The wait has no predicate.                                              *)
Wait(c) ==
  /\ ThreadStep(c)
  /\ pc[c] = "enter"
  /\ Goto(c, "waiting")
  /\ UNCHANGED <<managerVars, failure>>

SpuriousWakeup(c) ==
  /\ ThreadStep(c)
  /\ pc[c] = "waiting"
  /\ Goto(c, "woken")
  /\ UNCHANGED <<managerVars, failure>>

(* Back from the wait: leave, or call ThreadFunction, transactionsCount 0. *)
Resume(c) ==
  /\ ThreadStep(c)
  /\ pc[c] = "woken"
  /\ Goto(c, IF exitCalled[c] THEN "done" ELSE "iterate")
  /\ transactionsLeft' = [transactionsLeft EXCEPT ![c] = FALSE]
  /\ UNCHANGED <<mTransactions, mLastSequenceNumber, persisted, chain, failure>>

(* exit() takes mMutex, which the thread holds unless it is idle.          *)
Exit(c) ==
  /\ Running
  /\ pc[c] \in Idle
  /\ ~exitCalled[c]
  /\ exitCalled' = [exitCalled EXCEPT ![c] = TRUE]
  /\ CondSignal(c)
  /\ UNCHANGED <<managerVars, taskVars, failure>>

-----------------------------------------------------------------------------
(* ThreadFunction: one pass of its loop, from the lock on the map on.      *)

ReturnZero(c) == Goto(c, "top")

(* `continue' re-evaluates the loop condition.                             *)
Continue(c, left) == Goto(c, IF left THEN "iterate" ELSE "top")

Terminate(reason) == failure' = reason

(* The oldest transaction is there and out of its task.                    *)
(* Mutant: it is enough that a worker has taken the task.                  *)
FirstTaken(c) ==
  /\ mTransactions[c] # {}
  /\ task[c][First(c)] # "scheduled"

FirstFinished(c) ==
  /\ mTransactions[c] # {}
  /\ task[c][First(c)] = "finished"

(* The transaction before is missing.  Mutant: off by one.                 *)
MissingTwo(c) == mLastSequenceNumber[c] + 2 < SeqNo(c, First(c))

Missing(c) == mLastSequenceNumber[c] + 1 < SeqNo(c, First(c))

(* This transaction, or one after it, was decided before.                  *)
(* Mutant: left to the duplicate check in pushTransaction.                 *)
NeverStale(c) == FALSE

Stale(c) ==
  /\ mLastSequenceNumber[c] # 0
  /\ mLastSequenceNumber[c] >= SeqNo(c, First(c))

(* updateSequenceNumber accepts the successor and, for a new topic, 1.     *)
Acceptable(last, new) == last = 0 \/ new = last + 1 \/ new = 1

(* erase(it), updateSequenceNumber.                                        *)
EraseFirst(c) ==
  mTransactions' = [mTransactions EXCEPT ![c] = @ \ {First(c)}]

UpdateSequenceNumber(c) ==
  LET new == SeqNo(c, First(c)) IN
  IF Acceptable(mLastSequenceNumber[c], new)
  THEN /\ mLastSequenceNumber' = [mLastSequenceNumber EXCEPT ![c] = new]
       /\ UNCHANGED failure
  ELSE /\ Terminate("sequenceNumber")
       /\ UNCHANGED mLastSequenceNumber

(* An inbound transaction is given up: erase, update, continue.            *)
SkipInbound(c) ==
  /\ EraseFirst(c)
  /\ UpdateSequenceNumber(c)
  /\ Continue(c, transactionsLeft[c])
  /\ UNCHANGED <<persisted, chain, transactionsLeft>>

NothingToDo(c) ==
  /\ ThreadStep(c)
  /\ pc[c] = "iterate"
  /\ FirstFinished(c) => Missing(c)
  /\ ReturnZero(c)
  /\ UNCHANGED <<managerVars, failure>>

DropStale(c) ==
  /\ ThreadStep(c)
  /\ pc[c] = "iterate"
  /\ FirstFinished(c) /\ ~Missing(c) /\ Stale(c)
  /\ EraseFirst(c)
  /\ Continue(c, transactionsLeft[c])
  /\ UNCHANGED <<mLastSequenceNumber, persisted, chain, transactionsLeft, failure>>

(* if (task->isSuccess()) processTransaction; then erase.                  *)
AfterPairing(c) == IF result[c][First(c)] = "success" THEN "confirm" ELSE "erase"

(* The body of a message that is no transaction is a null pointer.         *)
Begin(c) ==
  /\ ThreadStep(c)
  /\ pc[c] = "iterate"
  /\ FirstFinished(c) /\ ~Missing(c) /\ ~Stale(c)
  /\ IF result[c][First(c)] = "garbage"
     THEN Terminate("null") /\ UNCHANGED pc
     ELSE /\ Goto(c, IF Topic[c][First(c)].kind = "inbound"
                     THEN "inbound" ELSE AfterPairing(c))
          /\ UNCHANGED failure
  /\ UNCHANGED managerVars

(* Too old, other community unknown, or no valid pairing transaction id.   *)
(* How long the transaction has been in the map is not modelled: the time  *)
(* may be over whenever it is looked at.                                   *)
GiveUp(c) ==
  /\ ThreadStep(c)
  /\ pc[c] = "inbound"
  /\ SkipInbound(c)

(* Not found: it may need some more time, a quarter of a second at least.  *)
(* Mutant: it is looked for again under the same lock.                     *)
LookAgainLocked(c) == Goto(c, "inbound")

LookAgain(c) == Continue(c, transactionsLeft[c])

(* The other manager is asked; it finds nothing once it is to exit.        *)
AskOther(c) ==
  LET msg == Topic[c][First(c)] IN
  /\ ThreadStep(c)
  /\ pc[c] = "inbound"
  /\ msg.other # Unknown
  /\ msg.pair # 0
  /\ IF exitCalled[msg.other]
     THEN LookAgain(c)
     ELSE Goto(c, "lookup")
  /\ UNCHANGED <<managerVars, failure>>

(* The pair is among the undecided transactions of the other community.    *)
(* Mutant: whatever the lookup returns is used.                            *)
PairAssumed(o, p) == TRUE

PairThere(o, p) == p \in mTransactions[o] /\ task[o][p] = "finished"

(* findCrossGroupTransactionPair locks the other manager's map while this  *)
(* one's is locked.  Whether two transactions pair is up to their content. *)
FindPair(c) ==
  LET o == Topic[c][First(c)].other
      p == Topic[c][First(c)].pair IN
  /\ ThreadStep(c)
  /\ pc[c] = "lookup"
  /\ ~Locked(o)
  /\ \/ /\ ~PairThere(o, p)
        /\ LookAgain(c)
        /\ UNCHANGED <<managerVars, failure>>
     \/ /\ PairThere(o, p) /\ result[o][p] = "garbage"
        /\ Terminate("null")
        /\ UNCHANGED <<managerVars, pc>>
     \/ /\ PairThere(o, p) /\ result[o][p] # "garbage"
        /\ \/ SkipInbound(c)
           \/ Goto(c, AfterPairing(c)) /\ UNCHANGED <<managerVars, failure>>

(* createAndAddConfirmedTransaction adds the transaction, or refuses it    *)
(* with an exception; a response without transaction id ends the process.  *)
Confirm(c) ==
  /\ ThreadStep(c)
  /\ pc[c] = "confirm"
  /\ IF Topic[c][First(c)].kind = "anonymous"
     THEN Terminate("noTransactionId") /\ UNCHANGED <<chain, pc>>
     ELSE /\ \/ chain' = [chain EXCEPT ![c] = Append(@, First(c))]
             \/ UNCHANGED chain
          /\ Goto(c, "persist")
          /\ UNCHANGED failure
  /\ UNCHANGED <<mTransactions, mLastSequenceNumber, persisted, transactionsLeft>>

(* The number of the transaction decided before this one.                  *)
(* Mutant: the number of the next one.                                     *)
NumberAhead(c) == SeqNo(c, First(c)) + 1

NumberToPersist(c) == mLastSequenceNumber[c]

(* updateLastKnownSequenceNumber.                                          *)
Persist(c) ==
  /\ ThreadStep(c)
  /\ pc[c] = "persist"
  /\ persisted' = [persisted EXCEPT ![c] = NumberToPersist(c)]
  /\ Goto(c, "erase")
  /\ UNCHANGED <<mTransactions, mLastSequenceNumber, chain, transactionsLeft, failure>>

Erase(c) ==
  /\ ThreadStep(c)
  /\ pc[c] = "erase"
  /\ EraseFirst(c)
  /\ UpdateSequenceNumber(c)
  /\ transactionsLeft' = [transactionsLeft EXCEPT ![c] = mTransactions'[c] # {}]
  /\ Continue(c, mTransactions'[c] # {})
  /\ UNCHANGED <<persisted, chain>>

-----------------------------------------------------------------------------
Init ==
  /\ mTransactions = [c \in Community |-> {}]
  /\ mLastTransactions = [c \in Community |-> {}]
  /\ task = [c \in Community |-> [m \in Messages(c) |-> "none"]]
  /\ result = [c \in Community |-> [m \in Messages(c) |-> "none"]]
  /\ mLastSequenceNumber = LastKnown
  /\ persisted = LastKnown
  /\ chain = [c \in Community |-> <<>>]
  /\ pc = [c \in Community |-> "top"]
  /\ transactionsLeft = [c \in Community |-> FALSE]
  /\ exitCalled = [c \in Community |-> FALSE]
  /\ failure = "none"

ThreadFunction(c) ==
  \/ NothingToDo(c) \/ DropStale(c) \/ Begin(c)
  \/ GiveUp(c) \/ AskOther(c) \/ FindPair(c)
  \/ Confirm(c) \/ Persist(c) \/ Erase(c)

Thread(c) == CheckExit(c) \/ Wait(c) \/ Resume(c) \/ ThreadFunction(c)

Next ==
  \E c \in Community :
    \/ \E m \in Messages(c) :
         Push(c, m) \/ Expire(c, m) \/ RunTask(c, m) \/ FinishTask(c, m)
    \/ Thread(c) \/ SpuriousWakeup(c) \/ Exit(c)

Spec == Init /\ [][Next]_vars

(***************************************************************************)
(* The operating system runs the threads, and the CPU scheduler the tasks. *)
(* Nobody owes a delivery, a spurious wakeup, an expiry or an exit.        *)
(***************************************************************************)
Fairness ==
  \A c \in Community :
    /\ WF_vars(Thread(c))
    /\ \A m \in Messages(c) : WF_vars(RunTask(c, m)) /\ WF_vars(FinishTask(c, m))

FairSpec == Spec /\ Fairness

-----------------------------------------------------------------------------
TypeOK ==
  /\ mTransactions \in [Community -> SUBSET Nat]
  /\ mLastTransactions \in [Community -> SUBSET Nat]
  /\ \A c \in Community : /\ mTransactions[c] \subseteq Messages(c)
                          /\ mLastTransactions[c] \subseteq Messages(c)
                          /\ task[c] \in [Messages(c) -> TaskState]
                          /\ result[c] \in [Messages(c) -> Result]
                          /\ chain[c] \in Seq(Messages(c))
  /\ DOMAIN task = Community /\ DOMAIN result = Community /\ DOMAIN chain = Community
  /\ mLastSequenceNumber \in [Community -> Nat]
  /\ persisted \in [Community -> Nat]
  /\ pc \in [Community -> PC]
  /\ transactionsLeft \in [Community -> BOOLEAN]
  /\ exitCalled \in [Community -> BOOLEAN]
  /\ failure \in Failure

-----------------------------------------------------------------------------
(* Safety.                                                                 *)

(* A sequence number is decided when the transaction is in the chain or    *)
(* left out for good, before mLastSequenceNumber says so.                  *)
Decided(c) ==
  IF pc[c] \in {"persist", "erase"}
  THEN mLastSequenceNumber[c] + 1 ELSE mLastSequenceNumber[c]

Ledger ==
  INSTANCE TopicLedger WITH
    position <- [c \in Community |-> Decided(c)],
    ledger <- [c \in Community |->
                 [i \in 1..Len(chain[c]) |-> SeqNo(c, chain[c][i])]]

(***************************************************************************)
(* The managers implement TopicLedger: duplicates, reordering and expired  *)
(* cache entries neither repeat, reorder nor jump over a sequence number.  *)
(***************************************************************************)
ImplementsLedger == Ledger!Spec

(***************************************************************************)
(* The blockchain of a community grows in consensus order, and so holds no *)
(* message twice.  For topics whose sequence numbers grow with the         *)
(* timestamps, as those of one Hiero topic do.                             *)
(***************************************************************************)
Chronological ==
  \A c \in Community : \A i, j \in 1..Len(chain[c]) :
    i < j => chain[c][i] < chain[c][j]

(***************************************************************************)
(* LAST_HIERO_TOPIC_SEQUENCE_NUMBER, from which a restarted node goes on:  *)
(* never beyond what is decided, and at most one confirmed transaction     *)
(* behind the chain once processTransaction is through.                    *)
(***************************************************************************)
RestartPoint ==
  \A c \in Community :
    /\ persisted[c] <= Decided(c)
    /\ pc[c] # "persist" =>
         \A i \in 1..Len(chain[c]) : SeqNo(c, chain[c][i]) <= persisted[c] + 1

(***************************************************************************)
(* A task that waits for a worker or runs on one is still in the map: the  *)
(* manager neither decides nor drops a message whose task writes to it.    *)
(***************************************************************************)
TasksOwned ==
  \A c \in Community : \A m \in Messages(c) :
    task[c][m] \in {"scheduled", "returned"} => m \in mTransactions[c]

(***************************************************************************)
(* An inbound transaction is confirmed only after this node has received   *)
(* the outbound transaction it pairs with.                                 *)
(***************************************************************************)
PairBeforeInbound ==
  \A c \in Community : \A i \in 1..Len(chain[c]) :
    LET msg == Topic[c][chain[c][i]] IN
    msg.kind = "inbound" => /\ msg.other \in Community
                            /\ task[msg.other][msg.pair] # "none"

-----------------------------------------------------------------------------
(* Liveness.                                                               *)

(***************************************************************************)
(* The thread does not keep mTransactionsMutex: the connections, and the   *)
(* other managers, get their turn.                                         *)
(***************************************************************************)
LockReleased == \A c \in Community : Locked(c) ~> (~Locked(c) \/ ~Running)

-----------------------------------------------------------------------------
(* What the code's comments say and the code does not do.                  *)

(***************************************************************************)
(* "this function will called again with next condSignal call": a          *)
(* transaction that is next in order and out of its task is looked at      *)
(* again, once ThreadFunction returned because it was not yet finished.    *)
(***************************************************************************)
FirstIsNext(c) ==
  FirstFinished(c) /\ SeqNo(c, First(c)) = mLastSequenceNumber[c] + 1

CalledAgain ==
  \A c \in Community :
    (FirstIsNext(c) /\ ~exitCalled[c]) ~>
      (~FirstIsNext(c) \/ pc[c] = "iterate" \/ exitCalled[c] \/ ~Running)

(***************************************************************************)
(* "they could need each other for new cross group transactions": two      *)
(* managers never wait for the map each other has locked.                  *)
(***************************************************************************)
NoLockCycle ==
  \A c, d \in Community :
    pc[c] = "lookup" /\ pc[d] = "lookup" =>
      ~(Topic[c][First(c)].other = d /\ Topic[d][First(d)].other = c)
=============================================================================
