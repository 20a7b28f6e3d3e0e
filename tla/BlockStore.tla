----------------------------- MODULE BlockStore -----------------------------
(***************************************************************************)
(* How the confirmed transactions of a community reach the disk and come   *)
(* back after a restart: cache::Block with its BlockIndex, the             *)
(* task::WriteTransactionsToBlockTask it collects transactions in, the IO  *)
(* workers that run these tasks, the TaskObserver, model::files::Block and *)
(* BlockIndex, and of FileBased and SyncTopicOnStartup what is done with   *)
(* the last sequence number.                                               *)
(*                                                                         *)
(* There is one block: nothing in the code begins a second one.  A cursor  *)
(* is the place of a line in the block file, 1 for offset 0.  The writes   *)
(* of the state db are durable; the process may go down at any time.       *)
(***************************************************************************)
EXTENDS BlockIndexFile

CONSTANTS
  Worker,      \* the threads the write scheduler may have
  Closer,      \* the thread that calls exit()
  Accepted,    \* messages that become a transaction
  MonthOf,     \* the month a message is confirmed in
  MaxMessage,  \* bound: sequence number of the last message
  MaxStarts    \* bound: number of restarts

ASSUME StoreAssumption ==
  /\ IsFiniteSet(Worker)
  /\ Closer \notin Worker
  /\ MaxMessage \in Nat
  /\ MaxStarts \in Nat
  /\ Accepted \subseteq 1..MaxMessage
  /\ MonthOf \in [Accepted -> [year : Nat, month : 1..12]]

VARIABLES
  \* on disk
  file,        \* the lines of the block file
  indexFile,   \* the blocks of the block index file
  persisted,   \* LAST_HIERO_TOPIC_SEQUENCE_NUMBER in the state db
  \* in memory
  entry,       \* index entries: transaction nr -> message
  mYearMonthAddressIndexEntries,  \* the month each of them is filed under
  mTransactionNrsFileCursors,
  mSerializedTransactions,  \* cached transactions
  mTransactionWriteTask,    \* transactions collected for the next write
  mTransactionsFromPendingTasks,
  queue,       \* write tasks no worker has taken
  work,        \* transactions of the write task of a thread
  at,          \* where a thread is in run()
  snapshot,    \* what it has serialized
  lastSeq,     \* mLastSequenceNumber of the ordering manager
  persistDue,  \* it has added a transaction, and not yet updated the state
  reading,     \* transaction nr getTransaction looks for
  readAt,      \* where that call is
  started,     \* the IO workers the node is configured with
  mode,        \* whether the process runs, or how it went down
  starts       \* number of restarts

index == <<entry, mYearMonthAddressIndexEntries>>
disk == <<file, indexFile, persisted>>
manager == <<lastSeq, persistDue>>
tasks == <<queue, work, at, snapshot>>
blockVars == <<index, mTransactionNrsFileCursors, mSerializedTransactions,
               mTransactionWriteTask, mTransactionsFromPendingTasks>>
reader == <<reading, readAt>>
process == <<mode, starts, started>>
vars == <<disk, blockVars, tasks, manager, reader, process>>

Threads == Worker \cup {Closer}
Where == {"idle", "append", "locked", "cursors", "index", "store", "storing", "finish"}
ReadWhere == {"none", "pending", "observer", "cursor", "file", "missing"}
Mode == {"up", "exiting", "down", "terminated", "refused"}

(* A line, and what is left of lines that did not completely reach the     *)
(* disk.                                                                   *)
Line(nr, m) == [nr |-> nr, msg |-> m]
Torn == Line(0, 0)

NoCursors == [nr \in {} |-> 0]

Reading == readAt \in {"pending", "observer", "cursor", "file"}
Goto(w, p) == at' = [at EXCEPT ![w] = p]
Nrs == DOMAIN entry
IndexNow == Index(mYearMonthAddressIndexEntries, mTransactionNrsFileCursors)
LastNr == IF Nrs = {} THEN 0 ELSE Max(Nrs)

-----------------------------------------------------------------------------
(* The process goes down: memory is gone, `entry' stays until the next     *)
(* start replaces it.  A thread that writes may leave half of it behind.   *)

ForgetMemory ==
  /\ mTransactionNrsFileCursors' = NoCursors
  /\ mSerializedTransactions' = {}
  /\ mTransactionWriteTask' = {}
  /\ mTransactionsFromPendingTasks' = {}
  /\ queue' = <<>>
  /\ work' = [w \in Threads |-> {}]
  /\ at' = [w \in Threads |-> "idle"]
  /\ snapshot' = [w \in Threads |-> <<>>]
  /\ lastSeq' = 0
  /\ persistDue' = FALSE
  /\ reading' = 0
  /\ readAt' = "none"

Down(how) ==
  /\ mode' = how
  /\ file' \in {file} \cup
       {Append(file, Torn) : w \in {v \in Threads : at[v] = "locked"}}
  /\ indexFile' \in {indexFile} \cup
       {snapshot[w] : w \in {v \in Threads : at[v] = "storing"}}
  /\ ForgetMemory
  /\ UNCHANGED <<persisted, index, starts, started>>

Crash ==
  /\ mode \in {"up", "exiting"}
  /\ Down("down")

-----------------------------------------------------------------------------
(* The ordering manager's thread.                                          *)

(* addIndicesForTransaction: no cursor is known yet.                       *)
AddIndicesForTransaction(nr, m) ==
  /\ entry' = [n \in Nrs \cup {nr} |-> IF n = nr THEN m ELSE entry[n]]
  /\ mYearMonthAddressIndexEntries' = AddIndices(mYearMonthAddressIndexEntries, MonthOf[m], nr)
  /\ UNCHANGED mTransactionNrsFileCursors

(* pushTransaction of FileBased and of the block: into the write task, the *)
(* index and the cache.  getTransaction holds the same mutexes.            *)
Confirm ==
  LET m == lastSeq + 1
      nr == LastNr + 1 IN
  /\ mode = "up" /\ ~Reading /\ ~persistDue
  /\ m \in Accepted
  /\ AddIndicesForTransaction(nr, m)
  /\ mTransactionWriteTask' = mTransactionWriteTask \cup {nr}
  /\ mSerializedTransactions' = mSerializedTransactions \cup {nr}
  /\ persistDue' = TRUE
  /\ UNCHANGED <<disk, mTransactionsFromPendingTasks, tasks, lastSeq, reader, process>>

(* updateLastKnownSequenceNumber, then updateSequenceNumber.               *)
(* Mutant: both are done again.                                            *)
PersistAgain ==
  /\ mode \in {"up", "exiting"} /\ persistDue
  /\ persisted' = lastSeq
  /\ lastSeq' = lastSeq + 1
  /\ UNCHANGED <<file, indexFile, blockVars, tasks, persistDue, reader, process>>

Persist ==
  /\ mode \in {"up", "exiting"} /\ persistDue
  /\ persisted' = lastSeq
  /\ lastSeq' = lastSeq + 1
  /\ persistDue' = FALSE
  /\ UNCHANGED <<file, indexFile, blockVars, tasks, reader, process>>

(* A message that becomes no transaction: its task failed, or it is        *)
(* refused, and then the state is updated as well.                         *)
Skip ==
  /\ mode = "up" /\ ~persistDue
  /\ lastSeq < MaxMessage /\ lastSeq + 1 \notin Accepted
  /\ persisted' \in {persisted, lastSeq}
  /\ lastSeq' = lastSeq + 1
  /\ UNCHANGED <<file, indexFile, blockVars, tasks, persistDue, reader, process>>

-----------------------------------------------------------------------------
(* The timer, and the write task it schedules.                             *)

CacheTimeout(nr) ==
  /\ mode = "up"
  /\ nr \in mSerializedTransactions
  /\ mSerializedTransactions' = mSerializedTransactions \ {nr}
  /\ UNCHANGED <<disk, index, mTransactionNrsFileCursors, mTransactionWriteTask,
                 mTransactionsFromPendingTasks, tasks, manager, reader, process>>

(* addBlockWriteTask.  Mutant: the observer is not told.                   *)
ObserveNothing(nrs) == UNCHANGED mTransactionsFromPendingTasks

AddBlockWriteTask(nrs) ==
  mTransactionsFromPendingTasks' = mTransactionsFromPendingTasks \cup nrs

(* callFromTimer of the block, which does nothing if the mutex is taken.   *)
CallFromTimer ==
  /\ mode = "up" /\ ~Reading
  /\ mTransactionWriteTask # {}
  /\ AddBlockWriteTask(mTransactionWriteTask)
  /\ queue' = Append(queue, mTransactionWriteTask)
  /\ mTransactionWriteTask' = {}
  /\ UNCHANGED <<disk, index, mTransactionNrsFileCursors, mSerializedTransactions,
                 work, at, snapshot, manager, reader, process>>

Take(w) ==
  /\ queue # <<>>
  /\ w \in started /\ at[w] = "idle"
  /\ work' = [work EXCEPT ![w] = Head(queue)]
  /\ queue' = Tail(queue)
  /\ Goto(w, "append")
  /\ UNCHANGED <<disk, blockVars, snapshot, manager, reader, process>>

(* A thread holds the lock on the block file while it is "locked", and the *)
(* one on the index file while it is "storing".                            *)
Unlocked(p) == \A v \in Threads : at[v] # p

(* appendLines, under the lock on the block file: the lines over the old   *)
(* hash, and the new hash.                                                 *)
LockFile(w) ==
  /\ at[w] = "append"
  /\ Unlocked("locked")
  /\ Goto(w, "locked")
  /\ UNCHANGED <<disk, blockVars, queue, work, snapshot, manager, reader, process>>

(* The transactions of a task in the order of their nrs.                   *)
(* Mutant: in the opposite one.                                            *)
FromLast(S) == {p \in S \X S : p[1] > p[2]}

ByNr(S) == {p \in S \X S : p[1] < p[2]}
Lines(S) ==
  LET nrs == InOrder(S, ByNr(S)) IN [i \in DOMAIN nrs |-> Line(nrs[i], entry[nrs[i]])]

AppendLines(w) ==
  /\ at[w] = "locked"
  /\ file' = file \o Lines(work[w])
  /\ Goto(w, "cursors")
  /\ UNCHANGED <<indexFile, persisted, blockVars, queue, work, snapshot,
                 manager, reader, process>>

(* The place of the transaction's line, the last one if there are several: *)
(* the thread has just appended it.  Mutant: the place is counted from the *)
(* transactions and not from the lines.                                    *)
NrOfLine(nr) == nr

PlaceOf(nr) == Max({i \in 1..Len(file) : file[i].nr = nr})

(* addFileCursorForTransaction for every line: offset 0 is refused but for *)
(* the first transaction of the block, and a cursor is set once.           *)
SetFileCursors(w) ==
  /\ at[w] = "cursors"
  /\ IF \E nr \in work[w] : PlaceOf(nr) = 1 /\ nr > Min(Nrs)
     THEN Down("terminated")
     ELSE /\ mTransactionNrsFileCursors' =
               [nr \in DOMAIN mTransactionNrsFileCursors \cup work[w] |->
                  IF nr \notin work[w] THEN mTransactionNrsFileCursors[nr]
                  ELSE SetCursor(mTransactionNrsFileCursors, nr, PlaceOf(nr))[nr]]
          /\ Goto(w, "index")
          /\ UNCHANGED <<disk, index, mSerializedTransactions, mTransactionWriteTask,
                         mTransactionsFromPendingTasks, queue, work, snapshot,
                         manager, reader, process>>

(* writeIntoFile does nothing if there is nothing in the index.  serialize *)
(* throws if an entry has no cursor: a transaction was pushed after the    *)
(* task was handed over.  The worker then ends the process.                *)
NothingToWrite == Nrs = {}

Serialize(w) ==
  /\ at[w] = "index"
  /\ IF Nrs \subseteq DOMAIN mTransactionNrsFileCursors
     THEN /\ snapshot' = [snapshot EXCEPT ![w] = IndexBlocks(IndexNow)]
          /\ Goto(w, IF NothingToWrite THEN "finish" ELSE "store")
          /\ UNCHANGED <<disk, blockVars, queue, work, manager, reader, process>>
     ELSE Down("terminated")

(* writeToFile of the index: truncate, write, under the lock on that file. *)
Truncate(w) ==
  /\ at[w] = "store"
  /\ Unlocked("storing")
  /\ indexFile' = <<>>
  /\ Goto(w, "storing")
  /\ UNCHANGED <<file, persisted, blockVars, queue, work, snapshot,
                 manager, reader, process>>

Store(w) ==
  /\ at[w] = "storing"
  /\ indexFile' = WriteToFile(snapshot[w])
  /\ snapshot' = [snapshot EXCEPT ![w] = <<>>]
  /\ Goto(w, "finish")
  /\ UNCHANGED <<file, persisted, blockVars, queue, work, manager, reader, process>>

(* setTaskFinished: the finish command removes the task from the observer. *)
Finish(w) ==
  /\ at[w] = "finish" /\ w # Closer
  /\ mTransactionsFromPendingTasks' = mTransactionsFromPendingTasks \ work[w]
  /\ work' = [work EXCEPT ![w] = {}]
  /\ Goto(w, "idle")
  /\ UNCHANGED <<disk, index, mTransactionNrsFileCursors, mSerializedTransactions,
                 mTransactionWriteTask, queue, snapshot, manager, reader, process>>

Write(w) ==
  \/ Take(w) \/ LockFile(w) \/ AppendLines(w) \/ SetFileCursors(w)
  \/ Serialize(w) \/ Truncate(w) \/ Store(w) \/ Finish(w)

-----------------------------------------------------------------------------
(* getTransaction, for one that is neither in the cache nor in the task    *)
(* collecting: it holds the mutexes of the blockchain and of the block to  *)
(* its end, but the IO workers go on.                                      *)

ReadStep == UNCHANGED <<disk, index, mTransactionNrsFileCursors,
                        mTransactionWriteTask, mTransactionsFromPendingTasks,
                        tasks, manager, process>>

Return(result) == readAt' = result /\ reading' = 0

GetTransaction(nr) ==
  /\ ReadStep
  /\ mode = "up" /\ ~Reading
  /\ nr \in Nrs \ (mSerializedTransactions \cup mTransactionWriteTask)
  /\ reading' = nr
  /\ readAt' = "pending"
  /\ UNCHANGED mSerializedTransactions

IsTransactionPending ==
  /\ ReadStep
  /\ readAt = "pending"
  /\ readAt' = IF reading \in mTransactionsFromPendingTasks THEN "observer" ELSE "cursor"
  /\ UNCHANGED <<reading, mSerializedTransactions>>

(* The task may be finished in the meantime.                               *)
GetFromObserver ==
  /\ ReadStep
  /\ readAt = "observer"
  /\ IF reading \in mTransactionsFromPendingTasks
     THEN Return("none")
     ELSE readAt' = "cursor" /\ UNCHANGED reading
  /\ UNCHANGED mSerializedTransactions

GetFileCursor ==
  /\ ReadStep
  /\ readAt = "cursor"
  /\ IF reading \in DOMAIN mTransactionNrsFileCursors
     THEN readAt' = "file" /\ UNCHANGED reading
     ELSE Return("missing")
  /\ UNCHANGED mSerializedTransactions

(* readLine, under the lock on the block file; what is read is cached.     *)
ReadLine ==
  LET nr == file[mTransactionNrsFileCursors[reading]].nr IN
  /\ ReadStep
  /\ readAt = "file"
  /\ Unlocked("locked")
  /\ mSerializedTransactions' = mSerializedTransactions \cup {nr}
  /\ Return(IF nr = reading THEN "none" ELSE "missing")

Read ==
  \/ \E nr \in Nrs : GetTransaction(nr)
  \/ IsTransactionPending \/ GetFromObserver \/ GetFileCursor \/ ReadLine

-----------------------------------------------------------------------------
(* Shutdown.  The write scheduler drops the tasks no worker has taken;     *)
(* FileBased::exit waits for the others, and does not wait for ever: that  *)
(* it gives up is left to Crash, because serialize then throws in a        *)
(* destructor.                                                             *)

Exit ==
  /\ mode = "up" /\ ~Reading
  /\ mode' = "exiting"
  /\ queue' = <<>>
  /\ UNCHANGED <<disk, blockVars, work, at, snapshot, manager, reader, starts, started>>

(* cache::Block::exit runs the task collecting itself.                     *)
CloseBlock ==
  /\ mode = "exiting" /\ ~persistDue
  /\ mTransactionsFromPendingTasks = {} /\ at[Closer] = "idle"
  /\ work' = [work EXCEPT ![Closer] = mTransactionWriteTask]
  /\ mTransactionWriteTask' = {}
  /\ Goto(Closer, IF mTransactionWriteTask = {} THEN "index" ELSE "append")
  /\ UNCHANGED <<disk, index, mTransactionNrsFileCursors, mSerializedTransactions,
                 mTransactionsFromPendingTasks, queue, snapshot, manager, reader, process>>

(* The destructor of the index writes the index file once more.            *)
CloseIndex ==
  /\ at[Closer] = "finish" /\ work[Closer] # {}
  /\ work' = [work EXCEPT ![Closer] = {}]
  /\ Goto(Closer, "index")
  /\ UNCHANGED <<disk, blockVars, queue, snapshot, manager, reader, process>>

Closed ==
  /\ at[Closer] = "finish" /\ work[Closer] = {}
  /\ Down("down")

-----------------------------------------------------------------------------
(* Start: FileBased::init, then SyncTopicOnStartup.  A corrupt dictionary  *)
(* (reset) removes the index files and resets the state db.                *)

Starting ==
  /\ mode \in {"down", "terminated", "refused"}
  /\ starts < MaxStarts
  /\ starts' = starts + 1

ResetIndices(reset) == persisted' = IF reset THEN 0 ELSE persisted

(* checkLastTransaction: the sequence number of the last transaction, as   *)
(* the mirror node has it, in place of the one in the state.               *)
(* Mutant: the one in the state.                                           *)
StateNumber(chain) == persisted'

LastKnownSequenceNumber(chain) ==
  IF DOMAIN chain = {} THEN persisted' ELSE chain[Max(DOMAIN chain)]

Boot(loaded) ==
  /\ mTransactionNrsFileCursors' = loaded.cursors
  /\ mYearMonthAddressIndexEntries' = loaded.months
  /\ entry' = [nr \in DOMAIN loaded.cursors |-> file[loaded.cursors[nr]].msg]
  /\ lastSeq' = LastKnownSequenceNumber(entry')
  /\ mode' = "up"
  /\ UNCHANGED <<file, mSerializedTransactions, mTransactionWriteTask,
                 mTransactionsFromPendingTasks, tasks, persistDue, reader, started>>

LoadIndex ==
  /\ Starting
  /\ ~IsEmpty(indexFile) /\ IsWhole(indexFile) /\ CanRead(indexFile)
  /\ ResetIndices(FALSE)
  /\ Boot(ReadFromFile(indexFile))
  /\ UNCHANGED indexFile

(* rebuildBlockIndex and init: the hash is right and the nrs ascend.       *)
Rebuildable ==
  /\ \A i \in 1..Len(file) : file[i] # Torn
  /\ \A i \in 2..Len(file) : file[i - 1].nr < file[i].nr

(* The lines the rebuild reads, n of them.  Mutant: it steps over the      *)
(* first one as if the file had a head.                                    *)
LinesAfterHead(n) == 2..n

LinesRead(n) == 1..n

(* RebuildBlockIndexTask, when it has done n lines.                        *)
Rebuilt(n) ==
  LET nrs == {file[i].nr : i \in LinesRead(n)}
      cursors == [nr \in nrs |-> CHOOSE i \in LinesRead(n) : file[i].nr = nr] IN
  Index([nr \in nrs |-> MonthOf[file[cursors[nr]].msg]], cursors)

(* init waits until the queue of the lines is empty; the task may still be *)
(* at the last one, which then is not in the index.                        *)
RebuildIndex(reset) ==
  /\ Starting
  /\ reset \/ IsEmpty(indexFile)
  /\ Rebuildable
  /\ ResetIndices(reset)
  /\ \E n \in {Len(file), Len(file) - 1} \cap Nat : Boot(Rebuilt(n))
  /\ indexFile' = <<>>

(* An exception in init: the start fails, and MainServer gives up.         *)
Refuse(reset) ==
  /\ Starting
  /\ IF reset \/ IsEmpty(indexFile) THEN ~Rebuildable
     ELSE ~(IsWhole(indexFile) /\ CanRead(indexFile))
  /\ ResetIndices(reset)
  /\ indexFile' = IF reset THEN <<>> ELSE indexFile
  /\ mode' = "refused"
  /\ UNCHANGED <<file, blockVars, tasks, manager, reader, started>>

Start == LoadIndex \/ \E reset \in BOOLEAN : RebuildIndex(reset) \/ Refuse(reset)

-----------------------------------------------------------------------------
(* The first start: an empty folder.                                       *)
Init ==
  /\ file = <<>>
  /\ indexFile = <<>>
  /\ persisted = 0
  /\ entry = [nr \in {} |-> 0]
  /\ mYearMonthAddressIndexEntries = EmptyIndex.months
  /\ mTransactionNrsFileCursors = NoCursors
  /\ mSerializedTransactions = {}
  /\ mTransactionWriteTask = {}
  /\ mTransactionsFromPendingTasks = {}
  /\ queue = <<>>
  /\ work = [w \in Threads |-> {}]
  /\ at = [w \in Threads |-> "idle"]
  /\ snapshot = [w \in Threads |-> <<>>]
  /\ lastSeq = 0
  /\ persistDue = FALSE
  /\ reading = 0
  /\ readAt = "none"
  /\ mode = "up"
  /\ starts = 0
  /\ started \in SUBSET Worker \ {{}}

Next ==
  \/ Confirm \/ Persist \/ Skip \/ CallFromTimer
  \/ \E nr \in Nrs : CacheTimeout(nr)
  \/ \E w \in Threads : Write(w)
  \/ Read
  \/ Exit \/ CloseBlock \/ CloseIndex \/ Closed
  \/ Crash \/ Start

Spec == Init /\ [][Next]_vars

-----------------------------------------------------------------------------
TypeOK ==
  /\ file \in Seq([nr : Nat, msg : 0..MaxMessage])
  /\ \A i \in 1..Len(indexFile) : indexFile[i].type \in BlockTypes
  /\ persisted \in 0..MaxMessage
  /\ Nrs \subseteq 1..MaxMessage
  /\ \A nr \in Nrs : entry[nr] \in Accepted
  /\ DOMAIN mYearMonthAddressIndexEntries = Nrs
  /\ DOMAIN mTransactionNrsFileCursors \subseteq 1..MaxMessage
  /\ mSerializedTransactions \subseteq Nrs
  /\ mTransactionWriteTask \subseteq Nrs
  /\ mTransactionsFromPendingTasks \subseteq Nrs
  /\ queue \in Seq(SUBSET Nrs)
  /\ work \in [Threads -> SUBSET Nrs]
  /\ at \in [Threads -> Where]
  /\ lastSeq \in 0..MaxMessage
  /\ persistDue \in BOOLEAN
  /\ readAt \in ReadWhere
  /\ mode \in Mode
  /\ starts \in 0..MaxStarts
  /\ started \subseteq Worker

(* The number of IO workers is io.worker_count, two if it is not given.     *)
OneWorker == Cardinality(started) = 1

LeadsTo(cursor, nr) == cursor \in DOMAIN file /\ file[cursor].nr = nr

(***************************************************************************)
(* The index leads to the right line: a cursor in memory is the place of   *)
(* the line of that transaction, and so is one in the index file, whatever *)
(* lines earlier runs have left behind in the block file; and it files the *)
(* transaction under the month it was confirmed in, where queries look for *)
(* it, also when it was read back from the file.                           *)
(***************************************************************************)
IndexLeadsToLine ==
  /\ \A nr \in DOMAIN mTransactionNrsFileCursors :
       LET cursor == mTransactionNrsFileCursors[nr] IN
       LeadsTo(cursor, nr) /\ file[cursor].msg = entry[nr]
  /\ \A i \in 1..Len(indexFile) : indexFile[i].type = "data" =>
       LeadsTo(indexFile[i].fileCursor, indexFile[i].transactionNr)
  /\ \A nr \in Nrs : mYearMonthAddressIndexEntries[nr] = MonthOf[entry[nr]]

(***************************************************************************)
(* getTransaction finds every transaction the index has, whether it is in  *)
(* the cache, in a task that waits or runs, or only in the file, and       *)
(* whatever the IO workers do while it looks.                              *)
(***************************************************************************)
ReadFinds == readAt # "missing"

(***************************************************************************)
(* The transactions are consecutive accepted messages of the topic: what a *)
(* crash has lost is delivered again, and nothing after it is confirmed    *)
(* before, although the state db may be ahead of the block file.  Like the *)
(* next two it is only so with a single IO worker.                         *)
(***************************************************************************)
WithoutGap ==
  OneWorker => \A nr \in Nrs : nr + 1 \in Nrs =>
    /\ entry[nr] < entry[nr + 1]
    /\ \A m \in Accepted : m <= entry[nr] \/ entry[nr + 1] <= m

(***************************************************************************)
(* The write tasks of one run of the process reach the block file in the   *)
(* order of their transactions, which a rebuild of the index insists on    *)
(* ("transaction nrs aren't in ascending order").  It takes a single IO    *)
(* worker, as the config file asks for (io.workerCount=1); the code reads  *)
(* another key, and starts two.                                            *)
(***************************************************************************)
WrittenInOrder ==
  OneWorker /\ mode \in {"up", "exiting"} /\ starts = 0 =>
    \A i \in 2..Len(file) : file[i - 1].nr < file[i].nr

(* The first accepted message is there, also in the block file.            *)
Beginning ==
  \A m \in Accepted :
    /\ Nrs # {} => entry[Min(Nrs)] <= m
    /\ file # <<>> => file[1].msg <= m

(***************************************************************************)
(* A restart, after a crash at any time or a shutdown, with the index file *)
(* or rebuilt from the block file, has the transactions from the first one *)
(* on, without a hole, and a transaction keeps its number.  (After a crash *)
(* before the first write an empty chain goes on from the number in the    *)
(* state db: the beginning is lost, and numbers are given a second time.)  *)
(***************************************************************************)
RestartKeepsNumbers ==
  [][OneWorker /\ mode' = "up" /\ mode \notin {"up", "exiting"} /\ Beginning =>
       \A nr \in DOMAIN entry' : /\ nr \in Nrs => entry'[nr] = entry[nr]
                                 /\ 1..nr \subseteq DOMAIN entry']_vars

-----------------------------------------------------------------------------
(* What the code's comments say and the code does not do.                  *)

(***************************************************************************)
(* "Task for collecting new transactions for block and write down to disk  *)
(* after timeout": writing does not end the process.                       *)
(***************************************************************************)
WriteGoesOn == mode # "terminated"

=============================================================================
