# A TLA+ model of gradido_node

gradido_node keeps, for every community it is configured with, a blockchain of
Gradido transactions.  The order of the transactions comes from outside: each
community has a topic of the Hiero consensus service, whose messages carry a
sequence number and a consensus timestamp.  The node listens to the topics,
checks each message, appends the valid transactions to the community's block
file, and answers queries about them over HTTP.

These modules model what has to be right for two nodes to agree, for one node to
survive a restart, and for its clients to be told the truth: how a topic is
followed, how its transactions are ordered, the threads that do the work, the way
of a transaction to the disk and into the caches and back, the answers about the
chain, and the start and the end of the process.
All paths below are relative to `src/src/` unless they begin with `config/`.

## The system

```
 Hiero mirror node                    Hiero consensus node
   | REST          \ gRPC stream          | gRPC, topic info
   v                v                     v
 SyncTopicOnStartup  MessageListenerQuery ----> (task of the CPU scheduler)
        \            /
         v          v pushTransaction
      SimpleOrderingManager  <--lookup-->  SimpleOrderingManager of another community
        |   ^ condSignal
        v   |
      HieroMessageToTransactionTask   (CPUSheduler, CPUShedulerThread)
        |
        v createAndAddConfirmedTransaction
      FileBased (blockchain of a community) -> caches, state db (LevelDB)
        | pushTransaction
        v
      cache::Block, cache::BlockIndex -- WriteTransactionsToBlockTask --> IO scheduler
        ^ getTransaction                                                    |
        |                                                                   v
      queries (JSON-RPC)                            model::files::Block, model::files::BlockIndex
```

### Inventory

| component | state | operations | what is hard about it | what makes it correct |
|---|---|---|---|---|
| Ordering: `controller/SimpleOrderingManager`, `task/HieroMessageToTransactionTask`, `task/Thread` | map of undecided transactions, cache of recent ones, last sequence number, condition variable | `init`, `pushTransaction`, `ThreadFunction`, `processTransaction`, `findCrossGroupTransactionPair`, `exit`, `condSignal` | messages come several times and out of order, tasks finish in any order, signals without predicate, two managers lock each other's map | each sequence number decided once and in order; the restart point is never ahead; an inbound transaction waits for its pair |
| CPU scheduler: `task/CPUSheduler`, `CPUShedulerThread`, `CPUTask`, `Task`, `CPUTaskGRPCReactor` | queue of free workers, list of pending tasks, a task slot per worker | `sheduleTask`, `getNextUndoneTask`, `checkPendingTasks`, `setNewTask`, `stop`, worker loop | hand-over of a task to a worker that goes to sleep; a task added just after a worker looked | a task runs at most once, and not before it is ready; a pending one is not forgotten |
| Block store: `cache/Block`, `cache/BlockIndex`, `task/WriteTransactionsToBlockTask`, `controller/TaskObserver`, `model/files/Block`, `model/files/BlockIndex` | cached transactions, task that collects, index entries, file cursors, pending tasks; block file, index file | `pushTransaction`, `addTransaction`, `getTransaction`, `callFromTimer`, `exit`, `init`, rebuild of the index | write-behind on two IO threads, index and file written separately, crash in between, reader beside the writers | the index leads to the right line; a reader finds what was confirmed; a restart loses and repeats nothing |
| Topic synchronisation: `task/SyncTopicOnStartup`, `client/hiero/*`, `hiero/MessageListener*` | last known sequence number and topic, call status of the subscription | `checkLastTransaction`, `loadTransactionsFromMirrorNode`, `startListening`, `ThreadFunction` of `TopicMessageQuery` | history comes from one source and news from another, the connection ends, the topic is replaced | no message of the topic is missed between the two |
| Blockchain: `blockchain/FileBased` | caches below, cached blocks, ordering manager | `init`, `initOnline`, `createAndAddConfirmedTransaction`, find operations, `exit` | rebuild after a corrupt cache, work mutex held while others are waited for | caches agree with the chain |
| Communities: `blockchain/FileBasedProvider`, `cache/GroupIndex`, `cache/Dictionary` | map of blockchains, community config, string index | `init`, `findBlockchain`, `reloadConfig`, `exit` | shutdown and reload against running threads | a community has one blockchain, a string one index |
| Caches: `cache/MessageId`, `HieroTransactionId`, `TransactionHash`, `TransactionTriggerEvent`, `State`, `model/files/LevelDBWrapper` | expiring maps, LevelDB folders | add, find, remove, init, reset | memory and LevelDB updated in two steps | what memory says, the db says |
| Queries: find operations of `cache/BlockIndex` and `FileBased` | none of their own | `findTransactions`, `countTransactions`, `findOne`, `findAll` | search direction and pagination at block and month limits | the result is what a scan of the chain would give |
| Infrastructure: `SingletonManager/FileLockManager`, `CacheManager`, `lib/FuzzyTimer`, `lib/VirtualFile` | file locks, timers | lock with timeout, timer callbacks | callbacks of destroyed objects, truncate before write | |
| Process: `MainServer`, `ServerGlobals`, `main.cpp` | global schedulers, timers, clients | `init`, `exit` | order of shutdown | what is not yet written when the process ends is known, and nothing runs on what is destroyed |
| Interface: `server/json-rpc`, `task/NotifyClient`, `client/GraphQL`, `client/JsonRPC`, `model/Apollo` | none | request handlers, notifications | | pure functions of the chain |
| Formats: `hiero/*`, `serialization`, `lib/BinTextConverter` | none | protobuf and JSON conversion | | |
| Not in use: `iota/*`, `SingletonManager/OrderingManager`, `GlobalStateManager`, `controller/ControllerBase`, `RemoteGroup`, `task/CheckForCrossGroupPairTask`, `HddWriteBufferTask`, `SerializeToVFileTask`, `IotaMessageToTransactionTask` | | | compiled out (`_USING_IOTA`) or without a caller | |

The validation of transactions, the balances and the serialisation are in the
library gradido_blockchain, which is not in this repository; here its verdicts
are nondeterministic.

### How the components meet

* `SyncTopicOnStartup` starts the ordering manager (`init`) and pushes the
  history; the listener's thread pushes what is new.  Both call
  `pushTransaction`, so every message may come twice and in any order.
* `pushTransaction` schedules a `HieroMessageToTransactionTask` on the CPU
  scheduler.  The task signals the manager from inside `run()`; the worker marks
  the task finished afterwards.
* The manager's thread confirms into `FileBased` under its own map lock and then
  writes the sequence number of the transaction before to the state db.
* `FileBased::pushTransaction` puts the transaction into the `cache::Block`, whose
  timer callback hands the collecting task to the write scheduler.
* Readers (JSON-RPC threads, the deserialize tasks, other managers) come to
  `cache::Block::getTransaction` and look at the cache, the collecting task,
  the tasks the `TaskObserver` knows, the index and the file, in that order.

## Modules

| module | models | |
|---|---|---|
| `TopicLedger` | what ordering promises: sequence numbers are decided one after the other, each once | abstract specification |
| `SimpleOrderingManager` | the ordering managers of all communities with their tasks and threads | implements `TopicLedger` |
| `SimpleOrderingManager_proofs` | its theorems | TLAPS |
| `CPUSheduler` | scheduler, workers, callers, timer | |
| `CPUSheduler_proofs` | its theorems | TLAPS |
| `TopicSync` | from the topic of a community to the ordering manager: answer of the network, history, subscription, restart | |
| `TopicSync_proofs` | its theorems | TLAPS |
| `BlockStore` | from a confirmed transaction to the block file and back, with crashes and restarts | extends `BlockIndexFile` |
| `BlockStore_proofs` | its theorems | TLAPS |
| `BlockIndexFile` | the format of the index file, written and read block by block | operators |
| `Ordered` | the members of a set in an order | operator |
| `Caches` | what is kept beside the block: dictionary, state db, transaction ids, signatures, trigger events, with crashes and databases that do not open | |
| `Caches_proofs` | its theorems | TLAPS |
| `BlockSearch` | searches in the index and the wallet view made of them | operators |
| `Queries` | the JSON-RPC interface and the notification of community servers | extends `BlockSearch` |
| `Queries_proofs` | its theorems, and those about the searches | TLAPS |
| `Startup` | from `main` to the running node | |
| `Shutdown` | `MainServer::exit` beside everything that still runs | extends `Startup` |
| `Shutdown_proofs` | its theorems | TLAPS |
| `NaturalSets` | lemmas the proofs use: least and greatest member of a set of numbers, induction up to a number, loops, sets in order | TLAPS |
| `MC...` | the instances of the runs | |

Names follow the source, misspellings included (`CPUSheduler`).

A module has, of the components around it, what its own properties need, and
takes their worst behaviour: `TopicSync` knows of the ordering manager only the
order of its decisions, which `SimpleOrderingManager` shows; `BlockStore` has its
own crash and restart, and `Caches` has one for the databases and takes from
`BlockStore` that a prefix of the chain is written.

### SimpleOrderingManager

State.  `mTransactions`, `mLastTransactions` and `mLastSequenceNumber` are the
fields of the class, per community.  A message is its rank by consensus
timestamp in the topic, so the multimap is a set and its first entry the
minimum.  `task` is the life of a deserialize task (scheduled, `run()` returned,
marked finished), `result` what it found.  `persisted` is
`LAST_HIERO_TOPIC_SEQUENCE_NUMBER` in the state db and `chain` what was
confirmed since the start.  `pc` is the place of the manager's thread; it holds
`mTransactionsMutex` exactly at the places in `Locking`.

Actions.  `Push` is `pushTransaction`; `Expire` the expiry of the cache that
recognises duplicates; `RunTask` and `FinishTask` are the two moments of a
worker the manager can tell apart; `CheckExit`, `Wait`, `SpuriousWakeup`,
`Resume`, `Exit` are `task::Thread::run` and `exit`; the others are the pieces of
`ThreadFunction` between the points where another thread may see a difference:
`NothingToDo` (the two `return 0`), `DropStale`, `Begin`, `GiveUp`, `AskOther` and
`FindPair` (cross group), `Confirm`, `Persist` and `Erase`.

Left out.  Time: a transaction may be given up, and a cache entry may expire, at
any moment.  Whether two transactions pair is a free choice.  The process
goes down (`failure`) where an exception reaches `Thread::run`, or a null pointer is
dereferenced; restarting is in `TopicSync`, `BlockStore` and `Caches`.

### CPUSheduler

State.  `mFreeWorkerThreads`, `mPendingTasks`, `mStopped`; per worker
`mWaitingTask`, its place `pc` and `mExitCalled`; per task the place of the call that
schedules it (`caller`, `worker`), and how often it ran.

Actions.  `ScheduleTask`, `FindWorker`, `AddPending` and `SetNewTask` are the steps of
`sheduleTask`, which takes three mutexes one after the other.
`TakeUndone` and `PushFree` are `getNextUndoneTask`, `CheckPendingTasks` the timer's
call, `Run` and `Assign` the body of `CPUShedulerThread::ThreadFunction`.
`SetStopped`, `ClearPending` and `Exit` are `stop()` and the destructor.

Left out.  `mWaitingTask` is a `shared_ptr` the worker accesses without the mutex
`setNewTask` holds; here every access is atomic, although in C++ it is a data race.
Parents of tasks (`Task::isAllParentsReady`) are never set by any caller.

### TopicSync

State.  `published` is how far the topic and its replacement have come; a
message is its rank by time over both.  On disk the `chain` (as the set of
messages in it) and the two entries of the state db; of the ordering manager its
undecided messages and its number; of `SyncTopicOnStartup` its place `at`, the
answer it acts on and the time it reads from; of the subscription
`mCallStatus`, the message it is at, and what was asked.

Actions.  `GetTopicInfo` and its failure; `CheckLastTransaction`, with every
`LastTransactionState` the lookup may end in;
`loadTransactionsFromMirrorNode` page by page, each of which may fail, for the old
topic first if it was replaced; `startListening`; every event of
`TopicMessageQuery::ThreadFunction`, among them an error and the end of the
stream; the manager's decisions; `Crash`, which may take the last lines or all of
them while the state db stays as it is, and the restart.  `lost` remembers what a
crash took.

### BlockStore

State.  On disk `file` (the lines of the block), `indexFile` (its blocks),
`persisted`.  In memory `entry` (the index entries) with the month each is filed
under, `mTransactionNrsFileCursors`, `mSerializedTransactions`,
`mTransactionWriteTask` (the transactions of the collecting task) and
`mTransactionsFromPendingTasks` (the `TaskObserver`).  `queue`, `work`, `at`,
`snapshot` are the write scheduler and its workers, plus one thread `Closer` that
runs the last task in `cache::Block::exit`.  `started` says whether one or two IO
workers were started.  `lastSeq` and `persistDue` are what the ordering manager
adds, `reading` and `readAt` one call of `getTransaction`.

Actions.  `Confirm`, `Persist`, `Skip` are the ordering manager;
`CallFromTimer` and `CacheTimeout` the timer; `Write` one write task, in
the steps a crash or a reader can see (lock, lines, cursors, serialise, truncate,
write); `Read` one read, step by step; `Exit`, `CloseBlock`, `CloseIndex`,
`Closed` the shutdown; `Crash` at any time; `Start` with the index file, or the
rebuild from the block file, or the refusal, and with the choice of
`SyncTopicOnStartup::checkLastTransaction`.

A crash may leave a torn line (and a hash that is wrong) or a torn index file.
A torn index file, and a block file whose hash is wrong, make the start fail.
There is one block, because nothing calls `hasSpaceLeft`.  The index file is a
sequence of year, month and data blocks with a hash at its end.  What `serialize`
writes is said declaratively, as the order of the places in it (`PlacesOf`,
`Before`); it is read as the code reads it: a data block belongs to the last year
and month blocks before it.

Left out.  The eviction of a `cache::Block` from `mCachedBlocks` (`Shutdown` has it
for a block without tasks in flight), the timeouts of the file locks (an exception after a second), and a
second block.  `FileBased::exit` gives up waiting after ten seconds; it then
destroys an index that cannot be serialised, which is `Crash` here.

### Caches

State.  Each database on disk (`dictionary`, `persisted`, `lastBlockNr`,
`idFile`, `eventFile`) and its counterpart in memory (`index`, `mLastIndex`, `ids`,
`hashes`, `events`), the `chain` and how much of it is `written`; `step` is where
`createAndAddConfirmedTransaction` is, which enters a transaction into them one
after the other.

Actions.  `Confirm` to `Persist` are its pieces, with a crash between any two;
`Refuse` is the refusal of a repeated signature or an unknown transfer; `Write` a write
task; `FindByMessageId`, `ExpireId`, `ExpireHash` the memory, which forgets by the clock,
so at any time, however far the manager has come (`forgotten` remembers the signatures
of which a duplicate would still have been in time); `Start(bad)` is
`FileBased::init`, where `bad` is the database that does not open: `ResetState`,
the dictionary's reset with the removal of the index files, the rescan for
transaction ids.  `StartFails` is where the start ends in an exception.

An entry of the event file is a second with events in it, as in the code.
Timeout dates may share a second or not.

### BlockSearch and Queries

`BlockSearch` defines a search over a given chain as the code does it: by year
and month, then over the entries of the month, counting off the pages in the search
direction (`FindTransactions`), `findAll` with its filter function and what it
does with the counts, and the wallet's view: sign, amount, change, previous
balance, and the lines for decay.  The balance of an account is defined
separately, by the effect of each type of transaction, and the properties compare
the two.

A line of the wallet whose transaction has a plain memo has no number, date and
balance (`Transaction.cpp:26`); `plain` in the ledger says so, and `DecayLine` makes of
it what the code does.  The role of a redemption depends on whether the account is the
address of a link (`IsLink`).

`Queries` handles calls: `HandleRequest` takes a call or a batch, `Handle` does the
next step; where a handler counts and then pages, these are two steps, and
transactions may be confirmed in between (`Push`, `Notify`).  `NotificateNewTransaction`
is the task that tells the community server, which then asks for the transaction;
`NotificationThrows` the exception `notificate` does not catch, after which the worker
ends the process.

### Startup and Shutdown

`Startup` is `MainServer::init` with each of its ends: an address book that is
missing, invalid or of the wrong kind, no client for a community, a
`communities.json` with an incomplete entry.  `sync` is where each community is
between the question to the network and the ordering manager's thread.

`Shutdown` adds `MainServer::exit`: first the HTTP server, then the fuzzy timer,
the schedulers, the provider's communities one by one (work mutex, observer, ordering
manager, `join`, blocks, timer entry), beside the managers that still confirm, an IO worker, a
community that is about to synchronise, and the timer's thread with the block it
is calling.  `ExpireBlock` is the destruction of a block that expired from
`mCachedBlocks`; its entry stays in the timer (`stale`), since it is removed under
another name than it was added, and `FirstEntry` may come to it: `CallFreed` is the
call of the freed object, with what it may do.

Three things are simpler than in the code: there is one IO worker (the code starts
two), a block expires only when no write task of it is pending, and the timer has at
most one entry of a block that expired.

## Runs

| run | cfg | instance | checks | result |
|---|---|---|---|---|
| `ordering` | `Ordering.cfg` | one community, three messages, the last without transaction id | `TypeOK`, `Chronological`, `RestartPoint`, `TasksOwned`, `ImplementsLedger` | holds, 1.3 million states |
| `cross_group` | `CrossGroup.cfg` | two communities, one inbound transaction and its pair | `PairBeforeInbound`, `LockReleased` | holds, 0.3 million |
| `scheduler` | `CPUSheduler.cfg` | two workers, three tasks, one waits for its message | `TypeOK`, `RunOnce`, `ReadyBeforeRun`, `ExclusiveHandover`, `PendingServed` | holds, 0.14 million |
| `topic_sync` | `TopicSync.cfg` | three messages and one of the new topic, two starts | `TypeOK`, `HistoryMeetsNews`, `OldTopicFinished`, `OnlyConfirmedDropped`, `PublishedDecided` | holds, 0.14 million |
| `block_store` | `BlockStore.cfg` | one or two IO workers, three messages over two months of two years, one refused, three starts | `TypeOK`, `IndexLeadsToLine`, `ReadFinds`, `WithoutGap`, `WrittenInOrder`, `RestartKeepsNumbers` | holds, 0.17 million |
| `caches` | `Caches.cfg` | four messages, two deferred transfers, two starts | `TypeOK`, `IndicesNameKeys`, `OpenIsScheduled`, `ConfirmedTwiceIfForgotten`, `IdsLeadToTransaction` | holds, 0.79 million |
| `queries` | `Queries.cfg` | eight transactions over four months | `TypeOK`, `ClientReadsAll`, `AnswersMatchScan`, `WalletSlices`, `DecayFollowsNewest`, `AmountsAddUp`, `ToldIsFound`, `OneOutcome` | holds, 0.07 million |
| `shutdown` | `Shutdown.cfg` | two communities, six address books, two transactions | `TypeOK`, `OnlyTasksAreLost`, `NoCallAfterExit`, `ShutdownEnds` | holds, 0.19 million |
| `lost_signal` | `LostSignal.cfg` | one community | `CalledAgain` | violated |
| `cross_group_lock` | `CrossGroupLock.cfg` | two communities that need each other | `NoLockCycle` | violated |
| `handover` | `Handover.cfg` | one worker, two tasks | `HandedRun` | violated |
| `block_write` | `BlockWrite.cfg` | no restart | `WriteGoesOn` | violated |

What the passing runs show:

* Whatever order, repetition and delay the messages come with, however tasks
  end, and whenever the thread wakes up or is told to exit, the manager decides
  the sequence numbers one after the other.  `ImplementsLedger` says it as a
  refinement, `Chronological` for what lies in the chain, and `RestartPoint` for
  what a restarted node will begin with.  `TypeOK` contains that
  `updateSequenceNumber` never throws: its failure is not a value of `failure`.
* A task is never in the hands of a worker when the manager drops the message it
  belongs to (`TasksOwned`).
* The scheduler hands a worker out once; a task runs at most once and only when
  it is ready; and with the timer a task that was added just after a worker looked
  does not wait for ever (`PendingServed`).  The write scheduler has no timer
  (`MainServer.cpp:83`); that it needs one is the mutant of this property.
* A node that listens has missed nothing between its history and its subscription,
  also when pages failed, the lookup found nothing, or the topic was replaced
  (`HistoryMeetsNews`).  A valid message it drops as stale was confirmed before, or a
  decided message of the other topic has its number or a higher one
  (`OnlyConfirmedDropped`).  That is less than one would wish: what was confirmed and
  lost in a crash is dropped when it comes again, if the chain is empty or the mirror
  node does not find its last transaction, and so are the first messages after a topic
  reset.  And all that is published is decided while the subscription holds
  (`PublishedDecided`).
* Every cursor leads to its transaction's line, and the month it is filed under is
  the right one, also read back from the index file; a reader never misses a
  confirmed transaction, whatever one or two IO workers do between its looks at the
  observer, the index and the file.
* With one IO worker a restart continues where the block file ends, never leaves
  a transaction out, and gives no number twice, as long as the first accepted
  message is still there (`Beginning`): after a crash before the first write an
  empty chain goes on from the number in the state db.
* After any crash and with a database that does not open, the indices stand for
  their keys, an open deferred transfer keeps its timeout, a repeated signature is
  refused unless the clock made the node forget it too early
  (`ConfirmedTwiceIfForgotten`), and an id leads to its transaction.  The comments of
  `Caches` name what each of these takes: that no two timeouts share a second, that the
  event db could be opened, or that nothing was forgotten.
* A client that pages through the chain while it grows reads all of it; the answers
  are those of a scan at some time during the call; the pages of a wallet are slices
  of the account's list and their amounts its balance, but for the exceptions
  named at the proofs.  Where entries are hidden from a page, the decay line is not
  promised; after a plain memo it begins with values nobody set.
* A community that was shut down lacks in its block file only what is in write tasks,
  among them those the scheduler has dropped, which are lost (`OnlyTasksAreLost`); what
  its block was collecting is written.  From then on the timer calls no block
  (`NoCallAfterExit`).  And a shutdown ends, but for the three situations `Stuck` names: the manager's thread wants the provider's or the
  blockchain's mutex from the thread that waits for it, or missed the signal.

What the violated ones show (each in `PROJECT.json` under `findings`):

* `lost_signal`: the task signals before it is marked finished, and not at all if it
  fails; the manager looks, returns 0 and sleeps, and a finished transaction
  stays where it is until another message happens to come.
* `cross_group_lock`: two managers hold their own map and want the other's.
* `handover`: a worker is in the queue of the free ones before it has cleared
  `mWaitingTask`; a task it is handed in between is overwritten, and a signal before the wait is
  lost.
* `block_write`: a transaction confirmed after the task was handed over has an index
  entry without a cursor; `serialize` throws and the worker ends the process.

### Disagreements without a run

Met while reading the code for these modules.  In the first list the models
contain the behaviour, as a step, a failure or a condition of a property:

* After a topic reset, messages with small numbers are dropped as stale before the
  branch for a reset is reached (`SimpleOrderingManager.cpp:60`, `233`): `TopicSync`.
* `MainServer::exit` stops the write scheduler, which drops its tasks, before the
  blockchains are asked to exit.  The `TaskObserver` still holds them, so the index is not
  destroyed and nothing throws: their transactions are lost without a word
  (`MainServer.cpp:148` has a TODO about it).  If the block collects more at that time, its
  last task appends lines behind the hole and then throws in a destructor, because
  the lost ones have no cursor: `StopScheduler`, `ClearBlocks`.
* A block that expired from `mCachedBlocks` is destroyed while its timer entry stays
  (`Block.cpp:36`, `44`), and the timer then calls a freed object (`FuzzyTimer.cpp:88`):
  `ExpireBlock`, `CallFreed`.
* Signatures are kept for a time by the clock (`TransactionHash.h:17`), not until the
  messages that could repeat them have been handled; a manager that waits (as in
  `lost_signal`) can confirm a transaction twice: `ExpireHash`.
* `Transaction.cpp:28` returns early for a plain memo, before number, date and balance
  are set, from which `TransactionList.cpp:131` makes the decay line: `DecayLine`.
* The address of a link that another link is redeemed to is shown the change of that
  other one (`RedeemDeferredTransferTransactionRole.cpp:42`): `OneSided`.
* `notificate` catches the exceptions of gradido_blockchain only; any other ends the
  process (`Base.cpp:70`, `CPUShedulerThread.cpp:65`): `NotificationThrows`.
* A crash that takes transactions of the old topic, when `LAST_HIERO_TOPIC_ID`
  already names the new one, is not made good: the next start reads the new topic
  only (`SyncTopicOnStartup.cpp:57`).  `OldTopicFinished` promises
  nothing about them: `TopicSync`.
* A message that is no transaction is dereferenced as a null pointer: `Begin` and
  `FindPair` end with `failure = "null"`.
* The state db is ahead of the block file.  After a crash before the first write the
  chain is empty, the number comes from the state db
  (`SyncTopicOnStartup.cpp:92`), and the first messages are dropped: `BlockStore`,
  `TopicSync`.
* The config file sets `io.workerCount=1`, the code reads `io.worker_count` and
  starts two; two write tasks reach the file in any order, and a rebuild of the
  index then refuses to start.  `WithoutGap` and the two after it are therefore
  stated for one worker.
* A lookup by message id takes the answer of `has()` for its number
  (`FileBased.cpp:362`): `Queries`.
* The rescan for trigger events needs blocks that are not there yet and throws
  (`FileBased.h:159`, `FileBased.cpp:398`, `State.cpp:49`), after which
  `mInitalized` stays false; `FileBasedProvider.cpp:162` passes
  `resetBlockIndices` as false whatever happened: `Caches`.
* The trigger events of one second are stored without a separator
  (`TransactionTriggerEvent.cpp:112`): `Caches`.
* A dictionary that is reset before there is a block file stores block number 0,
  for which `getBlock` asserts at this and every later start
  (`FileBased.cpp:378`, `455`): `Caches`.
* `addCommunity` leaves a community whose initialisation threw in the map
  (`FileBasedProvider.cpp:161-175`); with no client per community
  `FileBased.h:152` divides by zero, and so does `NodeAddressBook.cpp:46` with an
  empty address book: `Startup`.
* Some handlers give an error and go on (`RequestHandler.cpp:257-280`): `Queries`,
  `OneOutcome`.

In the second list, outside what the models tell apart: a `GET` is answered without
a result (`RequestHandler.cpp:107`); the hash of the index file leaves out the transaction type
(`BlockIndex.cpp:65-77`), and a count of addresses is compared with 256 in eight bits
(`BlockIndex.cpp:202`); `Dictionary::reset` keeps the reverse lookup of the values;
`MirrorClient.cpp:157` looks up an array by name, and an answer of the mirror
node without the expected members ends the process.

### Bounds and why they are enough

Every bound is a constant of a cfg or of an MC module.

* Ordering: three messages are enough for one to be stale, one next and one ahead at
  the same time, and duplicates come from `Expire`, which is unbounded.  Two
  communities are all a pairing involves.
* Scheduler: two workers and three tasks give two concurrent calls, a free worker
  and a full list.
* `TopicSync`: three messages with pages of two give a full page and one that is
  not, of which a failed request may be either; the invalid one comes in
  chunks, and one message of the new topic is enough for a number to be taken
  twice; `MaxStarts = 2` is a restart that finds another topic or fewer lines.
* `BlockStore`: `MaxMessage = 3` with one refused message in the middle gives two
  transactions in up to two write tasks, in months whose order differs from that of
  the years, and `MaxStarts = 3` a crash during recovery from a crash.  The two IO
  workers are interchangeable, so it is checked up to symmetry; it has no liveness
  property.
* `Caches`: two deferred transfers, one redeemed and one sent twice, on a chain longer
  than what a start looks through (`StartupCache = 2`), timeouts in
  the same second and not; `MaxStarts = 2` is a restart at which any database may
  fail, after a start at which another may have failed before.
* `Queries`: eight transactions of every type, with months of several entries and of
  one, pages smaller and larger than a month, both directions, only creations, a
  plain memo, a community server that is told by GraphQL or none (whatever the JSON client
  does, the other may do as well), a batch of two, and one notification under way at a time (`NotificationWorkers`, `MaxNotifyTasks`).
* `Shutdown`: two communities, so that one is still at work while the other
  closes; one of them with two transactions, so that a task has the first, with the
  worker, in the queue or dropped, while the block collects the second.

The bounds of `BlockStore`, `TopicSync`, `Caches` and `Shutdown` are small because
the proofs below hold for all values of them.

`CHECK_DEADLOCK FALSE` is set where the system stops: the process exits or goes
down, and a topic ends.  `queries` checks for deadlock.

### Fairness

`SimpleOrderingManager`: the operating system runs the thread of each manager
and the CPU scheduler runs the tasks (weak fairness of `Thread`, `RunTask`,
`FinishTask`).  Nobody owes a delivery, a spurious wakeup, an expiry or an
exit.  That the scheduler runs each task is an assumption, which `handover` shows the
code does not quite keep.

`CPUSheduler`: callers that have begun a call, workers, and the timer's callback
proceed; nobody owes a task, a message, a spurious wakeup or the shutdown.
`run()` returns.

`TopicSync`: the task and the manager go on, a call that was made is started, and
a connection that holds brings what was published.  Nobody owes an answer to
`getTopicInfo`, a restart, or an end to the errors; `PublishedDecided` is about a
process that is up and a subscription that holds.

`Shutdown`: timer, worker and managers have weak fairness; the thread in
`MainServer::exit` strong fairness, since it waits for mutexes others take again and
again, and a mutex nobody keeps is given to who waits for it in the end.

`BlockStore`, `Caches` and `Queries` have no liveness property: after `block_write`
there is nothing to promise, and the others answer in steps of one thread.

## Proofs

Seven modules have theorems (and `NaturalSets` lemmas), each for every value of its
constants under the named assumptions: any number of messages, communities,
workers, tasks, crashes and starts.  Each has an inductive invariant, one lemma per
action that it is kept, and theorems that follow from it.  All of these invariants
were checked with TLC on the instances of the runs before they were proved.

| module | theorem | statement |
|---|---|---|
| `SimpleOrderingManager_proofs` | `Inductive` | `Spec => []IInv` |
| | `TypeCorrect` | `Spec => []TypeOK` |
| | `TasksStayOwned` | `Spec => []TasksOwned` |
| | `RestartPointHolds` | `Spec => []RestartPoint` |
| | `ChainChronological` | `Spec => []Chronological`, if in each topic sequence numbers grow with the timestamps (`SequenceGrows`) |
| | `PairsFirst` | `Spec => []PairBeforeInbound` |
| | `LedgerImplemented` | `Spec => ImplementsLedger` |
| `CPUSheduler_proofs` | `Inductive` | `Spec => []IInv` |
| | `TypeCorrect` | `Spec => []TypeOK` |
| | `TasksRunOnce` | `Spec => []RunOnce` |
| | `NotRunBeforeReady` | `Spec => []ReadyBeforeRun` |
| | `HandoverExclusive` | `Spec => []ExclusiveHandover` |
| `TopicSync_proofs` | `TypeCorrect` | `Spec => []TypeOK` |
| | `Inductive` | `Spec => []ReadInv` |
| | `NoGap` | `Spec => []HistoryMeetsNews` |
| | `OldTopicRead` | `Spec => []OldTopicFinished` |
| | `DropsAreRight` | `Spec => []OnlyConfirmedDropped` |
| `BlockStore_proofs` | `IndexReadsBack` | reading what `serialize` and `writeToFile` wrote gives the same index |
| | `Inductive` | `Spec => []IInv` |
| | `TypeCorrect` | `Spec => []TypeOK` |
| | `CursorsAreRight` | `Spec => []IndexLeadsToLine` |
| | `GetTransactionFinds` | `Spec => []ReadFinds` |
| | `InductiveInOrder` | `Spec => [](OneWorker => OneByOne)` |
| | `NoGap` | `Spec => []WithoutGap` |
| | `LinesInOrder` | `Spec => []WrittenInOrder` |
| | `NumbersAreKept` | `Spec => RestartKeepsNumbers` |
| `Caches_proofs` | `TypeCorrect` | `Spec => []TypeOK` |
| | `AddressesFound` | `Spec => []IndicesNameKeys` |
| | `Once` | `Spec => []ConfirmedTwiceIfForgotten` |
| | `IdsFound` | `Spec => []IdsLeadToTransaction` |
| | `TimeoutsKept` | `Spec => []OpenIsScheduled` |
| `Queries_proofs` | `FindAllIsPage` | a search without a filter function gives the page of the matching entries |
| | `TypeCorrect` | `Spec => []TypeOK` |
| | `FollowerReadsAll` | `Spec => []ClientReadsAll` |
| | `SearchesScan` | `Spec => []AnswersMatchScan` |
| | `ToldFinds` | `Spec => []ToldIsFound` |
| | `EitherOutcome` | `Spec => []OneOutcome` |
| | `WalletShowsSlices` | `Spec => []WalletSlices` |
| | `DecayIsOfNewest` | `Spec => []DecayFollowsNewest` |
| | `LinesAddUp` | `Spec => []AmountsAddUp` |
| `Shutdown_proofs` | `Inductive` | `Spec => []IInv` |
| | `LostIsInTasks` | `Spec => []OnlyTasksAreLost` |
| | `TimerCallsNoMore` | `Spec => []NoCallAfterExit` |
| | `TypeCorrect` | `Spec => []TypeOK` |

### Ordering

Assumption `TopicAssumption`: topics are sequences of messages, sequence
numbers positive.  None of the properties is inductive: they depend on what the
thread found before it took its present step.  `IInv` adds to `TypeOK`

* `HoldsFirst`: while the thread works on a transaction, that one is still the first of
  the map, out of its task, and the successor of the last number.  It needs that
  nobody else changes the map in `Locking`, and that a message pushed meanwhile
  cannot come before it: `Push` waits for the lock;
* `ChainDecided`: everything in the chain has a decided number, and the numbers
  in the chain ascend;
* `PersistedNumber`: the persisted number is at most the last one, and every
  confirmed number is at most one above it unless the thread is about to persist;
* `UnfinishedInMap`: a task that is scheduled or runs belongs to a message in the map.

`MoveKeepsIInv` serves the steps that only
move the thread.  `Chronological` follows from the ascending numbers; without
`SequenceGrows` it is false, as a topic reset shows.  `PairsFirst` has a second
invariant on top, `PIInv`: the place of the thread tells what the lookup
has found, the transaction in hand stays the first one, and a message received
stays received.  The refinement maps
`mLastSequenceNumber`, or its successor while the thread persists and erases, to the
ledger's last number, and the numbers of the chain to its entries; every step is a
ledger step or a stutter.

### Scheduler

`ShedulerAssumption`: there are finitely many workers (the constructor queues
them all), and `None` is neither a task nor a worker.  `RunOnce` depends on where a task may be at
all, so `IInv` follows it and each worker through the call, the list, the slot and the run:

* `HeldTaskUnrun`: a task a call or the list holds is in no worker's slot and has not
  run; a task in the list is in no call;
* `WaitingTaskUnrun`, `OneHolder`, `RunsSomething`: what a worker still has to run has
  not run, no two workers have the same task, and one that runs has a task;
* `BusyReserved`: a worker with something to do is neither in the queue of free ones nor
  being handed a task.  The worker that has just entered the queue, and has not yet
  overwritten its slot, is the exception the run `handover` is about;
* `HandedToOne`: two calls never have the same worker;
* `ReadyWhenHeld`: what a worker or a call with a worker has is ready.

Lemmas about sequences without repetition (`TailOfQueue`, `AppendNew`, `RemoveAtPlace`,
`QueueOfSet`) carry the queue and the list; `NaturalSets` has the smallest member of a
set of numbers, on which the first ready task of the list and the oldest transaction of the
map rest.

### Topic synchronisation

`TopicAssumption`: the two topics have different names, a message that comes in
chunks is no transaction that could be confirmed alone, pages are not empty;
`TopicReplaced`: the old topic has ended when the new one begins.

`ReadInv` is about what was read.  `ReadOK` says that everything of the topic up to
the time the history was read to has been seen, and everything up to the message
the stream is at; that is `HistoryMeetsNews` once the subscription asks from that
time on (`PlacesOK`).  It is not inductive alone: at a restart what was seen before
is only what is in the chain or was decided, so `ChainOK` says that before a
transaction in the chain everything of its topic is decided, and `UndecidedOK` that
before an undecided message everything was seen.  `TopicsOK` keeps apart which topic
the config, the state db and the current run mean; `OldBeforeNew` is why a chain
with a transaction of the new topic has the whole old one, and `OldRead` why the
history of the old topic was read first.  `PastOld` is the exception after a failed
page, when the last transaction is one of the new topic.

`DecideInv` adds what `OnlyConfirmedDropped` needs.  The manager drops by number alone,
so every number it may compare with, its own and the one in the state db, must be that
of a message that was decided (`Has`) with all before it in its topic
(`GoneInOrder`).  A crash takes transactions out of the chain, but `Gone`, what is in
the chain, was lost or was passed over, only grows; that is why the property holds for any loss
of lines, and why it cannot say that what is dropped is still in the chain.
`PassedIsRight` says the same of what was dropped before.

### Block store

`StoreAssumption`: finitely many IO workers, and the closing thread is none of them.
`IInv` has

* `DiskOK`, `IndexOK`: every cursor, in memory, in a snapshot about to be written
  and in the index file, is the place of its line, and lines are only ever added;
* `OwnedOnce`, `AtWork`: a transaction is in one task at a time, and has its cursor
  when and only when its task has set it.  Without it a second task could set the
  cursor of a line that is another's;
* `ReaderOK`: every transaction has a cursor, is in the collecting task, or is in
  one the observer knows, which is why `getTransaction` finds it in the order in
  which it looks;
* `ManagerOK`: the number of a transaction does not exceed that of its message;
* `ProcessOK`: what is empty while the process is down.

With one IO worker `OneByOne` is inductive relative to `IInv`: the entries and the
blocks of the index file are consecutive accepted messages (`DataOK`), the manager
goes on behind the last one (`FreshOK`), and the tasks in the queue, with the worker
and with the collector follow one another in the order of their transactions
(`OrderOK`), so that a crash cuts the file and never makes a hole.

`IndexReadsBack` is about the format: the place of an entry is its rank in the order
by year, month and number; lemmas show that the order puts each entry behind its
year and its month and before the next, so that the reader files it where it was.

### Caches

`CachesAssumption` has, beside the types: a deferred transfer redeems none; a
transaction involves finitely many public keys; and a start looks through at least
as many transactions as messages fit between creating and receiving one
(`StartupCache >= Window`), without which `ConfirmedTwiceIfForgotten` is false.
Three invariants stand on `BaseOK`, the types and the places of the thread:

* `DictInv`: the dictionary's indices are 1 to n, each for another key, and every
  index entry in memory and in the index file names the keys of its transaction.  A
  dictionary that is lost is rebuilt line by line; that each line only adds
  (`Extends`) and all its keys are there at the end (`RebuiltFacts`) is an induction
  over the lines, made with the set of line numbers for which it holds (`UpTo`);
* `ChainInv`: of two transactions with one signature the signature was forgotten
  (`SignedOnce`).  The signatures in memory are enough to decide so, but for the
  forgotten ones (`Cached`), since a duplicate that comes in time is at most
  `Window` messages away, and the chain's messages ascend (`Spread`).  `Position`
  is where the manager is in the topic.  `Once` follows.  As long as nothing was
  forgotten (`Orderly`) the chain is moreover what a node would confirm that knew all
  signatures and all redemptions (`IsChain`): each transaction acceptable after those
  before it, and every acceptable message taken;
* since acceptability depends on the chain alone (`AgreeFacts`), two such chains
  from the first message are one the beginning of the other (`OneChain`), and a
  chain that was cut by a crash grows again as it was.  So a number kept for an id
  in a lost future of the chain is right in the present one (`IdsInv`);
* an event that was removed for a redemption that was lost is not missed, because
  that redemption comes again (`ScheduleInv` with `RedeemedLater`).  That does not take
  that nothing was forgotten: a redemption of an open transfer is never passed over
  (`RedeemInv`), since if its signature is known, the transfer was redeemed already.
  `EventInv` has the records in the db and the events in memory say the same, if no
  two transfers time out in one second.

### Queries

`LedgerAssumption`: the types of the chain's entries; months do not descend from
one entry to the next, and a link is to an earlier entry.  `LinkAssumption`: what the
validation of the library lets pass as a link, which the wallet's roles rely on: the
transactions that redeem a deferred transfer or time it out, and no others, name one,
they take from its address, what they name is a deferred transfer, and what times out
goes back to its sender.
`QueriesAssumption`: the types of the calls, and the calls of the client that follows
the chain are calls of `getTransactions`.  A negative `currentPage` or `pageSize`,
which `ApiHandler.cpp:208-213` reads as well, is left out.

Most of the work is about the searches, for any chain, filter and length n of the chain.
They are loops that a recursive function stands for; `LoopExists` (by induction up to a
number, `UpTo`) shows that there is such a function, and the lemmas on steps
(`VisitMonthSteps`, `FindSteps`, `FindAllSteps`) that the definitions are its value.
`Searched(filter, acc, V)` is the invariant of the search: of the entries V it came
by it looked at matching ones in their order and counted them, the result is what
follows the skipped ones, and an entry it did not look at lies behind a full page.
It is kept by one entry (`VisitOne`); by a month (`VisitMonthKeeps`), which begins with the
page taken for not full, so that the first entry of every later month is looked at
and may be added to a page that is full; and by the months (`FindSearches`), since an
entry of an earlier month has a smaller number.  So what is found begins with
the page (`FoundIsPage`), and the loop of `findAll` cuts off the rest
(`FindAllLimits`): `FindAllIsPage`.  That `findTransactions` may give more than a page
is why `findAllFast` is right only because its one caller asks for no pages
(`FindAllFastIsAll`).

With that, `Inv` is inductive: types (`StateOK`, `RequestOK`), that the follower has
the beginning of the chain (`ReadOK`), and of each answer what the properties
say of it (`AnswersOK`), which an answer keeps since it is about constants and
itself.  Across the steps of a call the count of `getTransactions` is the number of
transactions at that time, the count of the wallet (`Counted`) what a search without
pages finds then, and a transaction the server was told of stays in the chain.

The wallet's properties follow from what `WalletOK` keeps of an answer and from
lemmas on any chain.  `FindAllUses` and `LinesFound`: the lines are what is not hidden in
a beginning of what was found, which has at least the page; so they begin with the
page's visible entries, since two ascending sequences of which one is in the other agree
as far as nothing else comes before (`SortedBegins`, `LinesSlice`).  Of the decay:
`CountOfVisible` compares the count, made by a search without pages, with what can be
seen; in the order of the chain the newest is then on the page that reaches the count
(`NewestAscending`), from the newest it is on the first (`NewestDescending`), where a
later page has lines only if more than a page was counted.  Nothing after it concerns
the account, or it would be the one hidden entry, which is the oldest
(`BalanceOfNewest`).  Of the amounts: `LineIsGain` goes through the types, and
`BalanceBetween` shows that what lies between two lines of a page that hides nothing
is not about the account, because a page is a piece of the search without holes
(`PageWithoutHoles`), and leaves its balance (`BalanceStays`).  `BalanceSteps` gives the
recursive function behind `Balance` with the same `LoopExists` as the loops.

Each exception the properties name is one the proofs need.  `DecayFollowsNewest`: a count
taken before the page, only creations asked for, a page size of 0 (no limit to the search,
but for the check a page of no entries), and hidden entries other than a registration at
the start, which are counted differently than shown; and after a plain memo the line is the
one the code makes (`DecaySince`).  `AmountsAddUp`: a transfer to oneself and the
redemption of one's own link, which are shown from one side alone, the line a link's
own address gets for its timeout (`LINK_TIMEOUT` with the amount the sender gets back),
and the line of another link's redemption for the address of a link, which has that
one's change.

### Shutdown

`StartupAssumption` and `ShutdownAssumption`: the types of the files, of the address
books and of the bounds.  `IInv` says what the thread in
`MainServer::exit` has already done to whom: once it is past the timer, the timer is
told to exit and calls nothing, neither a block nor what is left of one
(`TimerStopped`); while it joins the manager of a community, that one was told to exit,
afterwards it has ended, and a destroyed block collects nothing (`ManagersStopped`); and what is
not written is being collected or in a task the observer knows (`TasksHold`), which every
step of the timer, the worker and the blocks keeps.  `OnlyTasksAreLost` is
not inductive without it: a manager that was not joined could confirm after the last write.

`TypeCorrect` needs more, since `TypeOK` bounds the queue of write tasks by the
tasks the observer knows: `TypesInv` says that what was confirmed, collected and
written nests, that the tasks of a community are about disjoint numbers in
ascending order (`ObservedOK`), and that a task is in the queue, with the worker or
in the timer's hand, but never twice (`QueueOK`).

### Only model-checked

Everything under fairness (`LockReleased`, `PendingServed`, `PublishedDecided`,
`ShutdownEnds` and the violated ones): liveness is out of the prover's reach.  Every
invariant, action property and refinement that a run without a counterexample checks
is also a theorem, those with a condition (`SequenceGrows`, one IO worker) under that
condition.

## Not modelled, and why

* The content of transactions, validation, balances, decay: in the library
  gradido_blockchain, which is not part of the repository.  Where a search or a
  balance needs them they are external definitions, elsewhere free choices.
* `hiero/*`: protobuf and JSON wrappers, getters and one enumeration of 1750 lines;
  `serialization`, `lib/BinTextConverter`: encodings without state.
* The IOTA path (about 1900 lines), which Hiero has replaced: compiled only with
  `_USING_IOTA`, or without a caller; and the classes nothing creates.
* `reloadConfig`, `isCommunityInConfig`, `getTransactionReceipts`,
  `addStringIndex`, `setListeningCommunity` while running: no caller, or only a setter.
* The notification of a failed transaction, which follows no other state; the text of
  notifications and answers; `model/Apollo/Decay`.
* Clock time, timeouts of file locks, memory limits of the caches, TLS.
* The eviction of a `cache::Block` from `mCachedBlocks` with tasks in flight.

## Plan

Done, in this order: ordering (the reason the node exists) with its abstract
specification and proofs; the scheduler everything runs on; the store that
must survive a restart; the way from the topic to the manager; the caches beside the
store; queries, start and shutdown; the proofs of the scheduler, of the pairing, of
the shutdown, of the block store and its index file, of the topic synchronisation,
of the caches, of the searches and the answers made of them, and of the wallet.

Left:

1. `BlockStore`: the eviction of a block with writes in flight, which gives a second
   `cache::Block` for the same file (`FileBased.cpp:457`).
2. The timeout of the file lock, as an exception in a write task.
