------------------------------ MODULE Shutdown ------------------------------
(***************************************************************************)
(* The life of the process from its start (Startup) to its end:            *)
(* MainServer::exit stops the timer and the                                *)
(* schedulers and has FileBasedProvider end the communities one after the  *)
(* other, while the timer still collects write tasks, an IO worker still   *)
(* writes and the ordering managers still confirm.  FileBased::exit holds  *)
(* two mutexes of which a manager needs both, waits for write tasks that   *)
(* may have been dropped, joins the manager and destroys the blocks, each  *)
(* of which writes what it has collected.                                  *)
(*                                                                         *)
(* A write task is the set of the transactions it writes.                  *)
(***************************************************************************)
EXTENDS Startup

CONSTANT
  MaxConfirmed  \* bound: transactions the manager of each community confirms

ASSUME ShutdownAssumption == MaxConfirmed \in [Community -> Nat]

VARIABLES
  closing,      \* the community MainServer::exit ends
  mWorkMutex,   \* the blockchains whose mWorkMutex it holds
  timer,        \* where the timer's thread is
  mExit,        \* its exit
  calling,      \* the communities whose block it calls, one at most
  stale,        \* communities with an entry in the timer for a block that is gone
  mStopped,     \* mStopped of the write scheduler
  queue,        \* write tasks no IO worker has taken
  worker,       \* where the IO worker is
  task,         \* the write task it runs, as a sequence of at most one
  manager,      \* where the thread of each ordering manager is
  mExitCalled,  \* its mExitCalled
  confirmed,    \* transactions of each community
  collecting,   \* those in mTransactionWriteTask of the block
  observed,     \* write tasks the TaskObserver knows
  written,      \* those in the block file
  destroyed     \* communities whose block is destroyed

mainVars == <<closing, mWorkMutex, destroyed>>
providerVars == <<blockchains, provider, sync, startVars>>
timerVars == <<timer, mExit, calling, stale>>
ioVars == <<mStopped, queue, worker, task>>
managerVars == <<manager, mExitCalled>>
blockVars == <<confirmed, collecting, observed, written>>
vars == <<main, mainVars, providerVars, timerVars, ioVars, managerVars, blockVars>>

MainAt == StartAt \cup
          {"stopTimer", "stopScheduler", "lockProvider", "next",
           "lockBlockchain", "observe", "stopManager", "join", "clear",
           "removeTimer", "done", "cleared"}
TimerAt == {"asleep", "move", "call", "schedule", "dangling", "ended"}
ManagerAt == {"none", "check", "enter", "wait", "woken", "find", "confirm", "ended"}

Task(c, nrs) == [community |-> c, nrs |-> nrs]
Unwritten(c) == confirmed[c] \ written[c]
Running == main \notin {"cleared", "terminated"}

-----------------------------------------------------------------------------
Start ==
  /\ StartStep
  /\ UNCHANGED <<mainVars, timerVars, ioVars, managerVars, blockVars>>

(* A worker takes SyncTopicOnStartup; a scheduler that was stopped has     *)
(* dropped it.                                                             *)
TakeSync(c) ==
  /\ Running /\ ~mStopped
  /\ SyncStep(c, "scheduled", "running")
  /\ UNCHANGED <<mainVars, timerVars, ioVars, managerVars, blockVars>>

(* When it has looked for the last transaction, it starts the manager.     *)
StartManager(c) ==
  /\ Running
  /\ SyncStep(c, "running", "done")
  /\ manager' = [manager EXCEPT ![c] = "check"]
  /\ UNCHANGED <<mainVars, timerVars, ioVars, mExitCalled, blockVars>>

(* The ordering manager.  It holds the mutex of its thread from waking up  *)
(* to the next round.                                                      *)

ManagerStep(c, from, to) ==
  /\ Running
  /\ manager[c] = from
  /\ manager' = [manager EXCEPT ![c] = to]
  /\ UNCHANGED <<main, mainVars, providerVars, timerVars, ioVars, mExitCalled>>

CheckExit(c) ==
  /\ ManagerStep(c, "check", IF mExitCalled[c] THEN "ended" ELSE "enter")
  /\ UNCHANGED blockVars

(* It locks the mutex and waits, without looking at mExitCalled again.     *)
Wait(c) == ManagerStep(c, "enter", "wait") /\ UNCHANGED blockVars

(* A message is ready, or for no reason.                                   *)
WakeUp(c) == ManagerStep(c, "wait", "woken") /\ UNCHANGED blockVars

ThreadFunction(c) ==
  /\ \/ mExitCalled[c] /\ ManagerStep(c, "woken", "ended")
     \/ ~mExitCalled[c] /\ \E to \in {"find", "check"} : ManagerStep(c, "woken", to)
  /\ UNCHANGED blockVars

(* findBlockchain.                                                         *)
FindBlockchain(c) ==
  /\ ~provider
  /\ ManagerStep(c, "find", "confirm")
  /\ UNCHANGED blockVars

(* createAndAddConfirmedTransaction, and the next message if there is one. *)
Confirm(c) ==
  LET nr == Cardinality(confirmed[c]) + 1 IN
  /\ c \notin mWorkMutex
  /\ \E to \in {"find", "check"} : ManagerStep(c, "confirm", to)
  /\ confirmed' = [confirmed EXCEPT ![c] = @ \cup ({nr} \cap 1..MaxConfirmed[c])]
  /\ collecting' = [collecting EXCEPT ![c] = @ \cup (confirmed'[c] \ confirmed[c])]
  /\ UNCHANGED <<observed, written>>

Manager(c) ==
  \/ CheckExit(c) \/ Wait(c) \/ ThreadFunction(c)
  \/ FindBlockchain(c) \/ Confirm(c)

-----------------------------------------------------------------------------
(* The timer, which holds its mutex from "move" to the end of the call.    *)

TimerStep ==
  /\ Running
  /\ UNCHANGED <<mainVars, providerVars, managerVars, worker, task,
                 mStopped, mExit, confirmed, written>>

Move ==
  /\ TimerStep
  /\ timer = "asleep"
  /\ timer' = "move"
  /\ UNCHANGED <<main, calling, stale, queue, collecting, observed>>

(* The first entry is due or not; it is that of a block, or of one that is *)
(* gone: removeTimer is given another name than addTimer, so that a block  *)
(* leaves its entry behind.                                                *)
FirstEntry ==
  /\ TimerStep
  /\ timer = "move"
  /\ IF mExit THEN timer' = "ended" /\ UNCHANGED calling
     ELSE \/ timer' = "asleep" /\ UNCHANGED calling
          \/ timer' = "call" /\ \E c \in blockchains : calling' = {c}
          \/ timer' = "dangling" /\ \E c \in stale : calling' = {c}
  /\ UNCHANGED <<main, stale, queue, collecting, observed>>

(* What the call of an object that was freed may do: end the process, find *)
(* a block in its place, find mExitCalled still set, so that the entry is  *)
(* removed, or nothing.                                                    *)
CallFreed ==
  /\ TimerStep
  /\ timer = "dangling"
  /\ \/ main' = "terminated" /\ UNCHANGED <<timer, calling, stale>>
     \/ calling \subseteq blockchains /\ timer' = "call" /\ UNCHANGED <<main, calling, stale>>
     \/ /\ timer' = "asleep" /\ calling' = {} /\ stale' \in {stale, stale \ calling}
        /\ UNCHANGED main
  /\ UNCHANGED <<queue, collecting, observed>>

(* callFromTimer of the block: nothing to write yet, or the task is given  *)
(* to the observer, and after that to the scheduler.                       *)
(* Mutant: the block keeps the task it gave away.                          *)
KeepTask(c) == UNCHANGED collecting
ResetTask(c) == collecting' = [collecting EXCEPT ![c] = {}]

CallFromTimer ==
  /\ TimerStep
  /\ timer = "call"
  /\ \/ /\ timer' = "asleep"
        /\ calling' = {}
        /\ UNCHANGED <<collecting, observed>>
     \/ \E c \in calling :
          /\ collecting[c] # {}
          /\ observed' = observed \cup {Task(c, collecting[c])}
          /\ ResetTask(c)
          /\ timer' = "schedule"
          /\ UNCHANGED calling
  /\ UNCHANGED <<main, stale, queue>>

(* The scheduler does not take a task once it is stopped.                  *)
InHand == CHOOSE t \in observed :
  t.community \in calling /\ \A o \in observed :
    o.community = t.community => \A n \in o.nrs, k \in t.nrs : o = t \/ n < k

ScheduleTask ==
  /\ TimerStep
  /\ timer = "schedule"
  /\ queue' = IF mStopped THEN queue ELSE Append(queue, InHand)
  /\ timer' = "asleep"
  /\ calling' = {}
  /\ UNCHANGED <<main, stale, collecting, observed>>

Timer == Move \/ FirstEntry \/ CallFreed \/ CallFromTimer \/ ScheduleTask

-----------------------------------------------------------------------------
(* An IO worker.                                                           *)

WorkerStep ==
  /\ Running
  /\ UNCHANGED <<mainVars, providerVars, timerVars, managerVars, mStopped,
                 confirmed, collecting>>

TakeTask ==
  /\ WorkerStep
  /\ worker = "idle" /\ queue # <<>>
  /\ task' = <<Head(queue)>>
  /\ queue' = Tail(queue)
  /\ worker' = "append"
  /\ UNCHANGED <<main, observed, written>>

AppendLines ==
  LET t == Head(task) IN
  /\ WorkerStep
  /\ worker = "append"
  /\ written' = [written EXCEPT ![t.community] = @ \cup t.nrs]
  /\ worker' = "index"
  /\ UNCHANGED <<main, queue, task, observed>>

HasCursors(c) == Unwritten(c) = {}

(* The index is written as a whole, and throws if a transaction has no     *)
(* cursor yet; the worker then ends the process.                           *)
WriteIndex ==
  LET t == Head(task) IN
  /\ WorkerStep
  /\ worker = "index"
  /\ IF HasCursors(t.community)
     THEN observed' = observed \ {t} /\ UNCHANGED main
     ELSE main' = "terminated" /\ UNCHANGED observed
  /\ worker' = "idle"
  /\ task' = <<>>
  /\ UNCHANGED <<queue, written>>

Worker == TakeTask \/ AppendLines \/ WriteIndex

-----------------------------------------------------------------------------
(* A block nobody got for as long as the cache timeout is destroyed when a *)
(* query or the manager gets it, and another one takes its place.  It runs *)
(* the task collecting; the tasks before were done long ago.  A call of    *)
(* the timer that has not locked the block yet goes to the freed one.      *)
(* Bound: one block that is gone in the timer at a time.  Mutant: the task *)
(* is dropped.                                                             *)
DropCollecting(c) == UNCHANGED written
RunTask(c) == written' = [written EXCEPT ![c] = @ \cup collecting[c]]

GetsBlock(c) == main = "run" \/ (manager[c] = "confirm" /\ c \notin mWorkMutex)

ExpireBlock(c) ==
  /\ Running
  /\ c \in blockchains /\ GetsBlock(c) /\ stale = {}
  /\ \A t \in observed : t.community # c
  /\ RunTask(c)
  /\ ResetTask(c)
  /\ stale' = stale \cup {c}
  /\ timer' = IF c \in calling THEN "dangling" ELSE timer
  /\ UNCHANGED <<main, mainVars, providerVars, ioVars, managerVars, mExit, calling,
                 confirmed, observed>>

-----------------------------------------------------------------------------
(* MainServer::exit.                                                       *)

StopHttpServer ==
  /\ Goto("run", "stopTimer")
  /\ UNCHANGED <<mainVars, providerVars, timerVars, ioVars, managerVars, blockVars>>

(* FuzzyTimer::stop.  Mutant: the timer goes on.                           *)
LeaveTimer == UNCHANGED mExit
SetTimerExit == timer \in {"asleep", "ended"} /\ mExit' = TRUE

StopTimer ==
  /\ Goto("stopTimer", "stopScheduler")
  /\ SetTimerExit
  /\ UNCHANGED <<mainVars, providerVars, timer, calling, stale, ioVars, managerVars,
                 blockVars>>

(* CPUSheduler::stop drops the tasks no worker has taken.                  *)
StopScheduler ==
  /\ Goto("stopScheduler", "lockProvider")
  /\ mStopped' = TRUE
  /\ queue' = <<>>
  /\ UNCHANGED <<mainVars, providerVars, timerVars, worker, task, managerVars,
                 blockVars>>

LockProvider ==
  /\ Goto("lockProvider", "next")
  /\ provider' = TRUE
  /\ UNCHANGED <<mainVars, blockchains, sync, startVars, timerVars, ioVars,
                 managerVars, blockVars>>

(* FileBasedProvider::exit: every community in turn.                       *)
ExitNext ==
  /\ \/ \E c \in blockchains : Goto("next", "lockBlockchain") /\ closing' = {c}
     \/ blockchains = {} /\ Goto("next", "done") /\ closing' = {}
  /\ provider' = (main' # "done")
  /\ UNCHANGED <<mWorkMutex, destroyed, blockchains, sync, startVars, timerVars,
                 ioVars, managerVars, blockVars>>

(* FileBased::exit.                                                        *)
LockBlockchain ==
  /\ Goto("lockBlockchain", "observe")
  /\ mWorkMutex' = closing
  /\ UNCHANGED <<closing, destroyed, providerVars, timerVars, ioVars,
                 managerVars, blockVars>>

(* It waits until the observer has no task, or their number does not       *)
(* decrease.  Mutant: it waits until they are done.                        *)
NeverGivesUp(pending) == pending = {}
GivesUp(pending) == TRUE

Observe ==
  /\ Goto("observe", "stopManager")
  /\ GivesUp({t \in observed : t.community \in closing})
  /\ UNCHANGED <<mainVars, providerVars, timerVars, ioVars, managerVars, blockVars>>

(* Thread::exit needs the mutex of the manager's thread.  It has nothing   *)
(* to join if the thread was not started yet.                              *)
StopManager ==
  /\ Goto("stopManager", "join")
  /\ \E c \in closing :
       /\ manager[c] \in {"none", "check", "enter", "wait", "ended"}
       /\ mExitCalled' = [mExitCalled EXCEPT ![c] = TRUE]
       /\ manager' = [manager EXCEPT ![c] = IF @ = "wait" THEN "woken" ELSE @]
  /\ UNCHANGED <<mainVars, providerVars, timerVars, ioVars, blockVars>>

Join ==
  /\ Goto("join", "clear")
  /\ \A c \in closing : manager[c] \in {"none", "ended"}
  /\ UNCHANGED <<mainVars, providerVars, timerVars, ioVars, managerVars, blockVars>>

(* mCachedBlocks.clear(): the block runs the task collecting; its index    *)
(* throws, in a destructor, if another transaction has no cursor.          *)
ClearBlocks ==
  /\ \E c \in closing :
       /\ RunTask(c)
       /\ ResetTask(c)
       /\ Goto("clear", IF collecting[c] # {} /\ Unwritten(c) # collecting[c]
                        THEN "terminated" ELSE "removeTimer")
  /\ UNCHANGED <<confirmed, observed, mainVars, providerVars, timerVars, ioVars,
                 managerVars>>

(* removeTimer throws if the timer has its mutex, and otherwise removes    *)
(* nothing.  The index of the block is not written again as long as a task *)
(* the observer knows has it, though nobody will ever run that task.       *)
RemoveTimer ==
  /\ IF timer \notin {"asleep", "ended"}
     THEN /\ Goto("removeTimer", "terminated")
          /\ UNCHANGED <<blockchains, mWorkMutex, destroyed, stale>>
     ELSE /\ Goto("removeTimer", "next")
          /\ blockchains' = blockchains \ closing
          /\ destroyed' = destroyed \cup closing
          /\ stale' = stale \cup closing
          /\ mWorkMutex' = {}
  /\ UNCHANGED <<closing, provider, sync, startVars, timer, mExit, calling, ioVars,
                 managerVars, blockVars>>

(* Deleting the schedulers joins their threads.                            *)
ClearMemory ==
  /\ Goto("done", "cleared")
  /\ worker = "idle" /\ \A c \in Community : sync[c] # "running"
  /\ UNCHANGED <<mainVars, providerVars, timerVars, ioVars, managerVars, blockVars>>

Exit ==
  \/ StopTimer \/ StopScheduler \/ LockProvider \/ ExitNext \/ LockBlockchain
  \/ Observe \/ StopManager \/ Join \/ ClearBlocks \/ RemoveTimer

-----------------------------------------------------------------------------
Init ==
  /\ StartInit
  /\ closing = {} /\ mWorkMutex = {} /\ destroyed = {}
  /\ timer = "asleep" /\ mExit = FALSE /\ calling = {} /\ stale = {}
  /\ mStopped = FALSE /\ queue = <<>> /\ worker = "idle" /\ task = <<>>
  /\ manager = [c \in Community |-> "none"]
  /\ mExitCalled = [c \in Community |-> FALSE]
  /\ confirmed = [c \in Community |-> {}]
  /\ collecting = [c \in Community |-> {}]
  /\ observed = {}
  /\ written = [c \in Community |-> {}]

Next ==
  \/ Start \/ StopHttpServer \/ Exit \/ ClearMemory \/ Timer \/ Worker
  \/ \E c \in Community : TakeSync(c) \/ StartManager(c)
  \/ \E c \in Community : Manager(c) \/ WakeUp(c) \/ ExpireBlock(c)

Spec == Init /\ [][Next]_vars

(* Every thread runs on, and main gets a mutex that is free again and      *)
(* again; whether and when exit is asked for, and whether a message comes, *)
(* is not known.                                                           *)
FairSpec ==
  /\ Spec
  /\ SF_vars(Exit) /\ WF_vars(Timer) /\ WF_vars(Worker)
  /\ \A c \in Community : WF_vars(Manager(c))

-----------------------------------------------------------------------------
TypeOK ==
  /\ main \in MainAt
  /\ closing \subseteq Community /\ Cardinality(closing) <= 1
  /\ mCommunities \subseteq Community /\ blockchains \subseteq mCommunities
  /\ hiero.nodeCount \in 0..MaxClients /\ hiero.perCommunity \in 0..MaxClients
  /\ Len(hiero.clients) \in {0, hiero.nodeCount}
  /\ sync \in [Community -> SyncAt]
  /\ provider \in BOOLEAN /\ mWorkMutex \subseteq closing
  /\ timer \in TimerAt /\ mExit \in BOOLEAN
  /\ calling \subseteq Community /\ stale \subseteq mCommunities
  /\ mStopped \in BOOLEAN
  /\ \A i \in 1..Len(queue) : queue[i] \in observed
  /\ worker \in {"idle", "append", "index"}
  /\ \A i \in 1..Len(task) : task[i] \in observed
  /\ manager \in [Community -> ManagerAt]
  /\ mExitCalled \in [Community -> BOOLEAN]
  /\ \A c \in Community :
       /\ confirmed[c] \subseteq 1..MaxConfirmed[c]
       /\ collecting[c] \subseteq confirmed[c] \ written[c]
       /\ written[c] \subseteq confirmed[c]
  /\ \A t \in observed : t.community \in Community
  /\ destroyed \subseteq Community \ blockchains

(***************************************************************************)
(* What a community that has ended lacks in its block file is in write     *)
(* tasks the observer still knows: the worker's, and those                 *)
(* CPUSheduler::stop has dropped, which are lost.  What its block was      *)
(* collecting is written, and its manager confirms nothing after that.     *)
(***************************************************************************)
InTasks(c) == UNION {t.nrs : t \in {o \in observed : o.community = c}}

OnlyTasksAreLost == \A c \in destroyed : Unwritten(c) \subseteq InTasks(c)

(***************************************************************************)
(* From the time the shutdown destroys the first block the timer calls     *)
(* none, whether the block is there or gone.  While the node runs it does  *)
(* call a block that is gone: one whose entry in mCachedBlocks expired     *)
(* (CallFreed).                                                            *)
(***************************************************************************)
NoCallAfterExit == destroyed # {} => calling = {}

(***************************************************************************)
(* A shutdown comes to its end.  There are only these reasons that it does *)
(* not: the manager of the community that is closing is about to find a    *)
(* blockchain or to confirm, and waits for a mutex of the thread that      *)
(* waits for it; or it missed the signal to exit.                          *)
(***************************************************************************)
Stuck ==
  \E c \in closing :
    \/ main = "stopManager" /\ manager[c] = "find" /\ provider
    \/ main = "stopManager" /\ manager[c] = "confirm" /\ c \in mWorkMutex
    \/ main = "join" /\ manager[c] = "wait"

ShutdownEnds == main = "stopTimer" ~> main \in {"done", "terminated"} \/ Stuck
=============================================================================
