-------------------------- MODULE Shutdown_proofs --------------------------
(***************************************************************************)
(* Proofs about Shutdown, for any number of communities, any               *)
(* communities.json, any address book and any number of transactions.      *)
(***************************************************************************)
EXTENDS Shutdown, FiniteSetTheorems, TLAPS

-----------------------------------------------------------------------------
(***************************************************************************)
(* The inductive invariant: what MainServer::exit has already done to      *)
(* whom.                                                                   *)
(***************************************************************************)
ClosingStarted == {"stopScheduler", "lockProvider", "next", "lockBlockchain", "observe",
                   "stopManager", "join", "clear", "removeTimer"}

Types ==
  /\ closing \subseteq Community /\ destroyed \subseteq Community
  /\ \A c, d \in closing : c = d
  /\ blockchains \subseteq Community /\ mCommunities \subseteq Community
  /\ manager \in [Community -> ManagerAt]
  /\ mExitCalled \in [Community -> BOOLEAN]
  /\ DOMAIN confirmed = Community /\ DOMAIN written = Community
  /\ DOMAIN collecting = Community

(* The timer was told to exit while it called nothing, and calls nothing   *)
(* any more.                                                               *)
TimerStopped ==
  /\ main \in ClosingStarted => mExit
  /\ destroyed # {} => mExit
  /\ timer \notin {"call", "schedule", "dangling"} => calling = {}
  /\ mExit => timer \in {"asleep", "move", "ended"}

(* A manager that was told to exit, and was not there yet or has ended,    *)
(* does not come to confirm any more.                                      *)
Ended(c) == mExitCalled[c] /\ manager[c] \in {"none", "check", "ended"}

ManagersStopped ==
  /\ main = "join" => \A c \in closing : mExitCalled[c]
  /\ main \in {"clear", "removeTimer"} => \A c \in closing : Ended(c)
  /\ main = "removeTimer" => \A c \in closing : collecting[c] = {}
  /\ \A c \in destroyed : Ended(c) /\ collecting[c] = {}

(* What is not written is being collected, or in a task that is known.     *)
TasksHold == \A c \in Community : Unwritten(c) \subseteq InTasks(c) \cup collecting[c]

IInv == Types /\ TimerStopped /\ ManagersStopped /\ TasksHold

LEMMA InitIInv == Init => IInv
BY DEF Init, StartInit, IInv, Types, TimerStopped, ManagersStopped, TasksHold, Unwritten,
       ClosingStarted, ManagerAt

(* main goes on before the shutdown, or nothing but the rest of the        *)
(* process changes.                                                        *)
LEMMA StartKeepsIInv ==
  ASSUME IInv, Start \/ StopHttpServer
  PROVE  IInv'
<1>1. UNCHANGED <<mainVars, timerVars, managerVars, blockVars>>
  BY DEF Start, StopHttpServer
<1>2. main' \notin ClosingStarted
  BY DEF Start, StopHttpServer, StartStep, Main, LoadConfig, ConnectClients, InitProvider,
         AddCommunity, AllAdded, InitOnline, StartHttpServer, Goto, ClosingStarted
<1>3. blockchains' \subseteq Community /\ mCommunities' \subseteq Community
  <2>1. ASSUME NEW file \in Files PROVE Update(file) \subseteq Community
    <3>1. file \in Seq(Entry)
      BY StartupAssumption
    <3>2. ASSUME NEW i \in DOMAIN file PROVE file[i].communityId \in Community
      <4>1. file[i] \in Entry
        BY <3>1
      <4> QED BY <4>1 DEF Entry
    <3> QED BY <3>2 DEF Update, Readable
  <2>2. CASE InitProvider
    BY <2>1, <2>2 DEF InitProvider, IInv, Types
  <2>3. CASE ~InitProvider
    BY <2>3 DEF Start, StopHttpServer, StartStep, Main, LoadConfig, ConnectClients,
           AddCommunity, AllAdded, InitOnline, StartHttpServer, NotAdded, startVars,
           providerVars, IInv, Types
  <2> QED BY <2>2, <2>3
<1>4. TasksHold'
  BY <1>1 DEF blockVars, IInv, TasksHold, Unwritten, InTasks
<1> QED BY <1>1, <1>2, <1>3, <1>4 DEF mainVars, timerVars, managerVars, blockVars, IInv, Types,
           TimerStopped, ManagersStopped, Ended, ClosingStarted

(* A manager that was told to exit and is at "check" ends; one that was    *)
(* not started is started by its task.  What is confirmed is collected.    *)
LEMMA ManagerKeepsIInv ==
  ASSUME IInv, NEW c \in Community,
         TakeSync(c) \/ StartManager(c) \/ Manager(c) \/ WakeUp(c)
  PROVE  IInv'
<1>1. UNCHANGED <<main, mainVars, blockchains, mCommunities, timerVars, mExitCalled, written,
                  observed>>
  BY DEF startVars, providerVars, TakeSync, StartManager, SyncStep, Manager, WakeUp, CheckExit, Wait, ThreadFunction,
         FindBlockchain, Confirm, ManagerStep, managerVars, blockVars
<1>2. /\ \/ manager' = manager
         \/ \E to \in ManagerAt : manager' = [manager EXCEPT ![c] = to]
      /\ Ended(c) => manager'[c] \in {"none", "check", "ended"}
  BY DEF IInv, Types, Ended, TakeSync, StartManager, Manager, WakeUp, CheckExit, Wait,
         ThreadFunction, FindBlockchain, Confirm, ManagerStep, managerVars, ManagerAt
<1>3. /\ DOMAIN confirmed' = Community /\ DOMAIN collecting' = Community
      /\ \A d \in Community : Ended(d) => collecting'[d] = collecting[d]
      /\ \A d \in Community : /\ collecting[d] \subseteq collecting'[d]
                              /\ confirmed'[d] \ confirmed[d] \subseteq collecting'[d]
  <2>1. CASE Confirm(c)
    <3>1. /\ manager[c] = "confirm"
          /\ DOMAIN confirmed' = Community
          /\ \A d \in Community \ {c} : confirmed'[d] = confirmed[d]
          /\ collecting' = [collecting EXCEPT ![c] = @ \cup (confirmed'[c] \ confirmed[c])]
      BY <2>1 DEF Confirm, ManagerStep, IInv, Types
    <3> QED BY <3>1 DEF Ended, IInv, Types
  <2>2. CASE ~Confirm(c)
    BY <2>2 DEF IInv, Types, TakeSync, StartManager, Manager, WakeUp, CheckExit, Wait,
           ThreadFunction, FindBlockchain, blockVars
  <2> QED BY <2>1, <2>2
<1>4. Types'
  BY <1>1, <1>2, <1>3 DEF mainVars, IInv, Types
<1>5. TimerStopped'
  BY <1>1 DEF mainVars, timerVars, IInv, TimerStopped
<1>6. \A d \in Community : Ended(d) => Ended(d)'
  BY <1>1, <1>2 DEF IInv, Types, Ended
<1>7. ManagersStopped'
  BY <1>1, <1>3, <1>6 DEF mainVars, IInv, Types, ManagersStopped
<1>8. TasksHold'
  BY <1>1, <1>3 DEF IInv, TasksHold, Unwritten, InTasks
<1> QED BY <1>4, <1>5, <1>7, <1>8 DEF IInv

LEMMA TimerKeepsIInv == ASSUME IInv, Timer PROVE IInv'
<1>1. /\ UNCHANGED <<closing, destroyed, blockchains, mCommunities, managerVars, mExit,
                     confirmed, written>>
      /\ main' \in {main, "terminated"}
  BY DEF startVars, providerVars, Timer, Move, FirstEntry, CallFreed, CallFromTimer, ScheduleTask,
         TimerStep, mainVars
<1>2. /\ DOMAIN collecting' = Community
      /\ \A c \in Community :
           /\ collecting'[c] \subseteq collecting[c]
           /\ InTasks(c) \cup collecting[c] \subseteq InTasks(c)' \cup collecting'[c]
  <2>1. CASE UNCHANGED <<collecting, observed>>
    BY <2>1 DEF IInv, Types, InTasks
  <2>2. ASSUME NEW c \in calling, observed' = observed \cup {Task(c, collecting[c])}, ResetTask(c)
        PROVE  /\ DOMAIN collecting' = Community
               /\ \A d \in Community :
                    /\ collecting'[d] \subseteq collecting[d]
                    /\ InTasks(d) \cup collecting[d] \subseteq InTasks(d)' \cup collecting'[d]
    <3>1. collecting' = [collecting EXCEPT ![c] = {}] /\ DOMAIN collecting = Community
      BY <2>2 DEF ResetTask, IInv, Types
    <3>2. \A d \in Community : InTasks(d) \subseteq InTasks(d)'
      BY <2>2 DEF InTasks
    <3>3. collecting[c] \subseteq InTasks(c)'
      <4>1. PICK t : t = Task(c, collecting[c])
        OBVIOUS
      <4>2. t \in observed' /\ t.community = c /\ t.nrs = collecting[c]
        BY <2>2, <4>1 DEF Task
      <4> QED BY <4>2 DEF InTasks
    <3> QED BY <3>1, <3>2, <3>3
  <2>3. \/ UNCHANGED <<collecting, observed>>
        \/ \E c \in calling : /\ observed' = observed \cup {Task(c, collecting[c])}
                              /\ ResetTask(c)
    BY DEF Timer, Move, FirstEntry, CallFreed, CallFromTimer, ScheduleTask
  <2> QED BY <2>1, <2>2, <2>3
<1>3. Types' /\ ManagersStopped' /\ TasksHold'
  <2>1. Types' /\ TasksHold'
    BY <1>1, <1>2 DEF managerVars, IInv, Types, TasksHold, Unwritten
  <2>2. ManagersStopped'
    BY <1>1, <1>2 DEF managerVars, IInv, Types, ManagersStopped, Ended
  <2> QED BY <2>1, <2>2
<1>4. TimerStopped'
  BY <1>1 DEF IInv, TimerStopped, ClosingStarted, Timer, Move, FirstEntry, CallFreed, CallFromTimer,
         ScheduleTask
<1> QED BY <1>3, <1>4 DEF IInv

(* Lines are only added, and the process may end.  A task is forgotten     *)
(* when nothing of its community is unwritten.                             *)
LEMMA WorkerKeepsIInv == ASSUME IInv, Worker PROVE IInv'
<1>1. /\ UNCHANGED <<mainVars, blockchains, mCommunities, timerVars, managerVars, confirmed,
                     collecting>>
      /\ main' \in {main, "terminated"}
  BY DEF startVars, providerVars, Worker, TakeTask, AppendLines, WriteIndex, WorkerStep
<1>2. /\ DOMAIN written' = Community
      /\ \A c \in Community : written[c] \subseteq written'[c]
  BY DEF IInv, Types, Worker, TakeTask, AppendLines, WriteIndex
<1>3. TasksHold'
  <2>1. CASE UNCHANGED observed
    BY <1>1, <1>2, <2>1 DEF IInv, TasksHold, Unwritten, InTasks
  <2>2. ASSUME NEW t, HasCursors(t.community), observed' = observed \ {t}, UNCHANGED written
        PROVE  TasksHold'
    <3>1. \A c \in Community : c # t.community => InTasks(c)' = InTasks(c)
      BY <2>2 DEF InTasks
    <3>2. t.community \in Community => Unwritten(t.community)' = {}
      BY <1>1, <2>2 DEF HasCursors, Unwritten
    <3> QED BY <1>1, <2>2, <3>1, <3>2 DEF IInv, TasksHold, Unwritten
  <2> QED BY <2>1, <2>2 DEF Worker, TakeTask, AppendLines, WriteIndex
<1> QED BY <1>1, <1>2, <1>3 DEF mainVars, timerVars, managerVars, IInv, Types, TimerStopped,
           ManagersStopped, Ended, ClosingStarted

(* A block that runs the task it collects has written all of it.           *)
LEMMA RunTaskHolds ==
  ASSUME IInv, NEW c \in Community, RunTask(c), ResetTask(c), UNCHANGED <<confirmed, observed>>
  PROVE  /\ TasksHold' /\ DOMAIN written' = Community /\ DOMAIN collecting' = Community
         /\ collecting'[c] = {} /\ \A d \in Community : collecting'[d] \subseteq collecting[d]
<1>1. /\ written' = [written EXCEPT ![c] = @ \cup collecting[c]]
      /\ collecting' = [collecting EXCEPT ![c] = {}]
      /\ DOMAIN written = Community /\ DOMAIN collecting = Community
  BY DEF RunTask, ResetTask, IInv, Types
<1>2. \A d \in Community : Unwritten(d)' \subseteq InTasks(d)' \cup collecting'[d]
  BY <1>1 DEF IInv, TasksHold, Unwritten, InTasks
<1> QED BY <1>1, <1>2 DEF TasksHold

(* The timer that was told to exit is not in a call that could dangle.     *)
LEMMA ExpireKeepsIInv ==
  ASSUME IInv, NEW c \in Community, ExpireBlock(c)
  PROVE  IInv'
<1>1. /\ UNCHANGED <<main, mainVars, blockchains, mCommunities, managerVars, mExit, calling,
                     confirmed, observed>>
      /\ RunTask(c) /\ ResetTask(c)
      /\ timer' \in {timer, "dangling"} /\ (c \notin calling => timer' = timer)
  BY DEF ExpireBlock, providerVars, startVars, ioVars
<1>2. /\ TasksHold' /\ DOMAIN written' = Community /\ DOMAIN collecting' = Community
      /\ \A d \in Community : collecting'[d] \subseteq collecting[d]
  BY <1>1, RunTaskHolds
<1>3. TimerStopped'
  BY <1>1 DEF mainVars, IInv, TimerStopped
<1>4. Types' /\ ManagersStopped'
  BY <1>1, <1>2 DEF mainVars, managerVars, IInv, Types, ManagersStopped, Ended
<1> QED BY <1>2, <1>3, <1>4 DEF IInv

LEMMA ExitKeepsIInv == ASSUME IInv, Exit \/ ClearMemory PROVE IInv'
<1>0. ASSUME UNCHANGED blockVars PROVE TasksHold'
  BY <1>0 DEF IInv, TasksHold, Unwritten, InTasks, blockVars
<1> USE DEF IInv, Types, Goto, ClosingStarted, startVars, providerVars
<1>1. CASE StopTimer
  BY <1>0, <1>1 DEF StopTimer, SetTimerExit, TimerStopped, ManagersStopped, Ended,
              mainVars, managerVars, blockVars
<1>2. CASE StopScheduler \/ LockProvider \/ LockBlockchain \/ Observe \/ ClearMemory
  <2>1. UNCHANGED <<closing, destroyed, blockchains, mCommunities, timerVars, managerVars,
                    blockVars>>
    BY <1>2 DEF StopScheduler, LockProvider, LockBlockchain, Observe, ClearMemory, mainVars
  <2>2. /\ main' \in ClosingStarted => main \in ClosingStarted
        /\ main' \notin {"join", "clear", "removeTimer"}
    BY <1>2 DEF StopScheduler, LockProvider, LockBlockchain, Observe, ClearMemory
  <2> QED BY <1>0, <2>1, <2>2 DEF timerVars, managerVars, blockVars, TimerStopped,
             ManagersStopped, Ended
<1>7. CASE ExitNext
  <2>1. UNCHANGED <<destroyed, blockchains, mCommunities, timerVars, managerVars, blockVars>>
    BY <1>7 DEF ExitNext
  <2>2. /\ main \in ClosingStarted /\ main' \in {"lockBlockchain", "done"}
        /\ closing' \subseteq blockchains /\ \A c, d \in closing' : c = d
    BY <1>7 DEF ExitNext
  <2> QED BY <1>0, <2>1, <2>2 DEF timerVars, managerVars, blockVars, TimerStopped,
             ManagersStopped, Ended
<1>3. CASE StopManager
  BY <1>0, <1>3 DEF StopManager, TimerStopped, ManagersStopped, Ended, ManagerAt,
              mainVars, timerVars, blockVars
<1>4. CASE Join
  BY <1>0, <1>4 DEF Join, TimerStopped, ManagersStopped, Ended,
              mainVars, timerVars, managerVars, blockVars
<1>5. CASE ClearBlocks
  <2>1. PICK c \in closing : RunTask(c) /\ ResetTask(c)
    BY <1>5 DEF ClearBlocks
  <2>2. /\ UNCHANGED <<mainVars, blockchains, mCommunities, timerVars, managerVars, confirmed,
                       observed>>
        /\ main = "clear" /\ main' \in {"terminated", "removeTimer"}
    BY <1>5 DEF ClearBlocks
  <2>3. /\ TasksHold' /\ DOMAIN written' = Community /\ DOMAIN collecting' = Community
        /\ collecting'[c] = {} /\ \A d \in Community : collecting'[d] \subseteq collecting[d]
    BY <2>1, <2>2, RunTaskHolds
  <2>4. closing = {c}
    BY <2>1
  <2> QED BY <2>2, <2>3, <2>4 DEF mainVars, timerVars, managerVars, TimerStopped,
             ManagersStopped, Ended
<1>6. CASE RemoveTimer
  BY <1>0, <1>6 DEF RemoveTimer, TimerStopped, ManagersStopped, Ended,
              timerVars, managerVars, blockVars
<1> QED BY <1>1, <1>2, <1>3, <1>4, <1>5, <1>6, <1>7 DEF Exit

LEMMA NextIInv == IInv /\ [Next]_vars => IInv'
<1> SUFFICES ASSUME IInv, [Next]_vars PROVE IInv'
  OBVIOUS
<1>1. CASE UNCHANGED vars
  BY <1>1 DEF vars, mainVars, startVars, providerVars, timerVars, managerVars, blockVars, IInv, Types, TimerStopped,
              ManagersStopped, TasksHold, Ended, Unwritten, InTasks
<1> QED BY <1>1, StartKeepsIInv, ManagerKeepsIInv, TimerKeepsIInv, WorkerKeepsIInv,
           ExpireKeepsIInv, ExitKeepsIInv DEF Next

(***************************************************************************)
(* The invariant holds from main to the end of the process.                *)
(***************************************************************************)
THEOREM Inductive == Spec => []IInv
<1>1. Init => IInv
  BY InitIInv
<1>2. IInv /\ [Next]_vars => IInv'
  BY NextIInv
<1> QED BY <1>1, <1>2, PTL DEF Spec

(***************************************************************************)
(* What FileBased::exit leaves unwritten of a community it has ended is in *)
(* write tasks the observer knows, and no manager confirms anything for it *)
(* afterwards.                                                             *)
(***************************************************************************)
THEOREM LostIsInTasks == Spec => []OnlyTasksAreLost
<1>1. IInv => OnlyTasksAreLost
  BY DEF IInv, Types, ManagersStopped, TasksHold, OnlyTasksAreLost
<1> QED BY <1>1, Inductive, PTL

(***************************************************************************)
(* When FileBased::exit has destroyed a block, the timer calls none.       *)
(***************************************************************************)
THEOREM TimerCallsNoMore == Spec => []NoCallAfterExit
<1>1. IInv => NoCallAfterExit
  BY DEF IInv, TimerStopped, NoCallAfterExit
<1> QED BY <1>1, Inductive, PTL

-----------------------------------------------------------------------------
(***************************************************************************)
(* The types.  What the timer has scheduled and the IO worker writes must  *)
(* stay known to the observer, and must not be collected again: for that   *)
(* the transactions of a community are numbered, and of its write tasks    *)
(* each has lower numbers than the next, and the last of them lower ones   *)
(* than the block still collects.                                          *)
(***************************************************************************)
AnyTask == [community : Community, nrs : SUBSET Nat]

(* The process: a community is added only before the shutdown.             *)
Beginning == {"main", "init", "clients", "provider"}
Closing == {"observe", "stopManager", "join", "clear", "removeTimer", "terminated"}

PlacesOK ==
  /\ main \in MainAt
  /\ sync \in [Community -> SyncAt]
  /\ provider \in BOOLEAN /\ mExit \in BOOLEAN /\ mStopped \in BOOLEAN
  /\ timer \in TimerAt
  /\ stale \subseteq mCommunities /\ closing \subseteq mCommunities
  /\ main \in Beginning => stale = {} /\ closing = {}
  /\ blockchains \subseteq mCommunities /\ destroyed \cap blockchains = {}
  /\ main \in Beginning => blockchains = {}
  /\ main \in Beginning \cup {"add", "online", "run"} => destroyed = {}
  /\ mWorkMutex \subseteq closing
  /\ main \notin Closing => mWorkMutex = {}

ClientsOK ==
  /\ hiero.nodeCount \in 0..MaxClients /\ hiero.perCommunity \in 0..MaxClients
  /\ Len(hiero.clients) \in {0, hiero.nodeCount}
  /\ hiero = [nodeCount |-> hiero.nodeCount, perCommunity |-> hiero.perCommunity,
              clients |-> hiero.clients]

(* One kind of numbers is below the other.                                 *)
Below(S, T) == \A n \in S, k \in T : n < k

NumbersOK ==
  /\ DOMAIN confirmed = Community /\ DOMAIN collecting = Community
  /\ \A c \in Community :
       /\ \E n \in 0..MaxConfirmed[c] : confirmed[c] = 1..n
       /\ collecting[c] \subseteq confirmed[c] \ written[c]
       /\ written[c] \subseteq confirmed[c]

ObservedOK ==
  /\ observed \subseteq AnyTask
  /\ \A t \in observed : /\ t.nrs # {} /\ t.nrs \subseteq confirmed[t.community]
                         /\ Below(t.nrs, collecting[t.community])
  /\ \A t, o \in observed : t # o /\ t.community = o.community =>
       Below(t.nrs, o.nrs) \/ Below(o.nrs, t.nrs)

(* A task is in the queue once, or with the worker, or in the timer's hand.*)
OnlyHand(t) ==
  /\ t \in observed /\ t.community \in calling
  /\ \A o \in observed : o.community = t.community => o = t \/ Below(o.nrs, t.nrs)

InQueue(t) == \E i \in 1..Len(queue) : queue[i] = t

WorkerHas ==
  \/ worker = "idle" /\ task = <<>>
  \/ worker \in {"append", "index"} /\ \E t \in observed : task = <<t>> /\ ~InQueue(t)

QueueOK ==
  /\ calling \subseteq Community /\ \A c, d \in calling : c = d
  /\ queue \in Seq(AnyTask) /\ \A i \in 1..Len(queue) : queue[i] \in observed
  /\ \A i, j \in 1..Len(queue) : i # j => queue[i] # queue[j]
  /\ WorkerHas
  /\ timer = "schedule" => \E t : OnlyHand(t) /\ task # <<t>> /\ ~InQueue(t)

TypesInv == PlacesOK /\ ClientsOK /\ NumbersOK /\ ObservedOK /\ QueueOK

LEMMA InitTypes == Init => TypesInv
<1> SUFFICES ASSUME Init PROVE TypesInv
  OBVIOUS
<1> USE DEF Init, StartInit
<1>1. PlacesOK
  BY DEF PlacesOK, MainAt, StartAt, SyncAt, TimerAt
<1>2. ClientsOK
  BY StartupAssumption DEF ClientsOK
<1>3. NumbersOK
  <2>1. ASSUME NEW c \in Community PROVE 0 \in 0..MaxConfirmed[c] /\ confirmed[c] = 1..0
    BY ShutdownAssumption
  <2> QED BY <2>1 DEF NumbersOK
<1>4. ObservedOK /\ QueueOK
  BY DEF ObservedOK, QueueOK, WorkerHas
<1> QED BY <1>1, <1>2, <1>3, <1>4 DEF TypesInv

(* What the block, the timer and the IO worker have.                       *)
taskVars == <<confirmed, collecting, written, observed, calling, timer, queue, worker, task>>

LEMMA TasksKept ==
  ASSUME TypesInv, UNCHANGED taskVars
  PROVE  NumbersOK' /\ ObservedOK' /\ QueueOK'
<1>1. NumbersOK'
  BY DEF TypesInv, NumbersOK, taskVars
<1>2. ObservedOK'
  BY DEF TypesInv, ObservedOK, taskVars
<1>3. QueueOK'
  BY DEF TypesInv, QueueOK, WorkerHas, InQueue, OnlyHand, taskVars
<1> QED BY <1>1, <1>2, <1>3

LEMMA StartTypes ==
  ASSUME IInv, TypesInv, Start \/ StopHttpServer
  PROVE  TypesInv'
<1>1. UNCHANGED <<mainVars, timerVars, ioVars, managerVars, blockVars>>
  BY DEF Start, StopHttpServer
<1>2. NumbersOK' /\ ObservedOK' /\ QueueOK'
  BY <1>1, TasksKept DEF taskVars, timerVars, ioVars, blockVars
<1>3. ClientsOK'
  <2>1. CASE LoadConfig
    BY <2>1, StartupAssumption DEF LoadConfig, ClientsOK
  <2>2. CASE ConnectClients
    <3>1. hiero' = hiero \/ \E book \in Addressbooks : \E clients \in Connected(book) :
                              hiero' = [hiero EXCEPT !.clients = clients]
      BY <2>2 DEF ConnectClients
    <3>2. CASE hiero' = hiero
      BY <3>2 DEF TypesInv, ClientsOK
    <3>3. ASSUME NEW book \in Addressbooks, NEW clients \in Connected(book),
                 hiero' = [hiero EXCEPT !.clients = clients]
          PROVE  ClientsOK'
      <4>1. hiero.nodeCount \in Nat
        BY StartupAssumption DEF TypesInv, ClientsOK
      <4>2. Len(clients) = hiero.nodeCount
        <5> DEFINE S == ConnectedTo(book) \ Exceptions
        <5>1. clients \in [1..hiero.nodeCount -> S]
          BY DEF Connected
        <5> HIDE DEF S
        <5> QED BY <4>1, <5>1
      <4> QED BY <3>3, <4>2 DEF TypesInv, ClientsOK
    <3> QED BY <3>1, <3>2, <3>3
  <2>3. CASE ~LoadConfig /\ ~ConnectClients
    <3>1. hiero' = hiero
      BY <2>3 DEF Start, StopHttpServer, StartStep, Main, InitProvider, AddCommunity, AllAdded,
             InitOnline, StartHttpServer, startVars, providerVars
    <3> QED BY <3>1 DEF TypesInv, ClientsOK
  <2> QED BY <2>1, <2>2, <2>3
<1>4. PlacesOK'
  <2> USE DEF TypesInv, PlacesOK, Goto, MainAt, StartAt, Beginning, Closing, mainVars, timerVars,
              ioVars, startVars, providerVars
  <2>1. CASE Main \/ LoadConfig \/ ConnectClients
    BY <1>1, <2>1 DEF Main, LoadConfig, ConnectClients
  <2>2. CASE InitProvider
    BY <1>1, <2>2 DEF InitProvider
  <2>3. CASE AddCommunity \/ AllAdded
    BY <1>1, <2>3 DEF AddCommunity, AllAdded, NotAdded
  <2>4. CASE \E c \in Community : InitOnline(c)
    BY <1>1, <2>4 DEF InitOnline, SyncAt
  <2>5. CASE StartHttpServer \/ StopHttpServer
    BY <1>1, <2>5 DEF StartHttpServer, StopHttpServer
  <2> QED BY <2>1, <2>2, <2>3, <2>4, <2>5 DEF Start, StartStep
<1> QED BY <1>2, <1>3, <1>4 DEF TypesInv

(* A transaction that is confirmed has the next number.                    *)
LEMMA ConfirmTypes ==
  ASSUME TypesInv, NEW c \in Community, Confirm(c)
  PROVE  NumbersOK' /\ ObservedOK' /\ QueueOK'
<1>1. PICK n \in 0..MaxConfirmed[c] : confirmed[c] = 1..n
  BY DEF TypesInv, NumbersOK
<1>2. MaxConfirmed[c] \in Nat /\ n \in Nat
  BY ShutdownAssumption, <1>1
<1>3. Cardinality(confirmed[c]) = n
  BY <1>1, <1>2, FS_Interval
<1>4. /\ UNCHANGED <<written, observed, timerVars, ioVars>>
      /\ confirmed' = [confirmed EXCEPT ![c] = @ \cup ({n + 1} \cap 1..MaxConfirmed[c])]
      /\ collecting' = [collecting EXCEPT ![c] = @ \cup (confirmed'[c] \ confirmed[c])]
  BY <1>3 DEF Confirm, ManagerStep
<1>5. /\ DOMAIN collecting = Community /\ DOMAIN confirmed = Community
      /\ collecting[c] \subseteq confirmed[c] \ written[c] /\ written[c] \subseteq confirmed[c]
  BY DEF TypesInv, NumbersOK
<1>6. /\ \E k \in {n, n + 1} \cap 0..MaxConfirmed[c] : confirmed'[c] = 1..k
      /\ confirmed'[c] \subseteq confirmed[c] \cup {n + 1}
      /\ confirmed[c] \subseteq confirmed'[c]
      /\ collecting'[c] = collecting[c] \cup (confirmed'[c] \ confirmed[c])
  <2>1. CASE n + 1 \in 1..MaxConfirmed[c]
    BY <1>1, <1>2, <1>4, <1>5, <2>1
  <2>2. CASE n + 1 \notin 1..MaxConfirmed[c]
    BY <1>1, <1>2, <1>4, <1>5, <2>2
  <2> QED BY <2>1, <2>2
<1>7. \A d \in Community \ {c} : confirmed'[d] = confirmed[d] /\ collecting'[d] = collecting[d]
  BY <1>4, <1>5
<1>8. NumbersOK'
  <2>1. DOMAIN collecting' = Community
    BY <1>4, <1>5
  <2> QED BY <1>4, <1>5, <1>6, <1>7, <2>1 DEF TypesInv, NumbersOK
<1>9. ObservedOK'
  <2>1. ASSUME NEW t \in observed
        PROVE  /\ t.nrs # {} /\ t.nrs \subseteq confirmed'[t.community]
               /\ Below(t.nrs, collecting'[t.community])
    <3>1. /\ t.nrs # {} /\ t.nrs \subseteq confirmed[t.community]
          /\ Below(t.nrs, collecting[t.community]) /\ t.community \in Community
      BY DEF TypesInv, ObservedOK, AnyTask
    <3>2. CASE t.community = c
      <4>1. ASSUME NEW k \in t.nrs, NEW l \in collecting'[c] PROVE k < l
        <5>1. k \in 1..n
          BY <1>1, <3>1, <3>2
        <5>2. CASE l \in collecting[c]
          BY <3>1, <3>2, <5>2 DEF Below
        <5>3. CASE l = n + 1
          BY <1>2, <5>1, <5>3
        <5> QED BY <1>6, <5>2, <5>3
      <4> QED BY <1>6, <3>1, <3>2, <4>1 DEF Below
    <3> QED BY <1>7, <3>1, <3>2
  <2> QED BY <1>4, <2>1 DEF TypesInv, ObservedOK
<1>10. QueueOK'
  BY <1>4 DEF timerVars, ioVars, TypesInv, QueueOK, WorkerHas, InQueue, OnlyHand
<1> QED BY <1>8, <1>9, <1>10

LEMMA ManagerTypes ==
  ASSUME IInv, TypesInv, NEW c \in Community,
         TakeSync(c) \/ StartManager(c) \/ Manager(c) \/ WakeUp(c)
  PROVE  TypesInv'
<1>1. UNCHANGED <<main, mainVars, startVars, blockchains, provider, timerVars, ioVars, observed>>
  BY DEF startVars, providerVars, TakeSync, StartManager, SyncStep, Manager, WakeUp, CheckExit, Wait, ThreadFunction,
         FindBlockchain, Confirm, ManagerStep, blockVars
<1>2. sync' \in [Community -> SyncAt]
  BY DEF TypesInv, PlacesOK, SyncAt, providerVars, TakeSync, StartManager, SyncStep, Manager, WakeUp,
         CheckExit, Wait, ThreadFunction, FindBlockchain, Confirm, ManagerStep
<1>3. PlacesOK' /\ ClientsOK'
  BY <1>1, <1>2 DEF mainVars, startVars, timerVars, ioVars, TypesInv, PlacesOK, ClientsOK
<1>4. CASE Confirm(c)
  BY <1>3, <1>4, ConfirmTypes DEF TypesInv
<1>5. CASE ~Confirm(c)
  <2>1. UNCHANGED blockVars
    BY <1>5 DEF TakeSync, StartManager, Manager, WakeUp, CheckExit, Wait, ThreadFunction,
           FindBlockchain
  <2>2. UNCHANGED taskVars
    BY <1>1, <2>1 DEF taskVars, timerVars, ioVars, blockVars
  <2> QED BY <1>3, <2>2, TasksKept DEF TypesInv
<1> QED BY <1>4, <1>5

(* callFromTimer gives the observer what the block has collected: it is    *)
(* above all other tasks of the community, and is no task yet.             *)
LEMMA CallFromTimerTypes ==
  ASSUME IInv, TypesInv, CallFromTimer
  PROVE  NumbersOK' /\ ObservedOK' /\ QueueOK'
<1>1. UNCHANGED <<confirmed, written, queue, worker, task>>
  BY DEF CallFromTimer, TimerStep
<1>2. CASE UNCHANGED <<collecting, observed>> /\ timer' = "asleep" /\ calling' = {}
  <2>1. NumbersOK' /\ ObservedOK'
    BY <1>1, <1>2 DEF TypesInv, NumbersOK, ObservedOK
  <2>2. QueueOK'
    BY <1>1, <1>2 DEF TypesInv, QueueOK, WorkerHas, InQueue
  <2> QED BY <2>1, <2>2
<1>3. ASSUME NEW c \in calling, collecting[c] # {},
             observed' = observed \cup {Task(c, collecting[c])}, ResetTask(c),
             timer' = "schedule", calling' = calling
      PROVE  NumbersOK' /\ ObservedOK' /\ QueueOK'
  <2>0. PICK t : t = Task(c, collecting[c])
    OBVIOUS
  <2>1. c \in Community /\ DOMAIN collecting = Community /\ DOMAIN confirmed = Community
    BY DEF TypesInv, QueueOK, NumbersOK
  <2>2. collecting[c] \subseteq confirmed[c] /\ confirmed[c] \subseteq Nat
    BY <2>1 DEF TypesInv, NumbersOK
  <2>3. t \in AnyTask /\ t.community = c /\ t.nrs = collecting[c]
    BY <2>0, <2>1, <2>2 DEF Task, AnyTask
  <2>4. collecting'[c] = {} /\ \A d \in Community \ {c} : collecting'[d] = collecting[d]
    BY <1>3, <2>1 DEF ResetTask
  <2>5. DOMAIN collecting' = Community
    BY <1>3, <2>1 DEF ResetTask
  <2>6. observed' = observed \cup {t}
    BY <1>3, <2>0
  <2>7. \A o \in observed : o.community = c => Below(o.nrs, t.nrs) /\ o.nrs # {}
    BY <2>3 DEF TypesInv, ObservedOK
  <2>8. t \notin observed
    <3> SUFFICES ASSUME t \in observed PROVE FALSE
      OBVIOUS
    <3>1. PICK n \in t.nrs : n < n
      BY <1>3, <2>3, <2>7 DEF Below
    <3>2. n \in Nat
      BY <2>2, <2>3
    <3> QED BY <3>1, <3>2
  <2>9. NumbersOK'
    <3>1. \A d \in Community : collecting'[d] \subseteq confirmed[d] \ written[d]
      BY <2>4 DEF TypesInv, NumbersOK
    <3> QED BY <1>1, <2>5, <3>1 DEF TypesInv, NumbersOK
  <2>10. ObservedOK'
    <3>1. ASSUME NEW o \in observed'
          PROVE  /\ o.nrs # {} /\ o.nrs \subseteq confirmed'[o.community]
                 /\ Below(o.nrs, collecting'[o.community])
      <4>1. /\ o.nrs # {} /\ o.nrs \subseteq confirmed[o.community]
            /\ o.community \in Community
        BY <1>3, <2>1, <2>2, <2>3, <2>6 DEF TypesInv, ObservedOK, AnyTask
      <4>2. Below(o.nrs, collecting'[o.community])
        <5>1. CASE o.community = c
          BY <2>4, <5>1 DEF Below
        <5>2. CASE o.community # c
          BY <2>3, <2>4, <2>6, <4>1, <5>2 DEF TypesInv, ObservedOK
        <5> QED BY <5>1, <5>2
      <4> QED BY <1>1, <4>1, <4>2
    <3>2. \A o, u \in observed' : o # u /\ o.community = u.community =>
            Below(o.nrs, u.nrs) \/ Below(u.nrs, o.nrs)
      BY <2>3, <2>6, <2>7 DEF TypesInv, ObservedOK
    <3>3. observed' \subseteq AnyTask
      BY <2>3, <2>6 DEF TypesInv, ObservedOK
    <3> QED BY <3>1, <3>2, <3>3 DEF ObservedOK
  <2>11. QueueOK'
    <3>1. OnlyHand(t)'
      BY <1>3, <2>3, <2>6, <2>7 DEF OnlyHand
    <3>2. task # <<t>> /\ ~InQueue(t)
      <4>1. \A o \in observed : o # t
        BY <2>8
      <4>2. \A o \in observed : task = <<o>> => task # <<t>>
        BY <4>1
      <4>3. task = <<>> \/ \E o \in observed : task = <<o>>
        BY DEF TypesInv, QueueOK, WorkerHas
      <4>4. \A i \in 1..Len(queue) : queue[i] \in observed
        BY DEF TypesInv, QueueOK
      <4> QED BY <4>1, <4>2, <4>3, <4>4 DEF InQueue
    <3>3. observed \subseteq observed'
      BY <2>6
    <3> QED BY <1>1, <1>3, <3>1, <3>2, <3>3 DEF TypesInv, QueueOK, WorkerHas, InQueue
  <2> QED BY <2>9, <2>10, <2>11
<1> QED BY <1>2, <1>3 DEF CallFromTimer

(* The task in the timer's hand is the last one of the community.          *)
LEMMA HandIsLast ==
  ASSUME TypesInv, timer = "schedule"
  PROVE  OnlyHand(InHand) /\ task # <<InHand>> /\ ~InQueue(InHand)
<1>1. PICK t : OnlyHand(t) /\ task # <<t>> /\ ~InQueue(t)
  BY DEF TypesInv, QueueOK
<1> DEFINE Hand(u) == u.community \in calling /\ \A o \in observed :
                        o.community = u.community => \A n \in o.nrs, k \in u.nrs : o = u \/ n < k
<1>2. t \in observed /\ Hand(t)
  BY <1>1 DEF OnlyHand, Below
<1>3. InHand = CHOOSE u \in observed : Hand(u)
  BY DEF InHand
<1>4. InHand \in observed /\ Hand(InHand)
  <2> HIDE DEF Hand
  <2> QED BY <1>2, <1>3
<1>5. InHand = t
  <2> SUFFICES ASSUME InHand # t PROVE FALSE
    OBVIOUS
  <2>1. InHand.community = t.community
    BY <1>2, <1>4 DEF TypesInv, QueueOK
  <2>2. PICK n \in InHand.nrs, k \in t.nrs : TRUE
    BY <1>2, <1>4 DEF TypesInv, ObservedOK
  <2>3. n < k /\ k < n
    BY <1>2, <1>4, <2>1
  <2>4. n \in Nat /\ k \in Nat
    <3>1. InHand \in AnyTask /\ t \in AnyTask
      BY <1>2, <1>4 DEF TypesInv, ObservedOK
    <3> QED BY <2>2, <3>1 DEF AnyTask
  <2> QED BY <2>3, <2>4
<1> QED BY <1>1, <1>5

LEMMA ScheduleTaskTypes ==
  ASSUME TypesInv, ScheduleTask
  PROVE  NumbersOK' /\ ObservedOK' /\ QueueOK'
<1>1. UNCHANGED <<confirmed, collecting, written, observed, worker, task>>
  BY DEF ScheduleTask, TimerStep
<1>2. NumbersOK' /\ ObservedOK'
  BY <1>1 DEF TypesInv, NumbersOK, ObservedOK
<1>3. /\ timer = "schedule" /\ timer' = "asleep" /\ calling' = {}
      /\ queue' = queue \/ queue' = Append(queue, InHand)
  BY DEF ScheduleTask
<1>4. OnlyHand(InHand) /\ task # <<InHand>> /\ ~InQueue(InHand)
  BY <1>3, HandIsLast
<1>5. InHand \in observed /\ observed \subseteq AnyTask
  BY <1>4 DEF OnlyHand, TypesInv, ObservedOK
<1>6. /\ queue \in Seq(AnyTask) /\ \A i \in 1..Len(queue) : queue[i] \in observed
      /\ \A i, j \in 1..Len(queue) : i # j => queue[i] # queue[j]
      /\ WorkerHas
  BY DEF TypesInv, QueueOK
<1>7. CASE queue' = queue
  <2>1. WorkerHas'
    BY <1>1, <1>6, <1>7 DEF WorkerHas, InQueue
  <2> QED BY <1>1, <1>2, <1>3, <1>6, <1>7, <2>1 DEF QueueOK
<1>8. CASE queue' = Append(queue, InHand)
  <2>1. /\ queue' \in Seq(AnyTask) /\ Len(queue') = Len(queue) + 1 /\ Len(queue) \in Nat
        /\ \A i \in 1..Len(queue) : queue'[i] = queue[i]
        /\ queue'[Len(queue) + 1] = InHand
    BY <1>5, <1>6, <1>8
  <2>2. \A i \in 1..Len(queue') : i \in 1..Len(queue) \/ i = Len(queue) + 1
    BY <2>1
  <2>3. \A i \in 1..Len(queue') : queue'[i] \in observed
    BY <1>5, <1>6, <2>1, <2>2
  <2>4. \A i, j \in 1..Len(queue') : i # j => queue'[i] # queue'[j]
    BY <1>4, <1>6, <2>1, <2>2 DEF InQueue
  <2>5. ASSUME NEW t, task = <<t>>, ~InQueue(t) PROVE ~InQueue(t)'
    BY <1>4, <2>1, <2>2, <2>5 DEF InQueue
  <2>6. WorkerHas'
    BY <1>1, <1>6, <2>5 DEF WorkerHas
  <2> QED BY <1>1, <1>2, <1>3, <2>1, <2>3, <2>4, <2>6 DEF QueueOK
<1> QED BY <1>2, <1>3, <1>7, <1>8

LEMMA TimerTypes == ASSUME IInv, TypesInv, Timer PROVE TypesInv'
<1>1. /\ UNCHANGED <<mainVars, providerVars, managerVars, mStopped, mExit, confirmed, written>>
      /\ main' \in {main, "terminated"} /\ stale' \subseteq stale
  BY DEF Timer, Move, FirstEntry, CallFreed, CallFromTimer, ScheduleTask, TimerStep
<1>2. timer' \in TimerAt
  BY DEF TypesInv, PlacesOK, Timer, Move, FirstEntry, CallFreed, CallFromTimer, ScheduleTask, TimerAt
<1>3. PlacesOK' /\ ClientsOK'
  BY <1>1, <1>2 DEF mainVars, providerVars, startVars, TypesInv, PlacesOK, ClientsOK, MainAt,
     StartAt, Beginning, Closing
<1>4. CASE Move \/ FirstEntry \/ CallFreed
  <2>1. UNCHANGED <<confirmed, collecting, written, observed, queue, worker, task>>
    BY <1>4 DEF Move, FirstEntry, CallFreed, TimerStep
  <2>2. NumbersOK' /\ ObservedOK'
    BY <2>1 DEF TypesInv, NumbersOK, ObservedOK
  <2>3. /\ timer' # "schedule"
        /\ calling' \in {calling, {}} \/ \E c \in blockchains \cup stale : calling' = {c}
    BY <1>4 DEF Move, FirstEntry, CallFreed
  <2>4. calling' \subseteq Community /\ \A c, d \in calling' : c = d
    BY <2>3 DEF IInv, Types, TypesInv, PlacesOK, QueueOK
  <2> QED BY <1>3, <2>1, <2>2, <2>3, <2>4 DEF TypesInv, QueueOK, WorkerHas, InQueue
<1>5. CASE CallFromTimer
  BY <1>3, <1>5, CallFromTimerTypes DEF TypesInv
<1>6. CASE ScheduleTask
  BY <1>3, <1>6, ScheduleTaskTypes DEF TypesInv
<1> QED BY <1>4, <1>5, <1>6 DEF Timer

(* The worker's task is known, in nobody else's hands, and its numbers are *)
(* below what the block collects.                                          *)
LEMMA WorkerTypes == ASSUME IInv, TypesInv, Worker PROVE TypesInv'
<1>1. UNCHANGED <<mainVars, providerVars, timerVars, managerVars, mStopped, confirmed, collecting>>
  BY DEF Worker, TakeTask, AppendLines, WriteIndex, WorkerStep
<1>2. PlacesOK' /\ ClientsOK'
  <2>1. main' \in {main, "terminated"}
    BY DEF Worker, TakeTask, AppendLines, WriteIndex
  <2> QED BY <1>1, <2>1 DEF mainVars, providerVars, startVars, timerVars, TypesInv, PlacesOK,
             ClientsOK, MainAt, StartAt, Beginning, Closing
<1>3. /\ calling' = calling /\ timer' = timer
      /\ calling \subseteq Community /\ \A c, d \in calling : c = d
      /\ queue \in Seq(AnyTask) /\ \A i \in 1..Len(queue) : queue[i] \in observed
      /\ \A i, j \in 1..Len(queue) : i # j => queue[i] # queue[j]
      /\ timer = "schedule" => \E t : OnlyHand(t) /\ task # <<t>> /\ ~InQueue(t)
  BY <1>1 DEF timerVars, TypesInv, QueueOK
<1>4. CASE TakeTask
  <2>1. UNCHANGED <<observed, written>>
    BY <1>4 DEF TakeTask
  <2>2. NumbersOK' /\ ObservedOK'
    BY <1>1, <2>1 DEF TypesInv, NumbersOK, ObservedOK
  <2>3. queue # <<>> /\ task' = <<Head(queue)>> /\ queue' = Tail(queue) /\ worker' = "append"
    BY <1>4 DEF TakeTask
  <2>4. /\ queue' \in Seq(AnyTask) /\ Len(queue') = Len(queue) - 1 /\ Len(queue) \in Nat \ {0}
        /\ \A i \in 1..Len(queue') : queue'[i] = queue[i + 1]
        /\ task' = <<queue[1]>>
    BY <1>3, <2>3
  <2>5. \A i \in 1..Len(queue') : i + 1 \in 1..Len(queue)
    BY <2>4
  <2>6. 1 \in 1..Len(queue)
    BY <2>4
  <2>7. \A i \in 1..Len(queue') : queue'[i] \in observed /\ queue'[i] # queue[1]
    BY <1>3, <2>4, <2>5, <2>6
  <2>8. \A i, j \in 1..Len(queue') : i # j => queue'[i] # queue'[j]
    BY <1>3, <2>4, <2>5
  <2>9. WorkerHas'
    <3>1. queue[1] \in observed
      BY <1>3, <2>6
    <3>2. PICK t \in observed : t = queue[1]
      BY <3>1
    <3>3. task' = <<t>> /\ ~InQueue(t)'
      BY <2>4, <2>7, <3>2 DEF InQueue
    <3> QED BY <2>1, <2>3, <3>3 DEF WorkerHas
  <2>10. ASSUME NEW t, ~InQueue(t), timer = "schedule" PROVE task' # <<t>> /\ ~InQueue(t)'
    BY <2>4, <2>5, <2>6, <2>10 DEF InQueue
  <2>11. timer' = "schedule" => \E t : OnlyHand(t)' /\ task' # <<t>> /\ ~InQueue(t)'
    BY <1>3, <2>1, <2>10 DEF OnlyHand
  <2>12. QueueOK'
    BY <1>3, <2>1, <2>4, <2>7, <2>8, <2>9, <2>11 DEF QueueOK
  <2> QED BY <1>2, <2>2, <2>12 DEF TypesInv
<1>5. CASE AppendLines
  <2>1. UNCHANGED <<queue, task, observed>> /\ worker = "append" /\ worker' = "index"
    BY <1>5 DEF AppendLines
  <2>2. PICK t \in observed : task = <<t>> /\ ~InQueue(t)
    BY <2>1 DEF TypesInv, QueueOK, WorkerHas
  <2>3. written' = [written EXCEPT ![t.community] = @ \cup t.nrs]
    BY <1>5, <2>2 DEF AppendLines
  <2>4. /\ t.community \in Community /\ t.nrs \subseteq confirmed[t.community]
        /\ Below(t.nrs, collecting[t.community]) /\ t.nrs \in SUBSET Nat
    BY DEF TypesInv, ObservedOK, AnyTask
  <2>5. NumbersOK'
    <3>1. DOMAIN written = Community
      BY DEF IInv, Types
    <3>2. \A n \in t.nrs : n \notin collecting[t.community]
      <4> SUFFICES ASSUME NEW n \in t.nrs, n \in collecting[t.community] PROVE FALSE
        OBVIOUS
      <4>1. n < n /\ n \in Nat
        BY <2>4 DEF Below
      <4> QED BY <4>1
    <3>3. \A c \in Community : /\ collecting[c] \subseteq confirmed[c] \ written'[c]
                               /\ written'[c] \subseteq confirmed[c]
      BY <2>3, <2>4, <3>1, <3>2 DEF TypesInv, NumbersOK
    <3> QED BY <1>1, <3>3 DEF TypesInv, NumbersOK
  <2>6. ObservedOK' /\ QueueOK'
    BY <1>1, <2>1 DEF timerVars, TypesInv, ObservedOK, QueueOK, WorkerHas, InQueue, OnlyHand
  <2> QED BY <1>2, <2>5, <2>6 DEF TypesInv
<1>6. CASE WriteIndex
  <2>1. UNCHANGED <<queue, written>> /\ worker = "index" /\ worker' = "idle" /\ task' = <<>>
    BY <1>6 DEF WriteIndex
  <2>2. PICK t \in observed : task = <<t>> /\ ~InQueue(t)
    BY <2>1 DEF TypesInv, QueueOK, WorkerHas
  <2>3. observed' \in {observed, observed \ {t}}
    BY <1>6, <2>2 DEF WriteIndex
  <2>4. NumbersOK' /\ ObservedOK'
    BY <1>1, <2>1, <2>3 DEF TypesInv, NumbersOK, ObservedOK
  <2>5. \A i \in 1..Len(queue) : queue[i] \in observed'
    BY <1>3, <2>2, <2>3 DEF InQueue
  <2>6. ASSUME NEW u, OnlyHand(u), task # <<u>> PROVE OnlyHand(u)'
    BY <1>3, <2>2, <2>3, <2>6 DEF OnlyHand
  <2>7. timer' = "schedule" => \E u : OnlyHand(u)' /\ task' # <<u>> /\ ~InQueue(u)'
    BY <1>3, <2>1, <2>6 DEF InQueue
  <2>8. QueueOK'
    BY <1>3, <2>1, <2>5, <2>7 DEF QueueOK, WorkerHas
  <2> QED BY <1>2, <2>4, <2>8 DEF TypesInv
<1> QED BY <1>4, <1>5, <1>6 DEF Worker

(* A block that runs the task it collects.                                 *)
LEMMA RunTaskTypes ==
  ASSUME IInv, TypesInv, NEW c \in Community, RunTask(c), ResetTask(c),
         UNCHANGED <<confirmed, observed>>
  PROVE  NumbersOK' /\ ObservedOK'
<1>1. DOMAIN written = Community /\ DOMAIN collecting = Community
  BY DEF IInv, Types
<1>2. /\ written' = [written EXCEPT ![c] = @ \cup collecting[c]]
      /\ collecting' = [collecting EXCEPT ![c] = {}]
  BY DEF RunTask, ResetTask
<1>3. NumbersOK'
  <2>1. \A d \in Community : /\ collecting'[d] \subseteq confirmed[d] \ written'[d]
                             /\ written'[d] \subseteq confirmed[d]
    BY <1>1, <1>2 DEF TypesInv, NumbersOK
  <2>2. DOMAIN collecting' = Community
    BY <1>1, <1>2
  <2> QED BY <2>1, <2>2 DEF TypesInv, NumbersOK
<1>4. ObservedOK'
  <2>1. ASSUME NEW t \in observed PROVE Below(t.nrs, collecting'[t.community])
    <3>1. t.community \in Community /\ Below(t.nrs, collecting[t.community])
      BY DEF TypesInv, ObservedOK, AnyTask
    <3>2. collecting'[t.community] \in {collecting[t.community], {}}
      BY <1>1, <1>2, <3>1
    <3> QED BY <3>1, <3>2 DEF Below
  <2> QED BY <2>1 DEF TypesInv, ObservedOK
<1> QED BY <1>3, <1>4

(* A block whose task is in the timer's hand does not expire.              *)
LEMMA ExpireTypes ==
  ASSUME IInv, TypesInv, NEW c \in Community, ExpireBlock(c)
  PROVE  TypesInv'
<1>1. /\ UNCHANGED <<main, mainVars, providerVars, ioVars, mExit, calling, confirmed, observed>>
      /\ RunTask(c) /\ ResetTask(c)
      /\ c \in blockchains /\ stale' = stale \cup {c}
      /\ timer' \in {timer, "dangling"}
  BY DEF ExpireBlock
<1>2. NumbersOK' /\ ObservedOK'
  BY <1>1, RunTaskTypes
<1>3. PlacesOK' /\ ClientsOK'
  BY <1>1 DEF mainVars, providerVars, startVars, ioVars, TypesInv, PlacesOK, ClientsOK, TimerAt
<1>4. QueueOK'
  BY <1>1 DEF ioVars, TypesInv, QueueOK, WorkerHas, InQueue, OnlyHand
<1> QED BY <1>2, <1>3, <1>4 DEF TypesInv

LEMMA ExitTypes == ASSUME IInv, TypesInv, Exit \/ ClearMemory PROVE TypesInv'
<1>1. UNCHANGED <<mCommunities, hiero, sync, calling, timer, worker, task, confirmed, observed>>
  BY DEF Exit, ClearMemory, StopTimer, StopScheduler, LockProvider, ExitNext, LockBlockchain,
         Observe, StopManager, Join, ClearBlocks, RemoveTimer, mainVars, providerVars, startVars,
         timerVars, ioVars, blockVars
<1>2. ClientsOK'
  BY <1>1 DEF TypesInv, ClientsOK
<1>3. PlacesOK'
  <2> USE DEF TypesInv, PlacesOK, Goto, MainAt, StartAt, Beginning, Closing, mainVars, timerVars,
              ioVars, startVars, providerVars
  <2>1. CASE StopTimer
    BY <1>1, <2>1 DEF StopTimer, SetTimerExit
  <2>2. CASE StopScheduler \/ LockProvider \/ Observe \/ Join \/ StopManager \/ ClearBlocks \/ ClearMemory
    BY <1>1, <2>2 DEF StopScheduler, LockProvider, Observe, Join, StopManager, ClearBlocks, ClearMemory
  <2>3. CASE ExitNext
    <3>1. provider' \in BOOLEAN
      BY <2>3 DEF ExitNext
    <3>2. /\ UNCHANGED <<mWorkMutex, destroyed, blockchains, mExit, mStopped, stale>>
          /\ closing' \subseteq blockchains
      BY <2>3 DEF ExitNext
    <3>3. main = "next" /\ main' \in {"lockBlockchain", "done"}
      BY <2>3 DEF ExitNext
    <3> QED BY <1>1, <3>1, <3>2, <3>3
  <2>4. CASE LockBlockchain
    BY <1>1, <2>4 DEF LockBlockchain
  <2>5. CASE RemoveTimer
    BY <1>1, <2>5 DEF RemoveTimer
  <2> QED BY <2>1, <2>2, <2>3, <2>4, <2>5 DEF Exit
<1>4. CASE StopScheduler
  <2>1. queue' = <<>> /\ UNCHANGED <<collecting, written>>
    BY <1>4 DEF StopScheduler, blockVars
  <2>2. NumbersOK' /\ ObservedOK'
    BY <1>1, <2>1 DEF TypesInv, NumbersOK, ObservedOK
  <2>3. QueueOK'
    BY <1>1, <2>1 DEF TypesInv, QueueOK, WorkerHas, InQueue, OnlyHand
  <2> QED BY <1>2, <1>3, <2>2, <2>3 DEF TypesInv
<1>5. CASE ClearBlocks
  <2>1. PICK c \in closing : RunTask(c) /\ ResetTask(c)
    BY <1>5 DEF ClearBlocks
  <2>2. c \in Community /\ queue' = queue
    BY <1>5 DEF ClearBlocks, ioVars, IInv, Types
  <2>3. NumbersOK' /\ ObservedOK'
    BY <1>1, <2>1, <2>2, RunTaskTypes
  <2>6. QueueOK'
    BY <1>1, <2>2 DEF TypesInv, QueueOK, WorkerHas, InQueue, OnlyHand
  <2> QED BY <1>2, <1>3, <2>3, <2>6 DEF TypesInv
<1>6. CASE ~StopScheduler /\ ~ClearBlocks
  <2>1. UNCHANGED taskVars
    BY <1>1, <1>6 DEF Exit, ClearMemory, StopTimer, LockProvider, ExitNext, LockBlockchain,
       Observe, StopManager, Join, RemoveTimer, timerVars, ioVars, blockVars, taskVars
  <2> QED BY <1>2, <1>3, <2>1, TasksKept DEF TypesInv
<1> QED BY <1>4, <1>5, <1>6

LEMMA NextTypes == IInv /\ TypesInv /\ [Next]_vars => TypesInv'
<1> SUFFICES ASSUME IInv, TypesInv, [Next]_vars PROVE TypesInv'
  OBVIOUS
<1>1. CASE UNCHANGED vars
  <2>1. UNCHANGED taskVars
    BY <1>1 DEF vars, timerVars, ioVars, blockVars, taskVars
  <2>2. PlacesOK' /\ ClientsOK'
    BY <1>1 DEF vars, mainVars, startVars, providerVars, timerVars, ioVars, TypesInv, PlacesOK,
       ClientsOK
  <2> QED BY <2>1, <2>2, TasksKept DEF TypesInv
<1> QED BY <1>1, StartTypes, ManagerTypes, TimerTypes, WorkerTypes, ExpireTypes,
           ExitTypes DEF Next

(***************************************************************************)
(* Every variable keeps its type from main to the end of the process: the  *)
(* scheduler and the IO worker have only tasks the observer knows, and     *)
(* what the block collects is neither written nor in such a task.          *)
(***************************************************************************)
THEOREM TypeCorrect == Spec => []TypeOK
<1>1. Init => IInv /\ TypesInv
  BY InitIInv, InitTypes
<1>2. (IInv /\ TypesInv) /\ [Next]_vars => (IInv /\ TypesInv)'
  BY NextIInv, NextTypes
<1>3. IInv /\ TypesInv => TypeOK
  <2> SUFFICES ASSUME IInv, TypesInv PROVE TypeOK
    OBVIOUS
  <2>1. Cardinality(closing) <= 1
    <3>1. closing = {} \/ \E c \in Community : closing = {c}
      BY DEF IInv, Types
    <3> QED BY <3>1, FS_EmptySet, FS_Singleton
  <2>2. \A i \in 1..Len(task) : task[i] \in observed
    BY DEF TypesInv, QueueOK, WorkerHas
  <2>3. ASSUME NEW c \in Community
        PROVE  /\ confirmed[c] \subseteq 1..MaxConfirmed[c]
               /\ collecting[c] \subseteq confirmed[c] \ written[c] /\ written[c] \subseteq confirmed[c]
    <3>1. PICK n \in 0..MaxConfirmed[c] : confirmed[c] = 1..n
      BY DEF TypesInv, NumbersOK
    <3>2. MaxConfirmed[c] \in Nat
      BY ShutdownAssumption
    <3> QED BY <3>1, <3>2 DEF TypesInv, NumbersOK
  <2>4. \A t \in observed : t.community \in Community
    BY DEF TypesInv, ObservedOK, AnyTask
  <2>5. worker \in {"idle", "append", "index"}
    BY DEF TypesInv, QueueOK, WorkerHas
  <2> QED BY <2>1, <2>2, <2>3, <2>4, <2>5 DEF TypeOK, IInv, Types, TypesInv, PlacesOK, ClientsOK,
             QueueOK
<1> QED BY <1>1, <1>2, <1>3, PTL DEF Spec
=============================================================================
