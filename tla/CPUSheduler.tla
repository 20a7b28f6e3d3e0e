---------------------------- MODULE CPUSheduler ----------------------------
(***************************************************************************)
(* task::CPUSheduler, its worker threads (task::CPUShedulerThread, a       *)
(* task::Thread) and the threads that schedule tasks (task::CPUTask).      *)
(*                                                                         *)
(* A task is scheduled by one caller and is ready at once, or when its     *)
(* message arrives (CPUTaskGRPCReactor).  The worker reads and writes      *)
(* mWaitingTask without the mutex setNewTask writes it under; here each    *)
(* access is one step, and a torn pointer is not modelled.                 *)
(***************************************************************************)
EXTENDS Naturals, Sequences, FiniteSets, SequencesExt

CONSTANTS
  Worker,   \* the worker threads
  Task,     \* the tasks scheduled
  Late,     \* those that are ready only when their message arrives
  HasTimer, \* checkPendingTasks is called from the timer
  None      \* no task

ASSUME ShedulerAssumption ==
  /\ IsFiniteSet(Worker)
  /\ Late \subseteq Task
  /\ HasTimer \in BOOLEAN
  /\ None \notin Task \cup Worker

VARIABLES
  mFreeWorkerThreads,  \* queue of workers without a task
  mPendingTasks,       \* list of tasks no worker has taken
  mStopped,            \* stop() was called
  mWaitingTask,        \* mWaitingTask of each worker
  pc,                  \* where each worker is
  exitCalled,          \* mExitCalled of each worker
  caller,              \* where the call sheduleTask(t) is
  worker,              \* the worker it took from the queue
  timerTask,           \* the task checkPendingTasks schedules again
  arrived,             \* the tasks that are ready
  ran                  \* how often run() of a task was called

queueVars == <<mFreeWorkerThreads, mPendingTasks, mStopped>>
workerVars == <<mWaitingTask, pc, exitCalled>>
callVars == <<caller, worker, timerTask>>
vars == <<queueVars, workerVars, callVars, arrived, ran>>

Idle == {"top", "enter", "waiting", "done"}
Working == {"test", "run", "next", "free", "assign"}
Call == {"new", "again", "called", "refused", "handover", "returned"}

Goto(w, p) == pc' = [pc EXCEPT ![w] = p]
CallAt(t, p) == caller' = [caller EXCEPT ![t] = p]

(* The call is over; it may have been the timer's.                         *)
Return(t) ==
  /\ CallAt(t, "returned")
  /\ worker' = [worker EXCEPT ![t] = None]
  /\ timerTask' = IF timerTask = t THEN None ELSE timerTask

Ready(t) == t \in arrived
Pending == Range(mPendingTasks)

Init ==
  /\ mFreeWorkerThreads = SetToSeq(Worker)
  /\ mPendingTasks = <<>>
  /\ mStopped = FALSE
  /\ mWaitingTask = [w \in Worker |-> None]
  /\ pc = [w \in Worker |-> "top"]
  /\ exitCalled = [w \in Worker |-> FALSE]
  /\ caller = [t \in Task |-> "new"]
  /\ worker = [t \in Task |-> None]
  /\ timerTask = None
  /\ arrived = Task \ Late
  /\ ran = [t \in Task |-> 0]

-----------------------------------------------------------------------------
(* sheduleTask, and the message a task waits for.                          *)

Arrive(t) ==
  /\ t \notin arrived
  /\ arrived' = arrived \cup {t}
  /\ UNCHANGED <<queueVars, workerVars, callVars, ran>>

(* A stopped scheduler drops the task.                                     *)
ScheduleTask(t) ==
  /\ caller[t] \in {"new", "again"}
  /\ IF mStopped THEN Return(t)
     ELSE CallAt(t, "called") /\ UNCHANGED <<worker, timerTask>>
  /\ UNCHANGED <<queueVars, workerVars, arrived, ran>>

(* pop.  Mutant: the worker stays in the queue.                            *)
FrontStays == UNCHANGED mFreeWorkerThreads

PopFront == mFreeWorkerThreads' = Tail(mFreeWorkerThreads)

FindWorker(t) ==
  /\ caller[t] = "called"
  /\ IF Ready(t) /\ mFreeWorkerThreads # <<>>
     THEN /\ worker' = [worker EXCEPT ![t] = Head(mFreeWorkerThreads)]
          /\ PopFront
          /\ CallAt(t, "handover")
     ELSE /\ CallAt(t, "refused")
          /\ UNCHANGED <<mFreeWorkerThreads, worker>>
  /\ UNCHANGED <<mPendingTasks, mStopped, workerVars, timerTask, arrived, ran>>

AddPending(t) ==
  /\ caller[t] = "refused"
  /\ mPendingTasks' = Append(mPendingTasks, t)
  /\ Return(t)
  /\ UNCHANGED <<mFreeWorkerThreads, mStopped, workerVars, arrived, ran>>

(* notify_one: lost unless the worker waits.                               *)
CondSignal(w) == pc' = [pc EXCEPT ![w] = IF @ = "waiting" THEN "woken" ELSE @]

(* A wakeup between the two statements is a spurious one.                  *)
SetNewTask(t) ==
  /\ caller[t] = "handover"
  /\ mWaitingTask' = [mWaitingTask EXCEPT ![worker[t]] = t]
  /\ CondSignal(worker[t])
  /\ Return(t)
  /\ UNCHANGED <<queueVars, exitCalled, arrived, ran>>

-----------------------------------------------------------------------------
(* getNextUndoneTask, for a worker that is not in the queue: until it is,  *)
(* nobody else has its mWaitingTask.  Mutants: the list is looked at       *)
(* without isReady(), the task found stays in the list.                    *)
AnyReady(t) == TRUE

IsReady(t) == Ready(t)

FirstReady == SelectInSeq(mPendingTasks, IsReady)

NextUndone ==
  IF \E t \in Pending : IsReady(t) THEN mPendingTasks[FirstReady] ELSE None

LeaveInList == UNCHANGED mPendingTasks

TakeFirstReady == mPendingTasks' = RemoveAt(mPendingTasks, FirstReady)

TakeUndone(w) ==
  /\ pc[w] = "next"
  /\ IF NextUndone = None
     THEN Goto(w, "free") /\ UNCHANGED <<mPendingTasks, mWaitingTask>>
     ELSE /\ Goto(w, "test")
          /\ TakeFirstReady
          /\ mWaitingTask' = [mWaitingTask EXCEPT ![w] = NextUndone]
  /\ UNCHANGED <<mFreeWorkerThreads, mStopped, exitCalled, callVars, arrived, ran>>

PushFree(w) ==
  /\ pc[w] = "free"
  /\ mFreeWorkerThreads' = Append(mFreeWorkerThreads, w)
  /\ Goto(w, "assign")
  /\ UNCHANGED <<mPendingTasks, mStopped, mWaitingTask, exitCalled,
                 callVars, arrived, ran>>

(* checkPendingTasks schedules one ready task again.  The timer's thread   *)
(* calls it again when that call has returned.                             *)
(* Mutant: as for the scheduler that is not registered at the timer.       *)
NoTimer == FALSE

TimerCalls == HasTimer /\ ~mStopped /\ timerTask = None

CheckPendingTasks ==
  /\ TimerCalls
  /\ NextUndone # None
  /\ timerTask' = NextUndone
  /\ TakeFirstReady
  /\ CallAt(NextUndone, "again")
  /\ UNCHANGED <<mFreeWorkerThreads, mStopped, workerVars, worker, arrived, ran>>

-----------------------------------------------------------------------------
(* The worker: task::Thread around CPUShedulerThread::ThreadFunction.      *)

WorkerStep == UNCHANGED <<queueVars, callVars, arrived>>

CheckExit(w) ==
  /\ WorkerStep
  /\ pc[w] = "top"
  /\ Goto(w, IF exitCalled[w] THEN "done" ELSE "enter")
  /\ UNCHANGED <<mWaitingTask, exitCalled, ran>>

Wait(w) ==
  /\ WorkerStep
  /\ pc[w] = "enter"
  /\ Goto(w, "waiting")
  /\ UNCHANGED <<mWaitingTask, exitCalled, ran>>

SpuriousWakeup(w) ==
  /\ WorkerStep
  /\ pc[w] = "waiting"
  /\ Goto(w, "woken")
  /\ UNCHANGED <<mWaitingTask, exitCalled, ran>>

Resume(w) ==
  /\ WorkerStep
  /\ pc[w] = "woken"
  /\ Goto(w, IF exitCalled[w] THEN "done" ELSE "test")
  /\ UNCHANGED <<mWaitingTask, exitCalled, ran>>

(* while (mWaitingTask)                                                    *)
TestWaitingTask(w) ==
  /\ WorkerStep
  /\ pc[w] = "test"
  /\ Goto(w, IF mWaitingTask[w] = None THEN "top" ELSE "run")
  /\ UNCHANGED <<mWaitingTask, exitCalled, ran>>

(* run(): whether it succeeds, fails or throws, the worker goes on.        *)
Run(w) ==
  /\ WorkerStep
  /\ pc[w] = "run"
  /\ ran' = [ran EXCEPT ![mWaitingTask[w]] = @ + 1]
  /\ Goto(w, "next")
  /\ UNCHANGED <<mWaitingTask, exitCalled>>

(* mWaitingTask = nullptr: after the worker has put itself into the queue. *)
Assign(w) ==
  /\ WorkerStep
  /\ pc[w] = "assign"
  /\ mWaitingTask' = [mWaitingTask EXCEPT ![w] = None]
  /\ Goto(w, "test")
  /\ UNCHANGED <<exitCalled, ran>>

-----------------------------------------------------------------------------
(* Shutdown: stop(), then the destructor's exit() of one thread after the  *)
(* other, which needs the mutex the worker holds while it works, and joins *)
(* the thread.                                                             *)

SetStopped ==
  /\ ~mStopped
  /\ mStopped' = TRUE
  /\ UNCHANGED <<mFreeWorkerThreads, mPendingTasks, workerVars, callVars, arrived, ran>>

ClearPending ==
  /\ mStopped
  /\ mPendingTasks # <<>>
  /\ \A w \in Worker : ~exitCalled[w]
  /\ mPendingTasks' = <<>>
  /\ UNCHANGED <<mFreeWorkerThreads, mStopped, workerVars, callVars, arrived, ran>>

Exit(w) ==
  /\ mStopped
  /\ pc[w] \in Idle
  /\ ~exitCalled[w]
  /\ \A v \in Worker : exitCalled[v] => pc[v] = "done"
  /\ exitCalled' = [exitCalled EXCEPT ![w] = TRUE]
  /\ CondSignal(w)
  /\ UNCHANGED <<queueVars, mWaitingTask, callVars, arrived, ran>>

-----------------------------------------------------------------------------
(* A task is scheduled by nobody, or later; a call once begun goes on.     *)
SheduleTask(t) ==
  \/ caller[t] = "again" /\ ScheduleTask(t)
  \/ FindWorker(t) \/ AddPending(t) \/ SetNewTask(t)

Thread(w) ==
  \/ CheckExit(w) \/ Wait(w) \/ Resume(w) \/ TestWaitingTask(w) \/ Run(w)
  \/ TakeUndone(w) \/ PushFree(w) \/ Assign(w)

Next ==
  \/ \E t \in Task : ScheduleTask(t) \/ Arrive(t) \/ SheduleTask(t)
  \/ \E w \in Worker : Thread(w) \/ SpuriousWakeup(w) \/ Exit(w)
  \/ CheckPendingTasks \/ SetStopped \/ ClearPending

Spec == Init /\ [][Next]_vars

(* Callers, workers and the timer run; run() returns.  Nobody owes a task, *)
(* a message, a spurious wakeup or the shutdown.                           *)
Fairness ==
  /\ \A t \in Task : WF_vars(SheduleTask(t))
  /\ \A w \in Worker : WF_vars(Thread(w))
  /\ WF_vars(CheckPendingTasks)

FairSpec == Spec /\ Fairness

-----------------------------------------------------------------------------
TypeOK ==
  /\ mFreeWorkerThreads \in Seq(Worker) /\ IsInjective(mFreeWorkerThreads)
  /\ mPendingTasks \in Seq(Task) /\ IsInjective(mPendingTasks)
  /\ mStopped \in BOOLEAN
  /\ mWaitingTask \in [Worker -> Task \cup {None}]
  /\ pc \in [Worker -> Idle \cup Working \cup {"woken"}]
  /\ exitCalled \in [Worker -> BOOLEAN]
  /\ caller \in [Task -> Call]
  /\ worker \in [Task -> Worker \cup {None}]
  /\ timerTask \in Task \cup {None}
  /\ arrived \in SUBSET Task
  /\ ran \in [Task -> Nat]

(***************************************************************************)
(* A task is run at most once, whoever finds it first: the caller that     *)
(* hands it over, a worker that looks for more, or the timer.              *)
(***************************************************************************)
RunOnce == \A t \in Task : ran[t] <= 1

(***************************************************************************)
(* A task that waits for a message is not run before the message is there. *)
(***************************************************************************)
ReadyBeforeRun == \A t \in Task : ran[t] > 0 => Ready(t)

HandedOver(t) == caller[t] = "handover"

(***************************************************************************)
(* A worker is handed one task at a time: while one is handed over, the    *)
(* worker is neither in the queue nor handed another.                      *)
(***************************************************************************)
ExclusiveHandover ==
  \A t \in Task : HandedOver(t) =>
    /\ worker[t] \notin Range(mFreeWorkerThreads)
    /\ \A u \in Task \ {t} : HandedOver(u) => worker[u] # worker[t]

(***************************************************************************)
(* With the timer, a ready task does not stay in the list while a worker   *)
(* is free, although the worker may have looked at the list just before    *)
(* the task was added.                                                     *)
(***************************************************************************)
PendingServed ==
  \A t \in Task :
    (t \in Pending /\ Ready(t) /\ mFreeWorkerThreads # <<>>) ~>
      (t \notin Pending \/ mFreeWorkerThreads = <<>> \/ mStopped)

(***************************************************************************)
(* "putting thread in wait queue, to inform him if a new task is ready for *)
(* him": a task a worker is given is run, unless the scheduler is stopped. *)
(***************************************************************************)
HandedRun == \A t \in Task : HandedOver(t) ~> (ran[t] > 0 \/ mStopped)
=============================================================================
