------------------------- MODULE CPUSheduler_proofs -------------------------
(***************************************************************************)
(* Proofs about CPUSheduler, for any number of workers and tasks, with and *)
(* without the timer.                                                      *)
(***************************************************************************)
EXTENDS CPUSheduler, NaturalSets, SequenceTheorems

-----------------------------------------------------------------------------
(* The sequences of the scheduler: the queue and the list.                 *)

(* Taking the first element of a queue without repetition.                 *)
LEMMA TailOfQueue ==
  ASSUME NEW S, NEW s \in Seq(S), IsInjective(s), s # <<>>
  PROVE  /\ Head(s) \in S /\ Head(s) \in Range(s)
         /\ Tail(s) \in Seq(S) /\ IsInjective(Tail(s))
         /\ Range(Tail(s)) = Range(s) \ {Head(s)}
<1>1. Len(s) \in Nat /\ Len(s) > 0 /\ DOMAIN s = 1..Len(s)
  OBVIOUS
<1>2. Tail(s) \in Seq(S) /\ Len(Tail(s)) = Len(s) - 1 /\ DOMAIN Tail(s) = 1..(Len(s) - 1)
  BY <1>1
<1>3. \A i \in 1..(Len(s) - 1) : Tail(s)[i] = s[i + 1]
  BY <1>1
<1>4. Head(s) = s[1] /\ 1 \in DOMAIN s
  BY <1>1
<1>5. IsInjective(Tail(s))
  BY <1>1, <1>2, <1>3 DEF IsInjective
<1>6. ASSUME NEW x \in Range(s), x # Head(s) PROVE x \in Range(Tail(s))
  <2>1. PICK i \in DOMAIN s : s[i] = x
    BY DEF Range
  <2>2. i # 1 /\ i - 1 \in 1..(Len(s) - 1) /\ Tail(s)[i - 1] = x
    BY <2>1, <1>1, <1>3, <1>4, <1>6
  <2> QED BY <2>2, <1>2 DEF Range
<1>7. ASSUME NEW x \in Range(Tail(s)) PROVE x \in Range(s) /\ x # Head(s)
  <2>1. PICK i \in 1..(Len(s) - 1) : Tail(s)[i] = x
    BY <1>2 DEF Range
  <2>2. s[i + 1] = x /\ i + 1 \in DOMAIN s /\ i + 1 # 1
    BY <2>1, <1>1, <1>3
  <2> QED BY <2>2, <1>4 DEF Range, IsInjective
<1>8. Head(s) \in S /\ Head(s) \in Range(s)
  BY <1>1, <1>4 DEF Range
<1> QED BY <1>2, <1>5, <1>6, <1>7, <1>8

(* Appending an element that is not there.                                 *)
LEMMA AppendNew ==
  ASSUME NEW S, NEW s \in Seq(S), IsInjective(s), NEW e \in S, e \notin Range(s)
  PROVE  /\ Append(s, e) \in Seq(S) /\ IsInjective(Append(s, e))
         /\ Range(Append(s, e)) = Range(s) \cup {e}
<1> DEFINE a == Append(s, e)
<1>1. Len(s) \in Nat /\ DOMAIN s = 1..Len(s)
  OBVIOUS
<1>2. a \in Seq(S) /\ DOMAIN a = 1..(Len(s) + 1)
  BY <1>1
<1>3. a[Len(s) + 1] = e /\ \A i \in 1..Len(s) : a[i] = s[i]
  BY <1>1
<1> HIDE DEF a
<1>4. \A i \in 1..Len(s) : s[i] # e
  BY <1>1 DEF Range
<1>5. IsInjective(a)
  BY <1>1, <1>2, <1>3, <1>4 DEF IsInjective
<1>6. Range(a) = Range(s) \cup {e}
  BY <1>1, <1>2, <1>3 DEF Range
<1> QED BY <1>2, <1>5, <1>6 DEF a

LEMMA RestOfList ==
  ASSUME NEW S, NEW s \in Seq(S), NEW k \in 1..Len(s)
  PROVE  LET b == SubSeq(s, k + 1, Len(s))
         IN /\ b \in Seq(S) /\ Len(b) = Len(s) - k
            /\ \A i \in 1..(Len(s) - k) : b[i] = s[k + i]
<1>1. Len(s) \in Nat /\ k \in Nat /\ k <= Len(s)
  OBVIOUS
<1>2. PICK b : b = SubSeq(s, k + 1, Len(s))
  OBVIOUS
<1>3. \A i \in (k + 1)..Len(s) : s[i] \in S
  BY <1>1
<1>4. /\ b \in Seq(S)
      /\ Len(b) = IF k + 1 <= Len(s) THEN Len(s) - (k + 1) + 1 ELSE 0
      /\ \A i \in 1..(Len(s) - (k + 1) + 1) : b[i] = s[k + 1 + i - 1]
  BY <1>1, <1>2, <1>3, SubSeqProperties
<1>5. Len(s) - (k + 1) + 1 = Len(s) - k
  BY <1>1
<1>6. Len(b) = Len(s) - k
  <2>1. CASE k + 1 <= Len(s)
    BY <2>1, <1>4, <1>5
  <2>2. CASE ~(k + 1 <= Len(s))
    <3>1. Len(b) = 0
      BY <2>2, <1>4
    <3> QED BY <2>2, <3>1, <1>1
  <2> QED BY <2>1, <2>2
<1>7. ASSUME NEW i \in 1..(Len(s) - k) PROVE b[i] = s[k + i]
  <2>1. k + 1 + i - 1 = k + i
    BY <1>1
  <2>2. b[i] = s[k + 1 + i - 1]
    BY <1>4, <1>5
  <2> QED BY <2>1, <2>2
<1> QED BY <1>2, <1>4, <1>6, <1>7

(* Erasing the element at a place of a list without repetition.            *)
LEMMA RemoveAtPlace ==
  ASSUME NEW S, NEW s \in Seq(S), IsInjective(s), NEW k \in 1..Len(s)
  PROVE  /\ RemoveAt(s, k) \in Seq(S) /\ IsInjective(RemoveAt(s, k))
         /\ Range(RemoveAt(s, k)) = Range(s) \ {s[k]}
<1> DEFINE a == SubSeq(s, 1, k - 1)
           b == SubSeq(s, k + 1, Len(s))
           r == a \o b
           n == Len(s) - 1
<1>1. Len(s) \in Nat /\ DOMAIN s = 1..Len(s) /\ k \in Nat /\ n \in Nat
  OBVIOUS
<1>2. a \in Seq(S) /\ Len(a) = k - 1 /\ \A i \in 1..(k - 1) : a[i] = s[i]
  BY <1>1
<1>3. b \in Seq(S) /\ Len(b) = Len(s) - k /\ \A i \in 1..(Len(s) - k) : b[i] = s[k + i]
  BY RestOfList
<1> HIDE DEF a, b
<1>0. /\ r \in Seq(S) /\ Len(r) = Len(a) + Len(b)
      /\ \A i \in 1..(Len(a) + Len(b)) :
           r[i] = IF i <= Len(a) THEN a[i] ELSE b[i - Len(a)]
  BY <1>2, <1>3, ConcatProperties
<1> HIDE DEF r
<1>4. r \in Seq(S) /\ Len(r) = n /\ DOMAIN r = 1..n
  BY <1>0, <1>1, <1>2, <1>3
<1>5. ASSUME NEW i \in 1..n PROVE r[i] = IF i < k THEN s[i] ELSE s[i + 1]
  <2>1. CASE i < k
    BY <2>1, <1>0, <1>1, <1>2, <1>3
  <2>2. CASE ~(i < k)
    <3>0. i - (k - 1) \in 1..(Len(s) - k) /\ ~(i <= Len(a))
      BY <2>2, <1>1, <1>2
    <3>1. r[i] = b[i - (k - 1)]
      <4>1. i \in 1..(Len(a) + Len(b)) /\ i - Len(a) = i - (k - 1)
        BY <1>1, <1>2, <1>3
      <4>2. r[i] = b[i - Len(a)]
        BY <4>1, <3>0, <1>0
      <4> QED BY <4>1, <4>2
    <3>2. k + (i - (k - 1)) = i + 1
      BY <1>1
    <3>3. b[i - (k - 1)] = s[k + (i - (k - 1))]
      BY <3>0, <1>3
    <3> QED BY <2>2, <3>1, <3>2, <3>3
  <2> QED BY <2>1, <2>2
<1>6. IsInjective(r)
  <2>1. SUFFICES ASSUME NEW i \in 1..n, NEW j \in 1..n, r[i] = r[j] PROVE i = j
    BY <1>4 DEF IsInjective
  <2>2. PICK p \in 1..Len(s) : r[i] = s[p] /\ p = IF i < k THEN i ELSE i + 1
    BY <1>1, <1>5
  <2>3. PICK q \in 1..Len(s) : r[j] = s[q] /\ q = IF j < k THEN j ELSE j + 1
    BY <1>1, <1>5
  <2>4. p = q
    BY <2>1, <2>2, <2>3, <1>1 DEF IsInjective
  <2> QED BY <2>2, <2>3, <2>4, <1>1
<1>7. ASSUME NEW x \in Range(s), x # s[k] PROVE x \in Range(r)
  <2>1. PICK i \in 1..Len(s) : s[i] = x
    BY <1>1 DEF Range
  <2>2. CASE i < k
    <3>1. i \in 1..n /\ r[i] = x
      BY <2>1, <2>2, <1>1, <1>5
    <3> QED BY <3>1, <1>4 DEF Range
  <2>3. CASE ~(i < k)
    <3>1. i - 1 \in 1..n /\ r[i - 1] = x
      BY <2>1, <2>3, <1>1, <1>5, <1>7
    <3> QED BY <3>1, <1>4 DEF Range
  <2> QED BY <2>2, <2>3
<1>8. ASSUME NEW x \in Range(r) PROVE x \in Range(s) /\ x # s[k]
  <2>1. PICK i \in 1..n : r[i] = x
    BY <1>4 DEF Range
  <2>2. \E j \in 1..Len(s) : j # k /\ s[j] = x
    BY <2>1, <1>1, <1>5
  <2> QED BY <2>2, <1>1 DEF Range, IsInjective
<1>9. RemoveAt(s, k) = r
  BY DEF RemoveAt, r, a, b
<1> QED BY <1>4, <1>6, <1>7, <1>8, <1>9

(* A finite set can be put into a queue without repetition.                *)
LEMMA QueueOfSet ==
  ASSUME NEW S, IsFiniteSet(S)
  PROVE  SetToSeq(S) \in Seq(S) /\ IsInjective(SetToSeq(S))
<1> DEFINE n == Cardinality(S)
<1>1. n \in Nat /\ ExistsBijection(1..n, S)
  BY FS_CardinalityType
<1>2. PICK f \in Bijection(1..n, S) : TRUE
  BY <1>1 DEF ExistsBijection
<1>3. f \in [1..n -> S] /\ IsInjective(f)
  BY <1>2 DEF Bijection, Injection, IsInjective
<1>4. SetToSeq(S) \in [1..n -> S] /\ IsInjective(SetToSeq(S))
  BY <1>3 DEF SetToSeq
<1> QED BY <1>1, <1>4

-----------------------------------------------------------------------------
(***************************************************************************)
(* The inductive invariant.  A task that a call or the list holds is in no *)
(* worker and has not run; a task a worker still has to run has not run;   *)
(* no two workers hold the same task; and a worker with something to do is *)
(* neither in the queue nor being handed a task.                           *)
(***************************************************************************)
InCall(t) == caller[t] # "returned"

Unrun(t) == ran[t] = 0 /\ \A w \in Worker : mWaitingTask[w] # t

HeldTaskUnrun ==
  \A t \in Task : /\ InCall(t) => Unrun(t)
                  /\ t \in Pending => Unrun(t) /\ ~InCall(t)

ToRun(w) == mWaitingTask[w] # None /\ pc[w] \notin {"next", "free", "assign"}

WaitingTaskUnrun == \A w \in Worker : ToRun(w) => ran[mWaitingTask[w]] = 0

OneHolder ==
  \A v, w \in Worker : mWaitingTask[v] = mWaitingTask[w] /\ v # w
                        => mWaitingTask[v] = None

RunsSomething == \A w \in Worker : pc[w] = "run" => mWaitingTask[w] # None

Busy(w) ==
  \/ pc[w] \in {"run", "next", "free"}
  \/ mWaitingTask[w] # None /\ pc[w] # "assign"

Free(w) == w \in Range(mFreeWorkerThreads)

BusyReserved ==
  \A w \in Worker : Busy(w) =>
    ~Free(w) /\ \A t \in Task : HandedOver(t) => worker[t] # w

HandedToOne ==
  \A t \in Task : HandedOver(t) =>
    /\ worker[t] \in Worker /\ ~Free(worker[t])
    /\ \A u \in Task \ {t} : HandedOver(u) => worker[u] # worker[t]

ReadyWhenHeld ==
  /\ \A t \in Task : HandedOver(t) => t \in arrived
  /\ \A w \in Worker : mWaitingTask[w] \in arrived \cup {None}
  /\ \A t \in Task : ran[t] > 0 => t \in arrived

Inv == /\ HeldTaskUnrun /\ WaitingTaskUnrun /\ OneHolder /\ RunsSomething
       /\ BusyReserved /\ HandedToOne /\ ReadyWhenHeld /\ RunOnce

IInv == TypeOK /\ Inv

LEMMA InitIInv == Init => IInv
<1> SUFFICES ASSUME Init PROVE IInv
  OBVIOUS
<1> USE ShedulerAssumption
<1>1. mFreeWorkerThreads \in Seq(Worker) /\ IsInjective(mFreeWorkerThreads)
  BY QueueOfSet DEF Init
<1>2. mPendingTasks \in Seq(Task) /\ IsInjective(mPendingTasks) /\ Pending = {}
  BY DEF Init, IsInjective, Pending, Range
<1>3. TypeOK
  BY <1>1, <1>2 DEF Init, TypeOK, Idle, Working, Call
<1>4. Inv
  BY <1>2 DEF Init, Inv, HeldTaskUnrun, InCall, Unrun, WaitingTaskUnrun, ToRun, OneHolder,
     RunsSomething, BusyReserved, Busy, HandedToOne, HandedOver, ReadyWhenHeld, RunOnce
<1> QED BY <1>3, <1>4 DEF IInv

(* What getNextUndoneTask finds is a ready task of the list, which it      *)
(* takes out.                                                              *)
LEMMA UndoneTask ==
  ASSUME TypeOK, NextUndone # None
  PROVE  /\ NextUndone \in Pending /\ NextUndone \in Task /\ NextUndone \in arrived
         /\ TakeFirstReady =>
              /\ mPendingTasks' \in Seq(Task) /\ IsInjective(mPendingTasks')
              /\ Pending' = Pending \ {NextUndone}
<1> DEFINE I == {i \in 1..Len(mPendingTasks) : IsReady(mPendingTasks[i])}
<1>1. mPendingTasks \in Seq(Task) /\ IsInjective(mPendingTasks)
  BY DEF TypeOK
<1>2. \E t \in Pending : IsReady(t)
  BY DEF NextUndone
<1>3. I # {} /\ I \in SUBSET Nat
  BY <1>1, <1>2 DEF Pending, Range
<1>4. \E x \in I : \A y \in I : x <= y
  BY <1>3, SmallestMember
<1>5. FirstReady = Min(I)
  BY <1>3 DEF FirstReady, SelectInSeq
<1>6. FirstReady \in I
  BY <1>4, <1>5 DEF Min
<1>7. NextUndone = mPendingTasks[FirstReady]
  BY <1>2 DEF NextUndone
<1>8. NextUndone \in Pending /\ NextUndone \in Task /\ NextUndone \in arrived
  BY <1>1, <1>6, <1>7 DEF Pending, Range, IsReady, Ready
<1>9. ASSUME TakeFirstReady
      PROVE  /\ mPendingTasks' \in Seq(Task) /\ IsInjective(mPendingTasks')
             /\ Pending' = Pending \ {NextUndone}
  BY <1>1, <1>6, <1>7, <1>9, RemoveAtPlace DEF TakeFirstReady, Pending
<1> QED BY <1>8, <1>9

-----------------------------------------------------------------------------
(* Every action keeps the invariant.                                       *)

(* A signal moves a worker only if it waits.                               *)
LEMMA SignalWakes ==
  ASSUME TypeOK, NEW x \in Worker, CondSignal(x)
  PROVE  \A v \in Worker :
           \/ pc'[v] = pc[v]
           \/ v = x /\ pc[v] = "waiting" /\ pc'[v] = "woken"
<1>1. pc \in [Worker -> Idle \cup Working \cup {"woken"}]
  BY DEF TypeOK
<1> QED BY <1>1 DEF CondSignal

(* The worker's steps between waiting and testing change only its place.   *)
LEMMA MoveKeepsIInv ==
  ASSUME IInv, NEW w \in Worker, WorkerStep, UNCHANGED <<mWaitingTask, exitCalled, ran>>,
         NEW p \in Idle \cup {"woken", "test", "run"}, Goto(w, p),
         pc[w] \notin {"run", "next", "free", "assign"},
         p = "run" => mWaitingTask[w] # None
  PROVE  IInv'
<1> USE DEF IInv, WorkerStep, queueVars, callVars, Goto
<1>1. TypeOK'
  BY DEF TypeOK, Working, Idle
<1>2. Pending' = Pending /\ \A v \in Worker : Free(v)' = Free(v)
  BY DEF Pending, Free
<1>3. Inv'
  <2>0. pc \in [Worker -> Idle \cup Working \cup {"woken"}]
    BY DEF TypeOK
  <2> USE <1>2, <2>0 DEF Inv, Idle
  <2>1. HeldTaskUnrun'
    BY DEF HeldTaskUnrun, InCall, Unrun
  <2>2. WaitingTaskUnrun'
    BY DEF WaitingTaskUnrun, ToRun
  <2>3. OneHolder'
    BY DEF OneHolder
  <2>4. RunsSomething'
    BY DEF RunsSomething
  <2>5. BusyReserved'
    BY DEF BusyReserved, Busy, HandedOver
  <2>6. HandedToOne'
    BY DEF HandedToOne, HandedOver
  <2>7. ReadyWhenHeld' /\ RunOnce'
    BY DEF ReadyWhenHeld, HandedOver, RunOnce
  <2> QED BY <2>1, <2>2, <2>3, <2>4, <2>5, <2>6, <2>7
<1> QED BY <1>1, <1>3

(* A step that leaves tasks, queue and list alone.                         *)
LEMMA NothingTaken ==
  ASSUME IInv, UNCHANGED <<mFreeWorkerThreads, mPendingTasks, mWaitingTask, worker, ran>>,
         pc' = pc \/ \E w \in Worker : CondSignal(w),
         caller' = caller \/ \E t \in Task : CallAt(t, "called") /\ InCall(t) /\ ~HandedOver(t),
         TypeOK', arrived \subseteq arrived'
  PROVE  IInv'
<1> USE DEF IInv
<1>0. pc \in [Worker -> Idle \cup Working \cup {"woken"}] /\ caller \in [Task -> Call]
  BY DEF TypeOK
<1>1. Pending' = Pending /\ \A v \in Worker : Free(v)' = Free(v)
  BY DEF Pending, Free
<1>2. \A v \in Worker : \/ pc'[v] = pc[v]
                        \/ pc[v] = "waiting" /\ pc'[v] = "woken"
  BY <1>0 DEF CondSignal
<1>3. \A t \in Task : /\ HandedOver(t)' = HandedOver(t)
                      /\ InCall(t)' = InCall(t)
  BY <1>0 DEF CallAt, HandedOver, InCall
<1> USE <1>1, <1>2, <1>3 DEF Inv
<1>4. HeldTaskUnrun' /\ WaitingTaskUnrun' /\ OneHolder' /\ RunsSomething'
  BY DEF HeldTaskUnrun, Unrun, WaitingTaskUnrun, ToRun, OneHolder, RunsSomething
<1>5. BusyReserved' /\ HandedToOne'
  BY DEF BusyReserved, Busy, HandedToOne
<1>6. ReadyWhenHeld' /\ RunOnce'
  BY DEF ReadyWhenHeld, RunOnce
<1> QED BY <1>4, <1>5, <1>6

(* A step that hands over nothing, frees nobody and gives nobody work.     *)
LEMMA NothingHandedOver ==
  ASSUME BusyReserved, HandedToOne,
         \A v \in Worker : (Busy(v)' => Busy(v)) /\ (Free(v)' => Free(v)),
         \A t \in Task : HandedOver(t)' => HandedOver(t) /\ worker'[t] = worker[t]
  PROVE  BusyReserved' /\ HandedToOne'
<1>1. BusyReserved'
  BY DEF BusyReserved
<1>2. HandedToOne'
  BY DEF HandedToOne
<1> QED BY <1>1, <1>2

LEMMA FindWorkerKeepsIInv ==
  ASSUME IInv, NEW t \in Task, FindWorker(t)
  PROVE  IInv'
<1> USE ShedulerAssumption DEF IInv, Inv, TypeOK, Idle, Working, Call, Goto, CallAt, queueVars, callVars, workerVars, FindWorker
<1>1. \/ /\ mFreeWorkerThreads # <<>> /\ PopFront /\ t \in arrived
           /\ worker' = [worker EXCEPT ![t] = Head(mFreeWorkerThreads)]
           /\ caller' = [caller EXCEPT ![t] = "handover"]
        \/ /\ caller' = [caller EXCEPT ![t] = "refused"]
           /\ UNCHANGED <<mFreeWorkerThreads, worker>>
  BY DEF Ready
<1>2. mFreeWorkerThreads # <<>> /\ PopFront =>
          /\ Head(mFreeWorkerThreads) \in Worker /\ Free(Head(mFreeWorkerThreads))
          /\ mFreeWorkerThreads' \in Seq(Worker) /\ IsInjective(mFreeWorkerThreads')
          /\ \A v \in Worker : Free(v)' <=> (Free(v) /\ v # Head(mFreeWorkerThreads))
  BY TailOfQueue DEF PopFront, Free
<1>3. TypeOK'
  <2>1. caller' \in [Task -> Call]
    <3>1. caller \in [Task -> Call] /\ {"handover", "refused"} \subseteq Call
      OBVIOUS
    <3>2. \E c \in {"handover", "refused"} : caller' = [caller EXCEPT ![t] = c]
      BY <1>1
    <3> HIDE DEF Call, FindWorker, TypeOK, IInv, Inv
    <3> QED BY <3>1, <3>2
  <2>2. worker' \in [Task -> Worker \cup {None}]
    BY <1>2
  <2>3. mFreeWorkerThreads' \in Seq(Worker) /\ IsInjective(mFreeWorkerThreads')
    BY <1>2
  <2> QED BY <2>1, <2>2, <2>3
<1>4. Pending' = Pending /\ (UNCHANGED mFreeWorkerThreads => \A v \in Worker : Free(v)' <=> Free(v))
  BY DEF Pending, Free
<1>5. \A u \in Task \ {t} : (HandedOver(u)' <=> HandedOver(u)) /\ worker'[u] = worker[u]
  BY DEF HandedOver
<1>6. HandedOver(t)' => /\ worker'[t] \in Worker /\ Free(worker'[t])
                          /\ \A v \in Worker : Free(v)' <=> (Free(v) /\ v # worker'[t])
  BY <1>2 DEF HandedOver
<1>7. \A v \in Worker : Free(v)' => Free(v)
  BY <1>2, <1>4
<1>8. HeldTaskUnrun'
  BY <1>4 DEF HeldTaskUnrun, InCall, Unrun
<1>9. WaitingTaskUnrun'
  BY DEF WaitingTaskUnrun, ToRun
<1>10. OneHolder'
  BY DEF OneHolder
<1>11. RunsSomething'
  BY DEF RunsSomething
<1>12. BusyReserved'
  <2>1. SUFFICES ASSUME NEW v \in Worker, Busy(v)', NEW u \in Task
                 PROVE  ~Free(v)' /\ (HandedOver(u)' => worker'[u] # v)
    BY DEF BusyReserved
  <2>2. Busy(v) /\ BusyReserved
    BY <2>1 DEF Busy
  <2>3. ~Free(v) /\ ~Free(v)'
    BY <1>7, <2>2 DEF BusyReserved
  <2>4. CASE u = t
    BY <1>6, <2>3, <2>4
  <2>5. CASE u # t
    <3>1. HandedOver(u)' => HandedOver(u) /\ worker'[u] = worker[u]
      BY <1>5, <2>5
    <3>2. HandedOver(u) => worker[u] # v
      BY <2>2 DEF BusyReserved
    <3> QED BY <2>3, <3>1, <3>2
  <2> QED BY <2>4, <2>5
<1>13. HandedToOne'
  BY <1>5, <1>6, <1>7 DEF HandedToOne
<1>14. ReadyWhenHeld'
  BY <1>1 DEF ReadyWhenHeld, HandedOver
<1>15. RunOnce'
  BY DEF RunOnce
<1> QED BY <1>1, <1>2, <1>3, <1>4, <1>5, <1>6, <1>7, <1>8, <1>9, <1>10, <1>11, <1>12, <1>13, <1>14, <1>15

LEMMA AddPendingKeepsIInv ==
  ASSUME IInv, NEW t \in Task, AddPending(t)
  PROVE  IInv'
<1> USE ShedulerAssumption DEF IInv, Inv, TypeOK, Idle, Working, Call, Goto, CallAt, queueVars, callVars, workerVars, AddPending, Return
<1>1. t \notin Pending
  BY DEF HeldTaskUnrun, InCall
<1>2. /\ mPendingTasks' \in Seq(Task) /\ IsInjective(mPendingTasks')
        /\ Pending' = Pending \cup {t}
  BY <1>1, AppendNew DEF Pending
<1>3. TypeOK'
  BY <1>2
<1>4. \A v \in Worker : Free(v)' <=> Free(v)
  BY DEF Free
<1>5. HeldTaskUnrun'
  BY <1>2 DEF HeldTaskUnrun, InCall, Unrun
<1>6. WaitingTaskUnrun'
  BY DEF WaitingTaskUnrun, ToRun
<1>7. OneHolder'
  BY DEF OneHolder
<1>8. RunsSomething'
  BY DEF RunsSomething
<1>9. BusyReserved'
  BY <1>4 DEF BusyReserved, Busy, HandedOver
<1>10. HandedToOne'
  BY <1>4 DEF HandedToOne, HandedOver
<1>11. ReadyWhenHeld'
  BY DEF ReadyWhenHeld, HandedOver
<1>12. RunOnce'
  BY DEF RunOnce
<1> QED BY <1>1, <1>2, <1>3, <1>4, <1>5, <1>6, <1>7, <1>8, <1>9, <1>10, <1>11, <1>12

LEMMA SetNewTaskKeepsIInv ==
  ASSUME IInv, NEW t \in Task, SetNewTask(t)
  PROVE  IInv'
<1> USE ShedulerAssumption DEF IInv, Inv, TypeOK, Idle, Working, Call, Goto, CallAt, queueVars, callVars, workerVars, SetNewTask, Return
<1>1. worker[t] \in Worker /\ ~Free(worker[t]) /\ ~Busy(worker[t])
  BY DEF HandedToOne, HandedOver, BusyReserved
<1>2. TypeOK'
  BY DEF CondSignal
<1>3. Pending' = Pending /\ \A v \in Worker : Free(v)' <=> Free(v)
  BY DEF Pending, Free
<1>4. \A v \in Worker :
          \/ pc'[v] = pc[v]
          \/ v = worker[t] /\ pc[v] = "waiting" /\ pc'[v] = "woken"
  <2>1. CondSignal(worker[t])
    OBVIOUS
  <2> QED BY <1>1, <2>1, SignalWakes
<1>5. /\ mWaitingTask'[worker[t]] = t
        /\ \A v \in Worker \ {worker[t]} : mWaitingTask'[v] = mWaitingTask[v]
  BY <1>1
<1>6. ran[t] = 0 /\ \A v \in Worker : mWaitingTask[v] # t
  BY DEF HeldTaskUnrun, InCall, Unrun
<1>7. \A u \in Task : (HandedOver(u)' <=> HandedOver(u) /\ u # t) /\ (u # t => worker'[u] = worker[u])
  BY DEF HandedOver
<1>8. \A u \in Task \ {t} : HandedOver(u) => worker[u] # worker[t]
  BY DEF HandedToOne, HandedOver
<1>9. HeldTaskUnrun'
  BY <1>3 DEF HeldTaskUnrun, InCall, Unrun
<1>10. WaitingTaskUnrun'
  BY <1>4, <1>6 DEF WaitingTaskUnrun, ToRun
<1>11. OneHolder'
  BY <1>6 DEF OneHolder
<1>12. RunsSomething'
  BY <1>4 DEF RunsSomething
<1>13. BusyReserved'
  BY <1>1, <1>3, <1>4, <1>8 DEF BusyReserved, Busy, HandedOver
<1>14. HandedToOne'
  BY <1>3 DEF HandedToOne, HandedOver
<1>15. ReadyWhenHeld'
  BY DEF ReadyWhenHeld, HandedOver
<1>16. RunOnce'
  BY DEF RunOnce
<1> QED BY <1>1, <1>2, <1>3, <1>4, <1>5, <1>6, <1>7, <1>8, <1>9, <1>10, <1>11, <1>12, <1>13, <1>14, <1>15, <1>16

LEMMA TakeUndoneKeepsIInv ==
  ASSUME IInv, NEW w \in Worker, TakeUndone(w)
  PROVE  IInv'
<1> USE ShedulerAssumption DEF IInv, Inv, TypeOK, Idle, Working, Call, Goto, CallAt, queueVars, callVars, workerVars, TakeUndone
<1>1. \A v \in Worker : Free(v)' <=> Free(v)
  BY DEF Free
<1>2. NextUndone # None => /\ mPendingTasks' \in Seq(Task) /\ IsInjective(mPendingTasks')
                             /\ Pending' = Pending \ {NextUndone}
  BY UndoneTask
<1>3. NextUndone # None => NextUndone \in Pending /\ NextUndone \in Task /\ NextUndone \in arrived
  BY UndoneTask
<1>4. NextUndone = None => Pending' = Pending
  BY DEF Pending
<1>5. TypeOK'
  <2>1. mPendingTasks' \in Seq(Task) /\ IsInjective(mPendingTasks')
    BY <1>2
  <2>2. mWaitingTask' \in [Worker -> Task \cup {None}]
    BY <1>3
  <2>3. pc' \in [Worker -> Idle \cup Working \cup {"woken"}]
    <3>1. \E p \in {"free", "test"} : pc' = [pc EXCEPT ![w] = p]
      OBVIOUS
    <3>2. pc \in [Worker -> Idle \cup Working \cup {"woken"}] /\ {"free", "test"} \subseteq Working
      OBVIOUS
    <3> HIDE DEF IInv, TypeOK, Working, Idle, TakeUndone
    <3> QED BY <3>1, <3>2
  <2> QED BY <2>1, <2>2, <2>3
<1>6. \A v \in Worker \ {w} : pc'[v] = pc[v] /\ mWaitingTask'[v] = mWaitingTask[v]
  OBVIOUS
<1>7. \/ pc'[w] = "free" /\ mWaitingTask' = mWaitingTask
      \/ /\ pc'[w] = "test" /\ mWaitingTask'[w] = NextUndone /\ NextUndone \in Task
         /\ ran[NextUndone] = 0 /\ \A v \in Worker : mWaitingTask[v] # NextUndone
  BY <1>3 DEF HeldTaskUnrun, Unrun
<1>8. HeldTaskUnrun'
  BY <1>2, <1>3, <1>4 DEF HeldTaskUnrun, InCall, Unrun
<1>9. WaitingTaskUnrun'
  BY <1>7 DEF WaitingTaskUnrun, ToRun
<1>10. OneHolder'
  BY <1>7 DEF OneHolder
<1>11. RunsSomething'
  BY DEF RunsSomething
<1>12. /\ \A v \in Worker : (Busy(v)' => Busy(v)) /\ (Free(v)' => Free(v))
       /\ \A u \in Task : HandedOver(u)' => HandedOver(u) /\ worker'[u] = worker[u]
  <2>1. \A v \in Worker : Busy(v)' => Busy(v)
    BY <1>6 DEF Busy
  <2> QED BY <1>1, <2>1 DEF HandedOver
<1>13. BusyReserved' /\ HandedToOne'
  BY <1>12, NothingHandedOver
<1>14. ReadyWhenHeld'
  BY <1>3 DEF ReadyWhenHeld, HandedOver
<1>15. RunOnce'
  BY DEF RunOnce
<1> QED BY <1>1, <1>2, <1>3, <1>4, <1>5, <1>6, <1>7, <1>8, <1>9, <1>10, <1>11, <1>12, <1>13, <1>14, <1>15

LEMMA PushFreeKeepsIInv ==
  ASSUME IInv, NEW w \in Worker, PushFree(w)
  PROVE  IInv'
<1> USE ShedulerAssumption DEF IInv, Inv, TypeOK, Idle, Working, Call, Goto, CallAt, queueVars, callVars, workerVars, PushFree
<1>1. ~Free(w)
  BY DEF BusyReserved, Busy
<1>2. /\ mFreeWorkerThreads' \in Seq(Worker) /\ IsInjective(mFreeWorkerThreads')
        /\ \A v \in Worker : Free(v)' <=> (Free(v) \/ v = w)
  BY <1>1, AppendNew DEF Free
<1>3. TypeOK'
  BY <1>2
<1>4. Pending' = Pending
  BY DEF Pending
<1>5. pc'[w] = "assign" /\ \A v \in Worker \ {w} : pc'[v] = pc[v]
  OBVIOUS
<1>6. \A t \in Task : (HandedOver(t)' <=> HandedOver(t)) /\ (HandedOver(t) => worker[t] # w)
  BY DEF BusyReserved, Busy, HandedOver
<1>7. HeldTaskUnrun'
  BY <1>4 DEF HeldTaskUnrun, InCall, Unrun
<1>8. WaitingTaskUnrun'
  BY DEF WaitingTaskUnrun, ToRun
<1>9. OneHolder'
  BY DEF OneHolder
<1>10. RunsSomething'
  BY DEF RunsSomething
<1>11. BusyReserved'
  BY <1>2 DEF BusyReserved, Busy, HandedOver
<1>12. HandedToOne'
  BY <1>2, <1>6 DEF HandedToOne, HandedOver
<1>13. ReadyWhenHeld'
  BY DEF ReadyWhenHeld, HandedOver
<1>14. RunOnce'
  BY DEF RunOnce
<1> QED BY <1>1, <1>2, <1>3, <1>4, <1>5, <1>6, <1>7, <1>8, <1>9, <1>10, <1>11, <1>12, <1>13, <1>14

LEMMA CheckPendingTasksKeepsIInv ==
  ASSUME IInv, CheckPendingTasks
  PROVE  IInv'
<1> USE ShedulerAssumption DEF IInv, Inv, TypeOK, Idle, Working, Call, Goto, CallAt, queueVars, callVars, workerVars, CheckPendingTasks
<1>1. \A v \in Worker : Free(v)' <=> Free(v)
  BY DEF Free
<1>2. /\ mPendingTasks' \in Seq(Task) /\ IsInjective(mPendingTasks')
        /\ Pending' = Pending \ {NextUndone}
  BY UndoneTask
<1>3. NextUndone \in Pending /\ NextUndone \in Task /\ NextUndone \in arrived
  BY UndoneTask
<1>4. TypeOK'
  BY <1>2, <1>3
<1>5. HeldTaskUnrun'
  BY <1>2, <1>3 DEF HeldTaskUnrun, InCall, Unrun
<1>6. WaitingTaskUnrun'
  BY DEF WaitingTaskUnrun, ToRun
<1>7. OneHolder'
  BY DEF OneHolder
<1>8. RunsSomething'
  BY DEF RunsSomething
<1>9. BusyReserved'
  BY <1>1 DEF BusyReserved, Busy, HandedOver
<1>10. HandedToOne'
  BY <1>1 DEF HandedToOne, HandedOver
<1>11. ReadyWhenHeld'
  BY DEF ReadyWhenHeld, HandedOver
<1>12. RunOnce'
  BY DEF RunOnce
<1> QED BY <1>1, <1>2, <1>3, <1>4, <1>5, <1>6, <1>7, <1>8, <1>9, <1>10, <1>11, <1>12

LEMMA RunKeepsIInv ==
  ASSUME IInv, NEW w \in Worker, Run(w)
  PROVE  IInv'
<1> USE ShedulerAssumption DEF IInv, Inv, TypeOK, Idle, Working, Call, Goto, CallAt, queueVars, callVars, workerVars, Run, WorkerStep
<1>1. mWaitingTask[w] \in Task /\ ran[mWaitingTask[w]] = 0
  BY DEF RunsSomething, WaitingTaskUnrun, ToRun
<1>2. TypeOK'
  BY <1>1
<1>3. Pending' = Pending /\ \A v \in Worker : Free(v)' <=> Free(v)
  BY DEF Pending, Free
<1>4. \A v \in Worker \ {w} : pc'[v] = pc[v] /\ (mWaitingTask[v] # None => mWaitingTask[v] # mWaitingTask[w])
  BY DEF OneHolder
<1>5. pc'[w] = "next" /\ \A u \in Task \ {mWaitingTask[w]} : ran'[u] = ran[u]
  OBVIOUS
<1>6. HeldTaskUnrun'
  BY <1>3 DEF HeldTaskUnrun, InCall, Unrun
<1>7. WaitingTaskUnrun'
  BY <1>4 DEF WaitingTaskUnrun, ToRun
<1>8. OneHolder'
  BY DEF OneHolder
<1>9. RunsSomething'
  BY DEF RunsSomething
<1>10. BusyReserved'
  BY <1>3 DEF BusyReserved, Busy, HandedOver
<1>11. HandedToOne'
  BY <1>3 DEF HandedToOne, HandedOver
<1>12. ReadyWhenHeld'
  BY DEF ReadyWhenHeld, HandedOver
<1>13. RunOnce'
  BY <1>1 DEF RunOnce
<1> QED BY <1>1, <1>2, <1>3, <1>4, <1>5, <1>6, <1>7, <1>8, <1>9, <1>10, <1>11, <1>12, <1>13

LEMMA AssignKeepsIInv ==
  ASSUME IInv, NEW w \in Worker, Assign(w)
  PROVE  IInv'
<1> USE ShedulerAssumption DEF IInv, Inv, TypeOK, Idle, Working, Call, Goto, CallAt, queueVars, callVars, workerVars, Assign, WorkerStep
<1>1. TypeOK'
  OBVIOUS
<1>2. Pending' = Pending /\ \A v \in Worker : Free(v)' <=> Free(v)
  BY DEF Pending, Free
<1>3. HeldTaskUnrun'
  BY <1>2 DEF HeldTaskUnrun, InCall, Unrun
<1>4. WaitingTaskUnrun'
  BY DEF WaitingTaskUnrun, ToRun
<1>5. OneHolder'
  BY DEF OneHolder
<1>6. RunsSomething'
  BY DEF RunsSomething
<1>7. BusyReserved'
  BY <1>2 DEF BusyReserved, Busy, HandedOver
<1>8. HandedToOne'
  BY <1>2 DEF HandedToOne, HandedOver
<1>9. ReadyWhenHeld'
  BY DEF ReadyWhenHeld, HandedOver
<1>10. RunOnce'
  BY DEF RunOnce
<1> QED BY <1>1, <1>2, <1>3, <1>4, <1>5, <1>6, <1>7, <1>8, <1>9, <1>10

LEMMA ClearPendingKeepsIInv ==
  ASSUME IInv, ClearPending
  PROVE  IInv'
<1> USE ShedulerAssumption DEF IInv, Inv, TypeOK, Idle, Working, Call, Goto, CallAt, queueVars, callVars, workerVars, ClearPending
<1>1. mPendingTasks' = <<>> /\ IsInjective(mPendingTasks') /\ Pending' = {}
  BY DEF Pending, IsInjective, Range
<1>2. TypeOK'
  BY <1>1
<1>3. \A v \in Worker : Free(v)' <=> Free(v)
  BY DEF Free
<1>4. HeldTaskUnrun'
  BY <1>1 DEF HeldTaskUnrun, InCall, Unrun
<1>5. WaitingTaskUnrun'
  BY DEF WaitingTaskUnrun, ToRun
<1>6. OneHolder'
  BY DEF OneHolder
<1>7. RunsSomething'
  BY DEF RunsSomething
<1>8. /\ \A v \in Worker : (Busy(v)' => Busy(v)) /\ (Free(v)' => Free(v))
      /\ \A u \in Task : HandedOver(u)' => HandedOver(u) /\ worker'[u] = worker[u]
  <2>1. \A v \in Worker : Busy(v)' => Busy(v)
    BY DEF Busy
  <2>2. \A u \in Task : HandedOver(u)' => HandedOver(u) /\ worker'[u] = worker[u]
    BY DEF HandedOver
  <2> QED BY <1>3, <2>1, <2>2
<1>9. BusyReserved' /\ HandedToOne'
  BY <1>8, NothingHandedOver
<1>10. ReadyWhenHeld'
  BY DEF ReadyWhenHeld, HandedOver
<1>11. RunOnce'
  BY DEF RunOnce
<1> QED BY <1>1, <1>2, <1>3, <1>4, <1>5, <1>6, <1>7, <1>8, <1>9, <1>10, <1>11

LEMMA ScheduleTaskKeepsIInv ==
  ASSUME IInv, NEW t \in Task, ScheduleTask(t)
  PROVE  IInv'
<1> USE ShedulerAssumption DEF IInv, Inv, TypeOK, Idle, Working, Call, Goto, CallAt, queueVars, callVars, workerVars, ScheduleTask, Return
<1>1. TypeOK'
  BY DEF Return
<1>2. Pending' = Pending /\ \A v \in Worker : Free(v)' <=> Free(v)
  BY DEF Pending, Free
<1>3. HeldTaskUnrun'
  BY <1>2 DEF HeldTaskUnrun, InCall, Unrun
<1>4. WaitingTaskUnrun'
  BY DEF WaitingTaskUnrun, ToRun
<1>5. OneHolder'
  BY DEF OneHolder
<1>6. RunsSomething'
  BY DEF RunsSomething
<1>7. /\ \A v \in Worker : (Busy(v)' => Busy(v)) /\ (Free(v)' => Free(v))
      /\ \A u \in Task : HandedOver(u)' => HandedOver(u) /\ worker'[u] = worker[u]
  <2>1. \A v \in Worker : Busy(v)' => Busy(v)
    BY DEF Busy
  <2>2. \A u \in Task : HandedOver(u)' => HandedOver(u) /\ worker'[u] = worker[u]
    BY DEF HandedOver
  <2> QED BY <1>2, <2>1, <2>2
<1>8. BusyReserved' /\ HandedToOne'
  BY <1>7, NothingHandedOver
<1>9. ReadyWhenHeld'
  BY DEF ReadyWhenHeld, HandedOver
<1>10. RunOnce'
  BY DEF RunOnce
<1> QED BY <1>1, <1>2, <1>3, <1>4, <1>5, <1>6, <1>7, <1>8, <1>9, <1>10

LEMMA ArriveKeepsIInv ==
  ASSUME IInv, NEW t \in Task, Arrive(t)
  PROVE  IInv'
<1>1. TypeOK'
  BY DEF IInv, Arrive, TypeOK, queueVars, workerVars, callVars
<1> QED BY <1>1, NothingTaken DEF Arrive, queueVars, workerVars, callVars

LEMMA SetStoppedKeepsIInv == ASSUME IInv, SetStopped PROVE IInv'
<1>1. TypeOK'
  BY DEF IInv, SetStopped, TypeOK, workerVars, callVars
<1> QED BY <1>1, NothingTaken DEF SetStopped, workerVars, callVars

LEMMA ExitKeepsIInv ==
  ASSUME IInv, NEW w \in Worker, Exit(w)
  PROVE  IInv'
<1>1. UNCHANGED <<mFreeWorkerThreads, mPendingTasks, mStopped, mWaitingTask, caller, worker,
                  timerTask, arrived, ran>>
  BY DEF Exit, queueVars, callVars
<1>2. CondSignal(w)
  BY DEF Exit
<1>3. TypeOK'
  BY <1>1 DEF IInv, Exit, TypeOK, CondSignal
<1> QED BY <1>1, <1>2, <1>3, NothingTaken

LEMMA ThreadKeepsIInv ==
  ASSUME IInv, NEW w \in Worker, Thread(w) \/ SpuriousWakeup(w)
  PROVE  IInv'
<1>1. CASE CheckExit(w)
  BY <1>1, MoveKeepsIInv DEF CheckExit, Idle
<1>2. CASE Wait(w)
  BY <1>2, MoveKeepsIInv DEF Wait, Idle
<1>3. CASE SpuriousWakeup(w)
  BY <1>3, MoveKeepsIInv DEF SpuriousWakeup
<1>4. CASE Resume(w)
  BY <1>4, MoveKeepsIInv DEF Resume, Idle
<1>5. CASE TestWaitingTask(w)
  BY <1>5, MoveKeepsIInv DEF TestWaitingTask, Idle
<1>6. CASE Run(w) \/ TakeUndone(w) \/ PushFree(w) \/ Assign(w)
  BY <1>6, RunKeepsIInv, TakeUndoneKeepsIInv, PushFreeKeepsIInv, AssignKeepsIInv
<1> QED BY <1>1, <1>2, <1>3, <1>4, <1>5, <1>6 DEF Thread

(* Nothing happens.                                                        *)
LEMMA StutterKeepsIInv == IInv /\ UNCHANGED vars => IInv'
BY DEF vars, queueVars, workerVars, callVars, IInv, Inv, TypeOK, HeldTaskUnrun, InCall, Unrun,
       WaitingTaskUnrun, ToRun, OneHolder, RunsSomething, BusyReserved, Busy, Free,
       HandedToOne, HandedOver, ReadyWhenHeld, RunOnce, Pending

LEMMA NextIInv == IInv /\ [Next]_vars => IInv'
<1> SUFFICES ASSUME IInv, [Next]_vars PROVE IInv'
  OBVIOUS
<1>1. ASSUME NEW t \in Task, ScheduleTask(t) \/ Arrive(t) \/ SheduleTask(t) PROVE IInv'
  <2>1. \/ ScheduleTask(t) \/ Arrive(t)
        \/ FindWorker(t) \/ AddPending(t) \/ SetNewTask(t)
    BY <1>1 DEF SheduleTask
  <2> QED BY <2>1, ScheduleTaskKeepsIInv, ArriveKeepsIInv, FindWorkerKeepsIInv,
             AddPendingKeepsIInv, SetNewTaskKeepsIInv
<1>2. ASSUME NEW w \in Worker, Thread(w) \/ SpuriousWakeup(w) \/ Exit(w) PROVE IInv'
  BY <1>2, ThreadKeepsIInv, ExitKeepsIInv
<1>3. CASE CheckPendingTasks \/ SetStopped \/ ClearPending
  BY <1>3, CheckPendingTasksKeepsIInv, SetStoppedKeepsIInv, ClearPendingKeepsIInv
<1>4. CASE UNCHANGED vars
  BY <1>4, StutterKeepsIInv
<1> QED BY <1>1, <1>2, <1>3, <1>4 DEF Next

-----------------------------------------------------------------------------
(***************************************************************************)
(* The invariant holds in every state, whatever calls, messages, wakeups   *)
(* and exits come.                                                         *)
(***************************************************************************)
THEOREM Inductive == Spec => []IInv
<1>1. Init => IInv
  BY InitIInv
<1>2. IInv /\ [Next]_vars => IInv'
  BY NextIInv
<1> QED BY <1>1, <1>2, PTL DEF Spec

(***************************************************************************)
(* Queue, list and slots hold what they should, the queue no worker twice  *)
(* and the list no task twice.                                             *)
(***************************************************************************)
THEOREM TypeCorrect == Spec => []TypeOK
<1>1. IInv => TypeOK
  BY DEF IInv
<1> QED BY <1>1, Inductive, PTL

(***************************************************************************)
(* CPUTask::run is called at most once for a task, with any number of      *)
(* callers, workers and timer calls.                                       *)
(***************************************************************************)
THEOREM TasksRunOnce == Spec => []RunOnce
<1>1. IInv => RunOnce
  BY DEF IInv, Inv
<1> QED BY <1>1, Inductive, PTL

(***************************************************************************)
(* A task whose message has not come (CPUTaskGRPCReactor) is not run.      *)
(***************************************************************************)
THEOREM NotRunBeforeReady == Spec => []ReadyBeforeRun
<1>1. IInv => ReadyBeforeRun
  BY DEF IInv, Inv, ReadyWhenHeld, ReadyBeforeRun, Ready
<1> QED BY <1>1, Inductive, PTL

(***************************************************************************)
(* A worker taken from the queue belongs to the call that took it until    *)
(* setNewTask has returned.                                                *)
(***************************************************************************)
THEOREM HandoverExclusive == Spec => []ExclusiveHandover
<1>1. IInv => ExclusiveHandover
  BY DEF IInv, Inv, HandedToOne, Free, ExclusiveHandover
<1> QED BY <1>1, Inductive, PTL
=============================================================================
