-------------------------- MODULE ThreadPoolProofs --------------------------
(***************************************************************************)
(* Proofs about ThreadPool for any set of workers (not empty), clients and *)
(* tasks.  The inductive invariant adds to the properties what ties the    *)
(* histories to the threads: a task is in the queue, in the hands of one   *)
(* worker, or done, and an exited worker has seen stop_ and an empty queue.*)
(***************************************************************************)
EXTENDS ThreadPool, DataLemmas, TLAPS

\* enqueue accepts no task twice.
AcceptedOnce ==
    \A i, j \in 1 .. Len(accepted) : accepted[i] = accepted[j] => i = j

\* What workers hold was taken from the queue and is not done yet, and no two
\* workers hold the same task.
HeldOnce ==
    /\ \A w \in Workers : (worker[w] = "running") <=> (running[w] # NoTask)
    /\ \A w \in Workers : worker[w] = "running" =>
          running[w] \in Range(started) \ done
    /\ \A v, w \in Workers :
          worker[v] = "running" /\ running[v] = running[w] => v = w

\* A task that was taken is done or still held.
TakenIsHeldOrDone ==
    /\ done \subseteq Range(started)
    /\ \A t \in Range(started) \ done :
          \E w \in Workers : worker[w] = "running" /\ running[w] = t

\* stop_ is set by the destructor only, and an exited worker saw it with an
\* empty queue, to which nothing is added any more.
StopProtocol ==
    /\ stop = (owner # "using")
    /\ \A w \in Workers : worker[w] = "exited" => stop /\ tasks = <<>>
    /\ owner = "destroyed" => \A w \in Workers : worker[w] = "exited"

IInv ==
    /\ TypeOK
    /\ FifoDispatch
    /\ AcceptedOnce
    /\ HeldOnce
    /\ TakenIsHeldOrDone
    /\ StopProtocol
    /\ NoLostWakeup
    /\ NoSleepAfterNotifyAll

-----------------------------------------------------------------------------
(* Facts about one state that satisfies the invariant *)

\* The head of the queue has not been taken before.
LEMMA HeadIsNew ==
    ASSUME TypeOK, FifoDispatch, AcceptedOnce, tasks # <<>>
    PROVE  Head(tasks) \in Tasks /\ Head(tasks) \notin Range(started)
<1>1. /\ Head(tasks) \in Tasks /\ Head(tasks) = tasks[1]
      /\ Len(tasks) \in Nat /\ Len(tasks) > 0
  BY HeadTailProperties, LenProperties, EmptySeq DEF TypeOK
<1>2. /\ Len(accepted) = Len(started) + Len(tasks)
      /\ accepted[Len(started) + 1] = tasks[1]
      /\ \A i \in 1 .. Len(started) : accepted[i] = started[i]
      /\ Len(started) \in Nat
  BY <1>1, ConcatProperties, LenProperties DEF TypeOK, FifoDispatch
<1>3. ASSUME NEW i \in 1 .. Len(started), started[i] = tasks[1] PROVE FALSE
  <2>1. i \in 1 .. Len(accepted) /\ Len(started) + 1 \in 1 .. Len(accepted)
    BY <1>1, <1>2
  <2>2. accepted[i] = accepted[Len(started) + 1]
    BY <1>2, <1>3
  <2>3. QED
    BY <2>1, <2>2, <1>2 DEF AcceptedOnce
<1>4. Range(started) = {started[i] : i \in 1 .. Len(started)}
  BY RangeEquality DEF TypeOK
<1>5. QED
  BY <1>1, <1>3, <1>4

\* The accepted tasks are those taken and those still queued.
LEMMA AcceptedRange ==
    ASSUME TypeOK, FifoDispatch
    PROVE  Range(accepted) = Range(started) \cup Range(tasks)
BY RangeConcatenation DEF TypeOK, FifoDispatch

-----------------------------------------------------------------------------
(* The initial state *)

LEMMA InitIInv == Init => IInv
<1> SUFFICES ASSUME Init PROVE IInv
  OBVIOUS
<1> USE DEF Init
<1>1. <<>> \in Seq(Tasks) /\ Len(<<>>) = 0 /\ Range(<<>>) = {}
  BY DEF Range
<1>2. TypeOK
  BY <1>1 DEF TypeOK
<1>3. FifoDispatch
  BY <1>1 DEF FifoDispatch
<1>4. AcceptedOnce
  BY <1>1 DEF AcceptedOnce
<1>5. HeldOnce
  BY DEF HeldOnce
<1>6. TakenIsHeldOrDone
  BY <1>1 DEF TakenIsHeldOrDone
<1>7. StopProtocol /\ NoLostWakeup /\ NoSleepAfterNotifyAll
  BY DEF StopProtocol, NoLostWakeup, NoSleepAfterNotifyAll
<1>8. QED
  BY <1>2, <1>3, <1>4, <1>5, <1>6, <1>7 DEF IInv

-----------------------------------------------------------------------------
(* One lemma per action *)

LEMMA EnqueuePushIInv ==
    ASSUME IInv, NEW c \in Clients, NEW t \in Tasks, EnqueuePush(c, t)
    PROVE  IInv'
<1> USE DEF EnqueuePush
<1>1. TypeOK'
  BY AppendProperties DEF IInv, TypeOK
<1>2. FifoDispatch'
  <2>1. /\ tasks \in Seq(Tasks) /\ started \in Seq(Tasks)
        /\ accepted = started \o tasks
    BY DEF IInv, TypeOK, FifoDispatch
  <2>2. started \o Append(tasks, t) = Append(started \o tasks, t)
    BY <2>1, ConcatAppend
  <2>3. QED
    BY <2>1, <2>2 DEF FifoDispatch
<1>3. AcceptedOnce'
  <2>1. /\ Len(accepted') = Len(accepted) + 1
        /\ \A i \in 1 .. Len(accepted) : accepted'[i] = accepted[i]
        /\ accepted'[Len(accepted) + 1] = t
        /\ Len(accepted) \in Nat
    BY AppendProperties, LenProperties DEF IInv, TypeOK
  <2>2. \A i \in 1 .. Len(accepted) : accepted[i] # t
    BY RangeEquality DEF IInv, TypeOK, Fresh
  <2>3. QED
    BY <2>1, <2>2 DEF IInv, AcceptedOnce
<1>4. HeldOnce'
  BY DEF IInv, HeldOnce
<1>5. TakenIsHeldOrDone'
  BY DEF IInv, TakenIsHeldOrDone
<1>6. StopProtocol'
  BY DEF IInv, StopProtocol
<1>7. NoLostWakeup'
  BY DEF IInv, TypeOK, NoLostWakeup
<1>8. NoSleepAfterNotifyAll'
  BY DEF IInv, NoSleepAfterNotifyAll, Waiting
<1>9. QED
  BY <1>1, <1>2, <1>3, <1>4, <1>5, <1>6, <1>7, <1>8 DEF IInv

LEMMA NotifyOneIInv ==
    ASSUME IInv, NEW c \in Clients, NotifyOne(c)
    PROVE  IInv'
<1> USE DEF NotifyOne
<1>1. \/ worker' = worker /\ Waiting = {}
      \/ \E w \in Waiting : worker' = [worker EXCEPT ![w] = "check"]
  BY Zenon
<1>2. TypeOK'
  BY <1>1 DEF IInv, TypeOK, Waiting
<1>3. FifoDispatch' /\ AcceptedOnce'
  BY DEF IInv, FifoDispatch, AcceptedOnce
<1>4. HeldOnce'
  BY <1>1 DEF IInv, TypeOK, HeldOnce, Waiting
<1>5. TakenIsHeldOrDone'
  BY <1>1 DEF IInv, TypeOK, TakenIsHeldOrDone, Waiting
<1>6. StopProtocol'
  BY <1>1 DEF IInv, TypeOK, StopProtocol, Waiting
<1>7. NoLostWakeup'
  <2>1. CASE Waiting = {}
    <3>1. worker' = worker
      BY <1>1, <2>1
    <3>2. tasks # <<>> => \E w \in Workers : worker[w] \in {"check", "running"}
      BY <2>1, WorkersNonEmpty DEF IInv, TypeOK, StopProtocol, Waiting
    <3>3. QED
      BY <3>1, <3>2 DEF NoLostWakeup
  <2>2. CASE Waiting # {}
    BY <1>1, <2>2 DEF IInv, TypeOK, NoLostWakeup, Waiting
  <2>3. QED
    BY <2>1, <2>2
<1>8. NoSleepAfterNotifyAll'
  BY <1>1 DEF IInv, TypeOK, NoSleepAfterNotifyAll, Waiting
<1>9. QED
  BY <1>2, <1>3, <1>4, <1>5, <1>6, <1>7, <1>8 DEF IInv

LEMMA TakeIInv ==
    ASSUME IInv, NEW w \in Workers, Take(w)
    PROVE  IInv'
<1> USE DEF Take
<1>0. Head(tasks) \in Tasks /\ Head(tasks) \notin Range(started)
  BY HeadIsNew DEF IInv
<1>1. TypeOK'
  BY <1>0, AppendProperties, HeadTailProperties DEF IInv, TypeOK
<1>2. FifoDispatch'
  BY MoveHead DEF IInv, TypeOK, FifoDispatch
<1>3. AcceptedOnce'
  BY DEF IInv, AcceptedOnce
<1>4. Range(started') = Range(started) \cup {Head(tasks)}
  BY <1>0, RangeAppend DEF IInv, TypeOK
<1>5. HeldOnce'
  BY <1>0, <1>4, NoTaskIsNoTask DEF IInv, TypeOK, HeldOnce, TakenIsHeldOrDone
<1>6. TakenIsHeldOrDone'
  BY <1>0, <1>4 DEF IInv, TypeOK, TakenIsHeldOrDone
<1>7. StopProtocol'
  BY DEF IInv, TypeOK, StopProtocol
<1>8. NoLostWakeup'
  BY DEF IInv, TypeOK, NoLostWakeup
<1>9. NoSleepAfterNotifyAll'
  BY DEF IInv, TypeOK, NoSleepAfterNotifyAll, Waiting
<1>10. QED
  BY <1>1, <1>2, <1>3, <1>5, <1>6, <1>7, <1>8, <1>9 DEF IInv

LEMMA FinishIInv ==
    ASSUME IInv, NEW w \in Workers, Finish(w)
    PROVE  IInv'
<1> USE DEF Finish
<1>0. running[w] \in Tasks /\ running[w] \in Range(started) \ done
  BY DEF IInv, TypeOK, HeldOnce
<1>1. TypeOK'
  BY <1>0 DEF IInv, TypeOK
<1>2. FifoDispatch' /\ AcceptedOnce'
  BY DEF IInv, FifoDispatch, AcceptedOnce
<1>3. HeldOnce'
  BY <1>0 DEF IInv, TypeOK, HeldOnce
<1>4. TakenIsHeldOrDone'
  BY <1>0 DEF IInv, TypeOK, TakenIsHeldOrDone
<1>5. StopProtocol'
  BY DEF IInv, TypeOK, StopProtocol
<1>6. NoLostWakeup' /\ NoSleepAfterNotifyAll'
  BY DEF IInv, TypeOK, NoLostWakeup, NoSleepAfterNotifyAll, Waiting
<1>7. QED
  BY <1>1, <1>2, <1>3, <1>4, <1>5, <1>6 DEF IInv

\* The steps of a worker that neither take nor finish a task.
LEMMA IdleWorkerIInv ==
    ASSUME IInv, NEW w \in Workers, Wait(w) \/ Exit(w) \/ SpuriousWakeup(w)
    PROVE  IInv'
<1> USE DEF Wait, Exit, SpuriousWakeup
<1>1. TypeOK'
  BY DEF IInv, TypeOK
<1>2. FifoDispatch' /\ AcceptedOnce'
  BY DEF IInv, FifoDispatch, AcceptedOnce
<1>3. HeldOnce'
  BY DEF IInv, TypeOK, HeldOnce
<1>4. TakenIsHeldOrDone'
  BY DEF IInv, TypeOK, TakenIsHeldOrDone
<1>5. StopProtocol'
  BY DEF IInv, TypeOK, StopProtocol
<1>6. NoLostWakeup'
  BY DEF IInv, TypeOK, NoLostWakeup
<1>7. NoSleepAfterNotifyAll'
  BY DEF IInv, TypeOK, NoSleepAfterNotifyAll, Waiting, StopProtocol
<1>8. QED
  BY <1>1, <1>2, <1>3, <1>4, <1>5, <1>6, <1>7 DEF IInv

LEMMA OwnerIInv ==
    ASSUME IInv, OwnerStep
    PROVE  IInv'
<1>1. CASE SetStop
  <2> USE <1>1 DEF SetStop
  <2>1. TypeOK' /\ FifoDispatch' /\ AcceptedOnce'
    BY DEF IInv, TypeOK, FifoDispatch, AcceptedOnce
  <2>2. HeldOnce' /\ TakenIsHeldOrDone'
    BY DEF IInv, HeldOnce, TakenIsHeldOrDone
  <2>3. StopProtocol' /\ NoLostWakeup' /\ NoSleepAfterNotifyAll'
    BY DEF IInv, StopProtocol, NoLostWakeup, NoSleepAfterNotifyAll
  <2>4. QED
    BY <2>1, <2>2, <2>3 DEF IInv
<1>2. CASE NotifyAll
  <2> USE <1>2 DEF NotifyAll
  <2>1. \A w \in Workers :
           /\ worker[w] = "waiting" => worker'[w] = "check"
           /\ worker[w] # "waiting" => worker'[w] = worker[w]
    BY DEF Waiting
  <2>2. TypeOK'
    BY <2>1 DEF IInv, TypeOK
  <2>3. FifoDispatch' /\ AcceptedOnce'
    BY DEF IInv, FifoDispatch, AcceptedOnce
  <2>4. HeldOnce' /\ TakenIsHeldOrDone'
    <3>1. UNCHANGED <<running, started, done>>
      OBVIOUS
    <3>2. \A w \in Workers : worker'[w] = "running" <=> worker[w] = "running"
      BY <2>1
    <3>3. HeldOnce'
      BY <3>1, <3>2 DEF IInv, HeldOnce
    <3>4. TakenIsHeldOrDone'
      BY <3>1, <3>2 DEF IInv, TakenIsHeldOrDone
    <3>5. QED
      BY <3>3, <3>4
  <2>5. StopProtocol'
    <3>1. \A w \in Workers : worker'[w] = "exited" => worker[w] = "exited"
      BY <2>1
    <3>2. stop' = TRUE /\ owner' = "joining" /\ tasks' = tasks
      BY DEF IInv, StopProtocol
    <3>3. QED
      BY <3>1, <3>2 DEF IInv, StopProtocol
  <2>6. NoLostWakeup'
    BY <2>1, WorkersNonEmpty DEF IInv, TypeOK, NoLostWakeup, StopProtocol
  <2>7. NoSleepAfterNotifyAll'
    BY <2>1 DEF NoSleepAfterNotifyAll, Waiting
  <2>8. QED
    BY <2>2, <2>3, <2>4, <2>5, <2>6, <2>7 DEF IInv
<1>3. CASE Join
  <2> USE <1>3 DEF Join
  <2>1. TypeOK' /\ FifoDispatch' /\ AcceptedOnce'
    BY DEF IInv, TypeOK, FifoDispatch, AcceptedOnce
  <2>2. HeldOnce' /\ TakenIsHeldOrDone'
    BY DEF IInv, HeldOnce, TakenIsHeldOrDone
  <2>3. StopProtocol'
    BY DEF IInv, StopProtocol
  <2>4. NoLostWakeup' /\ NoSleepAfterNotifyAll'
    BY DEF IInv, NoLostWakeup, NoSleepAfterNotifyAll, Waiting
  <2>5. QED
    BY <2>1, <2>2, <2>3, <2>4 DEF IInv
<1>4. QED
  BY <1>1, <1>2, <1>3 DEF OwnerStep

LEMMA NextIInv == IInv /\ [Next]_vars => IInv'
<1> SUFFICES ASSUME IInv, [Next]_vars PROVE IInv'
  OBVIOUS
<1>1. ASSUME NEW c \in Clients, NEW t \in Tasks, EnqueuePush(c, t) PROVE IInv'
  BY <1>1, EnqueuePushIInv
<1>2. ASSUME NEW c \in Clients, NEW t \in Tasks, EnqueueThrow(c, t) PROVE IInv'
  <2> USE <1>2 DEF EnqueueThrow
  <2>1. TypeOK' /\ FifoDispatch' /\ AcceptedOnce'
    BY DEF IInv, TypeOK, FifoDispatch, AcceptedOnce
  <2>2. HeldOnce' /\ TakenIsHeldOrDone'
    BY DEF IInv, HeldOnce, TakenIsHeldOrDone
  <2>3. StopProtocol' /\ NoLostWakeup' /\ NoSleepAfterNotifyAll'
    BY DEF IInv, StopProtocol, NoLostWakeup, NoSleepAfterNotifyAll, Waiting
  <2>4. QED
    BY <2>1, <2>2, <2>3 DEF IInv
<1>3. ASSUME NEW c \in Clients, NotifyOne(c) PROVE IInv'
  BY <1>3, NotifyOneIInv
<1>4. ASSUME NEW w \in Workers, WorkerStep(w) \/ SpuriousWakeup(w) PROVE IInv'
  BY <1>4, TakeIInv, FinishIInv, IdleWorkerIInv DEF WorkerStep
<1>5. CASE OwnerStep
  BY <1>5, OwnerIInv
<1>6. CASE UNCHANGED vars
  BY <1>6 DEF vars, IInv, TypeOK, FifoDispatch, AcceptedOnce, HeldOnce,
     TakenIsHeldOrDone, StopProtocol, NoLostWakeup, NoSleepAfterNotifyAll, Waiting
<1>7. QED
  BY <1>1, <1>2, <1>3, <1>4, <1>5, <1>6 DEF Next

-----------------------------------------------------------------------------
(* The theorems *)

\* The invariant the others follow from: the locked sections of enqueue, of the
\* worker loop and of the destructor keep queue, threads and histories tied.
THEOREM InductiveInvariant == Spec => []IInv
BY InitIInv, NextIInv, PTL DEF Spec

\* The members and threads of the pool keep their types.
THEOREM TypeCorrect == Spec => []TypeOK
<1>1. IInv => TypeOK
  BY DEF IInv
<1>2. QED
  BY <1>1, InductiveInvariant, PTL

\* Workers take the tasks in the order enqueue accepted them (lines 34-35, 76).
THEOREM Fifo == Spec => []FifoDispatch
<1>1. IInv => FifoDispatch
  BY DEF IInv
<1>2. QED
  BY <1>1, InductiveInvariant, PTL

\* No push is slept through, although notify_one follows the unlock (line 79),
\* and no worker sleeps through the notify_all of the destructor (line 50).
THEOREM WakeupsReachWorkers == Spec => [](NoLostWakeup /\ NoSleepAfterNotifyAll)
<1>1. IInv => NoLostWakeup /\ NoSleepAfterNotifyAll
  BY DEF IInv
<1>2. QED
  BY <1>1, InductiveInvariant, PTL

\* When every worker has returned, what was accepted is what is done.
LEMMA ExitedIsDrained ==
    ASSUME IInv, \A w \in Workers : worker[w] = "exited"
    PROVE  Range(accepted) = done
<1>1. tasks = <<>>
  BY WorkersNonEmpty DEF IInv, StopProtocol
<1>2. Range(tasks) = {}
  BY <1>1 DEF Range
<1>3. Range(accepted) = Range(started)
  BY <1>2, AcceptedRange DEF IInv
<1>4. Range(started) = done
  BY DEF IInv, TakenIsHeldOrDone
<1>5. QED
  BY <1>3, <1>4

\* The destructor drains the queue before it returns (lines 30-32 and 52-56).
\* This needs at least one worker: see WorkersNonEmpty.
THEOREM DestructorDrains == Spec => []DrainedWhenDestroyed
<1>1. IInv => DrainedWhenDestroyed
  BY ExitedIsDrained DEF IInv, StopProtocol, DrainedWhenDestroyed
<1>2. QED
  BY <1>1, InductiveInvariant, PTL

-----------------------------------------------------------------------------
(* The pool implements the task service *)

LEMMA InitRefines == Init => Service!Init
BY DEF Init, Service!Init, Phase, Range

LEMMA PushRefines ==
    ASSUME IInv, NEW c \in Clients, NEW t \in Tasks, EnqueuePush(c, t)
    PROVE  Service!Accept(t)
<1>1. owner = "using" /\ owner' = owner /\ done' = done
  BY DEF EnqueuePush, IInv, StopProtocol
<1>2. t \notin Range(accepted)
  BY DEF EnqueuePush, Fresh
<1>3. Range(accepted') = Range(accepted) \cup {t}
  BY RangeAppend DEF EnqueuePush, IInv, TypeOK
<1>4. QED
  BY <1>1, <1>2, <1>3 DEF Service!Accept, Phase

LEMMA FinishRefines ==
    ASSUME IInv, NEW w \in Workers, Finish(w)
    PROVE  Service!Complete(running[w])
<1>1. owner # "destroyed"
  BY DEF Finish, IInv, StopProtocol
<1>2. running[w] \in Range(accepted) \ done
  BY AcceptedRange DEF Finish, IInv, HeldOnce
<1>3. QED
  BY <1>1, <1>2 DEF Finish, Service!Complete, Phase

LEMMA OwnerRefines ==
    ASSUME IInv, OwnerStep
    PROVE  Service!Close \/ Service!Terminate \/ UNCHANGED Service!serviceVars
<1>1. CASE SetStop
  BY <1>1 DEF SetStop, Service!Close, Phase
<1>2. CASE NotifyAll
  BY <1>2 DEF NotifyAll, Service!serviceVars, Phase
<1>3. CASE Join
  <2>1. Range(accepted) = done
    BY <1>3, ExitedIsDrained DEF Join
  <2>2. QED
    BY <1>3, <2>1 DEF Join, Service!Terminate, Phase
<1>4. QED
  BY <1>1, <1>2, <1>3 DEF OwnerStep

LEMMA StepRefines ==
    ASSUME IInv, [Next]_vars
    PROVE  [Service!Next]_Service!serviceVars
<1>1. ASSUME NEW c \in Clients, NEW t \in Tasks, EnqueuePush(c, t)
      PROVE  Service!Next
  BY <1>1, PushRefines DEF Service!Next
<1>2. ASSUME NEW c \in Clients, NEW t \in Tasks, EnqueueThrow(c, t)
      PROVE  UNCHANGED Service!serviceVars
  BY <1>2 DEF EnqueueThrow, Service!serviceVars, Phase
<1>3. ASSUME NEW c \in Clients, NotifyOne(c)
      PROVE  UNCHANGED Service!serviceVars
  BY <1>3 DEF NotifyOne, Service!serviceVars, Phase
<1>4. ASSUME NEW w \in Workers, Finish(w)
      PROVE  Service!Next
  <2>1. running[w] \in Tasks
    BY <1>4 DEF Finish, IInv, TypeOK, HeldOnce
  <2>2. QED
    BY <1>4, <2>1, FinishRefines DEF Service!Next
<1>5. ASSUME NEW w \in Workers, Take(w) \/ Wait(w) \/ Exit(w) \/ SpuriousWakeup(w)
      PROVE  UNCHANGED Service!serviceVars
  BY <1>5 DEF Take, Wait, Exit, SpuriousWakeup, Service!serviceVars, Phase
<1>6. CASE OwnerStep
  BY <1>6, OwnerRefines DEF Service!Next
<1>7. CASE UNCHANGED vars
  BY <1>7 DEF vars, Service!serviceVars, Phase
<1>8. QED
  BY <1>1, <1>2, <1>3, <1>4, <1>5, <1>6, <1>7 DEF Next, WorkerStep

\* Every behaviour of queue, workers and condition variable is one of the
\* abstract service: enqueue's push accepts, the end of task() completes, the
\* destructor closes and, after its joins, terminates; all else is stuttering.
THEOREM PoolImplementsService == Spec => ImplementsTaskService
<1>1. Init => Service!Init
  BY InitRefines
<1>2. IInv /\ [Next]_vars => [Service!Next]_Service!serviceVars
  BY StepRefines
<1>3. QED
  BY <1>1, <1>2, InductiveInvariant, PTL DEF Spec, ImplementsTaskService, Service!Spec

=============================================================================
