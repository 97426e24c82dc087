----------------------------- MODULE ThreadPool -----------------------------
(***************************************************************************)
(* utils::ThreadPool (src/core/utils/thread_pool.hpp): a FIFO of tasks     *)
(* behind one mutex and one condition variable, a fixed set of workers, a  *)
(* stop flag, and a destructor that wakes and joins the workers.           *)
(*                                                                         *)
(* A critical section under queue_mutex_ is one action.  What happens      *)
(* outside it is a step of its own: condition_.notify_one() after a push,  *)
(* notify_all() after the stop flag, the join, and the run of a task.      *)
(* condition_.wait releases the mutex and blocks in one step, and may wake *)
(* without a notification.                                                 *)
(*                                                                         *)
(* Nothing here keeps clients out of enqueue while the destructor runs:    *)
(* that is the owner's business, and module Shutdown models it.            *)
(***************************************************************************)
EXTENDS Naturals, Sequences, Functions

CONSTANTS
    Workers,   \* the threads of workers_
    Clients,   \* the threads that call enqueue
    Tasks,     \* the calls of enqueue, each made at most once
    NoTask     \* running[w] of a worker that holds no task

ASSUME WorkersNonEmpty == Workers # {}
ASSUME NoTaskIsNoTask == NoTask \notin Tasks

VARIABLES
    tasks,     \* tasks_
    stop,      \* stop_
    worker,    \* where each worker is in its loop
    running,   \* the local variable task of each worker
    client,    \* "idle", or "notify" between the push and notify_one
    owner,     \* where the thread that destroys the pool is
    accepted,  \* history: the tasks enqueue took, in that order
    started,   \* history: the tasks the workers took, in that order
    done,      \* history: the tasks that were run to the end
    refused    \* history: the tasks whose enqueue threw

vars == <<tasks, stop, worker, running, client, owner,
          accepted, started, done, refused>>

Waiting == {w \in Workers : worker[w] = "waiting"}

Init ==
    /\ tasks = <<>>
    /\ stop = FALSE
    /\ worker = [w \in Workers |-> "check"]
    /\ running = [w \in Workers |-> NoTask]
    /\ client = [c \in Clients |-> "idle"]
    /\ owner = "using"
    /\ accepted = <<>>
    /\ started = <<>>
    /\ done = {}
    /\ refused = {}

-----------------------------------------------------------------------------
(* enqueue *)

Fresh(t) == t \notin Range(accepted) \cup refused

\* Mutants of EnqueuePush: no notify_one afterwards; no look at stop_.
PushSilently(c, t) ==
    /\ client[c] = "idle" /\ Fresh(t) /\ ~stop
    /\ tasks' = Append(tasks, t)
    /\ accepted' = Append(accepted, t)
    /\ UNCHANGED <<stop, worker, running, client, owner, started, done, refused>>

PushUnchecked(c, t) ==
    /\ client[c] = "idle" /\ Fresh(t) /\ owner # "destroyed"
    /\ tasks' = Append(tasks, t)
    /\ accepted' = Append(accepted, t)
    /\ client' = [client EXCEPT ![c] = "notify"]
    /\ UNCHANGED <<stop, worker, running, owner, started, done, refused>>

\* enqueue up to the end of its critical section, the pool not stopped.
EnqueuePush(c, t) ==
    /\ client[c] = "idle"
    /\ Fresh(t)
    /\ ~stop
    /\ tasks' = Append(tasks, t)
    /\ accepted' = Append(accepted, t)
    /\ client' = [client EXCEPT ![c] = "notify"]
    /\ UNCHANGED <<stop, worker, running, owner, started, done, refused>>

\* enqueue throws: stop_ is set and the pool still exists.
EnqueueThrow(c, t) ==
    /\ client[c] = "idle"
    /\ Fresh(t)
    /\ stop
    /\ owner # "destroyed"
    /\ refused' = refused \cup {t}
    /\ UNCHANGED <<tasks, stop, worker, running, client, owner,
                   accepted, started, done>>

\* condition_.notify_one(), after the mutex was released.
NotifyOne(c) ==
    /\ client[c] = "notify"
    /\ client' = [client EXCEPT ![c] = "idle"]
    /\ IF Waiting = {}
       THEN UNCHANGED worker
       ELSE \E w \in Waiting : worker' = [worker EXCEPT ![w] = "check"]
    /\ UNCHANGED <<tasks, stop, running, owner, accepted, started, done, refused>>

-----------------------------------------------------------------------------
(* the worker loop *)

\* Mutant of Take: the newest task first.
TakeNewest(w) ==
    /\ worker[w] = "check"
    /\ tasks # <<>>
    /\ running' = [running EXCEPT ![w] = tasks[Len(tasks)]]
    /\ started' = Append(started, tasks[Len(tasks)])
    /\ tasks' = SubSeq(tasks, 1, Len(tasks) - 1)
    /\ worker' = [worker EXCEPT ![w] = "running"]
    /\ UNCHANGED <<stop, client, owner, accepted, done, refused>>

\* The predicate of wait holds and the queue is not empty: take its head.
Take(w) ==
    /\ worker[w] = "check"
    /\ tasks # <<>>
    /\ running' = [running EXCEPT ![w] = Head(tasks)]
    /\ started' = Append(started, Head(tasks))
    /\ tasks' = Tail(tasks)
    /\ worker' = [worker EXCEPT ![w] = "running"]
    /\ UNCHANGED <<stop, client, owner, accepted, done, refused>>

\* The predicate fails: block on the condition variable.
Wait(w) ==
    /\ worker[w] = "check"
    /\ tasks = <<>>
    /\ ~stop
    /\ worker' = [worker EXCEPT ![w] = "waiting"]
    /\ UNCHANGED <<tasks, stop, running, client, owner,
                   accepted, started, done, refused>>

\* stop_ and nothing left: the worker returns.
Exit(w) ==
    /\ worker[w] = "check"
    /\ tasks = <<>>
    /\ stop
    /\ worker' = [worker EXCEPT ![w] = "exited"]
    /\ UNCHANGED <<tasks, stop, running, client, owner,
                   accepted, started, done, refused>>

\* condition_.wait returns without a notification and evaluates its predicate.
SpuriousWakeup(w) ==
    /\ worker[w] = "waiting"
    /\ worker' = [worker EXCEPT ![w] = "check"]
    /\ UNCHANGED <<tasks, stop, running, client, owner,
                   accepted, started, done, refused>>

\* task() returns; a packaged_task turns an exception into its future's result.
Finish(w) ==
    /\ worker[w] = "running"
    /\ done' = done \cup {running[w]}
    /\ running' = [running EXCEPT ![w] = NoTask]
    /\ worker' = [worker EXCEPT ![w] = "check"]
    /\ UNCHANGED <<tasks, stop, client, owner, accepted, started, refused>>

-----------------------------------------------------------------------------
(* the destructor *)

SetStop ==
    /\ owner = "using"
    /\ stop' = TRUE
    /\ owner' = "stopping"
    /\ UNCHANGED <<tasks, worker, running, client, accepted, started, done, refused>>

\* Mutant of NotifyAll: notify_one in its place.
NotifyOnlyOne ==
    /\ owner = "stopping"
    /\ owner' = "joining"
    /\ IF Waiting = {}
       THEN UNCHANGED worker
       ELSE \E w \in Waiting : worker' = [worker EXCEPT ![w] = "check"]
    /\ UNCHANGED <<tasks, stop, running, client, accepted, started, done, refused>>

\* The wakeup of the destructor.
NotifyAll ==
    /\ owner = "stopping"
    /\ owner' = "joining"
    /\ worker' = [w \in Workers |-> IF w \in Waiting THEN "check" ELSE worker[w]]
    /\ UNCHANGED <<tasks, stop, running, client, accepted, started, done, refused>>

\* The last join returns and the members are destroyed.
Join ==
    /\ owner = "joining"
    /\ \A w \in Workers : worker[w] = "exited"
    /\ owner' = "destroyed"
    /\ UNCHANGED <<tasks, stop, worker, running, client,
                   accepted, started, done, refused>>

-----------------------------------------------------------------------------

WorkerStep(w) == Take(w) \/ Wait(w) \/ Exit(w) \/ Finish(w)

OwnerStep == SetStop \/ NotifyAll \/ Join

Next ==
    \/ \E c \in Clients, t \in Tasks : EnqueuePush(c, t) \/ EnqueueThrow(c, t)
    \/ \E c \in Clients : NotifyOne(c)
    \/ \E w \in Workers : WorkerStep(w) \/ SpuriousWakeup(w)
    \/ OwnerStep

\* A thread that can run does run and tasks terminate; nobody has to enqueue,
\* to start the destructor, or to wake up spuriously.
Fairness ==
    /\ \A w \in Workers : WF_vars(WorkerStep(w))
    /\ \A c \in Clients : WF_vars(NotifyOne(c))
    /\ WF_vars(NotifyAll)
    /\ WF_vars(Join)

Spec == Init /\ [][Next]_vars

FairSpec == Spec /\ Fairness

-----------------------------------------------------------------------------
(* What the pool promises its clients *)

Phase == IF owner = "using" THEN "open"
         ELSE IF owner = "destroyed" THEN "terminated"
         ELSE "closed"

Service == INSTANCE TaskService
    WITH acceptedSet <- Range(accepted), completed <- done, phase <- Phase

-----------------------------------------------------------------------------
(* Properties *)

\* The shape of the state of thread_pool.hpp's members and threads.
TypeOK ==
    /\ tasks \in Seq(Tasks)
    /\ stop \in BOOLEAN
    /\ worker \in [Workers -> {"check", "waiting", "running", "exited"}]
    /\ running \in [Workers -> Tasks \cup {NoTask}]
    /\ client \in [Clients -> {"idle", "notify"}]
    /\ owner \in {"using", "stopping", "joining", "destroyed"}
    /\ accepted \in Seq(Tasks)
    /\ started \in Seq(Tasks)
    /\ done \subseteq Tasks
    /\ refused \subseteq Tasks

\* Workers take tasks in the order enqueue accepted them, none skipped, none
\* taken twice (thread_pool.hpp lines 34-35 and 76).
FifoDispatch == accepted = started \o tasks

\* While a task is queued, somebody who will look at the queue is awake or
\* about to be woken: notify_one after the unlock (line 79) loses no wakeup.
NoLostWakeup ==
    tasks # <<>> =>
        \/ \E w \in Workers : worker[w] \in {"check", "running"}
        \/ \E c \in Clients : client[c] = "notify"
        \/ owner = "stopping"

\* Once notify_all has been called no worker can be asleep again, so every join
\* of the destructor returns (lines 27-29 and 50).
NoSleepAfterNotifyAll ==
    owner \in {"joining", "destroyed"} => Waiting = {}

\* The destructor drains: when it has joined the workers, every task whose
\* enqueue did not throw has been run to the end (lines 30-32 and 52-56).
DrainedWhenDestroyed ==
    owner = "destroyed" => Range(accepted) \subseteq done

\* The pool is a task service: it accepts only before the destructor starts,
\* runs each accepted task once, and is destroyed only when all have run.
ImplementsTaskService == Service!Spec

\* Every accepted task is eventually run to the end.
EveryTaskRuns ==
    \A t \in Tasks : t \in Range(accepted) ~> t \in done

\* A destructor that has started returns.
DestructorReturns == owner = "stopping" ~> owner = "destroyed"

=============================================================================
