------------------------------ MODULE Shutdown ------------------------------
(***************************************************************************)
(* The lifetimes of main's locals (src/main.cpp lines 85-355).  main builds *)
(* the subsystems one after the other, runs its loop until a signal, stops *)
(* them and returns, or leaves by an exception; either way the locals are  *)
(* then destroyed, the last one built first.  thread_pool is built first:  *)
(* its destructor, which runs what is still queued, comes last.            *)
(*                                                                         *)
(* A task refers to main's locals and takes time to run.  The pool is a    *)
(* FIFO whose destructor drains it, as module ThreadPool shows.  The API   *)
(* server and the dashboard enqueue nothing and are not modelled here, nor *)
(* are the collectors' own threads.                                        *)
(***************************************************************************)
EXTENDS Naturals, Sequences, FiniteSets

CONSTANTS
    Workers,      \* the threads of thread_pool
    NoTask,       \* running[w] of an idle worker
    MaxLoops,     \* bound: iterations of the main loop
    MaxPackets    \* bound: packets captured while is_capturing_ is set

VARIABLES
    standing,      \* how many of Locals are built and not yet destroyed
    keep_running,  \* the flag that the signal handler clears
    main,          \* where the main thread is
    loops,         \* iterations of the main loop
    capture,       \* the capture thread: "off", "running", "stopping", "ended"
    packets,       \* packets captured while running
    tasks,         \* the queued tasks, each by what it does
    running,       \* the task each worker runs
    accepted,      \* history: tasks enqueued
    finished       \* history: tasks run to their end

vars == <<standing, keep_running, main, loops, capture, packets,
          tasks, running, accepted, finished>>

\* In the order of their declarations.
Locals == <<"thread_pool", "database", "collectors", "packet_capture",
            "packet_analyzer", "alert_manager">>

Alive == {Locals[i] : i \in 1 .. standing}

\* What the task's lambda refers to; alert callbacks write to the database.
Touches(t) ==
    CASE t = "packet"  -> {"packet_analyzer", "database"}
      [] t = "alerts"  -> {"alert_manager", "database"}
      [] t = "metrics" -> {"collectors", "database"}
      [] t = "cleanup" -> {"database"}

Kinds == {"packet", "alerts", "metrics", "cleanup"}

ASSUME WorkersAreFinite == IsFiniteSet(Workers)
ASSUME NoTaskIsNoTask == NoTask \notin Kinds
ASSUME BoundsAreNumbers == MaxLoops \in Nat /\ MaxPackets \in Nat

Init ==
    /\ standing = 0
    /\ keep_running = TRUE
    /\ main = "starting"
    /\ loops = 0
    /\ capture = "off"
    /\ packets = 0
    /\ tasks = <<>>
    /\ running = [w \in Workers |-> NoTask]
    /\ accepted = 0
    /\ finished = 0

enqueue(t) ==
    /\ tasks' = Append(tasks, t)
    /\ accepted' = accepted + 1

poolVars == <<tasks, running, accepted, finished>>

-----------------------------------------------------------------------------
(* The main thread, up to its return *)

\* PacketCapture::startCapture with a handler registered: a thread that captures
\* or, if the interface cannot be opened, none.  main then drops capture and
\* analyzer, of which no one else has heard.
startCapture == capture' \in {"off", "running"}

\* Mutant of Build: capturing starts before there is an analyzer.
BuildCaptureEarly ==
    /\ main = "starting" /\ standing < Len(Locals)
    /\ standing' = standing + 1
    /\ IF Locals[standing + 1] = "packet_capture" THEN startCapture ELSE UNCHANGED capture
    /\ UNCHANGED <<keep_running, main, loops, packets, poolVars>>

\* The next local.  Capture and analyzer are built, and capturing started, if
\* the configuration wants it.
Build ==
    /\ main = "starting"
    /\ standing < Len(Locals)
    /\ standing' = standing + 1
    /\ IF Locals[standing + 1] = "packet_analyzer" THEN startCapture ELSE UNCHANGED capture
    /\ UNCHANGED <<keep_running, main, loops, packets, poolVars>>

\* while (keep_running), at the start and after each iteration's sleep.
LoopCheck ==
    /\ \/ main = "starting" /\ standing = Len(Locals)
       \/ main = "sleep"
    /\ \/ ~keep_running /\ main' = "stopping" /\ UNCHANGED loops
       \/ keep_running /\ loops < MaxLoops /\ main' = "alerts" /\ loops' = loops + 1
    /\ UNCHANGED <<standing, keep_running, capture, packets, poolVars>>

EnqueueAlerts ==
    /\ main = "alerts"
    /\ enqueue("alerts")
    /\ main' = "metrics"
    /\ UNCHANGED <<standing, keep_running, loops, capture, packets, running, finished>>

EnqueueMetrics ==
    /\ main = "metrics"
    /\ enqueue("metrics")
    /\ main' = "cleanup"
    /\ UNCHANGED <<standing, keep_running, loops, capture, packets, running, finished>>

\* The cleanup interval has passed or not.
EnqueueCleanup ==
    /\ main = "cleanup"
    /\ enqueue("cleanup") \/ UNCHANGED <<tasks, accepted>>
    /\ main' = "sleep"
    /\ UNCHANGED <<standing, keep_running, loops, capture, packets, running, finished>>

\* Any statement of the try block may throw; the stop calls are skipped.
Throw ==
    /\ main \in {"starting", "alerts", "metrics", "cleanup"}
    /\ standing > 0
    /\ main' = "unwinding"
    /\ UNCHANGED <<standing, keep_running, loops, capture, packets, poolVars>>

\* Mutant of stopCapture: the thread is joined before the flag is cleared.
JoinFirst == capture = "ended" /\ UNCHANGED <<capture, packets>>

\* PacketCapture::stopCapture up to its join, which ends once capture is "ended".
stopCapture ==
    /\ capture = "running"
    /\ capture' = "stopping"
    /\ UNCHANGED packets

\* The block under "// Shutdown", to its last message.
Stop ==
    /\ main = "stopping"
    /\ \/ stopCapture /\ UNCHANGED main
       \/ /\ capture \in {"off", "ended"}
          /\ main' = "complete"
          /\ UNCHANGED <<capture, packets>>
    /\ UNCHANGED <<standing, keep_running, loops, poolVars>>

-----------------------------------------------------------------------------
(* The destructors, in reverse order *)

Leaving == main \in {"complete", "unwinding"}

\* Mutant of DestroyCapture: the destructor does not stop the thread.
DestroyCaptureOnly ==
    /\ Leaving /\ standing > 0 /\ Locals[standing] = "packet_capture"
    /\ standing' = standing - 1
    /\ UNCHANGED <<capture, packets, keep_running, main, loops, poolVars>>

\* ~PacketCapture calls stopCapture.
DestroyCapture ==
    /\ Leaving /\ standing > 0 /\ Locals[standing] = "packet_capture"
    /\ \/ stopCapture /\ UNCHANGED standing
       \/ /\ capture \in {"off", "ended"}
          /\ standing' = standing - 1
          /\ UNCHANGED <<capture, packets>>
    /\ UNCHANGED <<keep_running, main, loops, poolVars>>

\* Mutant of DestroyPool: it joins the workers and forgets the queue.
DestroyPoolAtOnce ==
    /\ Leaving /\ standing = 1
    /\ \A w \in Workers : running[w] = NoTask
    /\ standing' = 0
    /\ main' = "exited"
    /\ UNCHANGED <<keep_running, loops, capture, packets, poolVars>>

\* ~ThreadPool, which returns when the workers have drained the queue and ended; a
\* pool without workers has no one to join and forgets its queue.
DestroyPool ==
    /\ Leaving /\ standing = 1
    /\ Workers # {} => tasks = <<>>
    /\ \A w \in Workers : running[w] = NoTask
    /\ standing' = 0
    /\ main' = "exited"
    /\ UNCHANGED <<keep_running, loops, capture, packets, poolVars>>

DestroyOther ==
    /\ Leaving /\ standing > 1 /\ Locals[standing] # "packet_capture"
    /\ standing' = standing - 1
    /\ UNCHANGED <<keep_running, main, loops, capture, packets, poolVars>>

-----------------------------------------------------------------------------
(* The other threads *)

Signal ==
    /\ keep_running
    /\ main # "exited"
    /\ keep_running' = FALSE
    /\ UNCHANGED <<standing, main, loops, capture, packets, poolVars>>

\* The capture thread's handler.
CapturePacket ==
    /\ capture = "running"
    /\ packets < MaxPackets
    /\ packets' = packets + 1
    /\ enqueue("packet")
    /\ UNCHANGED <<standing, keep_running, main, loops, capture, running, finished>>

\* The flag is seen after at most one more packet.
CaptureEnds ==
    /\ capture = "stopping"
    /\ capture' = "ended"
    /\ enqueue("packet") \/ UNCHANGED <<tasks, accepted>>
    /\ UNCHANGED <<standing, keep_running, main, loops, packets, running, finished>>

Take(w) ==
    /\ standing > 0
    /\ tasks # <<>>
    /\ running[w] = NoTask
    /\ running' = [running EXCEPT ![w] = Head(tasks)]
    /\ tasks' = Tail(tasks)
    /\ UNCHANGED <<standing, keep_running, main, loops, capture, packets,
                   accepted, finished>>

Finish(w) ==
    /\ running[w] # NoTask
    /\ running' = [running EXCEPT ![w] = NoTask]
    /\ finished' = finished + 1
    /\ UNCHANGED <<standing, keep_running, main, loops, capture, packets,
                   tasks, accepted>>

MainStep ==
    \/ Build \/ LoopCheck
    \/ EnqueueAlerts \/ EnqueueMetrics \/ EnqueueCleanup
    \/ Stop
    \/ DestroyCapture \/ DestroyPool \/ DestroyOther

WorkerStep(w) == Take(w) \/ Finish(w)

Next ==
    \/ MainStep
    \/ Throw
    \/ Signal
    \/ CapturePacket
    \/ CaptureEnds
    \/ \E w \in Workers : WorkerStep(w)

Spec == Init /\ [][Next]_vars

\* Running threads run, and pcap gives up a wait after its second; no packet,
\* exception or signal has to come.
FairSpec ==
    /\ Spec
    /\ WF_vars(MainStep)
    /\ WF_vars(CaptureEnds)
    /\ \A w \in Workers : WF_vars(WorkerStep(w))

-----------------------------------------------------------------------------
(* Properties *)

\* The shape of main's view of its threads.
TypeOK ==
    /\ standing \in 0 .. Len(Locals)
    /\ keep_running \in BOOLEAN
    /\ main \in {"starting", "alerts", "metrics", "cleanup", "sleep", "stopping",
                 "complete", "unwinding", "exited"}
    /\ loops \in 0 .. MaxLoops
    /\ capture \in {"off", "running", "stopping", "ended"}
    /\ packets \in 0 .. MaxPackets
    /\ tasks \in Seq(Kinds)
    /\ running \in [Workers -> Kinds \cup {NoTask}]
    /\ accepted \in Nat /\ finished \in Nat

\* The capture thread never outlives its PacketCapture, and so always finds the
\* pool it enqueues into, also when main leaves by an exception
\* (packet_capture.cpp 119-121, main.cpp 111 and 145).
CaptureThreadHasItsPool ==
    capture \in {"running", "stopping"} =>
        {"packet_capture", "thread_pool"} \subseteq Alive

\* Until main returns or throws, a task only touches what is built and not yet
\* destroyed: nothing is enqueued too early (main.cpp 148-188 and 266-323).
SafeUntilReturn ==
    ~Leaving => \A w \in Workers :
        running[w] # NoTask => Touches(running[w]) \subseteq Alive

\* The process never exits with a task that was accepted and not run, if its pool has
\* a worker at all: hardware_concurrency may be 0 (main.cpp 110-111, thread_pool.hpp
\* 44-57).
NothingDropped == main = "exited" /\ Workers # {} => finished = accepted

\* Once the shutdown is reported complete nothing is accepted any more
\* (main.cpp 343-348).
QuietAfterComplete ==
    [][main = "complete" => accepted' = accepted]_vars

\* A signal ends the process, whatever the capture thread and the workers are
\* doing (main.cpp 30-35, 271 and 325-349).
SignalEndsTheProcess == ~keep_running ~> main = "exited"

-----------------------------------------------------------------------------
(* What the code does not keep *)

\* A task only touches objects that exist.  Tasks still queued when main returns
\* run in the pool's destructor, after everything they refer to is gone; README
\* line 100 promises "robust synchronization".
TasksTouchLiveObjects ==
    \A w \in Workers :
        running[w] # NoTask => Touches(running[w]) \subseteq Alive

=============================================================================
