--------------------------- MODULE ShutdownProofs ---------------------------
(***************************************************************************)
(* Proofs about Shutdown for any finite set of workers and any bounds.     *)
(* The inductive invariant says how far main has built or destroyed its    *)
(* locals at each place of its code (Phases), what the capture thread may  *)
(* rely on (CaptureIsHosted), that what is queued or run before main       *)
(* leaves was built before it was enqueued (WorkIsBuilt), and that the     *)
(* histories of tasks add up (WorkAddsUp).                                 *)
(***************************************************************************)
EXTENDS Shutdown, DataLemmas, FiniteSetTheorems

InLoop == {"alerts", "metrics", "cleanup", "sleep", "stopping"}

\* The workers that run a task.
Busy == {w \in Workers : running[w] # NoTask}

\* The last of the locals that a task of kind t refers to.
LastTouched == [packet |-> 5, alerts |-> 6, metrics |-> 3, cleanup |-> 2]

\* main has left its try block, or the process.
Left == Leaving \/ main = "exited"

\* In the loop everything stands; main exits when it has destroyed everything and no
\* task runs, nor waits unless there is no one to run it.
Phases ==
    /\ main \in InLoop => standing = 6
    /\ Leaving => standing >= 1
    /\ main = "exited" => standing = 0 /\ Busy = {} /\ (Workers # {} => tasks = <<>>)

\* Capture starts with the analyzer, ends before its own object goes, and has
\* ended when the shutdown is complete.
CaptureIsHosted ==
    /\ main \in {"starting"} \cup InLoop /\ capture # "off" => standing >= 5
    /\ capture \in {"running", "stopping"} => standing >= 4
    /\ main = "complete" => capture \in {"off", "ended"}

\* What tasks refer to was built before they were enqueued.
WorkIsBuilt ==
    ~Left =>
        /\ \A t \in Range(tasks) : LastTouched[t] <= standing
        /\ \A w \in Busy : LastTouched[running[w]] <= standing

\* Every accepted task is queued, run by a worker, or finished.
WorkAddsUp == accepted = finished + Len(tasks) + Cardinality(Busy)

IInv ==
    /\ TypeOK
    /\ Phases
    /\ CaptureIsHosted
    /\ WorkIsBuilt
    /\ WorkAddsUp

-----------------------------------------------------------------------------
(* Facts about one state *)

\* The first n locals stand when n are built.
LEMMA LocalsStand ==
    ASSUME TypeOK
    PROVE  /\ standing >= 1 => "thread_pool" \in Alive
           /\ standing >= 2 => "database" \in Alive
           /\ standing >= 3 => "collectors" \in Alive
           /\ standing >= 4 => "packet_capture" \in Alive
           /\ standing >= 5 => "packet_analyzer" \in Alive
           /\ standing >= 6 => "alert_manager" \in Alive
<1>1. standing \in Nat /\ standing <= 6
  BY DEF TypeOK, Locals
<1>2. \A i \in 1 .. standing : Locals[i] \in Alive
  BY DEF Alive
<1>3. QED
  BY <1>1, <1>2 DEF Locals

\* What a task refers to stands if the last of it does.
LEMMA BuiltMeansAlive ==
    ASSUME TypeOK, NEW t \in Kinds, LastTouched[t] <= standing
    PROVE  Touches(t) \subseteq Alive
<1>1. standing \in Nat
  BY DEF TypeOK
<1>2. CASE t = "packet"
  BY <1>1, <1>2, LocalsStand DEF LastTouched, Touches
<1>3. CASE t = "alerts"
  BY <1>1, <1>3, LocalsStand DEF LastTouched, Touches
<1>4. CASE t = "metrics"
  BY <1>1, <1>4, LocalsStand DEF LastTouched, Touches
<1>5. CASE t = "cleanup"
  BY <1>1, <1>5, LocalsStand DEF LastTouched, Touches
<1>6. QED
  BY <1>2, <1>3, <1>4, <1>5 DEF Kinds

\* The busy workers can be counted.
LEMMA BusyIsFinite == IsFiniteSet(Busy) /\ Cardinality(Busy) \in Nat
<1>1. Busy \subseteq Workers
  BY DEF Busy
<1>2. IsFiniteSet(Busy)
  BY <1>1, WorkersAreFinite, FS_Subset
<1>3. QED
  BY <1>2, FS_CardinalityType

-----------------------------------------------------------------------------
(* The initial state *)

LEMMA InitIInv == Init => IInv
<1> SUFFICES ASSUME Init PROVE IInv
  OBVIOUS
<1> USE DEF Init
<1>1. Busy = {} /\ Range(tasks) = {} /\ Len(tasks) = 0 /\ tasks \in Seq(Kinds)
  BY DEF Busy, Range
<1>2. TypeOK
  BY <1>1, BoundsAreNumbers DEF TypeOK, Locals
<1>3. Phases /\ CaptureIsHosted /\ WorkIsBuilt
  BY <1>1 DEF Phases, CaptureIsHosted, WorkIsBuilt, InLoop, Left, Leaving
<1>4. WorkAddsUp
  BY <1>1, FS_EmptySet DEF WorkAddsUp
<1>5. QED
  BY <1>2, <1>3, <1>4 DEF IInv

-----------------------------------------------------------------------------
(* What an enqueue and an untouched pool keep *)

\* Accepting a task whose objects stand.
LEMMA EnqueueKeeps ==
    ASSUME IInv, NEW t \in Kinds, enqueue(t), UNCHANGED <<running, finished>>,
           standing' = standing,
           ~Left' => ~Left /\ LastTouched[t] <= standing
    PROVE  /\ WorkIsBuilt' /\ WorkAddsUp'
           /\ tasks' \in Seq(Kinds) /\ accepted' \in Nat
<1> USE DEF enqueue
<1>1. tasks \in Seq(Kinds) /\ accepted \in Nat /\ finished \in Nat
  BY DEF IInv, TypeOK
<1>2. /\ tasks' \in Seq(Kinds)
      /\ Len(tasks') = Len(tasks) + 1
      /\ Len(tasks) \in Nat
  BY <1>1, AppendProperties, LenProperties
<1>3. Range(tasks') = Range(tasks) \cup {t}
  BY <1>1, RangeAppend
<1>4. Busy' = Busy
  BY DEF Busy
<1>5. WorkIsBuilt'
  BY <1>3, <1>4 DEF IInv, WorkIsBuilt
<1>6. WorkAddsUp'
  BY <1>1, <1>2, <1>4, BusyIsFinite DEF IInv, WorkAddsUp
<1>7. QED
  BY <1>1, <1>2, <1>5, <1>6

\* A step that leaves the pool alone and destroys nothing before main leaves.
LEMMA QuietPool ==
    ASSUME IInv, UNCHANGED poolVars,
           ~Left' => ~Left /\ standing <= standing',
           standing' \in Nat
    PROVE  WorkIsBuilt' /\ WorkAddsUp' /\ Busy' = Busy
<1> USE DEF poolVars
<1>1. Busy' = Busy
  BY DEF Busy
<1>2. WorkAddsUp'
  BY <1>1 DEF IInv, WorkAddsUp
<1>3. \A t \in Kinds : LastTouched[t] \in Nat
  BY DEF LastTouched, Kinds
<1>4. /\ \A t \in Range(tasks) : t \in Kinds
      /\ \A w \in Busy : running[w] \in Kinds
  BY RangeEquality, ElementOfSeq DEF IInv, TypeOK, Busy
<1>5. standing \in Nat
  BY DEF IInv, TypeOK
<1>6. WorkIsBuilt'
  <2> SUFFICES ASSUME ~Left' PROVE WorkIsBuilt'
    BY DEF WorkIsBuilt
  <2>1. /\ \A t \in Range(tasks) : LastTouched[t] <= standing
        /\ \A w \in Busy : LastTouched[running[w]] <= standing
    BY DEF IInv, WorkIsBuilt
  <2>2. /\ \A t \in Range(tasks) : LastTouched[t] <= standing'
        /\ \A w \in Busy : LastTouched[running[w]] <= standing'
    BY <2>1, <1>3, <1>4, <1>5
  <2>3. QED
    BY <2>2, <1>1 DEF WorkIsBuilt
<1>7. QED
  BY <1>1, <1>2, <1>6

-----------------------------------------------------------------------------
(* One lemma per action *)

LEMMA BuildIInv ==
    ASSUME IInv, Build
    PROVE  IInv'
<1> USE DEF Build
<1>1. standing \in Nat /\ standing < 6 /\ standing' = standing + 1
  BY DEF IInv, TypeOK, Locals
<1>2. \/ standing = 4 /\ startCapture
      \/ standing # 4 /\ capture' = capture
  BY <1>1 DEF Locals
<1>3. TypeOK'
  BY <1>1, <1>2 DEF IInv, TypeOK, Locals, startCapture, poolVars
<1>4. WorkIsBuilt' /\ WorkAddsUp' /\ Busy' = Busy
  BY <1>1, QuietPool DEF Left, Leaving
<1>5. Phases'
  BY <1>1, <1>4 DEF IInv, Phases, InLoop, Leaving
<1>6. CaptureIsHosted'
  BY <1>1, <1>2 DEF IInv, CaptureIsHosted, InLoop, startCapture
<1>7. QED
  BY <1>3, <1>4, <1>5, <1>6 DEF IInv

LEMMA LoopCheckIInv ==
    ASSUME IInv, LoopCheck
    PROVE  IInv'
<1> USE DEF LoopCheck
<1>1. standing = 6 /\ standing' = standing
  BY DEF IInv, Phases, InLoop, Locals
<1>2. main' \in {"stopping", "alerts"} /\ main \in {"starting", "sleep"}
  OBVIOUS
<1>3. TypeOK'
  BY BoundsAreNumbers DEF IInv, TypeOK, poolVars
<1>4. WorkIsBuilt' /\ WorkAddsUp' /\ Busy' = Busy
  BY <1>1, <1>2, QuietPool DEF Left, Leaving
<1>5. Phases'
  BY <1>1, <1>2, <1>4 DEF IInv, Phases, InLoop, Leaving
<1>6. CaptureIsHosted'
  BY <1>1, <1>2 DEF IInv, CaptureIsHosted
<1>7. QED
  BY <1>3, <1>4, <1>5, <1>6 DEF IInv

\* The three enqueues of an iteration, one of which may be left out.
LEMMA EnqueueTasksIInv ==
    ASSUME IInv, EnqueueAlerts \/ EnqueueMetrics \/ EnqueueCleanup
    PROVE  IInv'
<1> USE DEF EnqueueAlerts, EnqueueMetrics, EnqueueCleanup
<1>1. /\ main \in InLoop /\ main' \in InLoop
      /\ standing = 6 /\ standing' = standing
      /\ UNCHANGED <<keep_running, loops, capture, packets, running, finished>>
  BY DEF IInv, Phases, InLoop
<1>2. \/ \E t \in Kinds : enqueue(t)
      \/ UNCHANGED <<tasks, accepted>>
  BY DEF Kinds
<1>3. WorkIsBuilt' /\ WorkAddsUp' /\ tasks' \in Seq(Kinds) /\ accepted' \in Nat
  <2>1. ~Left /\ ~Left'
    BY <1>1 DEF InLoop, Left, Leaving
  <2>2. CASE \E t \in Kinds : enqueue(t)
    <3>1. PICK t \in Kinds : enqueue(t)
      BY <2>2
    <3>2. LastTouched[t] <= standing
      BY <1>1 DEF LastTouched, Kinds
    <3>3. QED
      BY <1>1, <2>1, <3>1, <3>2, EnqueueKeeps
  <2>3. CASE UNCHANGED <<tasks, accepted>>
    BY <1>1, <2>1, <2>3, QuietPool DEF poolVars, IInv, TypeOK
  <2>4. QED
    BY <1>2, <2>2, <2>3
<1>4. TypeOK'
  BY <1>1, <1>3 DEF IInv, TypeOK, InLoop
<1>5. Phases'
  BY <1>1 DEF IInv, Phases, InLoop, Leaving
<1>6. CaptureIsHosted'
  BY <1>1 DEF IInv, CaptureIsHosted, InLoop
<1>7. QED
  BY <1>3, <1>4, <1>5, <1>6 DEF IInv

LEMMA ThrowIInv ==
    ASSUME IInv, Throw
    PROVE  IInv'
<1> USE DEF Throw
<1>1. standing \in Nat /\ standing >= 1 /\ standing' = standing /\ Leaving'
  BY DEF IInv, TypeOK, Leaving
<1>2. WorkIsBuilt' /\ WorkAddsUp' /\ Busy' = Busy
  BY <1>1, QuietPool DEF Left
<1>3. TypeOK'
  BY DEF IInv, TypeOK, poolVars
<1>4. Phases' /\ CaptureIsHosted'
  BY <1>1, <1>2 DEF IInv, Phases, CaptureIsHosted, InLoop
<1>5. QED
  BY <1>2, <1>3, <1>4 DEF IInv

LEMMA StopIInv ==
    ASSUME IInv, Stop
    PROVE  IInv'
<1> USE DEF Stop, stopCapture
<1>1. standing = 6 /\ standing' = standing /\ main = "stopping"
  BY DEF IInv, Phases, InLoop
<1>2. \/ capture = "running" /\ capture' = "stopping" /\ main' = main
      \/ capture \in {"off", "ended"} /\ capture' = capture /\ main' = "complete"
  OBVIOUS
<1>3. WorkIsBuilt' /\ WorkAddsUp' /\ Busy' = Busy
  BY <1>1, <1>2, QuietPool DEF Left, Leaving
<1>4. TypeOK'
  BY <1>2 DEF IInv, TypeOK, poolVars
<1>5. Phases' /\ CaptureIsHosted'
  BY <1>1, <1>2, <1>3 DEF IInv, Phases, CaptureIsHosted, InLoop, Leaving
<1>6. QED
  BY <1>3, <1>4, <1>5 DEF IInv

\* The destructors: the capture's own waits for its thread, the pool's for its tasks.
LEMMA DestroyIInv ==
    ASSUME IInv, DestroyCapture \/ DestroyOther \/ DestroyPool
    PROVE  IInv'
<1>1. CASE DestroyCapture
  <2> USE <1>1 DEF DestroyCapture, stopCapture
  <2>1. /\ standing = 4 /\ main' = main /\ Leaving /\ Leaving'
        /\ standing' \in {3, 4}
    BY DEF IInv, TypeOK, Locals, Leaving
  <2>2. \/ capture = "running" /\ capture' = "stopping" /\ standing' = 4
        \/ capture \in {"off", "ended"} /\ capture' = capture /\ standing' = 3
    BY <2>1
  <2>3. WorkIsBuilt' /\ WorkAddsUp' /\ Busy' = Busy
    BY <2>1, QuietPool DEF Left
  <2>4. TypeOK'
    BY <2>1, <2>2 DEF IInv, TypeOK, Locals, poolVars
  <2>5. Phases' /\ CaptureIsHosted'
    BY <2>1, <2>2, <2>3 DEF IInv, Phases, CaptureIsHosted, InLoop, Leaving
  <2>6. QED
    BY <2>3, <2>4, <2>5 DEF IInv
<1>2. CASE DestroyOther
  <2> USE <1>2 DEF DestroyOther
  <2>1. /\ standing \in {2, 3, 5, 6} /\ standing' = standing - 1
        /\ main' = main /\ Leaving /\ Leaving' /\ capture' = capture
    BY DEF IInv, TypeOK, Locals, Leaving
  <2>2. WorkIsBuilt' /\ WorkAddsUp' /\ Busy' = Busy
    BY <2>1, QuietPool DEF Left
  <2>3. TypeOK'
    BY <2>1 DEF IInv, TypeOK, Locals, poolVars
  <2>4. Phases' /\ CaptureIsHosted'
    BY <2>1, <2>2 DEF IInv, Phases, CaptureIsHosted, InLoop, Leaving
  <2>5. QED
    BY <2>2, <2>3, <2>4 DEF IInv
<1>3. CASE DestroyPool
  <2> USE <1>3 DEF DestroyPool
  <2>1. /\ Busy' = {} /\ Busy = {} /\ Left'
        /\ Workers # {} => tasks' = <<>>
    BY DEF Busy, poolVars, Left
  <2>2. TypeOK'
    BY DEF IInv, TypeOK, Locals, poolVars
  <2>3. Phases' /\ CaptureIsHosted'
    BY <2>1 DEF IInv, TypeOK, Phases, CaptureIsHosted, InLoop, Leaving
  <2>4. WorkIsBuilt' /\ WorkAddsUp'
    BY <2>1 DEF IInv, WorkIsBuilt, WorkAddsUp, poolVars
  <2>5. QED
    BY <2>2, <2>3, <2>4 DEF IInv
<1>4. QED
  BY <1>1, <1>2, <1>3

LEMMA SignalIInv ==
    ASSUME IInv, Signal
    PROVE  IInv'
<1> USE DEF Signal
<1>1. WorkIsBuilt' /\ WorkAddsUp' /\ Busy' = Busy
  BY QuietPool DEF IInv, TypeOK, Left, Leaving
<1>2. TypeOK' /\ Phases' /\ CaptureIsHosted'
  BY <1>1 DEF IInv, TypeOK, Phases, CaptureIsHosted, InLoop, Leaving, poolVars
<1>3. QED
  BY <1>1, <1>2 DEF IInv

\* The capture thread enqueues only while its capture and the analyzer stand, or
\* main is already leaving.
LEMMA CaptureIInv ==
    ASSUME IInv, CapturePacket \/ CaptureEnds
    PROVE  IInv'
<1> USE DEF CapturePacket, CaptureEnds
<1>1. /\ capture \in {"running", "stopping"} /\ capture' \in {capture, "ended"}
      /\ UNCHANGED <<standing, keep_running, main, loops, running, finished>>
      /\ enqueue("packet") \/ UNCHANGED <<tasks, accepted>>
  OBVIOUS
<1>2. standing \in Nat /\ standing >= 4 /\ main # "exited" /\ main # "complete"
  BY <1>1 DEF IInv, TypeOK, CaptureIsHosted, Phases
<1>3. ~Left => LastTouched["packet"] <= standing
  BY <1>1, <1>2 DEF IInv, TypeOK, CaptureIsHosted, InLoop, Left, Leaving, LastTouched
<1>4. WorkIsBuilt' /\ WorkAddsUp' /\ tasks' \in Seq(Kinds) /\ accepted' \in Nat
  <2>1. CASE enqueue("packet")
    BY <1>1, <1>3, <2>1, EnqueueKeeps DEF Kinds, Left, Leaving
  <2>2. CASE UNCHANGED <<tasks, accepted>>
    BY <1>1, <1>2, <2>2, QuietPool DEF poolVars, IInv, TypeOK, Left, Leaving
  <2>3. QED
    BY <1>1, <2>1, <2>2
<1>5. TypeOK'
  BY <1>1, <1>4, BoundsAreNumbers DEF IInv, TypeOK
<1>6. Phases'
  BY <1>1, <1>2 DEF IInv, Phases, Leaving
<1>7. CaptureIsHosted'
  BY <1>1, <1>2 DEF IInv, CaptureIsHosted
<1>8. QED
  BY <1>4, <1>5, <1>6, <1>7 DEF IInv

LEMMA TakeIInv ==
    ASSUME IInv, NEW w \in Workers, Take(w)
    PROVE  IInv'
<1> USE DEF Take
<1>1. /\ Head(tasks) \in Kinds /\ tasks' \in Seq(Kinds)
      /\ Len(tasks') = Len(tasks) - 1 /\ Len(tasks) \in Nat
  BY HeadTailProperties, LenProperties, EmptySeq DEF IInv, TypeOK
<1>2. Range(tasks) = {Head(tasks)} \cup Range(tasks')
  BY RangeHeadTail DEF IInv, TypeOK
<1>3. w \notin Busy /\ Busy' = Busy \cup {w} /\ running'[w] = Head(tasks)
  BY <1>1, NoTaskIsNoTask DEF IInv, TypeOK, Busy
<1>4. TypeOK'
  BY <1>1 DEF IInv, TypeOK
<1>5. Phases'
  BY DEF IInv, TypeOK, Phases, Leaving
<1>6. CaptureIsHosted'
  BY DEF IInv, CaptureIsHosted
<1>7. WorkIsBuilt'
  BY <1>2, <1>3 DEF IInv, TypeOK, WorkIsBuilt, Left, Leaving, Busy
<1>8. WorkAddsUp'
  <2>1. Cardinality(Busy') = Cardinality(Busy) + 1
    BY <1>3, BusyIsFinite, FS_AddElement
  <2>2. QED
    BY <1>1, <2>1, BusyIsFinite DEF IInv, TypeOK, WorkAddsUp
<1>9. QED
  BY <1>4, <1>5, <1>6, <1>7, <1>8 DEF IInv

LEMMA FinishIInv ==
    ASSUME IInv, NEW w \in Workers, Finish(w)
    PROVE  IInv'
<1> USE DEF Finish
<1>1. w \in Busy /\ Busy' = Busy \ {w}
  BY DEF IInv, TypeOK, Busy
<1>2. TypeOK'
  BY DEF IInv, TypeOK
<1>3. Phases'
  BY <1>1 DEF IInv, Phases, Leaving
<1>4. CaptureIsHosted'
  BY DEF IInv, CaptureIsHosted
<1>5. WorkIsBuilt'
  BY <1>1 DEF IInv, TypeOK, WorkIsBuilt, Left, Leaving, Busy
<1>6. WorkAddsUp'
  <2>1. Cardinality(Busy') = Cardinality(Busy) - 1
    BY <1>1, BusyIsFinite, FS_RemoveElement
  <2>2. QED
    BY <2>1, BusyIsFinite, LenProperties DEF IInv, TypeOK, WorkAddsUp
<1>7. QED
  BY <1>2, <1>3, <1>4, <1>5, <1>6 DEF IInv

LEMMA NextIInv == IInv /\ [Next]_vars => IInv'
<1> SUFFICES ASSUME IInv, [Next]_vars PROVE IInv'
  OBVIOUS
<1>1. CASE MainStep
  BY <1>1, BuildIInv, LoopCheckIInv, EnqueueTasksIInv, StopIInv, DestroyIInv DEF MainStep
<1>2. CASE Throw
  BY <1>2, ThrowIInv
<1>3. CASE Signal
  BY <1>3, SignalIInv
<1>4. CASE CapturePacket \/ CaptureEnds
  BY <1>4, CaptureIInv
<1>5. ASSUME NEW w \in Workers, WorkerStep(w) PROVE IInv'
  BY <1>5, TakeIInv, FinishIInv DEF WorkerStep
<1>6. CASE UNCHANGED vars
  BY <1>6 DEF vars, IInv, TypeOK, Phases, CaptureIsHosted, WorkIsBuilt, WorkAddsUp,
     Busy, Left, Leaving
<1>7. QED
  BY <1>1, <1>2, <1>3, <1>4, <1>5, <1>6 DEF Next

-----------------------------------------------------------------------------
(* The theorems *)

\* The invariant the others follow from: how far main has built or destroyed what
\* its threads use (main.cpp lines 85-355).
THEOREM InductiveInvariant == Spec => []IInv
BY InitIInv, NextIInv, PTL DEF Spec

\* main, its threads and its tasks keep their types.
THEOREM TypeCorrect == Spec => []TypeOK
<1>1. IInv => TypeOK
  BY DEF IInv
<1>2. QED
  BY <1>1, InductiveInvariant, PTL

\* A capture thread has its capture and its pool, also when main leaves by an
\* exception (packet_capture.cpp 119-121).
THEOREM CaptureIsSafe == Spec => []CaptureThreadHasItsPool
<1>1. IInv => CaptureThreadHasItsPool
  BY LocalsStand DEF IInv, TypeOK, CaptureIsHosted, CaptureThreadHasItsPool
<1>2. QED
  BY <1>1, InductiveInvariant, PTL

\* No task runs before what it refers to is built (main.cpp 148-188, 266-323).
THEOREM TasksAreSafe == Spec => []SafeUntilReturn
<1>1. ASSUME IInv PROVE SafeUntilReturn
  <2> SUFFICES ASSUME ~Leaving, NEW w \in Workers, running[w] # NoTask
               PROVE  Touches(running[w]) \subseteq Alive
    BY DEF SafeUntilReturn
  <2>1. w \in Busy /\ running[w] \in Kinds /\ ~Left
    BY <1>1 DEF Busy, IInv, TypeOK, Phases, Left
  <2>2. LastTouched[running[w]] <= standing
    BY <1>1, <2>1 DEF IInv, WorkIsBuilt
  <2>3. QED
    BY <1>1, <2>1, <2>2, BuiltMeansAlive DEF IInv
<1>2. QED
  BY <1>1, InductiveInvariant, PTL

\* A process that has exited ran every task it accepted, if its pool has a worker
\* (thread_pool.hpp 44-57).
THEOREM EverythingRan == Spec => []NothingDropped
<1>1. ASSUME IInv, main = "exited", Workers # {} PROVE finished = accepted
  <2>1. Len(tasks) = 0 /\ Cardinality(Busy) = 0
    BY <1>1, FS_EmptySet DEF IInv, Phases
  <2>2. QED
    BY <1>1, <2>1 DEF IInv, TypeOK, WorkAddsUp
<1>2. IInv => NothingDropped
  BY <1>1 DEF NothingDropped
<1>3. QED
  BY <1>2, InductiveInvariant, PTL

\* Nothing is accepted once the shutdown is reported complete (main.cpp 343-348).
THEOREM CompleteIsQuiet == Spec => QuietAfterComplete
<1>1. ASSUME IInv, [Next]_vars, main = "complete" PROVE accepted' = accepted
  <2>1. capture \in {"off", "ended"}
    BY <1>1 DEF IInv, CaptureIsHosted
  <2>2. CASE MainStep
    BY <1>1, <2>2 DEF MainStep, Build, LoopCheck, EnqueueAlerts, EnqueueMetrics,
       EnqueueCleanup, Stop, DestroyCapture, DestroyPool, DestroyOther, poolVars
  <2>3. ASSUME NEW w \in Workers, WorkerStep(w) PROVE accepted' = accepted
    BY <2>3 DEF WorkerStep, Take, Finish
  <2>4. CASE Throw \/ Signal \/ CapturePacket \/ CaptureEnds \/ UNCHANGED vars
    BY <2>1, <2>4, <1>1 DEF Throw, Signal, CapturePacket, CaptureEnds, poolVars, vars
  <2>5. QED
    BY <1>1, <2>2, <2>3, <2>4 DEF Next
<1>2. QED
  BY <1>1, InductiveInvariant, PTL DEF Spec, QuietAfterComplete

=============================================================================
