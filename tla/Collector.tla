------------------------------ MODULE Collector ------------------------------
(***************************************************************************)
(* collectors::CollectorBase (src/core/collectors/collector_base.hpp) with *)
(* the CpuCollector derived from it (cpu_collector.cpp): a running flag, a *)
(* thread that collects and sleeps until the flag is cleared, and the      *)
(* readings of /proc/stat of which two in a row give the usage of a core.  *)
(*                                                                         *)
(* /proc/stat lists the cores that are online, in the order of their       *)
(* numbers, and cores go off and on line while the program runs.  The i-th *)
(* metric is computed from the i-th entries, so that what matters of a     *)
(* reading is which core each entry is of.  A reading that fails has no    *)
(* core.  One thread, main, calls start, stop and the destructor; the      *)
(* interval is slept in slices.                                            *)
(***************************************************************************)
EXTENDS Naturals, Sequences, FiniteSets

CONSTANTS
    Cores,       \* the numbers of the machine's cores
    NoCore,      \* what an entry past the end of a reading is of
    Slices,      \* slices of 100 ms in interval_
    MaxThreads   \* bound: threads started in a behaviour

ASSUME CoresAreNumbers == Cores \subseteq Nat /\ IsFiniteSet(Cores)
ASSUME NoCoreIsNoCore == NoCore \notin Cores
ASSUME ThreadsAreCounted == MaxThreads \in Nat

VARIABLES
    online,         \* the cores that are online
    core_usage,     \* core_usage_: the core each entry of the last two readings
                    \* used for a metric was of, earlier and later
    prev_stats,     \* prev_stats_ without its first line, the total of all cores
    curr_stats,     \* the same of a collecting thread's local
    running,        \* running_
    worker_thread,  \* the joinable thread of worker_thread_, 0 for none
    thread,         \* where each thread is: a step, and slices slept
    started,        \* history: threads started
    owner,          \* main: "free", in the join of "stopping", in the destructor before
                    \* its stop, "unwinding", or in its join, "leaving"; "gone", the
                    \* collector or the program
    since,          \* history: cores gone on or off line since the last reading
    between         \* history: the same between the two readings being compared

collectorVars ==
    <<online, core_usage, prev_stats, curr_stats, running, worker_thread,
      thread, started, owner, since, between>>

statsVars == <<core_usage, prev_stats, curr_stats, between>>

WorkerThreads == 1 .. MaxThreads

\* readCpuStats: one entry for every core online, by number, or none if /proc/stat
\* could not be read.
ReadingOf(cores) ==
    CHOOSE r \in [1 .. Cardinality(cores) -> cores] : \A i, j \in DOMAIN r : i < j => r[i] < r[j]

Readings == {ReadingOf(online), ReadingOf({})}

Doing(t, step) == thread[t].step = step

Go(t, step) == thread' = [thread EXCEPT ![t] = [step |-> step, slept |-> 0]]

\* The constructor: one metric for every core of its reading.
CollectorInit ==
    /\ online \in SUBSET Cores \ {{}}
    /\ prev_stats \in Readings
    /\ core_usage = [i \in DOMAIN prev_stats |-> <<prev_stats[i], prev_stats[i]>>]
    /\ curr_stats = <<>>
    /\ running = FALSE
    /\ worker_thread = 0
    /\ thread = [t \in WorkerThreads |-> [step |-> "none", slept |-> 0]]
    /\ started = 0
    /\ owner = "free"
    /\ since = 0
    /\ between = 0

-----------------------------------------------------------------------------
(* start, stop and the destructor *)

\* start of a collector that does not run; no thread may be joinable, or the
\* assignment to worker_thread_ ends the program.
start ==
    /\ owner = "free"
    /\ ~running
    /\ worker_thread = 0
    /\ started < MaxThreads
    /\ running' = TRUE
    /\ started' = started + 1
    /\ worker_thread' = started'
    /\ Go(started', "check")
    /\ UNCHANGED <<online, statsVars, owner, since>>

\* Mutant of stop: the thread is not told.
StopUntold ==
    /\ owner = "free" /\ running
    /\ owner' = "stopping"
    /\ UNCHANGED <<online, statsVars, running, worker_thread, thread, started, since>>

\* stop of a collector that runs, up to its join.
stop ==
    /\ owner = "free"
    /\ running
    /\ running' = FALSE
    /\ owner' = "stopping"
    /\ UNCHANGED <<online, statsVars, worker_thread, thread, started, since>>

\* Mutant of Join: main does not wait for the thread.
Detach ==
    /\ owner \in {"stopping", "leaving"}
    /\ worker_thread' = 0
    /\ owner' = IF owner = "stopping" THEN "free" ELSE "gone"
    /\ UNCHANGED <<online, statsVars, running, thread, started, since>>

Join ==
    /\ owner \in {"stopping", "leaving"}
    /\ worker_thread # 0 => Doing(worker_thread, "ended")
    /\ worker_thread' = 0
    /\ owner' = IF owner = "stopping" THEN "free" ELSE "gone"
    /\ UNCHANGED <<online, statsVars, running, thread, started, since>>

\* ~CpuCollector, which destroys its members, up to the stop of ~CollectorBase,
\* which does nothing to a collector that does not run.
destroy ==
    /\ owner = "free"
    /\ owner' = IF running THEN "unwinding" ELSE "gone"
    /\ core_usage' = <<>> /\ prev_stats' = <<>>
    /\ UNCHANGED <<online, curr_stats, between, running, worker_thread, thread, started, since>>

\* ~CollectorBase of a collector that runs, up to its join.
StopInDestructor ==
    /\ owner = "unwinding"
    /\ running' = FALSE
    /\ owner' = "leaving"
    /\ UNCHANGED <<online, statsVars, worker_thread, thread, started, since>>

\* The members of the derived class are gone, and with them its collect.
DerivedGone == owner \in {"unwinding", "leaving"}

-----------------------------------------------------------------------------
(* The collecting thread *)

\* while (running_), before each collection.
CheckRunning(t) ==
    /\ Doing(t, "check")
    /\ Go(t, IF running THEN "collect" ELSE "ended")
    /\ UNCHANGED <<online, statsVars, running, worker_thread, started, owner, since>>

\* The first statement of collect.
Read(t) ==
    /\ Doing(t, "collect") /\ ~DerivedGone
    /\ curr_stats' \in Readings
    /\ between' = since
    /\ since' = 0
    /\ Go(t, "compare")
    /\ UNCHANGED <<online, core_usage, prev_stats, running, worker_thread, started, owner>>

\* The core of the i-th entry.
Entry(stats, i) == IF i \in DOMAIN stats THEN stats[i] ELSE NoCore

Usage == [i \in DOMAIN core_usage |-> <<Entry(prev_stats, i), Entry(curr_stats, i)>>]

\* Mutants of Update: the sizes are not compared; a reading of another size is
\* not kept.
UpdateUncompared(t) ==
    /\ Doing(t, "compare") /\ ~DerivedGone
    /\ core_usage' = Usage
    /\ prev_stats' = curr_stats
    /\ curr_stats' = <<>> /\ between' = 0
    /\ Go(t, "sleep")
    /\ UNCHANGED <<online, running, worker_thread, started, owner, since>>

UpdateKeepingOld(t) ==
    /\ Doing(t, "compare") /\ ~DerivedGone
    /\ IF Len(curr_stats) = Len(prev_stats)
       THEN core_usage' = Usage /\ prev_stats' = curr_stats
       ELSE UNCHANGED <<core_usage, prev_stats>>
    /\ curr_stats' = <<>> /\ between' = 0
    /\ Go(t, "sleep")
    /\ UNCHANGED <<online, running, worker_thread, started, owner, since>>

\* The rest of collect: two readings of one size give the usage of the cores.
Update(t) ==
    /\ Doing(t, "compare") /\ ~DerivedGone
    /\ core_usage' = IF Len(curr_stats) = Len(prev_stats) THEN Usage ELSE core_usage
    /\ prev_stats' = curr_stats
    /\ curr_stats' = <<>> /\ between' = 0
    /\ Go(t, "sleep")
    /\ UNCHANGED <<online, running, worker_thread, started, owner, since>>

\* The thread collects though the derived class is gone: undefined behaviour, of
\* which this is the outcome that goes on.  Nobody reads the members any more.
CollectFromNothing(t) ==
    /\ Doing(t, "collect") \/ Doing(t, "compare")
    /\ DerivedGone
    /\ curr_stats' = <<>> /\ between' = 0
    /\ Go(t, "sleep")
    /\ UNCHANGED <<online, core_usage, prev_stats, running, worker_thread, started, owner,
                   since>>

\* An entry past the end of a reading is read: undefined behaviour, of which
\* Update is the outcome that goes on.
ReadsPastTheEnd(t) ==
    /\ Doing(t, "compare")
    /\ Len(curr_stats) = Len(prev_stats)
    /\ Len(curr_stats) < Len(core_usage)

\* The outcome of both that ends the program.
Crash(t) ==
    /\ \/ ReadsPastTheEnd(t)
       \/ DerivedGone /\ (Doing(t, "collect") \/ Doing(t, "compare"))
    /\ running' = FALSE
    /\ worker_thread' = 0
    /\ owner' = "gone"
    /\ Go(t, "ended")
    /\ UNCHANGED <<online, statsVars, started, since>>

\* The inner loop, left when the flag is cleared or the interval is over.
Sleep(t) ==
    /\ Doing(t, "sleep")
    /\ IF running /\ thread[t].slept < Slices
       THEN thread' = [thread EXCEPT ![t].slept = @ + 1]
       ELSE Go(t, "check")
    /\ UNCHANGED <<online, statsVars, running, worker_thread, started, owner, since>>

ThreadStep(t) ==
    CheckRunning(t) \/ Read(t) \/ Update(t) \/ CollectFromNothing(t) \/ Crash(t) \/ Sleep(t)

-----------------------------------------------------------------------------
(* The machine *)

\* A core goes on or off line; one stays on line.  When the collector is gone nobody
\* looks any more.
Hotplug(c) ==
    /\ owner # "gone"
    /\ online' = IF c \in online THEN online \ {c} ELSE online \cup {c}
    /\ online' # {}
    /\ since' = IF since = 2 THEN 2 ELSE since + 1
    /\ UNCHANGED <<statsVars, running, worker_thread, thread, started, owner>>

CollectorNext ==
    \/ start \/ stop \/ Join \/ destroy \/ StopInDestructor
    \/ \E t \in WorkerThreads : ThreadStep(t)
    \/ \E c \in Cores : Hotplug(c)

CollectorSpec == CollectorInit /\ [][CollectorNext]_collectorVars

\* The threads run and main's join returns when it can.
CollectorFairness ==
    /\ WF_collectorVars(Join)
    /\ \A t \in WorkerThreads : WF_collectorVars(ThreadStep(t))

-----------------------------------------------------------------------------
(* Properties *)

\* When stop or the destructor has returned no thread collects any more, and
\* start finds no thread to join: at most one thread collects
\* (collector_base.hpp 27-50).
StoppedMeansStopped ==
    ~running /\ owner \in {"free", "gone"} =>
        worker_thread = 0 /\ \A t \in WorkerThreads : thread[t].step \in {"none", "ended"}

\* The i-th metric is the usage of one core: both entries exist and are of the
\* same core.
OfOneCore(i) == core_usage[i][1] = core_usage[i][2] /\ core_usage[i][1] # NoCore

\* A collection computes each metric from two entries of the same core, if no
\* more than one core went on or off line between the two readings and the later
\* one has an entry for every metric: comparing the sizes is then enough
\* (cpu_collector.cpp 30-44).
UsageIsOfOneCore ==
    [][\A t \in WorkerThreads :
          /\ Doing(t, "compare") /\ ~Doing(t, "compare")'
          /\ between < 2
          /\ Len(curr_stats) >= Len(core_usage)
          /\ core_usage' # core_usage
          => \A i \in DOMAIN core_usage : OfOneCore(i)']_collectorVars

\* stop returns, wherever the thread is, which looks at the flag after every slice
\* (collector_base.hpp 37-50 and 86-96), or the program has ended.  Of the destructor
\* of a collector that runs nothing is said: main stops the collectors first.
StopReturns == owner = "stopping" ~> owner \in {"free", "gone"}

\* A collector that runs on a machine whose cores stay as they are, and no fewer
\* than at first, and can be read, keeps computing usages: a change of the cores or
\* a reading that failed costs readings, not the collector (cpu_collector.cpp 30-33).
RecoversFromHotplug ==
    \A s \in SUBSET Cores :
        <>[](/\ running /\ owner = "free"
             /\ online = s /\ Cardinality(s) >= Len(core_usage)
             /\ \A t \in WorkerThreads : Doing(t, "compare") => curr_stats # <<>>)
        => []<>(\E t \in WorkerThreads : Doing(t, "compare") /\ prev_stats = curr_stats)

-----------------------------------------------------------------------------
(* What the code does not keep *)

\* The usage of a core is computed from entries that exist, as README lines 512
\* to 515 promise a value for "cpu.core.0.usage" and each core after it.  Of two
\* readings in a row that both lack a core, for it has gone off line or because they
\* failed, the second passes the comparison, and the loop of cpu_collector.cpp 38-41
\* runs past its end.
EntriesExist == \A i \in DOMAIN core_usage : core_usage[i][2] # NoCore

=============================================================================
