--------------------------- MODULE MonitoringProofs ---------------------------
(***************************************************************************)
(* Proofs about what watches the machine: the collectors that read it and  *)
(* the alerts on what they read.  Each has a specification of its own, and *)
(* its theorems are about that one, for all values of the constants.       *)
(***************************************************************************)
EXTENDS AlertManager, Collector, DataLemmas, FiniteSetTheorems

-----------------------------------------------------------------------------
(* The collector, for any cores, interval and number of starts.  That stop   *)
(* leaves no thread rests on who can be where (Lifecycle): only the thread   *)
(* of worker_thread_ is at a step, and it is joined whenever the flag is     *)
(* clear and main not in a join.  That a usage is of one core rests on how   *)
(* far the readings are from each other and from the machine                 *)
(* (ReadingsAreClose).                                                       *)

ThreadSteps == {"none", "check", "collect", "compare", "sleep", "ended"}

OwnerPlaces == {"free", "stopping", "unwinding", "leaving", "gone"}

\* What an entry of a reading can be of.
Entries == Cores \cup {NoCore}

\* The shape of the collector's members, of its thread and of main.
CollectorTypeOK ==
    /\ online \in SUBSET Cores
    /\ core_usage \in Seq(Entries \X Entries)
    /\ prev_stats \in Seq(Cores)
    /\ curr_stats \in Seq(Cores)
    /\ running \in BOOLEAN
    /\ started \in 0 .. MaxThreads
    /\ worker_thread \in 0 .. started
    /\ thread \in [WorkerThreads -> [step : ThreadSteps, slept : Nat]]
    /\ owner \in OwnerPlaces
    /\ since \in 0 .. 2
    /\ between \in 0 .. 2

\* Who can be where.
Lifecycle ==
    /\ \A t \in WorkerThreads : t # worker_thread => thread[t].step \in {"none", "ended"}
    /\ ~running /\ owner \in {"free", "gone"} => worker_thread = 0
    /\ running => owner \in {"free", "unwinding"} /\ worker_thread # 0

\* Between two sets of cores at most n cores have gone on or off line, if n is
\* less than 2.
Near(A, B, n) ==
    /\ n = 0 => A = B
    /\ n = 1 => \E c \in Cores : \/ c \in A /\ B = A \ {c}
                                 \/ c \notin A /\ B = A \cup {c}

Comparing == \E t \in WorkerThreads : Doing(t, "compare")

\* How far the readings that did not fail are from each other and from the cores
\* online.
ReadingsAreClose ==
    \E P, C \in SUBSET Cores :
        /\ prev_stats = ReadingOf(P)
        /\ ~Comparing /\ owner \in {"free", "stopping"} /\ P # {} => Near(P, online, since)
        /\ Comparing => /\ curr_stats = ReadingOf(C)
                        /\ P # {} /\ C # {} => Near(P, C, between)
                        /\ C # {} => Near(C, online, since)

CollectorInv == CollectorTypeOK /\ Lifecycle /\ ReadingsAreClose

-----------------------------------------------------------------------------
(* Facts about readings *)

Increasing(r) == \A i, j \in DOMAIN r : i < j => r[i] < r[j]

\* A finite set of numbers can be listed in their order: the least first, and then
\* the list of the others.
LEMMA ListedInOrder ==
    ASSUME NEW S \in SUBSET Nat, IsFiniteSet(S)
    PROVE  \E r \in [1 .. Cardinality(S) -> S] : Increasing(r)
<1> DEFINE Listed(T) == \E r \in [1 .. Cardinality(T) -> T] : Increasing(r)
           Finite == {T \in SUBSET Nat : IsFiniteSet(T)}
           Bad == {n \in Nat : \E T \in Finite : Cardinality(T) = n /\ ~Listed(T)}
<1>1. SUFFICES ASSUME Bad # {} PROVE FALSE
  <2>1. Cardinality(S) \in Nat
    BY FS_CardinalityType
  <2>2. QED
    BY <2>1
<1>2. PICK n \in Bad : \A m \in Bad : n <= m
  <2>1. Bad \in SUBSET Nat
    OBVIOUS
  <2> HIDE DEF Bad
  <2>2. QED
    BY <1>1, <2>1, LeastElement
<1>3. PICK T \in Finite : Cardinality(T) = n /\ ~Listed(T)
  OBVIOUS
<1>4. CASE T = {}
  <2>1. Cardinality(T) = 0
    BY <1>4, FS_EmptySet
  <2>2. [i \in 1 .. 0 |-> 0] \in [1 .. 0 -> T]
    BY <1>4
  <2>3. Increasing([i \in 1 .. 0 |-> 0])
    BY DEF Increasing
  <2>4. QED
    BY <1>3, <2>1, <2>2, <2>3
<1>5. CASE T # {}
  <2>1. PICK a \in T : \A b \in T : a <= b
    BY <1>5, LeastElement
  <2> DEFINE U == T \ {a}
  <2>2. U \in Finite /\ Cardinality(U) = n - 1 /\ n - 1 \in Nat
    <3>1. IsFiniteSet(U) /\ Cardinality(U) = Cardinality(T) - 1
      BY <2>1, FS_RemoveElement
    <3>2. Cardinality(U) \in Nat
      BY <3>1, FS_CardinalityType
    <3>3. QED
      BY <1>3, <3>1, <3>2
  <2>3. n - 1 \notin Bad
    BY <1>2, <2>2
  <2>4. PICK r \in [1 .. n - 1 -> U] : Increasing(r)
    BY <2>2, <2>3
  <2> DEFINE q == [i \in 1 .. n |-> IF i = 1 THEN a ELSE r[i - 1]]
  <2>5. n \in Nat /\ \A i \in 2 .. n : i - 1 \in 1 .. n - 1 /\ r[i - 1] \in U
    BY <2>2, <2>4
  <2>6. q \in [1 .. n -> T]
    <3>1. ASSUME NEW i \in 1 .. n PROVE (IF i = 1 THEN a ELSE r[i - 1]) \in T
      <4>1. CASE i = 1
        BY <2>1, <4>1
      <4>2. CASE i # 1
        BY <2>5, <4>2
      <4>3. QED
        BY <4>1, <4>2
    <3>2. QED
      BY <3>1
  <2>7. ASSUME NEW i \in 1 .. n, NEW j \in 1 .. n, i < j PROVE q[i] < q[j]
    <3>1. /\ j \in 2 .. n /\ q[j] = r[j - 1] /\ q[j] \in U
          /\ q[j] \in Nat /\ a \in Nat /\ a <= q[j]
      <4>1. j \in 2 .. n /\ j # 1
        BY <2>5, <2>7
      <4>2. q[j] = r[j - 1] /\ q[j] \in U
        BY <2>5, <4>1
      <4>3. U \subseteq T /\ T \subseteq Nat
        OBVIOUS
      <4>4. QED
        BY <2>1, <4>1, <4>2, <4>3
    <3>2. CASE i = 1
      BY <2>1, <3>1, <3>2
    <3>3. CASE i # 1
      <4>1. i \in 2 .. n /\ q[i] = r[i - 1] /\ i - 1 \in 1 .. n - 1 /\ j - 1 \in 1 .. n - 1
            /\ i - 1 < j - 1
        BY <2>5, <2>7, <3>3
      <4>2. r[i - 1] < r[j - 1]
        BY <2>4, <4>1 DEF Increasing
      <4>3. QED
        BY <3>1, <4>1, <4>2
    <3>4. QED
      BY <3>2, <3>3
  <2>8. Increasing(q)
    BY <2>7 DEF Increasing
  <2>9. QED
    BY <1>3, <2>6, <2>8
<1>6. QED
  BY <1>4, <1>5

\* A reading has one entry for each of its cores.
LEMMA ReadingIsAList ==
    ASSUME NEW S \in SUBSET Cores
    PROVE  /\ IsFiniteSet(S) /\ Cardinality(S) \in Nat
           /\ ReadingOf(S) \in [1 .. Cardinality(S) -> S]
           /\ ReadingOf(S) \in Seq(S) /\ Len(ReadingOf(S)) = Cardinality(S)
<1>1. S \in SUBSET Nat /\ IsFiniteSet(S) /\ Cardinality(S) \in Nat
  BY CoresAreNumbers, FS_Subset, FS_CardinalityType
<1>2. \E r \in [1 .. Cardinality(S) -> S] : \A i, j \in DOMAIN r : i < j => r[i] < r[j]
  BY <1>1, ListedInOrder DEF Increasing
<1>3. ReadingOf(S) \in [1 .. Cardinality(S) -> S]
  BY <1>2 DEF ReadingOf
<1>4. ReadingOf(S) \in Seq(S) /\ Len(ReadingOf(S)) = Cardinality(S)
  BY <1>1, <1>3, IsASeq, LenProperties
<1>5. QED
  BY <1>1, <1>3, <1>4

\* A reading of no cores is empty.
LEMMA NothingIsRead == ReadingOf({}) = <<>>
<1>1. ReadingOf({}) \in [1 .. 0 -> {}]
  BY ReadingIsAList, FS_EmptySet
<1>2. QED
  BY <1>1

\* A reading is one of the cores online or failed.
LEMMA ReadingIsOne ==
    ASSUME online \in SUBSET Cores, NEW r \in Readings
    PROVE  \E S \in SUBSET Cores : r = ReadingOf(S) /\ (S # {} => S = online)
BY DEF Readings

\* Two readings of one size are of the same cores, if at most one core has gone on
\* or off line between them.
LEMMA SameSizeSameCores ==
    ASSUME NEW P \in SUBSET Cores, NEW C \in SUBSET Cores, NEW n \in 0 .. 1, Near(P, C, n),
           Len(ReadingOf(P)) = Len(ReadingOf(C))
    PROVE  P = C
<1>1. /\ IsFiniteSet(P) /\ Cardinality(P) \in Nat
      /\ Cardinality(P) = Cardinality(C)
  BY ReadingIsAList
<1>2. CASE n = 0
  BY <1>2 DEF Near
<1>3. CASE n = 1
  <2>1. PICK c \in Cores : (c \in P /\ C = P \ {c}) \/ (c \notin P /\ C = P \cup {c})
    BY <1>3 DEF Near
  <2>2. CASE c \in P /\ C = P \ {c}
    <3>1. Cardinality(C) = Cardinality(P) - 1
      BY <1>1, <2>2, FS_RemoveElement
    <3>2. QED
      BY <1>1, <3>1
  <2>3. CASE c \notin P /\ C = P \cup {c}
    <3>1. Cardinality(C) = Cardinality(P) + 1
      BY <1>1, <2>3, FS_AddElement
    <3>2. QED
      BY <1>1, <3>1
  <2>4. QED
    BY <2>1, <2>2, <2>3
<1>4. QED
  BY <1>2, <1>3

-----------------------------------------------------------------------------
(* The inductive invariant *)

LEMMA TypeInit == CollectorInit => CollectorTypeOK
<1> SUFFICES ASSUME CollectorInit PROVE CollectorTypeOK
  OBVIOUS
<1>1. online \in SUBSET Cores
  BY DEF CollectorInit
<1>2. PICK S \in SUBSET Cores : prev_stats = ReadingOf(S)
  BY <1>1, ReadingIsOne DEF CollectorInit
<1> DEFINE n == Cardinality(S)
<1>3. prev_stats \in [1 .. n -> Cores] /\ n \in Nat /\ prev_stats \in Seq(Cores)
  <2>1. prev_stats \in [1 .. n -> S] /\ n \in Nat
    BY <1>2, ReadingIsAList
  <2>2. prev_stats \in [1 .. n -> Cores]
    BY <2>1
  <2>3. QED
    BY <2>1, <2>2, IsASeq
<1> HIDE DEF n
<1>4. core_usage \in Seq(Entries \X Entries)
  <2>1. core_usage = [i \in 1 .. n |-> <<prev_stats[i], prev_stats[i]>>]
    BY <1>3 DEF CollectorInit
  <2>2. \A i \in 1 .. n : <<prev_stats[i], prev_stats[i]>> \in Entries \X Entries
    BY <1>3 DEF Entries
  <2>3. core_usage \in [1 .. n -> Entries \X Entries]
    BY <2>1, <2>2
  <2>4. QED
    BY <1>3, <2>3, IsASeq
<1>5. thread \in [WorkerThreads -> [step : ThreadSteps, slept : Nat]]
  BY DEF CollectorInit, ThreadSteps
<1>6. started \in 0 .. MaxThreads /\ worker_thread \in 0 .. started
  BY ThreadsAreCounted DEF CollectorInit
<1>7. curr_stats \in Seq(Cores)
  BY DEF CollectorInit
<1>8. running \in BOOLEAN /\ owner \in OwnerPlaces
  BY Zenon DEF CollectorInit, OwnerPlaces
<1>9. since \in 0 .. 2 /\ between \in 0 .. 2
  BY DEF CollectorInit
<1>10. QED
  BY <1>1, <1>3, <1>4, <1>5, <1>6, <1>7, <1>8, <1>9 DEF CollectorTypeOK

LEMMA InitCollectorInv == CollectorInit => CollectorInv
<1> SUFFICES ASSUME CollectorInit PROVE CollectorInv
  OBVIOUS
<1>1. Lifecycle
  BY DEF CollectorInit, Lifecycle
<1>2. ~Comparing
  BY DEF CollectorInit, Comparing, Doing
<1>3. Near(online, online, since) /\ online \in SUBSET Cores
  BY DEF CollectorInit, Near
<1>4. PICK P \in SUBSET Cores : prev_stats = ReadingOf(P) /\ (P # {} => P = online)
  BY <1>3, ReadingIsOne DEF CollectorInit
<1>5. P # {} => Near(P, online, since)
  BY <1>3, <1>4
<1>6. ReadingsAreClose
  BY <1>2, <1>4, <1>5 DEF ReadingsAreClose
<1>7. QED
  BY <1>1, <1>6, TypeInit DEF CollectorInv

\* A thread that has not ended is the one of worker_thread_, no other is at a
\* step, and the collector is still there.
LEMMA OneThread ==
    ASSUME CollectorInv, NEW t \in WorkerThreads, thread[t].step \notin {"none", "ended"}
    PROVE  /\ t = worker_thread /\ owner # "gone"
           /\ \A u \in WorkerThreads : u # t => thread[u].step \in {"none", "ended"}
<1>1. t = worker_thread /\ t # 0
  BY DEF CollectorInv, Lifecycle, WorkerThreads
<1>2. \A u \in WorkerThreads : u # t => thread[u].step \in {"none", "ended"}
  BY <1>1 DEF CollectorInv, Lifecycle
<1>3. owner # "gone"
  BY <1>1 DEF CollectorInv, Lifecycle
<1>4. QED
  BY <1>1, <1>2, <1>3

\* What a move of one thread to a step leaves of the threads' shape and of who
\* compares.
LEMMA OneMoves ==
    ASSUME CollectorTypeOK, NEW t \in WorkerThreads, NEW step \in ThreadSteps, Go(t, step)
    PROVE  /\ thread' \in [WorkerThreads -> [step : ThreadSteps, slept : Nat]]
           /\ thread'[t].step = step
           /\ \A u \in WorkerThreads : u # t => thread'[u] = thread[u]
<1>1. thread \in [WorkerThreads -> [step : ThreadSteps, slept : Nat]]
  BY DEF CollectorTypeOK
<1>2. [step |-> step, slept |-> 0] \in [step : ThreadSteps, slept : Nat]
  OBVIOUS
<1>3. thread' = [thread EXCEPT ![t] = [step |-> step, slept |-> 0]]
  BY DEF Go
<1>4. QED
  BY <1>1, <1>2, <1>3

\* ThreadSteps that leave the readings alone, and compare no other ones than before,
\* leave them as close as they were.
LEMMA ReadingsKept ==
    ASSUME ReadingsAreClose, UNCHANGED <<online, prev_stats, curr_stats, since, between>>,
           Comparing' <=> Comparing,
           owner' \in {"free", "stopping"} => owner \in {"free", "stopping"}
    PROVE  ReadingsAreClose'
<1>1. PICK P \in SUBSET Cores, C \in SUBSET Cores :
        /\ prev_stats = ReadingOf(P)
        /\ ~Comparing /\ owner \in {"free", "stopping"} /\ P # {} => Near(P, online, since)
        /\ Comparing => /\ curr_stats = ReadingOf(C)
                        /\ P # {} /\ C # {} => Near(P, C, between)
                        /\ C # {} => Near(C, online, since)
  BY DEF ReadingsAreClose
<1>2. /\ prev_stats' = ReadingOf(P)
      /\ ~Comparing' /\ owner' \in {"free", "stopping"} /\ P # {} => Near(P, online', since')
      /\ Comparing' => /\ curr_stats' = ReadingOf(C)
                       /\ P # {} /\ C # {} => Near(P, C, between')
                       /\ C # {} => Near(C, online', since')
  BY <1>1
<1>3. QED
  BY <1>2 DEF ReadingsAreClose

LEMMA StartKeepsInv == ASSUME CollectorInv, start PROVE CollectorInv'
<1> USE DEF CollectorInv
<1>1. started' \in 1 .. MaxThreads /\ started' \in WorkerThreads /\ started' # 0
  BY ThreadsAreCounted DEF start, CollectorTypeOK, WorkerThreads
<1>2. \A t \in WorkerThreads : thread[t].step \in {"none", "ended"}
  BY DEF start, Lifecycle, WorkerThreads
<1>3. /\ thread' \in [WorkerThreads -> [step : ThreadSteps, slept : Nat]]
      /\ thread'[started'].step = "check"
      /\ \A u \in WorkerThreads : u # started' => thread'[u] = thread[u]
  BY <1>1, OneMoves DEF start, ThreadSteps
<1>4. CollectorTypeOK'
  <2>1. worker_thread' \in 0 .. started'
    BY <1>1 DEF start
  <2>2. QED
    BY <1>1, <1>3, <2>1 DEF start, statsVars, CollectorTypeOK
<1>5. Lifecycle'
  BY <1>1, <1>2, <1>3 DEF start, Lifecycle
<1>6. ~Comparing /\ ~Comparing'
  BY <1>2, <1>3 DEF Comparing, Doing
<1>7. ReadingsAreClose'
  BY <1>6, ReadingsKept DEF start, statsVars
<1>8. QED
  BY <1>4, <1>5, <1>7

LEMMA StopKeepsInv ==
    ASSUME CollectorInv, stop \/ StopInDestructor
    PROVE  CollectorInv'
<1> USE DEF CollectorInv
<1>1. CollectorTypeOK'
  <2>1. running' \in BOOLEAN
    BY Zenon DEF stop, StopInDestructor, CollectorTypeOK
  <2>2. owner' \in OwnerPlaces
    BY DEF stop, StopInDestructor, OwnerPlaces
  <2>3. UNCHANGED <<online, core_usage, prev_stats, curr_stats, between, worker_thread, thread,
                    started, since>>
    BY DEF stop, StopInDestructor, statsVars
  <2>4. QED
    BY <2>1, <2>2, <2>3 DEF CollectorTypeOK
<1>2. Lifecycle'
  BY DEF stop, StopInDestructor, Lifecycle
<1>3. ReadingsAreClose'
  <2>1. UNCHANGED thread /\ Comparing' = Comparing
    BY DEF stop, StopInDestructor, Comparing, Doing
  <2>2. QED
    BY <2>1, ReadingsKept DEF stop, StopInDestructor, statsVars
<1>4. QED
  BY <1>1, <1>2, <1>3

\* The members are destroyed: there is no reading any more.
LEMMA DestroyKeepsInv == ASSUME CollectorInv, destroy PROVE CollectorInv'
<1> USE DEF CollectorInv
<1>1. CollectorTypeOK'
  <2>1. core_usage' \in Seq(Entries \X Entries) /\ prev_stats' \in Seq(Cores)
    BY DEF destroy
  <2>2. owner' \in OwnerPlaces
    BY DEF destroy, OwnerPlaces
  <2>3. QED
    BY <2>1, <2>2 DEF destroy, CollectorTypeOK
<1>2. Lifecycle'
  BY DEF destroy, Lifecycle
<1>3. ReadingsAreClose'
  <2>1. {} \in SUBSET Cores /\ prev_stats' = ReadingOf({})
    BY NothingIsRead DEF destroy
  <2>2. Comparing' = Comparing /\ UNCHANGED <<online, curr_stats, since>>
    BY DEF destroy, Comparing, Doing
  <2>3. PICK C \in SUBSET Cores :
          Comparing => curr_stats = ReadingOf(C) /\ (C # {} => Near(C, online, since))
    BY DEF ReadingsAreClose
  <2>4. Comparing' => /\ curr_stats' = ReadingOf(C)
                      /\ C # {} => Near(C, online', since')
    BY <2>2, <2>3
  <2>5. QED
    BY <2>1, <2>4 DEF ReadingsAreClose
<1>4. QED
  BY <1>1, <1>2, <1>3

LEMMA JoinKeepsInv == ASSUME CollectorInv, Join PROVE CollectorInv'
<1> USE DEF CollectorInv
<1>1. CollectorTypeOK'
  BY DEF Join, statsVars, CollectorTypeOK, OwnerPlaces
<1>2. Lifecycle'
  <2>1. ~running
    BY DEF Join, Lifecycle
  <2>2. \A t \in WorkerThreads : thread[t].step \in {"none", "ended"}
    BY DEF Join, Lifecycle, Doing, WorkerThreads
  <2>3. QED
    BY <2>1, <2>2 DEF Join, Lifecycle
<1>3. ReadingsAreClose'
  <2>1. Comparing' = Comparing
    BY DEF Join, Comparing, Doing
  <2>2. QED
    BY <2>1, ReadingsKept DEF Join, statsVars
<1>4. QED
  BY <1>1, <1>2, <1>3

LEMMA CheckKeepsInv ==
    ASSUME CollectorInv, NEW t \in WorkerThreads, CheckRunning(t)
    PROVE  CollectorInv'
<1> USE DEF CollectorInv
<1>1. Doing(t, "check") /\ t = worker_thread /\ owner # "gone"
      /\ \A u \in WorkerThreads : u # t => thread[u].step \in {"none", "ended"}
  BY OneThread DEF CheckRunning, Doing
<1>2. /\ thread' \in [WorkerThreads -> [step : ThreadSteps, slept : Nat]]
      /\ thread'[t].step = IF running THEN "collect" ELSE "ended"
      /\ \A u \in WorkerThreads : u # t => thread'[u] = thread[u]
  <2>1. (IF running THEN "collect" ELSE "ended") \in ThreadSteps
    BY DEF ThreadSteps
  <2>2. QED
    BY <2>1, OneMoves DEF CheckRunning
<1>3. CollectorTypeOK'
  BY <1>2 DEF CheckRunning, statsVars, CollectorTypeOK
<1>4. Lifecycle'
  BY <1>1, <1>2 DEF CheckRunning, Lifecycle
<1>5. ReadingsAreClose'
  <2>1. ~Comparing
    BY <1>1 DEF Comparing, Doing
  <2>2. ~Comparing'
    BY <1>1, <1>2 DEF Comparing, Doing
  <2>3. QED
    BY <2>1, <2>2, ReadingsKept DEF CheckRunning, statsVars
<1>6. QED
  BY <1>3, <1>4, <1>5

LEMMA SleepKeepsInv == ASSUME CollectorInv, NEW t \in WorkerThreads, Sleep(t) PROVE CollectorInv'
<1> USE DEF CollectorInv
<1>1. Doing(t, "sleep") /\ t = worker_thread /\ owner # "gone"
      /\ \A u \in WorkerThreads : u # t => thread[u].step \in {"none", "ended"}
  BY OneThread DEF Sleep, Doing
<1>2. /\ thread' \in [WorkerThreads -> [step : ThreadSteps, slept : Nat]]
      /\ thread'[t].step \in {"sleep", "check"}
      /\ \A u \in WorkerThreads : u # t => thread'[u] = thread[u]
  <2>1. CASE running /\ thread[t].slept < Slices
    <3>1. thread' = [thread EXCEPT ![t].slept = @ + 1]
      BY <2>1 DEF Sleep
    <3>2. thread[t] \in [step : ThreadSteps, slept : Nat] /\ thread[t].step = "sleep"
      BY <1>1 DEF CollectorTypeOK, Doing
    <3>3. [thread[t] EXCEPT !.slept = @ + 1] \in [step : ThreadSteps, slept : Nat]
          /\ [thread[t] EXCEPT !.slept = @ + 1].step = "sleep"
      BY <3>2
    <3>4. QED
      BY <3>1, <3>3 DEF CollectorTypeOK
  <2>2. CASE ~(running /\ thread[t].slept < Slices)
    BY <2>2, OneMoves DEF Sleep, ThreadSteps
  <2>3. QED
    BY <2>1, <2>2
<1>3. CollectorTypeOK'
  BY <1>2 DEF Sleep, statsVars, CollectorTypeOK
<1>4. Lifecycle'
  BY <1>1, <1>2 DEF Sleep, Lifecycle
<1>5. ReadingsAreClose'
  <2>1. ~Comparing
    BY <1>1 DEF Comparing, Doing
  <2>2. ~Comparing'
    BY <1>1, <1>2 DEF Comparing, Doing
  <2>3. QED
    BY <2>1, <2>2, ReadingsKept DEF Sleep, statsVars
<1>6. QED
  BY <1>3, <1>4, <1>5

LEMMA ReadKeepsInv == ASSUME CollectorInv, NEW t \in WorkerThreads, Read(t) PROVE CollectorInv'
<1> USE DEF CollectorInv
<1>1. Doing(t, "collect") /\ t = worker_thread /\ owner # "gone"
      /\ \A u \in WorkerThreads : u # t => thread[u].step \in {"none", "ended"}
  BY OneThread DEF Read, Doing
<1>2. /\ thread' \in [WorkerThreads -> [step : ThreadSteps, slept : Nat]]
      /\ thread'[t].step = "compare"
      /\ \A u \in WorkerThreads : u # t => thread'[u] = thread[u]
  BY OneMoves DEF Read, ThreadSteps
<1>3. CollectorTypeOK'
  <2>1. online \in SUBSET Cores
    BY DEF CollectorTypeOK
  <2>2. PICK S \in SUBSET Cores : curr_stats' = ReadingOf(S)
    BY <2>1, ReadingIsOne DEF Read
  <2>3. curr_stats' \in [1 .. Cardinality(S) -> Cores] /\ Cardinality(S) \in Nat
    BY <2>2, ReadingIsAList
  <2>4. curr_stats' \in Seq(Cores)
    BY <2>3, IsASeq
  <2>5. QED
    BY <1>2, <2>4 DEF Read, CollectorTypeOK
<1>4. Lifecycle'
  BY <1>1, <1>2 DEF Read, Lifecycle
<1>5. ReadingsAreClose'
  <2>1. ~Comparing
    BY <1>1 DEF Comparing, Doing
  <2>2. owner \in {"free", "stopping"}
    BY <1>1 DEF Read, DerivedGone, CollectorTypeOK, OwnerPlaces
  <2>3. PICK P \in SUBSET Cores :
          prev_stats = ReadingOf(P) /\ (P # {} => Near(P, online, since))
    BY <2>1, <2>2 DEF ReadingsAreClose
  <2>4. PICK C \in SUBSET Cores : curr_stats' = ReadingOf(C) /\ (C # {} => C = online)
    BY ReadingIsOne DEF Read, CollectorTypeOK
  <2>5. /\ prev_stats' = ReadingOf(P)
        /\ P # {} /\ C # {} => Near(P, C, between')
        /\ C # {} => Near(C, online', since')
    BY <2>3, <2>4 DEF Read, Near
  <2>6. Comparing'
    BY <1>2 DEF Comparing, Doing
  <2>7. QED
    BY <2>4, <2>5, <2>6 DEF ReadingsAreClose
<1>6. QED
  BY <1>3, <1>4, <1>5

\* What a usage is computed from.
LEMMA UsageType == ASSUME CollectorTypeOK PROVE Usage \in Seq(Entries \X Entries)
<1>1. ASSUME NEW s \in Seq(Cores), NEW i \in Nat PROVE Entry(s, i) \in Entries
  BY LenProperties DEF Entry, Entries
<1>2. DOMAIN core_usage = 1 .. Len(core_usage) /\ Len(core_usage) \in Nat
  BY LenProperties DEF CollectorTypeOK
<1>3. \A i \in 1 .. Len(core_usage) :
        <<Entry(prev_stats, i), Entry(curr_stats, i)>> \in Entries \X Entries
  BY <1>1 DEF CollectorTypeOK
<1>4. Usage \in [1 .. Len(core_usage) -> Entries \X Entries]
  BY <1>2, <1>3 DEF Usage
<1>5. QED
  BY <1>2, <1>4, IsASeq

LEMMA UpdateKeepsInv == ASSUME CollectorInv, NEW t \in WorkerThreads, Update(t) PROVE CollectorInv'
<1> USE DEF CollectorInv
<1>1. Doing(t, "compare") /\ t = worker_thread /\ owner # "gone"
      /\ \A u \in WorkerThreads : u # t => thread[u].step \in {"none", "ended"}
  BY OneThread DEF Update, Doing
<1>2. /\ thread' \in [WorkerThreads -> [step : ThreadSteps, slept : Nat]]
      /\ thread'[t].step = "sleep"
      /\ \A u \in WorkerThreads : u # t => thread'[u] = thread[u]
  BY OneMoves DEF Update, ThreadSteps
<1>3. CollectorTypeOK'
  <2>1. core_usage' \in Seq(Entries \X Entries)
    BY UsageType DEF Update, CollectorTypeOK
  <2>2. prev_stats' \in Seq(Cores) /\ curr_stats' \in Seq(Cores) /\ between' \in 0 .. 2
    BY DEF Update, CollectorTypeOK
  <2>3. QED
    BY <1>2, <2>1, <2>2 DEF Update, CollectorTypeOK
<1>4. Lifecycle'
  BY <1>1, <1>2 DEF Update, Lifecycle
<1>5. ReadingsAreClose'
  <2>1. Comparing
    BY <1>1 DEF Comparing
  <2>2. PICK C \in SUBSET Cores :
          curr_stats = ReadingOf(C) /\ (C # {} => Near(C, online, since))
    BY <2>1 DEF ReadingsAreClose
  <2>3. ~Comparing'
    BY <1>1, <1>2 DEF Comparing, Doing
  <2>4. prev_stats' = ReadingOf(C) /\ (C # {} => Near(C, online', since'))
    BY <2>2 DEF Update
  <2>5. QED
    BY <2>3, <2>4 DEF ReadingsAreClose
<1>6. QED
  BY <1>3, <1>4, <1>5

LEMMA NothingKeepsInv ==
    ASSUME CollectorInv, NEW t \in WorkerThreads, CollectFromNothing(t)
    PROVE  CollectorInv'
<1> USE DEF CollectorInv
<1>1. /\ thread[t].step \in {"collect", "compare"} /\ t = worker_thread
      /\ \A u \in WorkerThreads : u # t => thread[u].step \in {"none", "ended"}
  BY OneThread DEF CollectFromNothing, Doing
<1>2. /\ thread' \in [WorkerThreads -> [step : ThreadSteps, slept : Nat]]
      /\ thread'[t].step = "sleep"
      /\ \A u \in WorkerThreads : u # t => thread'[u] = thread[u]
  BY OneMoves DEF CollectFromNothing, ThreadSteps
<1>3. CollectorTypeOK'
  <2>1. curr_stats' \in Seq(Cores) /\ between' \in 0 .. 2
    BY DEF CollectFromNothing
  <2>2. QED
    BY <1>2, <2>1 DEF CollectFromNothing, CollectorTypeOK
<1>4. Lifecycle'
  BY <1>1, <1>2 DEF CollectFromNothing, Lifecycle
<1>5. ReadingsAreClose'
  <2>1. PICK P \in SUBSET Cores : prev_stats = ReadingOf(P)
    BY DEF ReadingsAreClose
  <2>2. ~Comparing'
    BY <1>1, <1>2 DEF Comparing, Doing
  <2>3. prev_stats' = ReadingOf(P) /\ owner' \notin {"free", "stopping"}
    BY <2>1 DEF CollectFromNothing, DerivedGone
  <2>4. QED
    BY <2>2, <2>3 DEF ReadingsAreClose
<1>6. QED
  BY <1>3, <1>4, <1>5

LEMMA CrashKeepsInv == ASSUME CollectorInv, NEW t \in WorkerThreads, Crash(t) PROVE CollectorInv'
<1> USE DEF CollectorInv
<1>1. \A u \in WorkerThreads : u # t => thread[u].step \in {"none", "ended"}
  BY OneThread DEF Crash, ReadsPastTheEnd, Doing
<1>2. /\ thread' \in [WorkerThreads -> [step : ThreadSteps, slept : Nat]]
      /\ thread'[t].step = "ended"
      /\ \A u \in WorkerThreads : u # t => thread'[u] = thread[u]
  BY OneMoves DEF Crash, ThreadSteps
<1>3. CollectorTypeOK'
  <2>1. worker_thread' \in 0 .. started' /\ started' \in 0 .. MaxThreads
    BY DEF Crash, CollectorTypeOK
  <2>2. running' \in BOOLEAN /\ owner' \in OwnerPlaces
    BY Zenon DEF Crash, OwnerPlaces
  <2>3. UNCHANGED <<online, core_usage, prev_stats, curr_stats, since, between>>
    BY DEF Crash, statsVars
  <2>4. QED
    BY <1>2, <2>1, <2>2, <2>3 DEF CollectorTypeOK
<1>4. Lifecycle'
  BY <1>1, <1>2 DEF Crash, Lifecycle
<1>5. ReadingsAreClose'
  <2>1. PICK P \in SUBSET Cores : prev_stats = ReadingOf(P)
    BY DEF ReadingsAreClose
  <2>2. ~Comparing'
    BY <1>1, <1>2 DEF Comparing, Doing
  <2>3. prev_stats' = ReadingOf(P) /\ owner' = "gone"
    BY <2>1 DEF Crash, statsVars
  <2>4. QED
    BY <2>2, <2>3 DEF ReadingsAreClose
<1>6. QED
  BY <1>3, <1>4, <1>5

\* One more core on or off line is at most one more of difference.
LEMMA HotplugIsNear ==
    ASSUME CollectorTypeOK, NEW c \in Cores, Hotplug(c), NEW S \in SUBSET Cores,
           Near(S, online, since)
    PROVE  Near(S, online', since')
<1>1. since \in 0 .. 2
  BY DEF CollectorTypeOK
<1>2. CASE since = 0
  <2>1. since' = 1 /\ S = online
    BY <1>2 DEF Hotplug, Near
  <2>2. \/ c \in S /\ online' = S \ {c}
        \/ c \notin S /\ online' = S \cup {c}
    BY <2>1 DEF Hotplug
  <2>3. QED
    BY <2>1, <2>2 DEF Near
<1>3. CASE since # 0
  <2>1. since' = 2
    BY <1>1, <1>3 DEF Hotplug
  <2>2. QED
    BY <2>1 DEF Near
<1>4. QED
  BY <1>2, <1>3

LEMMA HotplugKeepsInv == ASSUME CollectorInv, NEW c \in Cores, Hotplug(c) PROVE CollectorInv'
<1> USE DEF CollectorInv
<1>1. CollectorTypeOK'
  <2>1. online' \in SUBSET Cores
    BY DEF Hotplug, CollectorTypeOK
  <2>2. since' \in 0 .. 2
    BY DEF Hotplug, CollectorTypeOK
  <2>3. QED
    BY <2>1, <2>2 DEF Hotplug, statsVars, CollectorTypeOK
<1>2. Lifecycle'
  BY DEF Hotplug, Lifecycle
<1>3. ReadingsAreClose'
  <2>1. PICK P \in SUBSET Cores, C \in SUBSET Cores :
          /\ prev_stats = ReadingOf(P)
          /\ ~Comparing /\ owner \in {"free", "stopping"} /\ P # {} => Near(P, online, since)
          /\ Comparing => /\ curr_stats = ReadingOf(C)
                          /\ P # {} /\ C # {} => Near(P, C, between)
                          /\ C # {} => Near(C, online, since)
    BY DEF ReadingsAreClose
  <2>2. UNCHANGED <<prev_stats, curr_stats, between, owner>> /\ Comparing' = Comparing
    BY DEF Hotplug, statsVars, Comparing, Doing
  <2>3. /\ prev_stats' = ReadingOf(P)
        /\ ~Comparing' /\ owner' \in {"free", "stopping"} /\ P # {} =>
              Near(P, online', since')
        /\ Comparing' => /\ curr_stats' = ReadingOf(C)
                         /\ P # {} /\ C # {} => Near(P, C, between')
                         /\ C # {} => Near(C, online', since')
    BY <2>1, <2>2, HotplugIsNear
  <2>4. QED
    BY <2>3 DEF ReadingsAreClose
<1>4. QED
  BY <1>1, <1>2, <1>3

LEMMA NextKeepsInv == CollectorInv /\ [CollectorNext]_collectorVars => CollectorInv'
<1> SUFFICES ASSUME CollectorInv, [CollectorNext]_collectorVars PROVE CollectorInv'
  OBVIOUS
<1>1. CASE UNCHANGED collectorVars
  <2>1. CollectorTypeOK'
    BY <1>1 DEF collectorVars, statsVars, CollectorInv, CollectorTypeOK
  <2>2. Lifecycle'
    BY <1>1 DEF collectorVars, CollectorInv, Lifecycle
  <2>3. ReadingsAreClose'
    <3>1. Comparing' = Comparing
      BY <1>1 DEF collectorVars, Comparing, Doing
    <3>2. QED
      BY <1>1, <3>1, ReadingsKept DEF collectorVars, statsVars, CollectorInv
  <2>4. QED
    BY <2>1, <2>2, <2>3 DEF CollectorInv
<1>2. CASE start
  BY <1>2, StartKeepsInv
<1>3. CASE stop \/ destroy \/ StopInDestructor
  BY <1>3, StopKeepsInv, DestroyKeepsInv
<1>4. CASE Join
  BY <1>4, JoinKeepsInv
<1>5. ASSUME NEW t \in WorkerThreads, ThreadStep(t) PROVE CollectorInv'
  BY <1>5, CheckKeepsInv, ReadKeepsInv, UpdateKeepsInv, NothingKeepsInv, CrashKeepsInv,
     SleepKeepsInv DEF ThreadStep
<1>6. ASSUME NEW c \in Cores, Hotplug(c) PROVE CollectorInv'
  BY <1>6, HotplugKeepsInv
<1>7. QED
  BY <1>1, <1>2, <1>3, <1>4, <1>5, <1>6 DEF CollectorNext

-----------------------------------------------------------------------------
(* Theorems *)

\* The collector's members keep their shape, only the thread of worker_thread_ is
\* at a step (collector_base.hpp 27-50), and each reading that did not fail is of the
\* cores that were online when it was read (cpu_collector.cpp 46-80).
THEOREM CollectorInvariant == CollectorSpec => []CollectorInv
<1>1. QED
  BY InitCollectorInv, NextKeepsInv, PTL DEF CollectorSpec

\* When stop or the destructor has returned no thread is left, for every number of
\* starts (collector_base.hpp 27-50).
THEOREM StoppedStays == CollectorSpec => []StoppedMeansStopped
<1>1. CollectorInv => StoppedMeansStopped
  <2> SUFFICES ASSUME CollectorInv, ~running, owner \in {"free", "gone"}
               PROVE  /\ worker_thread = 0
                      /\ \A t \in WorkerThreads : thread[t].step \in {"none", "ended"}
    BY DEF StoppedMeansStopped
  <2>1. worker_thread = 0
    BY DEF CollectorInv, Lifecycle
  <2>2. \A t \in WorkerThreads : t # 0
    BY DEF WorkerThreads
  <2>3. QED
    BY <2>1, <2>2 DEF CollectorInv, Lifecycle
<1>2. QED
  BY <1>1, CollectorInvariant, PTL

\* Where the sizes are equal and at most one core came or went, the readings are of
\* the same cores.
LEMMA UpdateOfOneCore ==
    ASSUME CollectorInv, NEW t \in WorkerThreads, Update(t),
           between < 2, Len(curr_stats) >= Len(core_usage), core_usage' # core_usage,
           NEW i \in DOMAIN core_usage
    PROVE  OfOneCore(i)'
<1>1. core_usage' = Usage /\ Len(curr_stats) = Len(prev_stats)
  BY DEF Update
<1>2. Comparing
  BY DEF Update, Comparing
<1>3. PICK P \in SUBSET Cores, C \in SUBSET Cores :
        /\ prev_stats = ReadingOf(P) /\ curr_stats = ReadingOf(C)
        /\ P # {} /\ C # {} => Near(P, C, between)
  BY <1>2 DEF CollectorInv, ReadingsAreClose
<1>4. prev_stats = curr_stats
  <2>1. between \in 0 .. 1
    BY DEF CollectorInv, CollectorTypeOK
  <2>2. Len(core_usage) \in Nat \ {0}
    <3>1. core_usage \in Seq(Entries \X Entries)
      BY DEF CollectorInv, CollectorTypeOK
    <3>2. DOMAIN core_usage = 1 .. Len(core_usage) /\ Len(core_usage) \in Nat
      BY <3>1, LenProperties
    <3>3. QED
      BY <3>2
  <2>3. Len(curr_stats) = Cardinality(C) /\ Len(prev_stats) = Cardinality(P)
        /\ Cardinality(C) \in Nat
    BY <1>3, ReadingIsAList
  <2>4. Cardinality(C) # 0 /\ Cardinality(P) # 0
    <3>1. Len(curr_stats) >= Len(core_usage) /\ Len(curr_stats) = Len(prev_stats)
      BY <1>1
    <3> DEFINE m == Len(core_usage)
               n == Cardinality(C)
    <3>2. m \in Nat \ {0} /\ n \in Nat /\ n >= m /\ Cardinality(P) = n
      BY <2>2, <2>3, <3>1
    <3> HIDE DEF m, n
    <3>3. n # 0
      BY <3>2
    <3>4. QED
      BY <3>2, <3>3 DEF n
  <2>5. P # {} /\ C # {}
    BY <2>4, FS_EmptySet
  <2>6. QED
    BY <1>1, <1>3, <2>1, <2>5, SameSizeSameCores
<1>5. i \in DOMAIN curr_stats /\ curr_stats[i] \in Cores
  <2>1. /\ core_usage \in Seq(Entries \X Entries)
        /\ curr_stats \in Seq(Cores)
    BY DEF CollectorInv, CollectorTypeOK
  <2>2. /\ DOMAIN core_usage = 1 .. Len(core_usage) /\ Len(core_usage) \in Nat
        /\ DOMAIN curr_stats = 1 .. Len(curr_stats) /\ Len(curr_stats) \in Nat
    BY <2>1, LenProperties
  <2>3. i \in DOMAIN curr_stats
    BY <2>2
  <2>4. QED
    BY <2>1, <2>2, <2>3
<1>6. core_usage'[i] = <<curr_stats[i], curr_stats[i]>>
  BY <1>1, <1>4, <1>5 DEF Usage, Entry
<1>7. curr_stats[i] # NoCore
  BY <1>5, NoCoreIsNoCore
<1>8. QED
  BY <1>6, <1>7 DEF OfOneCore

\* Comparing the sizes of two readings is enough as long as at most one core goes
\* on or off line between them (cpu_collector.cpp 30-44).
THEOREM UsageIsRight == CollectorSpec => UsageIsOfOneCore
<1> DEFINE Right ==
      \A t \in WorkerThreads :
          /\ Doing(t, "compare") /\ ~Doing(t, "compare")'
          /\ between < 2
          /\ Len(curr_stats) >= Len(core_usage)
          /\ core_usage' # core_usage
          => \A i \in DOMAIN core_usage : OfOneCore(i)'
<1>1. CollectorInv /\ [CollectorNext]_collectorVars => [Right]_collectorVars
  <2> SUFFICES ASSUME CollectorInv, [CollectorNext]_collectorVars, between < 2,
                      Len(curr_stats) >= Len(core_usage),
                      core_usage' # core_usage, NEW i \in DOMAIN core_usage,
                      NEW u \in WorkerThreads, Doing(u, "compare"), ~Doing(u, "compare")'
               PROVE  OfOneCore(i)'
    OBVIOUS
  <2>1. PICK t \in WorkerThreads : Update(t)
    BY DEF CollectorNext, collectorVars, start, stop, Join, destroy, StopInDestructor,
       ThreadStep, CheckRunning, Read, CollectFromNothing, Crash, Sleep, Hotplug, statsVars,
       Doing
  <2>2. QED
    BY <2>1, UpdateOfOneCore
<1>2. QED
  BY <1>1, CollectorInvariant, PTL DEF CollectorSpec, UsageIsOfOneCore

-----------------------------------------------------------------------------
(* The alerts, for any checkers, alerts, callbacks and cooldown.  mutex_     *)
(* makes the checker that is past its look at the cooldown the only one, and *)
(* time only adds to what it saw; a firing is recorded before its callbacks  *)
(* are called, and they are counted.                                         *)

\* last_fired_ knows of every firing, and of nothing else.
FiringsAreRemembered ==
    /\ \A i \in DOMAIN fired :
          /\ fired[i].name \in DOMAIN last_fired
          /\ fired[i].at <= last_fired[fired[i].name]
    /\ \A n \in DOMAIN last_fired :
          \E i \in DOMAIN fired : fired[i].name = n /\ fired[i].at = last_fired[n]

\* Who is about to fire is past the cooldown.
ReadyIsCool ==
    \A c \in Checkers :
        At(c, "record") /\ Name(c) \in DOMAIN last_fired =>
            now - last_fired[Name(c)] >= Cooldown

\* The checker that calls the callbacks does so for the last firing, and has
\* called those before the one it is at.
CallsAreCounted ==
    \A c \in Checkers :
        At(c, "call") =>
            /\ Last > 0
            /\ fired[Last].due = registered
            /\ fired[Last].told + 1 = check[c].callback
            /\ check[c].callback <= registered + 1
            /\ ~fired[Last].aborted

\* A firing nobody is calling the callbacks of is finished or was aborted.
ToldOrBeingTold ==
    \A i \in DOMAIN fired :
        \/ fired[i].aborted
        \/ fired[i].told = fired[i].due
        \/ i = Last /\ \E c \in Checkers : At(c, "call")

IInv ==
    /\ TypeOK
    /\ CooldownRespected
    /\ FiringsAreRemembered
    /\ ReadyIsCool
    /\ CallsAreCounted
    /\ ToldOrBeingTold

-----------------------------------------------------------------------------
(* Facts about one state *)

\* The lock: whoever is in checkAlerts is there alone.
LEMMA Alone ==
    ASSUME TypeOK, NEW c \in Checkers, ~At(c, "idle")
    PROVE  holder = c /\ holder # Nobody /\ \A d \in Checkers \ {c} : At(d, "idle")
BY NobodyIsNoChecker DEF TypeOK

\* Nobody is in checkAlerts when the lock is free.
LEMMA Outside ==
    ASSUME TypeOK, holder = Nobody, NEW c \in Checkers
    PROVE  At(c, "idle")
BY NobodyIsNoChecker DEF TypeOK

\* The alert a checker is at has a name.
LEMMA NameIsAName ==
    ASSUME TypeOK, NEW c \in Checkers, ~At(c, "idle")
    PROVE  Name(c) \in Range(Names)
<1>1. check[c].alert \in 1 .. created /\ created \in 0 .. Len(Names)
  BY DEF TypeOK
<1>2. check[c].alert \in 1 .. Len(Names)
  BY <1>1, ListsAreSequences
<1>3. QED
  BY <1>2, ListsAreSequences DEF Name, Range

\* A checker goes to place r.
LEMMA GoesTo ==
    ASSUME TypeOK, NEW c \in Checkers, NEW r \in Places, check' = [check EXCEPT ![c] = r]
    PROVE  /\ check' \in [Checkers -> Places]
           /\ check'[c] = r
           /\ \A d \in Checkers \ {c} : check'[d] = check[d]
BY DEF TypeOK

\* A checker that keeps the lock and its alert goes on to another step.
LEMMA StaysInside ==
    ASSUME TypeOK, NEW c \in Checkers, ~At(c, "idle"),
           NEW r \in Places, r.step # "idle", r.alert = check[c].alert,
           check' = [check EXCEPT ![c] = r],
           UNCHANGED <<now, breached, created, registered, holder>>,
           last_fired' \in [DOMAIN last_fired' -> 0 .. now], fired' \in Seq(Firings)
    PROVE  TypeOK' /\ check'[c] = r /\ \A d \in Checkers \ {c} : check'[d] = check[d]
<1>1. /\ check' \in [Checkers -> Places] /\ check'[c] = r
      /\ \A d \in Checkers \ {c} : check'[d] = check[d]
  BY GoesTo
<1>2. \A d \in Checkers : /\ check'[d].alert \in IF At(d, "idle")' THEN {0} ELSE 1 .. created'
                          /\ ~At(d, "idle")' <=> holder' = d
  BY <1>1 DEF TypeOK, At
<1>3. QED
  BY <1>1, <1>2 DEF TypeOK, At

-----------------------------------------------------------------------------
(* The initial state *)

LEMMA InitIInv == Init => IInv
<1> SUFFICES ASSUME Init PROVE IInv
  OBVIOUS
<1> USE DEF Init
<1>1. TypeOK
  <2>1. /\ now \in 0 .. MaxTime /\ breached \subseteq DOMAIN Names
        /\ created \in 0 .. Len(Names) /\ registered \in 0 .. Len(Callbacks)
    BY TimesAreNumbers, ListsAreSequences
  <2>2. check \in [Checkers -> Places]
    BY DEF Idle, Places, Steps
  <2>3. \A c \in Checkers : /\ check[c].alert \in IF At(c, "idle") THEN {0} ELSE 1 .. created
                            /\ ~At(c, "idle") <=> holder = c
    BY NobodyIsNoChecker DEF Idle, At
  <2>4. fired \in Seq(Firings) /\ last_fired \in [DOMAIN last_fired -> 0 .. now]
    OBVIOUS
  <2>5. QED
    BY <2>1, <2>2, <2>3, <2>4 DEF TypeOK
<1>2. CooldownRespected /\ FiringsAreRemembered /\ ToldOrBeingTold
  BY DEF CooldownRespected, ApartBy, FiringsAreRemembered, ToldOrBeingTold
<1>3. ReadyIsCool /\ CallsAreCounted
  BY DEF ReadyIsCool, CallsAreCounted, At, Idle
<1>4. QED
  BY <1>1, <1>2, <1>3 DEF IInv

-----------------------------------------------------------------------------
(* The steps of a check *)

\* A checker that is done with an alert, whose firing, if it had one, was told to
\* all callbacks, goes on to another or leaves.
LEMMA GoToIInv ==
    ASSUME IInv, NEW c \in Checkers, ~At(c, "idle"), NEW i \in Nat, i > 0,
           GoTo(c, i), At(c, "call") => fired[Last].told = fired[Last].due,
           UNCHANGED <<now, breached, created, registered, last_fired, fired>>
    PROVE  IInv'
<1>1. TypeOK /\ created \in Nat
  BY ListsAreSequences DEF IInv, TypeOK
<1>2. holder = c /\ holder # Nobody /\ \A d \in Checkers \ {c} : At(d, "idle")
  BY <1>1, Alone
<1>3. /\ \A d \in Checkers \ {c} : check'[d] = check[d]
      /\ check' \in [Checkers -> Places]
      /\ ~At(c, "call")' /\ ~At(c, "record")'
      /\ \/ At(c, "idle")' /\ check'[c].alert = 0 /\ holder' = Nobody
         \/ ~At(c, "idle")' /\ check'[c].alert \in 1 .. created /\ holder' = c
  <2>1. CASE i <= created
    <3>1. [step |-> "evaluate", alert |-> i, callback |-> 0] \in Places
      BY DEF Places, Steps
    <3>2. QED
      BY <3>1, <2>1, <1>1, <1>2, GoesTo DEF GoTo, At
  <2>2. CASE ~(i <= created)
    <3>1. Idle \in Places /\ Idle.step = "idle" /\ Idle.alert = 0
      BY DEF Places, Steps, Idle
    <3>2. QED
      BY <3>1, <2>2, <1>1, GoesTo DEF GoTo, At
  <2>3. QED
    BY <2>1, <2>2
<1>4. TypeOK'
  <2>1. \A d \in Checkers : /\ check'[d].alert \in IF At(d, "idle")' THEN {0} ELSE 1 .. created'
                            /\ ~At(d, "idle")' <=> holder' = d
    BY <1>1, <1>2, <1>3, NobodyIsNoChecker DEF TypeOK, At
  <2>2. holder' \in Checkers \cup {Nobody}
    BY <1>3
  <2>3. QED
    BY <1>1, <1>3, <2>1, <2>2 DEF TypeOK, At
<1>5. CooldownRespected' /\ FiringsAreRemembered'
  BY DEF IInv, CooldownRespected, ApartBy, FiringsAreRemembered
<1>6. ReadyIsCool' /\ CallsAreCounted'
  BY <1>2, <1>3 DEF ReadyIsCool, CallsAreCounted, At, Last
<1>7. ToldOrBeingTold'
  BY <1>2 DEF IInv, ToldOrBeingTold, Last, At
<1>8. QED
  BY <1>4, <1>5, <1>6, <1>7 DEF IInv

LEMMA EnterIInv ==
    ASSUME IInv, NEW c \in Checkers, Enter(c)
    PROVE  IInv'
<1> USE DEF Enter
<1>1. TypeOK /\ created \in Nat /\ \A d \in Checkers : At(d, "idle")
  BY Outside, ListsAreSequences DEF IInv, TypeOK
<1>2. /\ \A d \in Checkers \ {c} : check'[d] = check[d]
      /\ check'[c] = [step |-> "evaluate", alert |-> 1, callback |-> 0]
      /\ check' \in [Checkers -> Places]
  <2>1. [step |-> "evaluate", alert |-> 1, callback |-> 0] \in Places
    BY DEF Places, Steps
  <2>2. QED
    BY <1>1, <2>1, GoesTo
<1>3. TypeOK'
  <2>1. \A d \in Checkers : /\ check'[d].alert \in IF At(d, "idle")' THEN {0} ELSE 1 .. created'
                            /\ ~At(d, "idle")' <=> holder' = d
    BY <1>1, <1>2 DEF TypeOK, At
  <2>2. QED
    BY <1>1, <1>2, <2>1 DEF TypeOK, At
<1>4. CooldownRespected' /\ FiringsAreRemembered'
  BY DEF IInv, CooldownRespected, ApartBy, FiringsAreRemembered
<1>5. ReadyIsCool' /\ CallsAreCounted'
  BY <1>1, <1>2 DEF ReadyIsCool, CallsAreCounted, At, Last
<1>6. ToldOrBeingTold'
  BY <1>1 DEF IInv, ToldOrBeingTold, Last, At
<1>7. QED
  BY <1>3, <1>4, <1>5, <1>6 DEF IInv

\* The condition does not hold, or it does and the cooldown is asked.
LEMMA EvaluateIInv ==
    ASSUME IInv, NEW c \in Checkers, Evaluate(c)
    PROVE  IInv'
<1> USE DEF Evaluate
<1>1. TypeOK /\ ~At(c, "idle") /\ ~At(c, "call") /\ check[c].alert \in Nat
      /\ check[c].alert \in 1 .. created
  BY DEF IInv, TypeOK, At
<1>2. CASE check[c].alert \in breached
  <2> DEFINE r == [check[c] EXCEPT !.step = "suppress"]
  <2>1. /\ r \in Places /\ r.step = "suppress" /\ r.alert = check[c].alert
        /\ check' = [check EXCEPT ![c] = r]
    BY <1>1, <1>2 DEF TypeOK, Places, Steps
  <2>2. /\ TypeOK' /\ check'[c].step = "suppress"
        /\ \A d \in Checkers \ {c} : At(d, "idle") /\ check'[d] = check[d]
    BY <1>1, <1>2, <2>1, Alone, StaysInside DEF TypeOK
  <2>3. CooldownRespected' /\ FiringsAreRemembered'
    BY DEF IInv, CooldownRespected, ApartBy, FiringsAreRemembered
  <2>4. ReadyIsCool' /\ CallsAreCounted'
    BY <2>2 DEF ReadyIsCool, CallsAreCounted, At, Last
  <2>5. ToldOrBeingTold'
    BY <1>1, <2>2 DEF IInv, ToldOrBeingTold, Last, At
  <2>6. QED
    BY <2>2, <2>3, <2>4, <2>5 DEF IInv
<1>3. CASE check[c].alert \notin breached
  BY <1>1, <1>3, GoToIInv
<1>4. QED
  BY <1>2, <1>3

\* The cooldown holds the alert back, or it does not and is to be recorded.
LEMMA SuppressIInv ==
    ASSUME IInv, NEW c \in Checkers, shouldSuppressAlert(c)
    PROVE  IInv'
<1> USE DEF shouldSuppressAlert
<1>1. TypeOK /\ ~At(c, "idle") /\ ~At(c, "call") /\ check[c].alert \in Nat
      /\ check[c].alert \in 1 .. created
  BY DEF IInv, TypeOK, At
<1>2. CASE Suppressed(Name(c))
  BY <1>1, <1>2, GoToIInv
<1>3. CASE ~Suppressed(Name(c))
  <2> DEFINE r == [check[c] EXCEPT !.step = "record"]
  <2>1. /\ r \in Places /\ r.step = "record" /\ r.alert = check[c].alert
        /\ check' = [check EXCEPT ![c] = r]
    BY <1>1, <1>3 DEF TypeOK, Places, Steps
  <2>2. /\ TypeOK' /\ check'[c] = r
        /\ \A d \in Checkers \ {c} : At(d, "idle") /\ check'[d] = check[d]
    BY <1>1, <1>3, <2>1, Alone, StaysInside DEF TypeOK
  <2>3. CooldownRespected' /\ FiringsAreRemembered'
    BY DEF IInv, CooldownRespected, ApartBy, FiringsAreRemembered
  <2>4. ReadyIsCool'
    <3>1. Name(c) \in DOMAIN last_fired => now - last_fired[Name(c)] >= Cooldown
      <4>1. SUFFICES ASSUME Name(c) \in DOMAIN last_fired
                     PROVE  now - last_fired[Name(c)] >= Cooldown
        OBVIOUS
      <4>2. now \in Nat /\ last_fired[Name(c)] \in Nat /\ Cooldown \in Nat
        BY <1>1, <4>1, TimesAreNumbers DEF TypeOK
      <4>3. QED
        BY <1>3, <4>1, <4>2 DEF Suppressed
    <3>2. Name(c)' = Name(c)
      BY <2>1, <2>2 DEF Name
    <3>3. \A d \in Checkers \ {c} : ~At(d, "record")'
      BY <2>2 DEF At
    <3>4. QED
      BY <3>1, <3>2, <3>3 DEF ReadyIsCool, At
  <2>5. CallsAreCounted'
    BY <2>1, <2>2 DEF CallsAreCounted, At, Last
  <2>6. ToldOrBeingTold'
    BY <1>1, <2>2 DEF IInv, ToldOrBeingTold, Last, At
  <2>7. QED
    BY <2>2, <2>3, <2>4, <2>5, <2>6 DEF IInv
<1>4. QED
  BY <1>2, <1>3

\* An alert fires: the time is recorded and the callbacks are next.
LEMMA RecordIInv ==
    ASSUME IInv, NEW c \in Checkers, recordAlertFired(c)
    PROVE  IInv'
<1> USE DEF recordAlertFired
<1> DEFINE n == Name(c)
           f == [name |-> n, at |-> now, due |-> registered, told |-> 0, aborted |-> FALSE]
           r == [check[c] EXCEPT !.step = "call", !.callback = 1]
<1>1. /\ TypeOK /\ ~At(c, "idle") /\ now \in Nat /\ Cooldown \in Nat
      /\ registered \in Nat /\ fired \in Seq(Firings) /\ Len(fired) \in Nat
  BY TimesAreNumbers, ListsAreSequences DEF IInv, TypeOK, At
<1>2. n \in Range(Names) /\ f \in Firings
  BY <1>1, NameIsAName DEF Firings
<1>3. /\ fired' = Append(fired, f) /\ Len(fired') = Len(fired) + 1
      /\ fired' \in Seq(Firings) /\ fired'[Len(fired) + 1] = f
      /\ \A i \in 1 .. Len(fired) : fired'[i] = fired[i]
      /\ DOMAIN fired' = 1 .. (Len(fired) + 1) /\ DOMAIN fired = 1 .. Len(fired)
  BY <1>1, <1>2
<1>4. /\ DOMAIN last_fired' = DOMAIN last_fired \cup {n}
      /\ last_fired'[n] = now
      /\ \A m \in DOMAIN last_fired \ {n} : last_fired'[m] = last_fired[m]
      /\ last_fired' \in [DOMAIN last_fired' -> 0 .. now]
  BY <1>1 DEF TypeOK
<1>5. /\ r \in Places /\ r.step = "call" /\ r.callback = 1 /\ r.alert = check[c].alert
      /\ check' = [check EXCEPT ![c] = r]
  BY <1>1 DEF TypeOK, Places, Steps
<1>6. /\ TypeOK' /\ check'[c] = r
      /\ \A d \in Checkers \ {c} : At(d, "idle") /\ check'[d] = check[d]
  <2>1. \A d \in Checkers \ {c} : At(d, "idle")
    BY <1>1, Alone
  <2>2. TypeOK' /\ check'[c] = r /\ \A d \in Checkers \ {c} : check'[d] = check[d]
    <3> HIDE DEF r, f, n
    <3>1. UNCHANGED <<now, breached, created, registered, holder>>
      OBVIOUS
    <3>2. r.step # "idle"
      BY <1>5
    <3>3. QED
      BY <1>1, <1>3, <1>4, <1>5, <3>1, <3>2, StaysInside
  <2>3. QED
    BY <2>1, <2>2
<1>7. CooldownRespected'
  <2>1. SUFFICES ASSUME NEW i \in DOMAIN fired', NEW j \in DOMAIN fired',
                        i < j, fired'[i].name = fired'[j].name
                 PROVE  fired'[j].at - fired'[i].at >= Cooldown
    BY DEF CooldownRespected, ApartBy
  <2>2. i \in 1 .. Len(fired) /\ fired'[i] = fired[i]
    BY <1>1, <1>3, <2>1
  <2>3. CASE j \in 1 .. Len(fired)
    BY <1>3, <2>1, <2>2, <2>3 DEF IInv, CooldownRespected, ApartBy
  <2>4. CASE j = Len(fired) + 1
    <3>1. fired[i].name = n /\ fired'[j].at = now
      BY <1>3, <2>1, <2>2, <2>4
    <3>2. n \in DOMAIN last_fired /\ fired[i].at <= last_fired[n]
      BY <1>3, <2>2, <3>1 DEF IInv, FiringsAreRemembered
    <3>3. now - last_fired[n] >= Cooldown
      BY <3>2 DEF IInv, ReadyIsCool
    <3>4. fired[i] \in Firings
      BY <1>1, <1>3, <2>2
    <3>5. fired[i].at \in Nat /\ last_fired[n] \in Nat
      BY <1>1, <3>2, <3>4 DEF Firings, TypeOK
    <3>6. QED
      BY <1>1, <2>2, <3>1, <3>2, <3>3, <3>5
  <2>5. QED
    BY <1>3, <2>3, <2>4
<1>8. FiringsAreRemembered'
  <2>1. ASSUME NEW i \in DOMAIN fired'
        PROVE  /\ fired'[i].name \in DOMAIN last_fired'
               /\ fired'[i].at <= last_fired'[fired'[i].name]
    <3>1. CASE i = Len(fired) + 1
      BY <1>1, <1>3, <1>4, <3>1
    <3>2. CASE i \in 1 .. Len(fired)
      <4>1. /\ fired'[i] = fired[i] /\ fired[i] \in Firings
            /\ fired[i].name \in DOMAIN last_fired
            /\ fired[i].at <= last_fired[fired[i].name]
        BY <1>1, <1>3, <3>2 DEF IInv, FiringsAreRemembered
      <4>2. fired[i].at \in Nat /\ last_fired[fired[i].name] \in 0 .. now
        BY <1>1, <4>1 DEF Firings, TypeOK
      <4>3. QED
        BY <1>1, <1>4, <4>1, <4>2
    <3>3. QED
      BY <1>3, <2>1, <3>1, <3>2
  <2>2. ASSUME NEW m \in DOMAIN last_fired'
        PROVE  \E i \in DOMAIN fired' :
                  fired'[i].name = m /\ fired'[i].at = last_fired'[m]
    <3>1. CASE m = n
      BY <1>1, <1>3, <1>4, <3>1
    <3>2. CASE m # n
      <4>1. m \in DOMAIN last_fired /\ last_fired'[m] = last_fired[m]
        BY <1>4, <2>2, <3>2
      <4>2. PICK i \in DOMAIN fired : fired[i].name = m /\ fired[i].at = last_fired[m]
        BY <4>1 DEF IInv, FiringsAreRemembered
      <4>3. i \in DOMAIN fired' /\ fired'[i] = fired[i]
        BY <1>1, <1>3
      <4>4. QED
        BY <4>1, <4>2, <4>3
    <3>3. QED
      BY <3>1, <3>2
  <2>3. QED
    BY <2>1, <2>2 DEF FiringsAreRemembered
<1>9. ReadyIsCool'
  BY <1>5, <1>6 DEF ReadyIsCool, At
<1>10. CallsAreCounted'
  <2>1. Last' = Len(fired) + 1 /\ fired'[Last'] = f
    BY <1>3 DEF Last
  <2>2. check'[c].callback = 1 /\ \A d \in Checkers \ {c} : ~At(d, "call")'
    BY <1>5, <1>6 DEF At
  <2>3. /\ Last' > 0 /\ fired'[Last'].due = registered' /\ fired'[Last'].told + 1 = 1
        /\ 1 <= registered' + 1 /\ ~fired'[Last'].aborted
    BY <1>1, <2>1
  <2>4. QED
    BY <2>2, <2>3 DEF CallsAreCounted
<1>11. ToldOrBeingTold'
  <2>1. At(c, "call")'
    BY <1>5, <1>6 DEF At
  <2>2. \A d \in Checkers : ~At(d, "call")
    BY <1>6 DEF At
  <2>3. \A i \in DOMAIN fired : fired[i].aborted \/ fired[i].told = fired[i].due
    BY <2>2 DEF IInv, ToldOrBeingTold
  <2>4. QED
    BY <1>1, <1>3, <2>1, <2>3 DEF ToldOrBeingTold, Last
<1>12. QED
  BY <1>6, <1>7, <1>8, <1>9, <1>10, <1>11 DEF IInv

\* A firing is marked: only the last one changes, in fields that are not its name,
\* its time or how many are due.
LEMMA Marked ==
    ASSUME IInv, Last > 0, NEW f \in Firings, fired' = [fired EXCEPT ![Last] = f],
           f.name = fired[Last].name, f.at = fired[Last].at,
           UNCHANGED <<now, last_fired>>
    PROVE  /\ fired' \in Seq(Firings) /\ Last' = Last /\ DOMAIN fired' = DOMAIN fired
           /\ fired'[Last] = f /\ \A i \in DOMAIN fired \ {Last} : fired'[i] = fired[i]
           /\ CooldownRespected' /\ FiringsAreRemembered'
<1>1. fired \in Seq(Firings) /\ Last \in DOMAIN fired
  BY DEF IInv, TypeOK, Last
<1>2. /\ fired' \in Seq(Firings) /\ Last' = Last /\ DOMAIN fired' = DOMAIN fired
      /\ fired'[Last] = f /\ \A i \in DOMAIN fired \ {Last} : fired'[i] = fired[i]
  BY <1>1 DEF Last
<1>3. \A i \in DOMAIN fired : fired'[i].name = fired[i].name /\ fired'[i].at = fired[i].at
  BY <1>2
<1>4. CooldownRespected'
  BY <1>2, <1>3 DEF IInv, CooldownRespected, ApartBy
<1>5. FiringsAreRemembered'
  <2>1. \A i \in DOMAIN fired' : /\ fired'[i].name \in DOMAIN last_fired'
                                /\ fired'[i].at <= last_fired'[fired'[i].name]
    BY <1>2, <1>3 DEF IInv, FiringsAreRemembered
  <2>2. ASSUME NEW n \in DOMAIN last_fired'
        PROVE  \E i \in DOMAIN fired' :
                  fired'[i].name = n /\ fired'[i].at = last_fired'[n]
    <3>1. PICK i \in DOMAIN fired : fired[i].name = n /\ fired[i].at = last_fired[n]
      BY DEF IInv, FiringsAreRemembered
    <3>2. fired'[i].name = n /\ fired'[i].at = last_fired'[n] /\ i \in DOMAIN fired'
      BY <1>2, <1>3, <3>1
    <3>3. QED
      BY <3>2
  <2>3. QED
    BY <2>1, <2>2 DEF FiringsAreRemembered
<1>6. QED
  BY <1>2, <1>4, <1>5

\* A callback is told of the firing, or all have been.
LEMMA CallIInv ==
    ASSUME IInv, NEW c \in Checkers, Call(c)
    PROVE  IInv'
<1> USE DEF Call
<1>1. /\ TypeOK /\ At(c, "call") /\ ~At(c, "idle") /\ registered \in Nat
      /\ check[c].alert \in Nat /\ check[c].callback \in Nat /\ check[c].alert > 0
  <2>1. TypeOK /\ At(c, "call") /\ ~At(c, "idle")
    BY DEF IInv, At
  <2>2. registered \in Nat /\ check[c] \in Places
    BY <2>1 DEF TypeOK
  <2>3. check[c].alert \in Nat /\ check[c].callback \in Nat
    BY <2>2 DEF Places
  <2>4. check[c].alert \in 1 .. created
    BY <2>1 DEF TypeOK
  <2>5. QED
    BY <2>1, <2>2, <2>3, <2>4
<1>2. /\ Last > 0 /\ Last \in DOMAIN fired /\ fired[Last] \in Firings
      /\ fired[Last].due = registered /\ fired[Last].told + 1 = check[c].callback
      /\ check[c].callback <= registered + 1 /\ ~fired[Last].aborted
  BY <1>1 DEF IInv, CallsAreCounted, TypeOK, Last
<1>3. \A d \in Checkers \ {c} : At(d, "idle")
  BY <1>1, Alone
<1>4. CASE check[c].callback <= registered
  <2> DEFINE f == [fired[Last] EXCEPT !.told = @ + 1]
             r == [check[c] EXCEPT !.callback = @ + 1]
  <2>1. /\ f \in Firings /\ f.told = fired[Last].told + 1 /\ f.due = fired[Last].due
        /\ f.name = fired[Last].name /\ f.at = fired[Last].at /\ f.aborted = fired[Last].aborted
    BY <1>2 DEF Firings
  <2>2. fired' = [fired EXCEPT ![Last] = f]
    BY <1>4
  <2>3. /\ r \in Places /\ r.step = "call" /\ r.alert = check[c].alert
        /\ r.callback = check[c].callback + 1 /\ check' = [check EXCEPT ![c] = r]
    BY <1>1, <1>4 DEF TypeOK, Places, Steps, At
  <2> HIDE DEF f, r
  <2>4. /\ fired' \in Seq(Firings) /\ Last' = Last /\ DOMAIN fired' = DOMAIN fired
        /\ fired'[Last] = f /\ \A i \in DOMAIN fired \ {Last} : fired'[i] = fired[i]
        /\ CooldownRespected' /\ FiringsAreRemembered'
    BY <1>2, <2>1, <2>2, Marked
  <2>5. TypeOK' /\ check'[c] = r /\ \A d \in Checkers \ {c} : check'[d] = check[d]
    <3>1. /\ UNCHANGED <<now, breached, created, registered, holder>>
          /\ last_fired' \in [DOMAIN last_fired' -> 0 .. now]
      BY <1>1, <1>4 DEF TypeOK
    <3>2. r.step # "idle"
      BY <2>3
    <3>3. QED
      BY <1>1, <2>3, <2>4, <3>1, <3>2, StaysInside
  <2>6. At(c, "call")' /\ \A d \in Checkers \ {c} : ~At(d, "record")' /\ ~At(d, "call")'
    BY <1>3, <2>3, <2>5 DEF At
  <2>7. ReadyIsCool'
    BY <2>3, <2>5, <2>6 DEF ReadyIsCool, At
  <2>8. CallsAreCounted'
    <3>1. /\ f.due = registered /\ f.told + 1 = r.callback /\ r.callback <= registered + 1
          /\ ~f.aborted
      BY <1>1, <1>2, <1>4, <2>1, <2>3
    <3>2. registered' = registered
      BY <1>4
    <3>3. QED
      BY <1>2, <2>4, <2>5, <2>6, <3>1, <3>2 DEF CallsAreCounted
  <2>9. ToldOrBeingTold'
    BY <1>3, <2>4, <2>6 DEF IInv, ToldOrBeingTold
  <2>10. QED
    BY <2>4, <2>5, <2>7, <2>8, <2>9 DEF IInv
<1>5. CASE ~(check[c].callback <= registered)
  <2>1. fired[Last].told = fired[Last].due
    BY <1>1, <1>2, <1>5 DEF Firings
  <2>2. GoTo(c, check[c].alert + 1) /\ UNCHANGED fired
    BY <1>5
  <2>3. QED
    BY <1>1, <2>1, <2>2, GoToIInv
<1>6. QED
  BY <1>4, <1>5

\* A callback throws: the firing is aborted and the check over.
LEMMA ThrowIInv ==
    ASSUME IInv, NEW c \in Checkers, Throw(c)
    PROVE  IInv'
<1> USE DEF Throw
<1> DEFINE f == [fired[Last] EXCEPT !.aborted = TRUE]
<1>1. TypeOK /\ At(c, "call") /\ ~At(c, "idle")
  BY DEF IInv, At
<1>2. Last > 0 /\ Last \in DOMAIN fired /\ fired[Last] \in Firings
  BY <1>1 DEF IInv, CallsAreCounted, TypeOK, Last
<1>3. \A d \in Checkers \ {c} : At(d, "idle") /\ holder # d
  BY <1>1, Alone
<1>4. /\ f \in Firings /\ f.name = fired[Last].name /\ f.at = fired[Last].at /\ f.aborted
      /\ fired' = [fired EXCEPT ![Last] = f]
  BY <1>2 DEF Firings
<1> HIDE DEF f
<1>5. /\ fired' \in Seq(Firings) /\ Last' = Last /\ DOMAIN fired' = DOMAIN fired
      /\ fired'[Last] = f /\ \A i \in DOMAIN fired \ {Last} : fired'[i] = fired[i]
      /\ CooldownRespected' /\ FiringsAreRemembered'
  BY <1>2, <1>4, Marked
<1>6. /\ check' \in [Checkers -> Places] /\ check'[c] = Idle
      /\ \A d \in Checkers \ {c} : check'[d] = check[d]
  <2>1. Idle \in Places
    BY DEF Idle, Places, Steps
  <2>2. QED
    BY <1>1, <2>1, GoesTo
<1>7. \A d \in Checkers : At(d, "idle")' /\ check'[d].alert = 0
  BY <1>1, <1>3, <1>6 DEF At, Idle, TypeOK
<1>8. TypeOK'
  <2>1. \A d \in Checkers : /\ check'[d].alert \in IF At(d, "idle")' THEN {0} ELSE 1 .. created'
                            /\ ~At(d, "idle")' <=> holder' = d
    BY <1>7, NobodyIsNoChecker
  <2>2. QED
    BY <1>1, <1>5, <1>6, <2>1 DEF TypeOK, At
<1>9. ReadyIsCool' /\ CallsAreCounted'
  BY <1>7 DEF ReadyIsCool, CallsAreCounted, At
<1>10. ToldOrBeingTold'
  BY <1>3, <1>4, <1>5 DEF IInv, ToldOrBeingTold
<1>11. QED
  BY <1>5, <1>8, <1>9, <1>10 DEF IInv

-----------------------------------------------------------------------------
(* Setting up, the world and the whole *)

\* main adds an alert or a callback, while no check is under way.
LEMMA SetUpIInv ==
    ASSUME IInv, createAlert \/ registerCallback
    PROVE  IInv'
<1> USE DEF createAlert, registerCallback
<1>1. TypeOK /\ holder = Nobody /\ created \in Nat /\ registered \in Nat
  BY ListsAreSequences DEF IInv, TypeOK
<1>2. \A c \in Checkers : At(c, "idle")
  BY <1>1, Outside
<1>3. UNCHANGED <<now, breached, holder, check, last_fired, fired>>
  OBVIOUS
<1>4. TypeOK'
  <2>1. created' \in 0 .. Len(Names) /\ registered' \in 0 .. Len(Callbacks)
    BY <1>1, ListsAreSequences DEF TypeOK
  <2>2. QED
    BY <1>1, <1>2, <1>3, <2>1 DEF TypeOK, At
<1>5. CooldownRespected' /\ FiringsAreRemembered'
  BY <1>3 DEF IInv, CooldownRespected, ApartBy, FiringsAreRemembered
<1>6. ReadyIsCool' /\ CallsAreCounted'
  BY <1>2, <1>3 DEF ReadyIsCool, CallsAreCounted, At
<1>7. ToldOrBeingTold'
  BY <1>3 DEF IInv, ToldOrBeingTold, Last, At
<1>8. QED
  BY <1>4, <1>5, <1>6, <1>7 DEF IInv

\* Time passes: what was past its cooldown is further past it.
LEMMA TickIInv ==
    ASSUME IInv, Tick
    PROVE  IInv'
<1> USE DEF Tick
<1>1. TypeOK /\ now \in Nat /\ Cooldown \in Nat
  BY TimesAreNumbers DEF IInv, TypeOK
<1>2. /\ now' = now + 1
      /\ UNCHANGED <<breached, created, registered, holder, check, last_fired, fired>>
  OBVIOUS
<1>3. TypeOK'
  <2>1. now' \in 0 .. MaxTime
    BY <1>1, TimesAreNumbers DEF TypeOK
  <2>2. last_fired' \in [DOMAIN last_fired' -> 0 .. now']
    BY <1>1, <1>2 DEF TypeOK
  <2>3. QED
    BY <1>1, <1>2, <2>1, <2>2 DEF TypeOK, At
<1>4. CooldownRespected' /\ FiringsAreRemembered' /\ CallsAreCounted' /\ ToldOrBeingTold'
  BY <1>2 DEF IInv, CooldownRespected, ApartBy, FiringsAreRemembered, CallsAreCounted,
     ToldOrBeingTold, Last, At
<1>5. ReadyIsCool'
  <2>1. SUFFICES ASSUME NEW c \in Checkers, At(c, "record"), Name(c) \in DOMAIN last_fired
                 PROVE  now' - last_fired[Name(c)] >= Cooldown
    BY <1>2 DEF ReadyIsCool, At, Name
  <2>2. now - last_fired[Name(c)] >= Cooldown
    BY <2>1 DEF IInv, ReadyIsCool
  <2>3. last_fired[Name(c)] \in Nat
    BY <1>1, <2>1 DEF TypeOK
  <2>4. QED
    BY <1>1, <1>2, <2>2, <2>3
<1>6. QED
  BY <1>3, <1>4, <1>5 DEF IInv

\* A metric changes, or nothing does.
LEMMA OutsideIInv ==
    ASSUME IInv, MetricChanges \/ UNCHANGED vars
    PROVE  IInv'
<1>1. UNCHANGED <<now, created, registered, holder, check, last_fired, fired>>
  BY DEF MetricChanges, vars
<1>2. TypeOK'
  <2>1. breached' \subseteq DOMAIN Names
    BY DEF MetricChanges, vars, IInv, TypeOK
  <2>2. QED
    BY <1>1, <2>1 DEF IInv, TypeOK, At
<1>3. /\ CooldownRespected' /\ FiringsAreRemembered' /\ ReadyIsCool'
      /\ CallsAreCounted' /\ ToldOrBeingTold'
  BY <1>1 DEF IInv, CooldownRespected, ApartBy, FiringsAreRemembered, ReadyIsCool,
     CallsAreCounted, ToldOrBeingTold, Last, At, Name
<1>4. QED
  BY <1>2, <1>3 DEF IInv

\* The strengthened invariant holds.
THEOREM InductiveInvariant == Spec => []IInv
<1>1. Init => IInv
  BY InitIInv
<1>2. IInv /\ [Next]_vars => IInv'
  BY EnterIInv, EvaluateIInv, SuppressIInv, RecordIInv, CallIInv, ThrowIInv, SetUpIInv,
     TickIInv, OutsideIInv DEF Next, Running
<1>3. QED
  BY <1>1, <1>2, PTL DEF Spec

\* The shape, and with it that mutex_ lets one checker in at a time
\* (alert_manager.cpp 24-36).
THEOREM TypeCorrect == Spec => []TypeOK
<1>1. IInv => TypeOK
  BY DEF IInv
<1>2. QED
  BY <1>1, InductiveInvariant, PTL

\* Alerts of one name fire at least a cooldown apart, for any number of checks,
\* alerts and callbacks (alert_rule.cpp 73-90).
THEOREM CooldownHolds == Spec => []CooldownRespected
<1>1. IInv => CooldownRespected
  BY DEF IInv
<1>2. QED
  BY <1>1, InductiveInvariant, PTL

\* A firing that is over was told to every callback, unless one threw
\* (alert_manager.cpp 31-33).
THEOREM CallbacksAreTold == Spec => []EveryFiringIsTold
<1>1. IInv => EveryFiringIsTold
  <2>1. SUFFICES ASSUME IInv, NEW i \in DOMAIN fired, i < Last \/ holder = Nobody,
                        ~fired[i].aborted
                 PROVE  fired[i].told = fired[i].due
    BY DEF EveryFiringIsTold
  <2>2. CASE holder = Nobody
    <3>1. \A c \in Checkers : ~At(c, "call")
      BY <2>1, <2>2, Outside DEF IInv, At
    <3>2. QED
      BY <2>1, <3>1 DEF IInv, ToldOrBeingTold
  <2>3. CASE i < Last
    <3>1. i # Last
      BY <2>3 DEF Last
    <3>2. QED
      BY <2>1, <3>1 DEF IInv, ToldOrBeingTold
  <2>4. QED
    BY <2>1, <2>2, <2>3
<1>2. QED
  BY <1>1, InductiveInvariant, PTL

\* A check leaves the question of the cooldown for another step than the
\* recording only where an alert of the name fired less than a cooldown ago.
LEMMA PassedOverIsCooling ==
    ASSUME IInv, Next, NEW c \in Checkers, At(c, "suppress"),
           check'[c] # check[c], check'[c].step # "record"
    PROVE  \E i \in DOMAIN fired : fired[i].name = Name(c) /\ now - fired[i].at < Cooldown
<1>1. /\ TypeOK /\ ~At(c, "idle") /\ ~At(c, "evaluate") /\ ~At(c, "record")
      /\ ~At(c, "call")
  BY DEF IInv, At
<1>2. holder # Nobody /\ \A d \in Checkers \ {c} : At(d, "idle")
  BY <1>1, Alone
<1>3. check' # check
  OBVIOUS
<1>4. PICK d \in Checkers : Enter(d) \/ Running(d)
  BY <1>3 DEF Next, createAlert, registerCallback, Tick, MetricChanges
<1>5. ~Enter(d)
  BY <1>2 DEF Enter
<1>6. d = c
  BY <1>2, <1>4, <1>5 DEF Running, Evaluate, shouldSuppressAlert, recordAlertFired,
     Call, Throw, At
<1>7. shouldSuppressAlert(c)
  BY <1>1, <1>4, <1>5, <1>6 DEF Running, Evaluate, recordAlertFired, Call, Throw
<1>8. Suppressed(Name(c))
  <2>1. CASE ~Suppressed(Name(c))
    <3>1. check' = [check EXCEPT ![c].step = "record"]
      BY <1>7, <2>1 DEF shouldSuppressAlert
    <3>2. check'[c].step = "record"
      BY <1>1, <3>1 DEF TypeOK, Places
    <3>3. QED
      BY <3>2
  <2>2. QED
    BY <2>1
<1>9. PICK i \in DOMAIN fired : fired[i].name = Name(c) /\ fired[i].at = last_fired[Name(c)]
  BY <1>8 DEF IInv, FiringsAreRemembered, Suppressed
<1>10. now - fired[i].at < Cooldown
  BY <1>8, <1>9 DEF Suppressed
<1>11. QED
  BY <1>9, <1>10

\* No check passes over a breached alert unless one of its name fired less than
\* a cooldown ago (alert_rule.cpp 73-85).
THEOREM NoBreachIsSilent == Spec => NoSilentBreach
<1>1. IInv /\ [Next]_vars =>
        [\A c \in Checkers :
            At(c, "suppress") /\ check'[c] # check[c] /\ check'[c].step # "record" =>
                \E i \in DOMAIN fired :
                    fired[i].name = Name(c) /\ now - fired[i].at < Cooldown]_vars
  BY PassedOverIsCooling
<1>2. QED
  BY <1>1, InductiveInvariant, PTL DEF Spec, NoSilentBreach

=============================================================================
