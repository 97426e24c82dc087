# TLA+ specifications of NetSentry

NetSentry captures packets, keeps statistics of connections, collects system
metrics, raises alerts and serves all of it over HTTP. This directory holds
TLA+ models of its core, TLC configurations that check them on small
instances, and theorems checked by TLAPS. Paths are relative to the
repository's `src/`, but for README.md, `docs/`, `configs/` and `test/`, which are at its top.

## Inventory

| Component | State | Operations | Interacts with |
|---|---|---|---|
| `core/utils/thread_pool.hpp` | queue of tasks, stop flag, workers | `enqueue`, worker loop, destructor | every subsystem, through main's tasks |
| `network/packet_capture.cpp` | capture flag, thread, counters, 1024-packet buffer, handlers | `startCapture`, `stopCapture`, `registerHandler`, capture loop | hands packets to main's handler |
| `network/packet_analyzer.cpp` | connections, host traffic, 1000-packet buffer | `processPacket`, `reset`, getters | called by tasks and the API |
| `network/protocol_handlers/` | none | `parse` of three parsers | called by the analyzer |
| `core/data/circular_buffer.hpp` | array, head, tail, size | `push`, `pop`, `peek`, `size` | inside capture and analyzer |
| `core/data/lock_free_queue.hpp` | linked list, atomic ends, size | `push`, `pop` | nothing uses it |
| `core/memory/memory_pool.hpp` | chunks, free list | `allocate`, `deallocate` | nothing uses it |
| `core/collectors/` | running flag, thread, metrics | `start`, `stop`, `collect` | metrics read by tasks, alerts, API |
| `core/metrics/` | value, history of at most 1000 points | `update`, `increment`, `getValueAt` | shared by collectors and readers |
| `alert/` | alerts, callbacks, time each name last fired | `createAlert`, `registerCallback`, `checkAlerts` | callback writes to the database |
| `core/config/` | typed values | `get`, `set`, load, save | read by main and tasks |
| `api/rest_api.cpp` | server thread, io threads, routes | `start`, `stop`, handlers | reads collectors and analyzer |
| `db/database.hpp` | none: an interface | insert, update, prune | written by tasks |
| `main.cpp` | the objects above as locals | startup, loop, shutdown | everything |
| `web/`, `core/utils/logger.cpp` | - | - | not modelled |

What is hard: a capture thread, a pool of workers, a thread per collector and
the main thread share these objects; each is locked on its own, so sequences of
calls interleave; shutdown has to stop them in an order that no one still
touches what is gone; buffers are bounded, the task queue is not. The hazards,
each at its line, are in `PROJECT.json`.

What makes each part correct:

- pool: FIFO, no lost wakeup, everything accepted is run, destruction ends;
- analyzer: both directions of a conversation are one connection, the tables
  report exactly what was carried;
- pipeline: each captured packet is analysed itself and counted once, records agree
  with the analyzer;
- shutdown: a signal ends the process, and no thread touches a destroyed object;
- circular buffer: a bounded FIFO; memory pool: no block handed out twice;
  queue: a FIFO, whose nodes nobody should use after they are deleted;
- metrics: the history is what was recorded last at each of the latest times;
- collectors and capture: start and stop leave at most one thread;
- alerts: at most one firing per name and cooldown, every firing reaches every callback;
- configuration: the last word said of a key is what is read;
- REST API: every client that asks is answered, and no handler outlives what it reads.

## Modules

| Module | Models | State and actions against the code |
|---|---|---|
| `ThreadPool` | `thread_pool.hpp` | `tasks`, `stop` are `tasks_`, `stop_`; a critical section under `queue_mutex_` is one action; `notify_one`, `notify_all`, the joins and the run of a task are steps of their own; `SpuriousWakeup` is allowed at any time |
| `TaskService` | what the pool promises | the tasks accepted and completed, and whether the service is open, closed or terminated |
| `PacketParsing` | `packet_capture.cpp` 50-115, `protocol_parser.cpp` | operators: what `capturePacket` and `parsePacket` make of a frame, or of none, and which of the three parsers return data for it |
| `PacketAnalyzer` | `packet_analyzer.cpp` | each public operation holds `mutex_` from beginning to end and is one action; a packet carries the set of parsers that accept it |
| `Pipeline` | `main.cpp` 148-188 with `packet_capture.cpp` | instantiates `PacketAnalyzer` and uses `PacketParsing`; the capture thread counts a packet (`Receive`), runs the handler (`Handle`) and keeps it (`Keep`); a worker's task is `Take`, `Process`, `Fetch`, `Store`, each under a lock of its own, so that all of them interleave between these steps |
| `Shutdown` | `main.cpp` 85-355 | `standing` counts the locals that exist; the main thread builds, loops, stops and destroys; capture thread and workers run beside it |
| `AlertManager` | `alert_manager.cpp`, `alert_rule.cpp` | one action per step of `checkAlerts`, because metrics and clock move while it holds `mutex_` |
| `CircularBuffer` | `circular_buffer.hpp` | `buffer`, `head`, `tail`, `size` are its members; `Look` is `size()`, `empty()` and `full()` without the lock, `Peek` leaves a reference behind |
| `BoundedFifo` | what the buffer and the queue promise | items put and items taken out |
| `Metric` | `system_metrics.cpp` | `update` and `increment` hold the metric's `mutex_` and are one action each; the clock may show one time twice and be set back |
| `Collector` | `collector_base.hpp`, `cpu_collector.cpp` | the flag, the joinable thread, the loop's steps; a reading is the list of cores it has an entry for, empty if it failed; destruction while the thread runs is undefined and has two outcomes, `CollectFromNothing` and `Crash` |
| `LockFreeQueue` | `lock_free_queue.hpp` | one action per load, compare-exchange with its failure and retry, counter update, read of data or deletion; addresses are used again |
| `MemoryPool` | `memory_pool.hpp` | `allocate` and `deallocate` hold `mutex_` and are one action each; `construct`, `constructorThrows` and `destroy` are what `ObjectPool` adds outside the lock; `lost` are the blocks nobody can give back any more |
| `Handover` | a client of the two | producers allocate, construct and push; consumers pop, destroy and give back. `Spec` is any client, `CarefulSpec` one that keeps apart what the queue does not |
| `Configuration` | `config_manager.cpp`, `.hpp`, `main.cpp` 57-83 | `values` remembers of each key the type it was stored with; one action for a command line option, which may set two keys, and one for a file, of which a number too large sets nothing; `getOrDefault` finds a value only with the type it is asked for |
| `RestApi` | `rest_api.cpp` | `start`, `stop` and its joins, the destructor, the server thread that binds and spawns or fails to (`SpawnFails`), the io threads' handlers, the routes and what each answers; a client may never send a request, and break its connection |
| `Startup` | `main.cpp` 57-83, 244-251, 333-336 | `Configuration` decides whether and where `RestApi` starts |
| `DataLemmas` | - | lemmas on numbers, sums over finite sets and sequences that the proofs share |

`MCPipeline`, `MCAlertManager`, `MCCollector`, `MCTables`, `MCStartup` and
`MCProcess` give the constants their values. `MCTables` holds the analyzer, the
buffer, a metric and a collector side by side, and `MCProcess` does so with
`Startup` and `Shutdown`: each behaviour is about one of them, chosen at its start,
and the others never move.

How they compose: `Pipeline` uses the operators of `PacketAnalyzer` through an
`INSTANCE`, `Handover` the actions of `LockFreeQueue` and `MemoryPool`, `Startup`
those of `Configuration` and `RestApi`. `Pipeline` and `Shutdown` use the pool as
what `ThreadPool` is shown to be: a FIFO that runs everything it accepted before
its destructor returns. `PacketAnalyzer` and `Pipeline` use the circular buffer
as what `CircularBuffer` is shown to be: a bounded FIFO that refuses a push when
full. `Shutdown` keeps of a task only which of main's locals it refers to.

Definitions whose comment says "Mutant of" are not part of a specification: they
are plausible errors in the code of the definition below them, which the
properties have to detect.

`alert_manager.cpp` repeats its own text from line 52 on; the models are of the
first copy.

## Runs

| Run | Instance | What it shows |
|---|---|---|
| `thread_pool` | 3 workers, 2 clients, 3 tasks | FIFO dispatch, no lost wakeup, refinement of `TaskService`, every accepted task runs, the destructor returns |
| `tables` | 4 packets of up to three conversations, ring of 3; 3 slots, 6 pushes, one producer and one consumer; a metric that keeps 2 of 4 times; a collector of 3 cores, 2 starts | one record per conversation, counts agree with what was carried per direction and host, times and protocol are those of the flow; the ring's contents across its wraps, unlocked reads that are safe to act on, refinement of `BoundedFifo`; a history of the latest times also when the clock goes back; no collecting thread left behind, a usage is of one core, `stop` returns, collecting survives a change of cores |
| `pipeline` | 2 workers, 3 packets | every byte is in exactly one place; each packet itself is analysed; records are copies of one moment, and current unless two tasks of one connection overlapped |
| `process` | up to 2 options, 2 io threads, 2 clients; 2 workers, 2 iterations, 2 packets | the last option or file counts, `stop` returns and leaves no thread, no handler outlives what it reads, every client that asks is served; order of stopping and destruction; a signal ends the process |
| `alerts` | 2 overlapping checks, 3 alerts of 2 names, 2 callbacks of which one may throw, one cooldown of time | cooldown, delivery to the callbacks, a breach that lasts is reported |
| `containers` | 2 producers, 1 consumer, 3 pushes over 4 addresses, chunks of 2 blocks, a careful client | no block is lost or held twice on its way through pool and queue, items come out in order, size and tail are right when nothing is under way, a push ends wherever another thread stops |

Six runs expect a violation, and are what the code does not keep:

- `pipeline_protocols`: README.md promises the detection of HTTP, DNS and TLS.
  `packet.data` begins with the link header, and the parsers of HTTP and TLS
  look at its first bytes; only DNS, which goes by its port, is recognised.
- `shutdown_lifetimes`: `thread_pool` is the first of main's locals and so the
  last destroyed; tasks still queued run after what they refer to is gone.
- `collector_hotplug`: core_usage_ keeps its first size. When a core goes off line
  for good, or readings fail twice in a row, the second shorter reading is read
  past its end.
- `queue_any_client`: README.md promises lock-free algorithms and robust
  synchronization. `pop` deletes the head at once; a thread that has loaded it
  reads a deleted node. One producer and two consumers are enough, and so are
  two producers and one consumer.
- `api_documented`: docs/API.md documents `GET /api/v1/metrics/{name}`. Its route
  is registered under its pattern and paths are compared as text, so that every
  metric by name is answered 404.
- `settings`: `parseYaml` stores a number as an `int64_t`, `main` asks for a
  `uint16_t` or `uint32_t`, and a value of another type is not found: no number
  of a configuration file has an effect, and one that replaces a default or an
  option hides it.

More of what the code does is built into the passing runs, as a condition of a
property or as an outcome:

- a record may be out of date when two workers had tasks of its connection at
  once (`contended` in `Pipeline`); nothing is said of such connections;
- a timeout of pcap returns a `PacketInfo` nobody filled, which is counted if the
  size that happens to be in it is not zero; a frame shorter than its headers,
  or one that is not IPv4, becomes a packet too (`noPacket`, `parsePacket`);
- cores that swap between two readings of one length are mistaken for each other
  (`between` in `Collector`); `UsageIsOfOneCore` says nothing of them, nor when
  fewer cores are read than there are metrics;
- a collector destroyed while it runs loses the members of the derived class
  before its thread is stopped (`DerivedGone`). Main stops the collectors first
  unless an exception leaves its try block; no property promises anything of it;
- `deallocate` throws at every block but each `sizeof(Block)`-th of a chunk,
  because the distance of two blocks is not in bytes (`isAddressInPool`); such a
  block is lost to the pool, as is one whose constructor throws (`lost`);
- the queue deletes nodes that other threads may still look at. It is safe for
  one pop at a time beside one push, and for pushes that overlap while nothing
  is popped. The queue asks nobody to keep to that: `CarefulSpec` does, and what
  the `containers` run and the theorems say is of such a client only;
- the size of the queue wraps below zero when a pop overtakes the push it takes
  from (`Settles` asks for it only when nothing is under way);
- a `stop` of the API before the server thread has ended its loop may miss
  threads started later, and one after a thread could not be started joins
  nothing; `StopLeavesNothing` is about neither (`complete`). Threads that are left
  then end the program when they are destroyed, before what their handlers read
  (`HandlersAreGone`, where "terminated" is not "gone");
- a server none of whose threads could be started serves nobody (`NobodyServes`);
- a metric set back in time files a value before the others, and drops it at
  once if the history is full of later ones; `getValueAt` between two entries
  gives the later (`AskedAtItsTime` asks at the entries and now);
- a pool of no workers drops what it accepted (`DestroyPool`, and the condition of
  `NothingDropped`); `ThreadPool` assumes a worker.

Why the bounds are enough. Three workers let a wakeup go to one of two sleepers
while a third is busy, and three tasks let one be queued, one run and one be
refused; the safety half holds for every size by proof. Two workers and three
packets give every order of two tasks of one connection with a third of another;
a fourth packet repeats these. The analyzer's packets hold both directions of a
conversation, a packet from a host to itself and one that two parsers accept.
Two iterations and two packets let a task of each kind be queued, run or be
started at every step of the shutdown. The clock of `alerts` covers one cooldown
including its last moment. Six pushes into three slots wrap head and tail twice.
Three cores let one come as another goes, one be missing for good, and a reading
fail among others. Four
times with room for two let an update come before, between, over and after the
entries of a full history. Four addresses for three pushes let a deleted node's
address be used again, a chunk of two blocks has one that is taken back and one
that is refused, and two producers overlap in each of their accesses. Two options
let a file come before and after an option, on a key that both set; ports of
three values wrap at the fourth, and below zero. Two io threads let one run when the other cannot be
started, two clients let one be handled while the other is accepted, written, broken or
silent, at every step of `stop`.

Deadlock is not checked where behaviours end: a pool or a program that has
been destroyed, and packets or pushes that have reached their bound. That main
and the threads it waits for never wait for each other is what the liveness
properties say (`DestructorReturns`, `SignalEndsTheProcess`, `StopReturns`).

Each compare-exchange is taken to fail only if the values differ, which is so on
x86-64; elsewhere the weak form may fail once more, which repeats the loop.

## Fairness

Only threads that have something to do are fair, and weakly so:

- workers take and finish tasks (`ThreadPool`, `Pipeline`, `Shutdown`): the
  operating system runs threads that are ready, and main's tasks terminate;
- the capture thread goes on with a packet it has (`Pipeline`);
- a client that has pushed goes on to `notify_one`; the destructor's thread goes
  on to `notify_all` and to its joins;
- main's own steps, and the capture thread once its flag is cleared
  (`Shutdown`): pcap is opened with a timeout of a second
  (`packet_capture.cpp` 36), so that the loop looks at the flag again;
- a check that has begun goes on, and checks begin again and again
  (`AlertManager`): main enqueues one every second;
- the collecting thread and main's join (`Collector`);
- one producer of two (`Scheduled` in `Handover`): the other threads may stop for
  good anywhere, as no lock is there to be held. A push is lock-free, not
  wait-free: that it ends rests on the others pushing finitely often;
- main's joins, the server thread and the io threads (`Startup`): once data or a
  connection is there Asio runs its handler on a thread that is free.

Nothing makes packets arrive, metrics change, callbacks throw, signals come,
clients enqueue, connect or send, connections break, cores go off line, or an owner
start to destroy. In `alerts` the clock stops at its bound, so that
`BreachIsReported` says what happens when checks come more often than the
cooldown passes, as one second against sixty.

## Proofs

All theorems are about a module's specification, for every value of the constants
that the named assumptions admit. The type invariants `TypeOK` are proved and not
run.

`ThreadPoolProofs` (assuming `WorkersNonEmpty`: a pool has a worker;
`NoTaskIsNoTask`). The properties are not inductive. That every accepted task is
run when the workers have gone needs to know where an accepted task is:
`TakenIsHeldOrDone` (what was taken from the queue is in a worker's hands or
done), `AcceptedOnce` and `HeldOnce` (no task twice), and `StopProtocol` (a
worker leaves only when `stop_` is set and the queue is empty, and nothing is
pushed after). `IInv` adds them to types, FIFO and the wakeup properties. From it
follow `TypeCorrect`, `Fifo`, `WakeupsReachWorkers`, `DestructorDrains`, and,
step by step, `PoolImplementsService`: `EnqueuePush` is an acceptance, `Finish` a
completion, `SetStop` the closing, `Join` the termination, the rest stutters.

`PipelineProofs` (assuming `BlanksAreBlank`, `FramesAreFrames`: an address that was
parsed is not the empty string, sizes are numbers; `PoolIsFinite`;
`NoPacketIsNoStats`). `CapturedIsAccounted` is carried by where each packet is:
the capture thread's hand and the sums over queue, workers and connections change by
one packet's size in one place and by as much in another. The two properties of the database need what one
task does alone with its connection: two workers at tasks of one key make it
contended (`AloneAtWork`), so that a fetched copy is current (`CopyIsCurrent`) and
what is stored is current unless a worker is about to store it
(`StoredUnlessStoring`). That a record's time never goes back needs the order of
the packets as well: the packet in the capture thread's hand is the latest
(`HandIsLatest`), the queue is in the order of capture (`QueueInOrder`) and what a worker holds is not older than its connection (`TakenIsLater`), which only
addressed packets keep: one that no frame was parsed into has the time that
happened to be in it. From these `BytesAddUp`, `StoredWhenCaughtUp` and
`StoredFiguresGrow`.

`TablesProofs` has three parts, each about a specification of its own.

- The analyzer (assuming that packets are packets and finitely many, parsers a
  sequence). `IInv` is types, `KeysAreNormal` (every key of the table is what
  `createConnectionKey` makes of it) and `Conservation`. Normal keys are what make
  both directions meet in one record: a normal key whose reverse is normal too is
  its own reverse (`NormalOnce`), which gives `FlowsAreNotSplit`, and it decides
  which side a packet is credited to (`SentIffKey`), which gives `NothingLost`.
  `TrafficAddsUp` follows how one packet changes the sums over hosts and over
  connections, `FlowsTellTheirStory` how it changes the set of a flow's packets.
- The ring (assuming `CapacityIsPositive`). `BufferIInv` is `BufferTypeOK` and
  `HoldsWhatIsLeft`. `Around` says where the slot after a slot lies, so that a push
  changes no slot that holds an item; the item a pop returns is then the one the
  abstract FIFO hands out (`BufferImplementsFifo`), for any number of threads.
  `SizeIsABound` is for one producer and one consumer and `PeekIsSafe` for one
  consumer, which is how the program uses the ring and what their hypotheses say:
  with a second the properties are false.
- The metric (assuming `ValuesAreNumbers`, `KeptIsPositive`). `OldestIsGone` says
  that what the history misses is older than what it keeps, and that it misses
  something only if it is full; trimming by the least time keeps that, also when
  the update was of a time before all others. From it `LatestAreKept` and, with
  `LastIsNewest`, `HistoryAnswers`.

`MonitoringProofs` has two.

- The collector (assuming `CoresAreNumbers`, `NoCoreIsNoCore`,
  `ThreadsAreCounted`). `Lifecycle` says that only the thread of `worker_thread_` is
  at a step of the loop and that it is joined when the flag is clear and main is
  not in a join, which gives `StoppedStays`. `ReadingsAreClose` says of which cores
  the two readings are, if they did not fail, and how many went on or off line
  between them. Two sets of
  cores that differ by one at most and have readings of one length are the same
  (`SameSizeSameCores`), which gives `UsageIsRight`.
- The alerts (assuming `ListsAreSequences`, `TimesAreNumbers`,
  `NobodyIsNoChecker`). The cooldown is asked in one step and the firing recorded
  in another. `FiringsAreRemembered` says that `last_fired_` is at least as recent
  as every firing of the name and of one of them, `ReadyIsCool` that a check about
  to record is past the cooldown; time only adds to that, and the lock (`Alone`)
  keeps any other check from recording in between. `CallsAreCounted` and
  `ToldOrBeingTold` say how far the last firing is with its callbacks. From their
  conjunction follow `CooldownHolds`, `CallbacksAreTold` and `NoBreachIsSilent`, for
  any number of checks and callbacks.

`StartupProofs` (assuming `KeysHaveOneType`, `FilesAreSequences`, `PortsAreNumbers`,
`NoValueIsNoValue`, `ThereAreThreads`, `ClientsAreNoSteps`, `NoneIsNoRequest`).
`WordIsStored` says that the last word of a key that main can read is stored with
the type main reads, from which `LastWordIsRead`. `ServerThread` says how far the
server thread is with its threads, `ThreadsAreKept` that each that runs is in
`threads_`: stop clears that only of threads it has joined, and destroying it with
any left ends the program. From it `NoHandlerOutlives`, without a word about when
stop was called or whether threads could be started. `CalmStop` says that a stop
called when the server thread had started them all runs its loop over all that
there are: `ServerIsGone`.

`ShutdownProofs` (assuming `WorkersAreFinite`, `NoTaskIsNoTask`,
`BoundsAreNumbers`). `Phases` says which locals stand at each place of main's
code, `CaptureIsHosted` that a capture thread has its capture and, while main has
not left, the analyzer. With these an enqueue is of a task whose objects stand,
and `WorkIsBuilt` carries that through the queue and the workers until main leaves,
for nothing is destroyed before. `WorkAddsUp` counts the tasks queued, run and
finished. They give `CaptureIsSafe`, `TasksAreSafe`, `EverythingRan`
(for a pool that has a worker) and `CompleteIsQuiet`. That tasks touch live objects after main has left is what the
proof could not have, and what `shutdown_lifetimes` refutes.

`HandoverProofs` is about the pool, whatever its clients do, and about pool and queue
with a careful client, `CarefulSpec` (assuming `ChunksHaveBlocks`, `SizeWraps`, `NoNodeIsNoAddress`, `NothingIsNoBlock`;
`MemoryIsFinite`: nodes lie in a finite memory that is not empty; `ThreadsPushOrPop`:
there is a thread, none both pushes and pops, and finitely many push;
`BoundsAreNumbers`), with any numbers of threads, addresses and blocks.

- The pool keeps `FreeBlocksAreFree` by itself (`NoBlockIsLentTwice`); `PoolInv` adds
  that what is lent or lost is of a chunk there is, so that a new chunk's blocks
  are nobody's.
- The list. `ListInv` names a node for each item ever put. From the head on these are
  linked in order and live (`ListIs`); the tail is the last or, until the push that
  linked it has moved it, the one before (`TailIs`). What makes it inductive is what
  each thread's loads are worth later (`PushKnows`, `PopKnows`), and that rests on the
  care of the client: a push that is not alone has met no pop, so that the old tail it loaded is
  in the list still, behind the tail perhaps; one that has met a pop is alone, so that
  its old tail is the last node, which no pop deletes. `null_node`, which a failed
  compare-exchange leaves set to another push's node, never lets the next one link at
  the wrong place: that node is before the old tail by then (`LinksAtTheLast`).
  `NodesAreKnown` (each live node is in the list, a push's or about to be deleted)
  keeps addresses used again apart.
- The figures. `SizeIsRight` is the size modulo its width with the pushes and the pop
  that are still to count; `LentAreHeld` says that each lent block is a queued item
  or in one hand, and only that.

From their conjunction (`InductiveInvariant`) follow `QueueSettles`
(the destructor's walk is shown to be the list, `WalkIsTheList`),
`BlocksHaveOneHolder` and, step by step, `QueueIsFifo`: `Link` where it succeeds is
`Put`, `Take` where it succeeds is `Get`, the rest stutters. On the way a lemma,
`NodesAreLive`, shows that this client's care is enough for no deleted node to be
touched. It is a fact about the client and no promise of the queue, which
`queue_any_client` refutes.

TLC found no violation of any of the inductive invariants on the instances above.
Where a proof needs induction (sums, lists of cores, the destructor's walk),
`DataLemmas` and the modules take the least number of a counterexample.

Only model-checked: what needs fairness, for liveness is out of the prover's reach.
These are `EveryTaskRuns`, `DestructorReturns`, `EveryPacketIsAnalysed`,
`SignalEndsTheProcess`, `BreachIsReported`, `RecoversFromHotplug`, `StopReturns` (of
the collector and of the API), `EveryClientIsServed` and `StalledThreadsBlockNobody`.
Every other property of a passing run is proved.

## Not modelled

- `db/database.hpp`: an interface, of which the repository has no
  implementation. `Pipeline` takes `updateConnection` to store the record. What a
  cleanup removes is the implementation's too: main gives it times in seconds
  (`main.cpp` 300-320), records carry microseconds (`packet_capture.cpp` 60).
- `web/dashboard.hpp`: declared and never defined.
- `core/utils/logger.cpp`: formatting and output.
- of the parsers, the fields they take out of a packet, which nothing reads; of
  the API, the text of requests and answers and the limits of their lists, which the
  handlers and the getters shorten to what there is.
- `memory_collector.cpp`: its `collect` reads `/proc/meminfo` and updates metrics,
  without a state of its own beside the thread of `CollectorBase`. That its difference
  of unsigned numbers may wrap is arithmetic, which is left out as below.
- the growth of the task queue, which has no limit in the code: packets that come
  faster than the database takes their records fill it; the models bound the packets.
- `PoolAllocator`, with which no container of the repository is instantiated.
- `saveToFile`, which nothing calls: it holds `mutex_` and calls `getAllKeys`,
  which takes it again, so that it truncates its file and never returns.
- `alert_cooldown_seconds` (configs/netsentry.yaml 29), which nothing reads: the
  cooldown is the 60 seconds of `alert_manager.cpp` 7.
- what a value of a metric is: comparators of alerts and the arithmetic of a
  usage are "the condition holds" and "the usage of a core".

## Plan

The state machines of the repository are modelled and the safety properties of all
of them are proved. What may be added: facts about the steps that liveness rests on,
such as that whoever waits has somebody to wait for; and, once the repository comes
to have or to use them, a database, the parsers' fields and a real client of the
queue.
