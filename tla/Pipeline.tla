------------------------------ MODULE Pipeline ------------------------------
(***************************************************************************)
(* The packet path of src/main.cpp (lines 148-188): the capture thread     *)
(* hands every packet to the thread pool; a worker lets the analyzer       *)
(* process it, asks the analyzer for the connection's statistics and       *)
(* writes them to the database.  Each of the three is locked on its own,   *)
(* so two workers interleave between them.                                 *)
(*                                                                         *)
(* The analyzer's operations are those of module PacketAnalyzer.  The pool *)
(* appears as what ThreadPool is shown to be, a FIFO that workers take the *)
(* head of.  The database is an interface without an implementation in the *)
(* repository: updateConnection is taken to store the record of a key,     *)
(* replacing the one before.                                               *)
(***************************************************************************)
EXTENDS Integers, Sequences, FiniteSets, Functions, PacketParsing

CONSTANTS
    Workers,          \* the threads of thread_pool
    Frames,           \* what pcap may deliver, see PacketParsing
    Blanks,           \* what an uninitialised PacketInfo may hold
    Unrecognised,     \* as in PacketAnalyzer
    NoPacket,         \* holding[w] of a worker without a task
    RecentCapacity,   \* as in PacketAnalyzer
    BufferCapacity,   \* the capacity of packet_buffer_, 1024 in the code
    MaxPackets        \* bound: packets captured in a behaviour

VARIABLES
    connections, host_traffic_stats, recent_packets,   \* the analyzer's members
    carried, processed,                                \* its histories
    packets_captured, bytes_captured,   \* counters of PacketCapture
    packet_buffer,    \* packet_buffer_ of PacketCapture
    capture,          \* the capture thread: "idle" in pcap, then in processPacket about
                      \* to "handle" the packet or to "keep" it
    in_hand,          \* its packet
    captured,         \* history: the packets counted, in their order
    tasks,            \* the packets of the pool's queued tasks
    worker,           \* "idle", "taken", "processed" or "fetched"
    holding,          \* the packet a worker's task captured by value
    conn_stats,       \* what getConnectionStats returned, NoPacket for nullopt
    db,               \* the connection records: a function on the keys stored
    contended         \* history: the keys that two workers had tasks of at once

analyzerVars == <<connections, host_traffic_stats, recent_packets, carried, processed>>
countVars == <<packets_captured, bytes_captured, captured>>
captureVars == <<countVars, packet_buffer, capture, in_hand>>
vars == <<analyzerVars, captureVars, tasks, worker, holding, conn_stats, db, contended>>

Packets == {capturePacket(b, f, t) : b \in Blanks, f \in Frames, t \in 1 .. MaxPackets}
           \cup {noPacket(b) : b \in Blanks}

\* The ip of a PacketInfo that was never parsed: std::string's initial value,
\* which sorts before every address.
NoAddress == 0

\* What a PacketInfo holds before a frame is parsed into it.
ASSUME BlanksAreBlank ==
    Blanks \subseteq [source_ip : {NoAddress}, source_port : Nat, dest_ip : {NoAddress},
                      dest_port : Nat, protocol : Nat, size : Nat, timestamp : Nat]
ASSUME FramesAreFrames ==
    \A f \in Frames :
        /\ f.source_ip \in Nat \ {NoAddress} /\ f.dest_ip \in Nat \ {NoAddress}
        /\ f.size \in Nat
ASSUME PoolIsFinite == IsFiniteSet(Workers) /\ MaxPackets \in Nat

\* main never resets the analyzer.
Analyzer == INSTANCE PacketAnalyzer WITH Parsers <- AllParsers, resetAt <- 0

ASSUME NoPacketIsNoStats == NoPacket \notin Analyzer!ConnectionStats

Key(w) == Analyzer!createConnectionKey(holding[w])

Busy == {w \in Workers : worker[w] # "idle"}

\* The history after a worker took the task of packet p.
ContendedWith(p) ==
    contended \cup {k \in {Analyzer!createConnectionKey(p)} : \E w \in Busy : Key(w) = k}

\* db::ConnectionRecord under its key: the statistics but the protocol.
Record(s) ==
    [bytes_sent |-> s.bytes_sent, bytes_received |-> s.bytes_received,
     packets_sent |-> s.packets_sent, packets_received |-> s.packets_received,
     first_seen |-> s.first_seen, last_seen |-> s.last_seen]

Init ==
    /\ Analyzer!Init
    /\ packets_captured = 0
    /\ bytes_captured = 0
    /\ packet_buffer = <<>>
    /\ capture = "idle" /\ in_hand = NoPacket /\ captured = <<>>
    /\ tasks = <<>>
    /\ worker = [w \in Workers |-> "idle"]
    /\ holding = [w \in Workers |-> NoPacket]
    /\ conn_stats = [w \in Workers |-> NoPacket]
    /\ db = <<>>
    /\ contended = {}

-----------------------------------------------------------------------------
(* The capture thread *)

\* The capture thread has a packet with bytes: processPacket counts it.
Receive(p) ==
    /\ capture = "idle"
    /\ p.size > 0
    /\ packets_captured < MaxPackets
    /\ packets_captured' = packets_captured + 1
    /\ bytes_captured' = bytes_captured + p.size
    /\ captured' = Append(captured, p)
    /\ capture' = "handle" /\ in_hand' = p
    /\ UNCHANGED <<analyzerVars, packet_buffer, tasks, worker, holding, conn_stats, db,
                   contended>>

\* pcap delivers a frame, and stamps frames in the order they are captured.
CapturePacket(b, f) == Receive(capturePacket(b, f, packets_captured + 1))

\* pcap_next_ex gives up after its second without a frame, and the PacketInfo
\* that capturePacket returns has indeterminate numbers and empty strings.
CaptureTimeout(b) == Receive(noPacket(b))

\* Mutant of Handle: the tasks refer to the capture thread's packet.
HandleByReference ==
    /\ capture = "handle"
    /\ tasks' = [i \in 1 .. Len(tasks) + 1 |-> in_hand]
    /\ capture' = "keep"
    /\ UNCHANGED <<analyzerVars, countVars, packet_buffer, in_hand, worker, holding, conn_stats,
                   db, contended>>

\* The handler that main registered: a task with a copy of the packet.
Handle ==
    /\ capture = "handle"
    /\ tasks' = Append(tasks, in_hand)
    /\ capture' = "keep"
    /\ UNCHANGED <<analyzerVars, countVars, packet_buffer, in_hand, worker, holding, conn_stats,
                   db, contended>>

\* The packet is kept if the buffer has room, and the thread goes back to pcap.
Keep ==
    /\ capture = "keep"
    /\ packet_buffer' = IF Len(packet_buffer) = BufferCapacity
                        THEN packet_buffer ELSE Append(packet_buffer, in_hand)
    /\ capture' = "idle" /\ in_hand' = NoPacket
    /\ UNCHANGED <<analyzerVars, countVars, tasks, worker, holding, conn_stats, db, contended>>

-----------------------------------------------------------------------------
(* The workers *)

\* Mutants of Take: the newest task first; a task that stays queued.
TakeNewest(w) ==
    /\ worker[w] = "idle" /\ tasks # <<>>
    /\ holding' = [holding EXCEPT ![w] = tasks[Len(tasks)]]
    /\ tasks' = SubSeq(tasks, 1, Len(tasks) - 1)
    /\ worker' = [worker EXCEPT ![w] = "taken"]
    /\ contended' = ContendedWith(holding'[w])
    /\ UNCHANGED <<analyzerVars, captureVars, conn_stats, db>>

TakeWithoutPop(w) ==
    /\ worker[w] = "idle" /\ tasks # <<>>
    /\ holding' = [holding EXCEPT ![w] = Head(tasks)]
    /\ worker' = [worker EXCEPT ![w] = "taken"]
    /\ contended' = ContendedWith(holding'[w])
    /\ UNCHANGED <<analyzerVars, captureVars, tasks, conn_stats, db>>

Take(w) ==
    /\ worker[w] = "idle"
    /\ tasks # <<>>
    /\ holding' = [holding EXCEPT ![w] = Head(tasks)]
    /\ tasks' = Tail(tasks)
    /\ worker' = [worker EXCEPT ![w] = "taken"]
    /\ contended' = ContendedWith(holding'[w])
    /\ UNCHANGED <<analyzerVars, captureVars, conn_stats, db>>

\* Mutant of Process: the statistics are asked for before the packet counts.
ProcessAfterFetch(w) ==
    /\ worker[w] = "taken"
    /\ Analyzer!processPacket(holding[w])
    /\ conn_stats' = [conn_stats EXCEPT ![w] =
                        IF Key(w) \in DOMAIN connections THEN connections[Key(w)]
                        ELSE connections'[Key(w)]]
    /\ worker' = [worker EXCEPT ![w] = "fetched"]
    /\ UNCHANGED <<captureVars, tasks, holding, db, contended>>

\* packet_analyzer->processPacket(packet)
Process(w) ==
    /\ worker[w] = "taken"
    /\ Analyzer!processPacket(holding[w])
    /\ worker' = [worker EXCEPT ![w] = "processed"]
    /\ UNCHANGED <<captureVars, tasks, holding, conn_stats, db, contended>>

\* packet_analyzer->getConnectionStats(conn_key), a copy made under mutex_.
Fetch(w) ==
    /\ worker[w] = "processed"
    /\ conn_stats' = [conn_stats EXCEPT ![w] =
                        IF Key(w) \in DOMAIN connections
                        THEN connections[Key(w)] ELSE NoPacket]
    /\ worker' = [worker EXCEPT ![w] = "fetched"]
    /\ UNCHANGED <<analyzerVars, captureVars, tasks, holding, db, contended>>

\* The end of a task: the worker's locals are gone.
EndTask(w) ==
    /\ worker' = [worker EXCEPT ![w] = "idle"]
    /\ holding' = [holding EXCEPT ![w] = NoPacket]
    /\ conn_stats' = [conn_stats EXCEPT ![w] = NoPacket]
    /\ UNCHANGED <<analyzerVars, captureVars, tasks, contended>>

\* database->updateConnection(record), the end of the task.
Store(w) ==
    /\ worker[w] = "fetched"
    /\ db' = IF conn_stats[w] = NoPacket THEN db
             ELSE [k \in DOMAIN db \cup {Key(w)} |->
                     IF k = Key(w) THEN Record(conn_stats[w]) ELSE db[k]]
    /\ EndTask(w)

WorkerStep(w) == Take(w) \/ Process(w) \/ Fetch(w) \/ Store(w)

Next ==
    \/ \E b \in Blanks : CaptureTimeout(b) \/ \E f \in Frames : CapturePacket(b, f)
    \/ Handle \/ Keep
    \/ \E w \in Workers : WorkerStep(w)

Spec == Init /\ [][Next]_vars

\* The capture thread goes on with its packet and the workers run their tasks; nothing
\* makes packets arrive.
FairSpec ==
    /\ Spec
    /\ WF_vars(Handle \/ Keep)
    /\ \A w \in Workers : WF_vars(WorkerStep(w))

-----------------------------------------------------------------------------
(* Properties *)

Quiescent == tasks = <<>> /\ \A w \in Workers : worker[w] = "idle"

AnalysedBytes ==
    [k \in DOMAIN connections |-> connections[k].bytes_sent + connections[k].bytes_received]

QueuedBytes == [i \in DOMAIN tasks |-> tasks[i].size]

\* A worker that has a task and has not given its packet to the analyzer.
BytesInHand == [w \in Workers |-> IF worker[w] = "taken" THEN holding[w].size ELSE 0]

\* A packet that is counted and has no task yet.
BytesReceived == IF capture = "handle" THEN in_hand.size ELSE 0

\* bytes_captured_ is what the connections hold plus what is still queued or in the
\* hands of a worker or of the capture thread: between capture thread, queue and
\* workers no packet is lost and none is analysed twice (packet_capture.cpp 214-224,
\* main.cpp 153-154).
CapturedIsAccounted ==
    bytes_captured =
        SumFunctionOnSet(AnalysedBytes, DOMAIN connections)
        + SumFunctionOnSet(QueuedBytes, DOMAIN tasks)
        + SumFunctionOnSet(BytesInHand, Workers)
        + BytesReceived

\* How often a packet occurs among some.
Times(p, some) == Cardinality({i \in DOMAIN some : some[i] = p})

\* The packet that was captured as the n-th is eventually analysed itself, and as often
\* as one like it was captured by then: no task gets another's packet
\* (packet_capture.cpp 218-221, main.cpp 153-155).
EveryPacketIsAnalysed ==
    \A n \in 1 .. MaxPackets :
        packets_captured >= n
        ~> /\ n \in DOMAIN captured
           /\ Times(captured[n], processed) >= Times(captured[n], SubSeq(captured, 1, n))

\* Once the workers have caught up, the database holds the analyzer's figures of
\* every connection whose tasks never overlapped (main.cpp line 156, "Store
\* connection data in database").  Two overlapping tasks may store their copies
\* in the other order than they made them, and the older one then stays.
StoredIsCurrent ==
    Quiescent => \A k \in DOMAIN connections \ contended :
        k \in DOMAIN db /\ db[k] = Record(connections[k])

\* A stored record of an addressed connection is not replaced by an older one,
\* unless tasks of that connection overlapped (main.cpp 157-174).
StoredNeverGoesBack ==
    [][\A k \in DOMAIN db \ contended' : k.source_ip # NoAddress =>
          /\ db'[k].packets_sent >= db[k].packets_sent
          /\ db'[k].packets_received >= db[k].packets_received
          /\ db'[k].last_seen >= db[k].last_seen]_vars

-----------------------------------------------------------------------------
(* What the code does not keep *)

\* A connection that has carried a protocol is recognised to speak one: README
\* line 46, "Protocol detection (HTTP, DNS, TLS)".  data is the whole frame
\* (packet_capture.cpp 62), and HttpParser and TlsParser look for their protocol
\* at its start, which is the link header (protocol_parser.cpp 24-46, 220-234).
ProtocolsAreDetected ==
    \A i \in DOMAIN processed :
        processed[i].carries # Plain =>
            connections[Analyzer!createConnectionKey(processed[i])].protocol_type
                # Unrecognised

=============================================================================
