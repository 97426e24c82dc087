--------------------------- MODULE PipelineProofs ---------------------------
(***************************************************************************)
(* Proofs about Pipeline for any workers, frames and contents of a         *)
(* PacketInfo that was not filled in.                                      *)
(*                                                                         *)
(* That the bytes add up is a matter of where each packet is.  That the    *)
(* database is current for a connection whose tasks never overlapped rests *)
(* on what its one worker has done: what is stored is what the analyzer    *)
(* has, unless that worker is between the analyzer and the database.  That *)
(* it never goes back needs the order of the packets too: no packet that   *)
(* was taken from the queue is later than one still on it.                 *)
(***************************************************************************)
EXTENDS Pipeline, DataLemmas, FiniteSetTheorems

Stats == Analyzer!ConnectionStats

Records ==
    [bytes_sent : Nat, bytes_received : Nat, packets_sent : Nat,
     packets_received : Nat, first_seen : Nat, last_seen : Nat]

\* The shape of what the packets pass through.
Shape ==
    /\ packets_captured \in Nat
    /\ bytes_captured \in Nat
    /\ capture \in {"idle", "handle", "keep"}
    /\ capture = "handle" => in_hand \in Packets
    /\ tasks \in Seq(Packets)
    /\ worker \in [Workers -> {"idle", "taken", "processed", "fetched"}]
    /\ holding \in [Workers -> Packets \cup {NoPacket}]
    /\ \A w \in Busy : holding[w] \in Packets
    /\ conn_stats \in [Workers -> Stats \cup {NoPacket}]
    /\ connections \in [DOMAIN connections -> Stats]
    /\ IsFiniteSet(DOMAIN connections)
    /\ db \in [DOMAIN db -> Records]

\* A worker is between the analyzer and the database.
Storing(w) == worker[w] \in {"processed", "fetched"}

\* Two tasks of one connection at work make it contended.
AloneAtWork ==
    \A v, w \in Busy : v # w /\ Key(v) = Key(w) => Key(w) \in contended

\* The analyzer knows the connection that is to be stored, and a copy of it is
\* current.
CopyIsCurrent ==
    \A w \in Workers :
        /\ Storing(w) => Key(w) \in DOMAIN connections
        /\ worker[w] = "fetched" /\ Key(w) \notin contended =>
              conn_stats[w] = connections[Key(w)]

\* What is stored is current unless a worker is about to store it.
StoredUnlessStoring ==
    \A k \in DOMAIN connections \ contended :
        (\A w \in Workers : Storing(w) => Key(w) # k) =>
            k \in DOMAIN db /\ db[k] = Record(connections[k])

-----------------------------------------------------------------------------
(* The order of the packets *)

Addressed(p) == Analyzer!createConnectionKey(p).source_ip # NoAddress

\* A packet that has no task yet is the latest.
HandIsLatest ==
    capture = "handle" /\ Addressed(in_hand) => in_hand.timestamp = packets_captured

\* A time before that of the packets that are queued or will be captured.
Past(t) ==
    /\ t <= packets_captured
    /\ \A i \in DOMAIN tasks : Addressed(tasks[i]) => t <= tasks[i].timestamp

\* The queue is in the order of capture, and what has left it is past.
QueueInOrder ==
    /\ \A i \in DOMAIN tasks :
          Addressed(tasks[i]) =>
              /\ tasks[i].timestamp <= packets_captured
              /\ \A j \in DOMAIN tasks :
                    i < j /\ Addressed(tasks[j]) => tasks[i].timestamp <= tasks[j].timestamp
    /\ \A w \in Workers :
          worker[w] = "taken" /\ Addressed(holding[w]) => Past(holding[w].timestamp)
    /\ \A k \in DOMAIN connections :
          k.source_ip # NoAddress => Past(connections[k].last_seen)

\* A packet that is to be analysed is not older than what the analyzer has.
TakenIsLater ==
    \A w \in Workers :
        /\ worker[w] = "taken" /\ Addressed(holding[w])
        /\ Key(w) \in DOMAIN connections \ contended
        => connections[Key(w)].last_seen <= holding[w].timestamp

\* What is stored is not ahead of what the analyzer has.
StoredIsBehind ==
    \A k \in DOMAIN db \ contended : k.source_ip # NoAddress =>
        /\ k \in DOMAIN connections
        /\ db[k].packets_sent <= connections[k].packets_sent
        /\ db[k].packets_received <= connections[k].packets_received
        /\ db[k].last_seen <= connections[k].last_seen

IInv ==
    /\ Shape
    /\ CapturedIsAccounted
    /\ AloneAtWork
    /\ CopyIsCurrent
    /\ StoredUnlessStoring
    /\ HandIsLatest
    /\ QueueInOrder
    /\ TakenIsLater
    /\ StoredIsBehind

-----------------------------------------------------------------------------
(* Packets and what the analyzer makes of them *)

\* A frame that is captured gets the size of the frame and the time of capture.
LEMMA FieldsOfCaptured ==
    ASSUME NEW b \in Blanks, NEW f \in Frames, NEW t
    PROVE  /\ capturePacket(b, f, t).size = f.size
           /\ capturePacket(b, f, t).timestamp = t
<1> DEFINE p == [parsePacket(b, f) EXCEPT !.size = f.size, !.timestamp = t]
<1>1. {"size", "timestamp"} \subseteq DOMAIN b
  BY BlanksAreBlank
<1>2. DOMAIN parsePacket(b, f) = DOMAIN b
  BY DEF parsePacket
<1>3. p.size = f.size /\ p.timestamp = t
  BY <1>1, <1>2
<1>4. capturePacket(b, f, t) = Asked(p, f.start, f.payload)
  BY DEF capturePacket
<1> HIDE DEF p
<1>5. QED
  BY <1>3, <1>4 DEF Asked

\* Where no frame came, the fields are what they happened to be.
LEMMA FieldsOfNone ==
    ASSUME NEW b \in Blanks
    PROVE  /\ noPacket(b).size = b.size /\ b.size \in Nat
           /\ noPacket(b).timestamp = b.timestamp /\ b.timestamp \in Nat
           /\ ~Addressed(noPacket(b))
<1>1. /\ b.source_ip = NoAddress /\ b.dest_ip = NoAddress
      /\ b.size \in Nat /\ b.timestamp \in Nat
  BY BlanksAreBlank
<1> DEFINE q == noPacket(b)
<1>2. /\ q.size = b.size /\ q.timestamp = b.timestamp
      /\ q.source_ip = NoAddress /\ q.dest_ip = NoAddress
  BY <1>1 DEF noPacket, Asked
<1> HIDE DEF q
<1>3. Analyzer!createConnectionKey(q).source_ip = NoAddress
  <2>1. /\ Analyzer!Direction(q).source_ip = NoAddress
        /\ Analyzer!Flip(Analyzer!Direction(q)).source_ip = NoAddress
    BY <1>2 DEF Analyzer!Direction, Analyzer!Flip
  <2>2. QED
    BY <2>1 DEF Analyzer!createConnectionKey
<1>4. QED
  BY <1>1, <1>2, <1>3 DEF Addressed, q

LEMMA FieldsOfPackets ==
    ASSUME NEW p \in Packets
    PROVE  p.size \in Nat /\ p.timestamp \in Nat
<1>1. CASE \E b \in Blanks, f \in Frames, t \in 1 .. MaxPackets : p = capturePacket(b, f, t)
  BY <1>1, FieldsOfCaptured, FramesAreFrames, PoolIsFinite
<1>2. CASE \E b \in Blanks : p = noPacket(b)
  BY <1>2, FieldsOfNone
<1>3. QED
  BY <1>1, <1>2 DEF Packets

\* A connection is found to speak the protocol of one of the parsers or none.
LEMMA ParserIsKnown ==
    ASSUME NEW p
    PROVE  Analyzer!analyzeProtocol(p) \in Analyzer!Range(AllParsers) \cup {Unrecognised}
<1> DEFINE first == {i \in DOMAIN AllParsers :
                        /\ AllParsers[i] \in p.accepted
                        /\ \A j \in 1 .. (i - 1) : AllParsers[j] \notin p.accepted}
<1>1. CASE first = {}
  BY <1>1 DEF Analyzer!analyzeProtocol
<1>2. CASE first # {}
  <2>1. (CHOOSE i \in first : TRUE) \in first
    BY <1>2
  <2>2. AllParsers[CHOOSE i \in first : TRUE] \in Analyzer!Range(AllParsers)
    BY <2>1 DEF Analyzer!Range
  <2>3. QED
    BY <1>2, <2>2 DEF Analyzer!analyzeProtocol
<1>3. QED
  BY <1>1, <1>2

\* What the analyzer's tables are after one packet: its connection has gained it,
\* the others are as they were.
LEMMA Analysed ==
    ASSUME Shape, NEW p \in Packets, Analyzer!processPacket(p)
    PROVE  LET key == Analyzer!createConnectionKey(p)
               s == connections[key]
               t == connections'[key]
           IN  /\ DOMAIN connections' = DOMAIN connections \cup {key}
               /\ connections' \in [DOMAIN connections' -> Stats]
               /\ IsFiniteSet(DOMAIN connections')
               /\ \A k \in DOMAIN connections \ {key} : connections'[k] = connections[k]
               /\ t.last_seen = p.timestamp
               /\ key \in DOMAIN connections =>
                     /\ t.bytes_sent + t.bytes_received
                          = s.bytes_sent + s.bytes_received + p.size
                     /\ s.packets_sent <= t.packets_sent
                     /\ s.packets_received <= t.packets_received
               /\ key \notin DOMAIN connections => t.bytes_sent + t.bytes_received = p.size
<1> DEFINE key == Analyzer!createConnectionKey(p)
           s == connections[key]
           t == connections'[key]
<1>1. p.size \in Nat /\ p.timestamp \in Nat
  BY FieldsOfPackets
<1>2. /\ DOMAIN connections' = DOMAIN connections \cup {key}
      /\ \A k \in DOMAIN connections \ {key} : connections'[k] = connections[k]
      /\ key \in DOMAIN connections => t = Analyzer!UpdatedStats(s, p, key)
      /\ key \notin DOMAIN connections => t = Analyzer!NewStats(p, key)
      /\ connections' = [k \in DOMAIN connections' |-> connections'[k]]
  BY DEF Analyzer!processPacket
<1>3. IsFiniteSet(DOMAIN connections')
  BY <1>2, FS_AddElement DEF Shape
<1> HIDE DEF key
<1>4. CASE key \in DOMAIN connections
  <2>1. s \in Stats
    BY <1>4 DEF Shape
  <2>2. t \in Stats
    BY <1>1, <1>2, <1>4, <2>1, ParserIsKnown
       DEF Stats, Analyzer!UpdatedStats, Analyzer!ConnectionStats
  <2>3. /\ t.last_seen = p.timestamp
        /\ t.bytes_sent + t.bytes_received = s.bytes_sent + s.bytes_received + p.size
        /\ s.packets_sent <= t.packets_sent
        /\ s.packets_received <= t.packets_received
    BY <1>1, <1>2, <1>4, <2>1 DEF Stats, Analyzer!UpdatedStats, Analyzer!ConnectionStats
  <2>4. connections' \in [DOMAIN connections' -> Stats]
    BY <1>2, <2>2 DEF Shape
  <2>5. QED
    BY <1>2, <1>3, <1>4, <2>3, <2>4 DEF key
<1>5. CASE key \notin DOMAIN connections
  <2>1. t \in Stats
    BY <1>1, <1>2, <1>5, ParserIsKnown
       DEF Stats, Analyzer!NewStats, Analyzer!ConnectionStats
  <2>2. t.last_seen = p.timestamp /\ t.bytes_sent + t.bytes_received = p.size
    BY <1>1, <1>2, <1>5 DEF Analyzer!NewStats
  <2>3. connections' \in [DOMAIN connections' -> Stats]
    BY <1>2, <2>1 DEF Shape
  <2>4. QED
    BY <1>2, <1>3, <1>5, <2>2, <2>3 DEF key
<1>6. QED
  BY <1>4, <1>5

-----------------------------------------------------------------------------
(* Where the bytes are *)

AllAnalysed == SumFunctionOnSet(AnalysedBytes, DOMAIN connections)
AllQueued == SumFunctionOnSet(QueuedBytes, DOMAIN tasks)
AllInHand == SumFunctionOnSet(BytesInHand, Workers)

LEMMA BytesAreNumbers ==
    ASSUME Shape
    PROVE  /\ \A k \in DOMAIN connections : AnalysedBytes[k] \in Nat
           /\ \A i \in DOMAIN tasks : QueuedBytes[i] \in Nat
           /\ \A w \in Workers : BytesInHand[w] \in Nat
           /\ IsFiniteSet(DOMAIN connections) /\ IsFiniteSet(DOMAIN tasks)
           /\ IsFiniteSet(Workers)
<1>1. ASSUME NEW k \in DOMAIN connections PROVE AnalysedBytes[k] \in Nat
  <2>1. connections[k] \in Stats
    BY DEF Shape
  <2>2. QED
    BY <2>1 DEF AnalysedBytes, Stats, Analyzer!ConnectionStats
<1>2. ASSUME NEW i \in DOMAIN tasks PROVE QueuedBytes[i] \in Nat
  <2>1. tasks[i] \in Packets
    BY ElementOfSeq DEF Shape
  <2>2. QED
    BY <2>1, FieldsOfPackets DEF QueuedBytes
<1>3. ASSUME NEW w \in Workers PROVE BytesInHand[w] \in Nat
  <2>1. worker[w] = "taken" => holding[w] \in Packets
    BY DEF Shape, Busy
  <2>2. QED
    BY <2>1, FieldsOfPackets DEF BytesInHand
<1>4. IsFiniteSet(DOMAIN tasks)
  <2>1. DOMAIN tasks = 1 .. Len(tasks) /\ Len(tasks) \in Nat
    BY LenProperties DEF Shape
  <2>2. QED
    BY <2>1, FS_Interval
<1>5. QED
  BY <1>1, <1>2, <1>3, <1>4, PoolIsFinite DEF Shape

LEMMA SumsAreNumbers ==
    ASSUME Shape
    PROVE  AllAnalysed \in Nat /\ AllQueued \in Nat /\ AllInHand \in Nat
           /\ BytesReceived \in Nat
<1>1. AllAnalysed \in Nat
  BY BytesAreNumbers, SumUnfolds DEF AllAnalysed
<1>2. AllQueued \in Nat
  BY BytesAreNumbers, SumUnfolds DEF AllQueued
<1>3. AllInHand \in Nat
  BY BytesAreNumbers, SumUnfolds DEF AllInHand
<1>4. BytesReceived \in Nat
  BY FieldsOfPackets DEF BytesReceived, Shape
<1>5. QED
  BY <1>1, <1>2, <1>3, <1>4

\* The same as a fact about any state.
AllAreNumbers == AllAnalysed \in Nat /\ AllQueued \in Nat /\ AllInHand \in Nat

LEMMA AllAreNumbersAlways == Shape => AllAreNumbers
BY SumsAreNumbers DEF AllAreNumbers

LEMMA AllAreNumbersNext == Shape' => AllAreNumbers'
BY AllAreNumbersAlways, PTL

\* A packet that is queued adds its bytes to the queue.
LEMMA QueueGrows ==
    ASSUME Shape, NEW p \in Packets, tasks' = Append(tasks, p)
    PROVE  AllQueued' = AllQueued + p.size
<1> DEFINE n == Len(tasks)
<1>1. /\ n \in Nat /\ DOMAIN tasks = 1 .. n /\ DOMAIN tasks' = (1 .. n) \cup {n + 1}
      /\ n + 1 \notin 1 .. n
      /\ \A i \in 1 .. n : tasks'[i] = tasks[i]
      /\ tasks'[n + 1] = p
  BY AppendProperties, LenProperties DEF Shape
<1> HIDE DEF n
<1>2. p.size \in Nat /\ IsFiniteSet(1 .. n) /\ \A i \in 1 .. n : QueuedBytes[i] \in Nat
  BY <1>1, FieldsOfPackets, BytesAreNumbers
<1>3. /\ QueuedBytes'[n + 1] = p.size
      /\ \A i \in 1 .. n : QueuedBytes'[i] = QueuedBytes[i]
  BY <1>1 DEF QueuedBytes
<1> DEFINE f == QueuedBytes
           g == QueuedBytes'
<1>4. SumFunctionOnSet(g, (1 .. n) \cup {n + 1}) = SumFunctionOnSet(g, 1 .. n) + g[n + 1]
  <2>1. \A i \in (1 .. n) \cup {n + 1} : g[i] \in Nat
    BY <1>2, <1>3
  <2> DEFINE S == 1 .. n
             a == n + 1
  <2>2. IsFiniteSet(S) /\ a \notin S /\ \A i \in S \cup {a} : g[i] \in Nat
    BY <1>1, <1>2, <2>1
  <2> HIDE DEF g, S, a
  <2>3. SumFunctionOnSet(g, S \cup {a}) = SumFunctionOnSet(g, S) + g[a]
    BY <2>2, SumAdd
  <2>4. QED
    BY <2>3 DEF S, a
<1>5. SumFunctionOnSet(g, 1 .. n) = SumFunctionOnSet(f, 1 .. n)
  <2>1. \A i \in 1 .. n : f[i] \in Nat /\ g[i] = f[i]
    BY <1>2, <1>3
  <2> HIDE DEF f, g
  <2>2. QED
    BY <1>2, <2>1, SumSame
<1>6. QED
  BY <1>1, <1>3, <1>4, <1>5 DEF AllQueued

\* The packet that is taken was the first of the queue.
LEMMA QueueShrinks ==
    ASSUME Shape, tasks # <<>>, tasks' = Tail(tasks)
    PROVE  AllQueued = Head(tasks).size + AllQueued'
<1> DEFINE n == Len(tasks) - 1
<1>1. /\ n \in Nat /\ DOMAIN tasks = 1 .. (n + 1) /\ DOMAIN tasks' = 1 .. n
      /\ Head(tasks) = tasks[1] /\ 1 \in 1 .. (n + 1)
      /\ \A i \in 1 .. n : tasks'[i] = tasks[i + 1] /\ i + 1 \in 1 .. (n + 1)
  BY HeadTailProperties, LenProperties, EmptySeq DEF Shape
<1> HIDE DEF n
<1> DEFINE f == QueuedBytes
           g == QueuedBytes'
<1>2. \A i \in 1 .. (n + 1) : f[i] \in Nat
  BY <1>1, BytesAreNumbers
<1>3. /\ f[1] = Head(tasks).size
      /\ \A i \in 1 .. n : g[i] = f[i + 1]
  BY <1>1 DEF QueuedBytes
<1>4. SumFunctionOnSet(f, 1 .. (n + 1)) = f[1] + SumFunctionOnSet(g, 1 .. n)
  <2> HIDE DEF f, g
  <2>1. QED
    BY <1>1, <1>2, <1>3, SumShift
<1>5. QED
  BY <1>1, <1>3, <1>4 DEF AllQueued

\* What one worker does changes what is in hand by its own part.
LEMMA HandChanges ==
    ASSUME Shape, Shape', NEW w \in Workers,
           \A v \in Workers \ {w} : worker'[v] = worker[v] /\ holding'[v] = holding[v]
    PROVE  AllInHand' + BytesInHand[w] = AllInHand + BytesInHand'[w]
<1> DEFINE f == BytesInHand
           g == BytesInHand'
<1>1. \A v \in Workers : f[v] \in Nat /\ g[v] \in Nat
  <2>1. \A v \in Workers : f[v] \in Nat
    BY BytesAreNumbers
  <2>2. \A v \in Workers : worker'[v] = "taken" => holding'[v] \in Packets
    BY DEF Shape, Busy
  <2>3. \A v \in Workers : g[v] \in Nat
    BY <2>2, FieldsOfPackets DEF BytesInHand
  <2>4. QED
    BY <2>1, <2>3
<1>2. \A v \in Workers \ {w} : g[v] = f[v]
  BY DEF BytesInHand
<1>3. SumFunctionOnSet(g, Workers) + f[w] = SumFunctionOnSet(f, Workers) + g[w]
  <2> HIDE DEF f, g
  <2>1. QED
    BY <1>1, <1>2, PoolIsFinite, SumChange
<1>4. QED
  BY <1>3 DEF AllInHand

\* A packet that is analysed adds its bytes to those of its connection.
LEMMA AnalysedGrows ==
    ASSUME Shape, NEW p \in Packets, Analyzer!processPacket(p)
    PROVE  AllAnalysed' = AllAnalysed + p.size
<1> DEFINE key == Analyzer!createConnectionKey(p)
           f == AnalysedBytes
           g == AnalysedBytes'
           D == DOMAIN connections
<1>1. /\ DOMAIN connections' = D \cup {key} /\ IsFiniteSet(D)
      /\ \A k \in D \ {key} : g[k] = f[k]
      /\ key \in D => g[key] = f[key] + p.size
      /\ key \notin D => g[key] = p.size
  BY Analysed DEF AnalysedBytes, Shape
<1>2. p.size \in Nat /\ \A k \in D : f[k] \in Nat
  BY FieldsOfPackets, BytesAreNumbers
<1> HIDE DEF key, f, g, D
<1>3. \A k \in D \cup {key} : g[k] \in Nat
  BY <1>1, <1>2
<1>4. CASE key \in D
  <2>1. /\ SumFunctionOnSet(g, D) + f[key] = SumFunctionOnSet(f, D) + g[key]
        /\ SumFunctionOnSet(g, D) \in Nat /\ SumFunctionOnSet(f, D) \in Nat
    BY <1>1, <1>2, <1>3, <1>4, SumChange
  <2>2. SumFunctionOnSet(g, D) = SumFunctionOnSet(f, D) + p.size
    BY <1>1, <1>2, <1>4, <2>1
  <2>3. D \cup {key} = D
    BY <1>4
  <2>4. QED
    BY <1>1, <2>2, <2>3 DEF AllAnalysed, f, g, D
<1>5. CASE key \notin D
  <2>1. SumFunctionOnSet(g, D \cup {key}) = SumFunctionOnSet(g, D) + g[key]
    BY <1>1, <1>3, <1>5, SumAdd
  <2>2. SumFunctionOnSet(g, D) = SumFunctionOnSet(f, D)
    BY <1>1, <1>2, <1>5, SumSame
  <2>3. QED
    BY <1>1, <1>5, <2>1, <2>2 DEF AllAnalysed, f, g, D
<1>6. QED
  BY <1>4, <1>5

-----------------------------------------------------------------------------
(* The initial state and the steps of the capture thread *)

LEMMA InitIInv == Init => IInv
<1> SUFFICES ASSUME Init PROVE IInv
  OBVIOUS
<1>1. /\ connections = <<>> /\ DOMAIN connections = {} /\ tasks = <<>> /\ DOMAIN tasks = {}
      /\ db = <<>> /\ DOMAIN db = {} /\ packets_captured = 0 /\ bytes_captured = 0
      /\ capture = "idle"
      /\ worker = [w \in Workers |-> "idle"]
      /\ holding = [w \in Workers |-> NoPacket]
      /\ conn_stats = [w \in Workers |-> NoPacket]
  BY DEF Init, Analyzer!Init
<1>2. \A w \in Workers : worker[w] = "idle"
  BY <1>1
<1>3. Shape
  <2>1. worker \in [Workers -> {"idle", "taken", "processed", "fetched"}]
    BY <1>1
  <2>2. /\ holding \in [Workers -> Packets \cup {NoPacket}]
        /\ conn_stats \in [Workers -> Stats \cup {NoPacket}]
    BY <1>1
  <2>3. \A w \in Busy : holding[w] \in Packets
    BY <1>2 DEF Busy
  <2>4. tasks \in Seq(Packets) /\ packets_captured \in Nat /\ bytes_captured \in Nat
    BY <1>1
  <2>5. connections \in [DOMAIN connections -> Stats] /\ db \in [DOMAIN db -> Records]
    BY <1>1
  <2>6. IsFiniteSet(DOMAIN connections)
    BY <1>1, FS_EmptySet
  <2>7. QED
    BY <1>1, <2>1, <2>2, <2>3, <2>4, <2>5, <2>6 DEF Shape
<1>4. CapturedIsAccounted
  <2>1. AllAnalysed = 0 /\ AllQueued = 0
    BY <1>1, FS_EmptySet, SumUnfolds DEF AllAnalysed, AllQueued
  <2>2. AllInHand = 0
    <3>1. \A w \in Workers : BytesInHand[w] = 0
      BY <1>2 DEF BytesInHand
    <3>2. QED
      BY <3>1, PoolIsFinite, SumZero DEF AllInHand
  <2>3. BytesReceived = 0
    BY <1>1 DEF BytesReceived
  <2>4. QED
    BY <1>1, <2>1, <2>2, <2>3 DEF CapturedIsAccounted, AllAnalysed, AllQueued, AllInHand
<1>5. AloneAtWork /\ CopyIsCurrent /\ TakenIsLater
  BY <1>2 DEF AloneAtWork, CopyIsCurrent, TakenIsLater, Busy, Storing
<1>6. StoredUnlessStoring /\ StoredIsBehind
  BY <1>1 DEF StoredUnlessStoring, StoredIsBehind
<1>7. QueueInOrder /\ HandIsLatest
  BY <1>1, <1>2 DEF QueueInOrder, HandIsLatest
<1>8. QED
  BY <1>3, <1>4, <1>5, <1>6, <1>7 DEF IInv

\* What the invariant says of the sums.
LEMMA Accounted ==
    CapturedIsAccounted <=>
        bytes_captured = (AllAnalysed + AllQueued + AllInHand) + BytesReceived
BY DEF CapturedIsAccounted, AllAnalysed, AllQueued, AllInHand

\* What a packet adds in one place it takes away in another.
LEMMA Moved ==
    ASSUME NEW a \in Nat, NEW b \in Nat, NEW c \in Nat, NEW s \in Nat
    PROVE  /\ a + (s + b) + c = a + b + (c + s)
           /\ a + b + (c + s) = (a + s) + b + c
OBVIOUS

LEMMA StutterIInv == ASSUME IInv, UNCHANGED vars PROVE IInv'
<1> USE DEF vars, analyzerVars, captureVars, countVars
<1>1. Shape'
  BY DEF IInv, Shape, Busy
<1>2. CapturedIsAccounted'
  BY DEF IInv, CapturedIsAccounted, AnalysedBytes, QueuedBytes, BytesInHand, BytesReceived
<1>3. AloneAtWork' /\ CopyIsCurrent' /\ StoredUnlessStoring'
  BY DEF IInv, AloneAtWork, CopyIsCurrent, StoredUnlessStoring, Busy, Key, Storing
<1>4. HandIsLatest' /\ QueueInOrder' /\ TakenIsLater' /\ StoredIsBehind'
  BY DEF IInv, HandIsLatest, QueueInOrder, TakenIsLater, StoredIsBehind, Past, Key
<1>5. QED
  BY <1>1, <1>2, <1>3, <1>4 DEF IInv

\* The packet that is counted is in the capture thread's hand and, if it has an
\* address, later than all before it.
LEMMA ReceiveIInv ==
    ASSUME IInv, NEW p \in Packets, Receive(p),
           Addressed(p) => p.timestamp = packets_captured + 1
    PROVE  IInv'
<1>1. /\ Shape /\ packets_captured \in Nat /\ bytes_captured \in Nat
      /\ capture = "idle" /\ capture' = "handle" /\ in_hand' = p
      /\ packets_captured' = packets_captured + 1
      /\ bytes_captured' = bytes_captured + p.size
      /\ UNCHANGED <<connections, tasks, worker, holding, conn_stats, db, contended>>
  BY DEF Receive, analyzerVars, IInv, Shape
<1>2. p.size \in Nat
  BY FieldsOfPackets
<1>3. Shape'
  BY <1>1, <1>2 DEF Shape, Busy
<1>4. CapturedIsAccounted'
  <2>1. BytesReceived = 0 /\ BytesReceived' = p.size
    BY <1>1 DEF BytesReceived
  <2>2. AllAnalysed' = AllAnalysed /\ AllQueued' = AllQueued /\ AllInHand' = AllInHand
    BY <1>1 DEF AllAnalysed, AnalysedBytes, AllQueued, QueuedBytes, AllInHand, BytesInHand
  <2>3. bytes_captured = (AllAnalysed + AllQueued + AllInHand) + BytesReceived
    BY Accounted DEF IInv
  <2>4. AllAnalysed \in Nat /\ AllQueued \in Nat /\ AllInHand \in Nat
    BY <1>1, SumsAreNumbers
  <2>5. bytes_captured' = (AllAnalysed' + AllQueued' + AllInHand') + BytesReceived'
    BY <1>1, <2>1, <2>2, <2>3, <2>4
  <2>6. QED
    BY <2>5 DEF CapturedIsAccounted, AllAnalysed, AllQueued, AllInHand
<1>5. AloneAtWork' /\ CopyIsCurrent' /\ StoredUnlessStoring'
  BY <1>1 DEF IInv, AloneAtWork, CopyIsCurrent, StoredUnlessStoring, Busy, Key, Storing
<1>6. TakenIsLater' /\ StoredIsBehind'
  BY <1>1 DEF IInv, TakenIsLater, StoredIsBehind, Key
<1>7. HandIsLatest'
  BY <1>1 DEF HandIsLatest, Addressed
<1>8. QueueInOrder'
  <2>1. ASSUME NEW t \in Nat, Past(t) PROVE Past(t)'
    BY <1>1, <2>1 DEF Past, Addressed
  <2>2. ASSUME NEW i \in DOMAIN tasks PROVE tasks[i].timestamp \in Nat
    BY <1>1, ElementOfSeq, FieldsOfPackets DEF Shape
  <2>3. ASSUME NEW i \in DOMAIN tasks, Addressed(tasks[i])
        PROVE  /\ tasks[i].timestamp <= packets_captured + 1
               /\ \A j \in DOMAIN tasks :
                     i < j /\ Addressed(tasks[j]) => tasks[i].timestamp <= tasks[j].timestamp
    <3>1. tasks[i].timestamp <= packets_captured
      BY <2>3 DEF IInv, QueueInOrder
    <3>2. tasks[i].timestamp <= packets_captured + 1
      BY <1>1, <2>2, <3>1
    <3>3. QED
      BY <2>3, <3>2 DEF IInv, QueueInOrder
  <2>4. ASSUME NEW w \in Workers, worker[w] = "taken", Addressed(holding[w])
        PROVE  Past(holding[w].timestamp)'
    <3>1. holding[w].timestamp \in Nat /\ Past(holding[w].timestamp)
      BY <1>1, <2>4, FieldsOfPackets DEF IInv, QueueInOrder, Shape, Busy
    <3>2. QED
      BY <1>1, <2>1, <3>1 DEF Past
  <2>5. ASSUME NEW k \in DOMAIN connections, k.source_ip # NoAddress
        PROVE  Past(connections[k].last_seen)'
    <3>1. connections[k].last_seen \in Nat
      BY <1>1 DEF Shape, Stats, Analyzer!ConnectionStats
    <3>2. Past(connections[k].last_seen)
      BY <2>5 DEF IInv, QueueInOrder
    <3>3. QED
      BY <1>1, <2>1, <3>1, <3>2 DEF Past
  <2>6. QED
    BY <1>1, <2>3, <2>4, <2>5 DEF QueueInOrder, Addressed
<1>9. QED
  BY <1>3, <1>4, <1>5, <1>6, <1>7, <1>8 DEF IInv

\* Both ways to get a packet are such a step.
LEMMA CapturesIInv ==
    ASSUME IInv, NEW b \in Blanks,
           CaptureTimeout(b) \/ \E f \in Frames : CapturePacket(b, f)
    PROVE  IInv'
<1>1. CASE CaptureTimeout(b)
  <2>1. noPacket(b) \in Packets /\ ~Addressed(noPacket(b)) /\ Receive(noPacket(b))
    BY <1>1, FieldsOfNone DEF CaptureTimeout, Packets
  <2>2. QED
    BY <2>1, ReceiveIInv
<1>2. ASSUME NEW f \in Frames, CapturePacket(b, f) PROVE IInv'
  <2> DEFINE t == packets_captured + 1
             p == capturePacket(b, f, t)
  <2>1. Receive(p) /\ t \in 1 .. MaxPackets
    BY <1>2, PoolIsFinite DEF CapturePacket, Receive, IInv, Shape
  <2>2. p \in Packets /\ p.timestamp = t
    BY <2>1, FieldsOfCaptured DEF Packets
  <2> HIDE DEF p
  <2>3. QED
    BY <2>1, <2>2, ReceiveIInv
<1>3. QED
  BY <1>1, <1>2

\* The packet's task is the last of the queue.
LEMMA HandleIInv ==
    ASSUME IInv, Handle, NEW p, p = in_hand
    PROVE  IInv'
<1> DEFINE n == Len(tasks)
<1>1. /\ Shape /\ p \in Packets /\ n \in Nat /\ packets_captured \in Nat
      /\ capture = "handle" /\ capture' = "keep"
      /\ tasks' = Append(tasks, p)
      /\ UNCHANGED <<connections, packets_captured, bytes_captured, in_hand, worker, holding,
                     conn_stats, db, contended>>
  BY LenProperties DEF Handle, analyzerVars, countVars, IInv, Shape
<1>2. p.size \in Nat /\ p.timestamp \in Nat
      /\ (Addressed(p) => p.timestamp = packets_captured)
  BY <1>1, FieldsOfPackets DEF IInv, HandIsLatest
<1>3. /\ DOMAIN tasks = 1 .. n /\ DOMAIN tasks' = 1 .. (n + 1)
      /\ tasks' \in Seq(Packets) /\ tasks'[n + 1] = p
      /\ \A i \in 1 .. n : tasks'[i] = tasks[i] /\ tasks[i].timestamp \in Nat
  <2>1. tasks \in Seq(Packets)
    BY <1>1 DEF Shape
  <2>2. \A i \in 1 .. n : tasks[i] \in Packets
    BY <2>1
  <2>3. QED
    BY <1>1, <2>1, <2>2, FieldsOfPackets, AppendProperties, LenProperties
<1>4. Shape'
  BY <1>1, <1>3 DEF Shape, Busy
<1>5. CapturedIsAccounted'
  <2>1. AllQueued' = AllQueued + p.size
    BY <1>1, QueueGrows
  <2>2. AllAnalysed' = AllAnalysed /\ AllInHand' = AllInHand
    BY <1>1 DEF AllAnalysed, AnalysedBytes, AllInHand, BytesInHand
  <2>3. BytesReceived = p.size /\ BytesReceived' = 0
    BY <1>1 DEF BytesReceived
  <2>4. bytes_captured = (AllAnalysed + AllQueued + AllInHand) + BytesReceived
    BY Accounted DEF IInv
  <2>5. AllAnalysed \in Nat /\ AllQueued \in Nat /\ AllInHand \in Nat
    BY <1>1, SumsAreNumbers
  <2>6. (AllAnalysed + AllQueued + AllInHand) + p.size
           = (AllAnalysed + (AllQueued + p.size) + AllInHand) + 0
    BY <1>2, <2>5
  <2>7. bytes_captured' = (AllAnalysed' + AllQueued' + AllInHand') + BytesReceived'
    BY <1>1, <2>1, <2>2, <2>3, <2>4, <2>6
  <2>8. QED
    BY <2>7 DEF CapturedIsAccounted, AllAnalysed, AllQueued, AllInHand
<1>6. AloneAtWork' /\ CopyIsCurrent' /\ StoredUnlessStoring'
  BY <1>1 DEF IInv, AloneAtWork, CopyIsCurrent, StoredUnlessStoring, Busy, Key, Storing
<1>7. TakenIsLater' /\ StoredIsBehind' /\ HandIsLatest'
  BY <1>1 DEF IInv, TakenIsLater, StoredIsBehind, HandIsLatest, Key
<1>8. QueueInOrder'
  <2>1. ASSUME NEW t \in Nat, Past(t) PROVE Past(t)'
    <3>1. t <= packets_captured
      BY <1>1, <1>3, <2>1 DEF Past
    <3>2. ASSUME NEW i \in 1 .. (n + 1), Addressed(tasks'[i])
          PROVE  t <= tasks'[i].timestamp
      <4>1. CASE i \in 1 .. n
        BY <1>1, <1>3, <2>1, <3>2, <4>1 DEF Past
      <4>2. CASE i = n + 1
        BY <1>1, <1>3, <1>2, <3>1, <3>2, <4>2
      <4>3. QED
        BY <1>1, <1>3, <4>1, <4>2
    <3>3. QED
      BY <1>1, <1>3, <3>1, <3>2 DEF Past, Addressed
  <2>2. ASSUME NEW i \in 1 .. (n + 1), Addressed(tasks'[i])
        PROVE  /\ tasks'[i].timestamp <= packets_captured
               /\ \A j \in 1 .. (n + 1) : i < j /\ Addressed(tasks'[j]) =>
                     tasks'[i].timestamp <= tasks'[j].timestamp
    <3>1. CASE i = n + 1
      BY <1>1, <1>3, <1>2, <2>2, <3>1
    <3>2. CASE i \in 1 .. n
      <4>1. /\ tasks'[i] = tasks[i] /\ tasks[i].timestamp \in Nat
            /\ tasks[i].timestamp <= packets_captured
            /\ \A j \in 1 .. n : i < j /\ Addressed(tasks[j]) =>
                  tasks[i].timestamp <= tasks[j].timestamp
        BY <1>1, <1>3, <2>2, <3>2 DEF IInv, QueueInOrder
      <4>2. ASSUME NEW j \in 1 .. (n + 1), i < j, Addressed(tasks'[j])
            PROVE  tasks'[i].timestamp <= tasks'[j].timestamp
        <5>1. CASE j = n + 1
          BY <1>1, <1>3, <1>2, <4>1, <4>2, <5>1
        <5>2. CASE j \in 1 .. n
          BY <1>1, <1>3, <4>1, <4>2, <5>2
        <5>3. QED
          BY <1>1, <1>3, <5>1, <5>2
      <4>3. tasks'[i].timestamp <= packets_captured
        BY <1>1, <1>3, <4>1
      <4>4. QED
        BY <4>2, <4>3
    <3>3. i = n + 1 \/ i \in 1 .. n
      BY <1>1, <1>3
    <3>4. QED
      BY <3>1, <3>2, <3>3
  <2>3. ASSUME NEW w \in Workers, worker[w] = "taken", Addressed(holding[w])
        PROVE  Past(holding[w].timestamp)'
    <3>1. holding[w].timestamp \in Nat /\ Past(holding[w].timestamp)
      BY <1>1, <1>3, <2>3, FieldsOfPackets DEF IInv, QueueInOrder, Shape, Busy
    <3>2. QED
      BY <1>1, <2>1, <3>1
  <2>4. ASSUME NEW k \in DOMAIN connections, k.source_ip # NoAddress
        PROVE  Past(connections[k].last_seen)'
    <3>1. connections[k].last_seen \in Nat
      BY <1>1, <1>3 DEF Shape, Stats, Analyzer!ConnectionStats
    <3>2. Past(connections[k].last_seen)
      BY <2>4 DEF IInv, QueueInOrder
    <3>3. QED
      BY <1>1, <2>1, <3>1, <3>2
  <2>5. QED
    BY <1>1, <1>3, <2>2, <2>3, <2>4 DEF QueueInOrder, Addressed
<1>9. QED
  BY <1>4, <1>5, <1>6, <1>7, <1>8 DEF IInv

\* The packet is kept, or not, and the thread is done with it.
LEMMA KeepIInv == ASSUME IInv, Keep PROVE IInv'
<1>1. /\ capture = "keep" /\ capture' = "idle"
      /\ UNCHANGED <<connections, packets_captured, bytes_captured, tasks, worker, holding,
                     conn_stats, db, contended>>
  BY DEF Keep, analyzerVars, countVars
<1>2. Shape'
  BY <1>1 DEF IInv, Shape, Busy
<1>3. CapturedIsAccounted'
  BY <1>1 DEF IInv, CapturedIsAccounted, AnalysedBytes, QueuedBytes, BytesInHand, BytesReceived
<1>4. AloneAtWork' /\ CopyIsCurrent' /\ StoredUnlessStoring'
  BY <1>1 DEF IInv, AloneAtWork, CopyIsCurrent, StoredUnlessStoring, Busy, Key, Storing
<1>5. HandIsLatest' /\ QueueInOrder' /\ TakenIsLater' /\ StoredIsBehind'
  BY <1>1 DEF IInv, HandIsLatest, QueueInOrder, TakenIsLater, StoredIsBehind, Past, Key
<1>6. QED
  BY <1>2, <1>3, <1>4, <1>5 DEF IInv

-----------------------------------------------------------------------------
(* The steps of a worker *)

\* The facts that the steps of worker w have in common: it goes on to step s, with
\* packet p.
LEMMA WorkerMoves ==
    ASSUME Shape, NEW w \in Workers,
           NEW s \in {"idle", "taken", "processed", "fetched"},
           NEW p \in Packets \cup {NoPacket}, s # "idle" => p \in Packets,
           worker' = [worker EXCEPT ![w] = s], holding' = [holding EXCEPT ![w] = p]
    PROVE  /\ worker' \in [Workers -> {"idle", "taken", "processed", "fetched"}]
           /\ holding' \in [Workers -> Packets \cup {NoPacket}]
           /\ \A v \in Busy' : holding'[v] \in Packets
           /\ worker'[w] = s /\ holding'[w] = p
           /\ \A v \in Workers \ {w} :
                 worker'[v] = worker[v] /\ holding'[v] = holding[v] /\ Key(v)' = Key(v)
<1>1. /\ worker' \in [Workers -> {"idle", "taken", "processed", "fetched"}]
      /\ holding' \in [Workers -> Packets \cup {NoPacket}]
  BY DEF Shape
<1>2. /\ worker'[w] = s /\ holding'[w] = p
      /\ \A v \in Workers \ {w} : worker'[v] = worker[v] /\ holding'[v] = holding[v]
  BY DEF Shape
<1>3. \A v \in Workers \ {w} : Key(v)' = Key(v)
  BY <1>2 DEF Key
<1>4. \A v \in Busy' : holding'[v] \in Packets
  BY <1>2 DEF Shape, Busy
<1>5. QED
  BY <1>1, <1>2, <1>3, <1>4

\* A worker takes the packet that has waited longest.
LEMMA TakeIInv ==
    ASSUME IInv, NEW w \in Workers, NEW p, p = Head(tasks), Take(w)
    PROVE  IInv'
<1> USE DEF Take, analyzerVars, captureVars, countVars
<1> DEFINE n == Len(tasks) - 1
           key == Analyzer!createConnectionKey(p)
<1>1. /\ Shape /\ n \in Nat /\ DOMAIN tasks = 1 .. (n + 1) /\ DOMAIN tasks' = 1 .. n
      /\ p = tasks[1] /\ p \in Packets /\ tasks' \in Seq(Packets)
      /\ 1 \in 1 .. (n + 1)
      /\ \A i \in 1 .. n : tasks'[i] = tasks[i + 1] /\ i + 1 \in 1 .. (n + 1) /\ 1 < i + 1
  BY HeadTailProperties, LenProperties, EmptySeq DEF IInv, Shape
<1>2. p.size \in Nat /\ p.timestamp \in Nat
  BY <1>1, FieldsOfPackets
<1>3. /\ worker' \in [Workers -> {"idle", "taken", "processed", "fetched"}]
      /\ holding' \in [Workers -> Packets \cup {NoPacket}]
      /\ \A v \in Busy' : holding'[v] \in Packets
      /\ worker[w] = "idle" /\ worker'[w] = "taken" /\ holding'[w] = p /\ Key(w)' = key
      /\ \A v \in Workers \ {w} : worker'[v] = worker[v] /\ holding'[v] = holding[v]
                                  /\ Key(v)' = Key(v)
  <2>1. "taken" \in {"idle", "taken", "processed", "fetched"}
    OBVIOUS
  <2>2. /\ worker[w] = "idle" /\ worker' = [worker EXCEPT ![w] = "taken"]
        /\ holding' = [holding EXCEPT ![w] = p] /\ p \in Packets
    BY <1>1
  <2>3. /\ worker' \in [Workers -> {"idle", "taken", "processed", "fetched"}]
        /\ holding' \in [Workers -> Packets \cup {NoPacket}]
        /\ \A v \in Busy' : holding'[v] \in Packets
        /\ worker'[w] = "taken" /\ holding'[w] = p
        /\ \A v \in Workers \ {w} : worker'[v] = worker[v] /\ holding'[v] = holding[v]
                                    /\ Key(v)' = Key(v)
    BY <1>1, <2>1, <2>2, WorkerMoves
  <2>4. Key(w)' = key
    BY <2>3 DEF Key
  <2>5. QED
    BY <2>2, <2>3, <2>4
<1>4. /\ contended' = contended \cup {k \in {key} : \E v \in Busy : Key(v) = k}
      /\ UNCHANGED <<connections, conn_stats, db, packets_captured, bytes_captured, capture,
                     in_hand>>
      /\ tasks # <<>> /\ tasks' = Tail(tasks)
  BY <1>3 DEF ContendedWith
<1> HIDE DEF n, key
<1>5. Shape'
  BY <1>1, <1>3, <1>4 DEF Shape
<1>6. CapturedIsAccounted'
  <2>1. AllQueued = p.size + AllQueued'
    BY <1>1, <1>4, QueueShrinks
  <2>2. AllInHand' = AllInHand + p.size
    <3>1. BytesInHand[w] = 0 /\ BytesInHand'[w] = p.size
      BY <1>3 DEF BytesInHand
    <3>2. AllInHand' + BytesInHand[w] = AllInHand + BytesInHand'[w]
      BY <1>1, <1>3, <1>5, HandChanges
    <3>3. AllInHand' \in Nat /\ AllInHand \in Nat
      BY <1>1, <1>5, SumsAreNumbers, AllAreNumbersNext DEF AllAreNumbers
    <3>4. QED
      BY <3>1, <3>2, <3>3
  <2>3. AllAnalysed' = AllAnalysed
    BY <1>4 DEF AllAnalysed, AnalysedBytes
  <2>4. bytes_captured = (AllAnalysed + AllQueued + AllInHand) + BytesReceived
    BY Accounted DEF IInv
  <2>5. bytes_captured' = (AllAnalysed' + AllQueued' + AllInHand') + BytesReceived'
    <3>1. AllAnalysed \in Nat /\ AllQueued' \in Nat /\ AllInHand \in Nat
      BY <1>1, <1>5, SumsAreNumbers, AllAreNumbersNext DEF AllAreNumbers
    <3>2. bytes_captured' = bytes_captured /\ BytesReceived' = BytesReceived
      BY <1>4 DEF BytesReceived
    <3> HIDE DEF Take, analyzerVars, captureVars, countVars
    <3>3. AllAnalysed + (p.size + AllQueued') + AllInHand
            = AllAnalysed + AllQueued' + (AllInHand + p.size)
      BY <1>2, <3>1, Moved
    <3>4. QED
      BY <2>1, <2>2, <2>3, <2>4, <3>2, <3>3
  <2>6. QED
    BY <2>5 DEF CapturedIsAccounted, AllAnalysed, AllQueued, AllInHand
<1>7. AloneAtWork'
  <2>1. SUFFICES ASSUME NEW u \in Workers, NEW v \in Workers, u # v,
                        worker'[u] # "idle", worker'[v] # "idle", Key(u)' = Key(v)'
                 PROVE  Key(v)' \in contended'
    BY DEF AloneAtWork, Busy
  <2>2. CASE u = w
    BY <1>3, <1>4, <2>1, <2>2 DEF Busy
  <2>3. CASE v = w
    BY <1>3, <1>4, <2>1, <2>3 DEF Busy
  <2>4. CASE u # w /\ v # w
    BY <1>3, <1>4, <2>1, <2>4 DEF IInv, AloneAtWork, Busy
  <2>5. QED
    BY <2>2, <2>3, <2>4
<1>8. \A v \in Workers : Storing(v)' => Storing(v) /\ v # w
  BY <1>3 DEF Storing
<1>9. CopyIsCurrent'
  BY <1>3, <1>4, <1>8 DEF IInv, CopyIsCurrent, Storing
<1>10. StoredUnlessStoring'
  <2>1. \A v \in Workers : Storing(v) => Storing(v)' /\ Key(v)' = Key(v)
    BY <1>3 DEF Storing
  <2>2. QED
    BY <1>4, <2>1 DEF IInv, StoredUnlessStoring
<1>11. StoredIsBehind' /\ HandIsLatest'
  BY <1>4 DEF IInv, StoredIsBehind, HandIsLatest
<1>12. QueueInOrder'
  <2>1. ASSUME NEW t, Past(t) PROVE Past(t)'
    BY <1>1, <1>4, <2>1 DEF Past, Addressed
  <2>2. Addressed(p) => Past(p.timestamp)'
    BY <1>1, <1>4 DEF IInv, QueueInOrder, Past, Addressed
  <2>3. ASSUME NEW v \in Workers, worker'[v] = "taken", Addressed(holding'[v])
        PROVE  Past(holding[v].timestamp)'
    <3>1. CASE v = w
      BY <1>3, <2>2, <2>3, <3>1 DEF Past
    <3>2. CASE v # w
      <4>1. Past(holding[v].timestamp)
        BY <1>3, <2>3, <3>2 DEF IInv, QueueInOrder
      <4>2. QED
        BY <1>3, <2>1, <3>2, <4>1 DEF Past
    <3>3. QED
      BY <3>1, <3>2
  <2>4. ASSUME NEW i \in 1 .. n, Addressed(tasks'[i])
        PROVE  /\ tasks'[i].timestamp <= packets_captured
               /\ \A j \in 1 .. n : i < j /\ Addressed(tasks'[j]) =>
                     tasks'[i].timestamp <= tasks'[j].timestamp
    <3>1. tasks'[i] = tasks[i + 1] /\ i + 1 \in DOMAIN tasks
      BY <1>1
    <3>2. \A j \in 1 .. n : i < j => tasks'[j] = tasks[j + 1] /\ j + 1 \in DOMAIN tasks
                                     /\ i + 1 < j + 1
      BY <1>1
    <3>3. QED
      BY <2>4, <3>1, <3>2 DEF IInv, QueueInOrder
  <2>5. ASSUME NEW k \in DOMAIN connections, k.source_ip # NoAddress
        PROVE  Past(connections[k].last_seen)'
    BY <1>4, <2>1, <2>5 DEF IInv, QueueInOrder, Past
  <2>6. QED
    BY <1>1, <1>4, <2>3, <2>4, <2>5 DEF QueueInOrder, Addressed
<1>13. TakenIsLater'
  <2>1. SUFFICES ASSUME NEW v \in Workers, worker'[v] = "taken", Addressed(holding'[v]),
                        Key(v)' \in DOMAIN connections, Key(v)' \notin contended'
                 PROVE  connections[Key(v)'].last_seen <= holding'[v].timestamp
    BY <1>4 DEF TakenIsLater, Addressed
  <2>2. CASE v = w
    <3>1. key \in DOMAIN connections /\ key.source_ip # NoAddress /\ Addressed(p)
      BY <1>3, <2>1, <2>2 DEF Addressed, key
    <3>2. Past(connections[key].last_seen)
      BY <3>1 DEF IInv, QueueInOrder
    <3>3. QED
      BY <1>1, <1>3, <2>2, <3>1, <3>2 DEF Past
  <2>3. CASE v # w
    BY <1>3, <1>4, <2>1, <2>3 DEF IInv, TakenIsLater
  <2>4. QED
    BY <2>2, <2>3
<1>14. QED
  BY <1>5, <1>6, <1>7, <1>9, <1>10, <1>11, <1>12, <1>13 DEF IInv

\* The analyzer gets the packet of a worker.
LEMMA ProcessIInv ==
    ASSUME IInv, NEW w \in Workers, NEW p, p = holding[w], Process(w)
    PROVE  IInv'
<1> DEFINE key == Analyzer!createConnectionKey(p)
<1>1. /\ Shape /\ AloneAtWork /\ p \in Packets /\ key = Key(w)
      /\ worker[w] = "taken" /\ Analyzer!processPacket(p)
      /\ worker' = [worker EXCEPT ![w] = "processed"]
      /\ UNCHANGED <<packets_captured, bytes_captured, capture, in_hand, tasks, holding,
                     conn_stats, db, contended>>
  BY DEF Process, captureVars, countVars, IInv, Shape, Busy, Key
<1>2. p.size \in Nat /\ p.timestamp \in Nat
  BY <1>1, FieldsOfPackets
<1>3. /\ worker' \in [Workers -> {"idle", "taken", "processed", "fetched"}]
      /\ \A v \in Busy' : holding'[v] \in Packets
      /\ worker'[w] = "processed" /\ holding'[w] = p
      /\ \A v \in Workers \ {w} : worker'[v] = worker[v] /\ holding'[v] = holding[v]
      /\ \A v \in Workers : Key(v)' = Key(v)
  <2>1. worker' \in [Workers -> {"idle", "taken", "processed", "fetched"}]
    BY <1>1 DEF Shape
  <2>2. /\ worker'[w] = "processed" /\ holding'[w] = p
        /\ \A v \in Workers \ {w} : worker'[v] = worker[v] /\ holding'[v] = holding[v]
    BY <1>1 DEF Shape
  <2>3. \A v \in Workers : Key(v)' = Key(v)
    BY <1>1 DEF Key
  <2>4. \A v \in Busy' : holding'[v] \in Packets
    BY <1>1, <2>2 DEF Shape, Busy
  <2>5. QED
    BY <2>1, <2>2, <2>3, <2>4
<1>4. /\ DOMAIN connections' = DOMAIN connections \cup {key}
      /\ connections' \in [DOMAIN connections' -> Stats]
      /\ IsFiniteSet(DOMAIN connections')
      /\ \A k \in DOMAIN connections \ {key} : connections'[k] = connections[k]
      /\ connections'[key].last_seen = p.timestamp
      /\ key \in DOMAIN connections =>
            /\ connections[key].packets_sent <= connections'[key].packets_sent
            /\ connections[key].packets_received <= connections'[key].packets_received
  BY <1>1, Analysed
<1>5. ASSUME NEW v \in Workers \ {w}, worker[v] # "idle", Key(v) \notin contended
      PROVE  Key(v) # key
  BY <1>1, <1>5 DEF AloneAtWork, Busy
<1>6. ASSUME NEW t PROVE Past(t)' <=> Past(t)
  BY <1>1 DEF Past
<1> HIDE DEF key
<1>7. Shape'
  BY <1>1, <1>3, <1>4 DEF Shape
<1>8. CapturedIsAccounted'
  <2>1. AllAnalysed' = AllAnalysed + p.size
    BY <1>1, AnalysedGrows
  <2>2. AllInHand = AllInHand' + p.size
    <3>1. BytesInHand[w] = p.size /\ BytesInHand'[w] = 0
      BY <1>1, <1>3 DEF BytesInHand
    <3>2. AllInHand' + BytesInHand[w] = AllInHand + BytesInHand'[w]
      BY <1>1, <1>3, <1>7, HandChanges
    <3>3. AllInHand' \in Nat /\ AllInHand \in Nat
      BY <1>1, <1>7, SumsAreNumbers, AllAreNumbersNext DEF AllAreNumbers
    <3>4. QED
      BY <3>1, <3>2, <3>3
  <2>3. AllQueued' = AllQueued
    BY <1>1 DEF AllQueued, QueuedBytes
  <2>4. bytes_captured = (AllAnalysed + AllQueued + AllInHand) + BytesReceived
    BY Accounted DEF IInv
  <2>5. AllAnalysed \in Nat /\ AllQueued \in Nat /\ AllInHand' \in Nat
    BY <1>1, <1>7, SumsAreNumbers, AllAreNumbersNext DEF AllAreNumbers
  <2>6. AllAnalysed + AllQueued + (AllInHand' + p.size)
          = (AllAnalysed + p.size) + AllQueued + AllInHand'
    BY <1>2, <2>5, Moved
  <2>7. bytes_captured' = (AllAnalysed' + AllQueued' + AllInHand') + BytesReceived'
    <3>1. bytes_captured' = bytes_captured /\ BytesReceived' = BytesReceived
      BY <1>1 DEF BytesReceived
    <3>2. QED
      BY <2>1, <2>2, <2>3, <2>4, <2>6, <3>1
  <2>8. QED
    BY <2>7 DEF CapturedIsAccounted, AllAnalysed, AllQueued, AllInHand
<1>9. AloneAtWork' /\ HandIsLatest'
  <2>1. Busy' = Busy
    BY <1>1, <1>3 DEF Busy
  <2>2. AloneAtWork'
    BY <1>1, <1>3, <2>1 DEF AloneAtWork, Busy
  <2>3. HandIsLatest'
    BY <1>1 DEF IInv, HandIsLatest
  <2>4. QED
    BY <2>2, <2>3
<1>10. CopyIsCurrent'
  <2>1. ASSUME NEW v \in Workers, Storing(v)' PROVE Key(v)' \in DOMAIN connections'
    <3>1. CASE v = w
      BY <1>1, <1>3, <1>4, <3>1
    <3>2. CASE v # w
      BY <1>3, <1>4, <2>1, <3>2 DEF IInv, CopyIsCurrent, Storing
    <3>3. QED
      BY <3>1, <3>2
  <2>2. ASSUME NEW v \in Workers, worker'[v] = "fetched", Key(v)' \notin contended'
        PROVE  conn_stats'[v] = connections'[Key(v)']
    <3>1. v # w /\ worker[v] = "fetched" /\ Key(v)' = Key(v) /\ Key(v) \notin contended
      BY <1>1, <1>3, <2>2
    <3>2. conn_stats[v] = connections[Key(v)] /\ Key(v) \in DOMAIN connections
      BY <3>1 DEF IInv, CopyIsCurrent, Storing
    <3>3. Key(v) # key
      BY <1>5, <3>1
    <3>4. QED
      BY <1>1, <1>4, <3>1, <3>2, <3>3
  <2>3. QED
    BY <2>1, <2>2 DEF CopyIsCurrent
<1>11. StoredUnlessStoring'
  <2>1. SUFFICES ASSUME NEW k \in DOMAIN connections', k \notin contended,
                        \A v \in Workers : Storing(v)' => Key(v)' # k
                 PROVE  k \in DOMAIN db /\ db[k] = Record(connections'[k])
    BY <1>1 DEF StoredUnlessStoring, Record
  <2>2. Storing(w)' /\ Key(w)' = key
    BY <1>1, <1>3 DEF Storing
  <2>3. k # key /\ k \in DOMAIN connections /\ connections'[k] = connections[k]
    BY <1>4, <2>1, <2>2
  <2>4. \A v \in Workers : Storing(v) => Key(v) # k
    BY <1>1, <1>3, <2>1 DEF Storing
  <2>5. QED
    BY <2>1, <2>3, <2>4 DEF IInv, StoredUnlessStoring
<1>12. QueueInOrder'
  <2>1. ASSUME NEW v \in Workers, worker'[v] = "taken", Addressed(holding[v])
        PROVE  Past(holding[v].timestamp)
    BY <1>3, <2>1 DEF IInv, QueueInOrder
  <2>2. ASSUME NEW k \in DOMAIN connections', k.source_ip # NoAddress
        PROVE  Past(connections'[k].last_seen)
    <3>1. CASE k = key
      <4>1. Addressed(p)
        BY <2>2, <3>1 DEF Addressed, key
      <4>2. QED
        BY <1>1, <1>4, <3>1, <4>1 DEF IInv, QueueInOrder
    <3>2. CASE k # key
      BY <1>4, <2>2, <3>2 DEF IInv, QueueInOrder
    <3>3. QED
      BY <3>1, <3>2
  <2>3. QED
    BY <1>1, <2>1, <2>2 DEF IInv, QueueInOrder, Past, Addressed
<1>13. TakenIsLater'
  <2>1. SUFFICES ASSUME NEW v \in Workers, worker'[v] = "taken", Addressed(holding[v]),
                        Key(v) \in DOMAIN connections', Key(v) \notin contended
                 PROVE  connections'[Key(v)].last_seen <= holding[v].timestamp
    BY <1>1, <1>3 DEF TakenIsLater, Addressed
  <2>2. v # w /\ worker[v] = "taken"
    BY <1>3, <2>1
  <2>3. Key(v) # key
    BY <1>5, <2>1, <2>2
  <2>4. QED
    BY <1>4, <2>1, <2>2, <2>3 DEF IInv, TakenIsLater
<1>14. StoredIsBehind'
  <2>1. SUFFICES ASSUME NEW k \in DOMAIN db, k \notin contended, k.source_ip # NoAddress
                 PROVE  /\ k \in DOMAIN connections'
                        /\ db[k].packets_sent <= connections'[k].packets_sent
                        /\ db[k].packets_received <= connections'[k].packets_received
                        /\ db[k].last_seen <= connections'[k].last_seen
    BY <1>1 DEF StoredIsBehind
  <2>2. /\ k \in DOMAIN connections /\ k \in DOMAIN connections'
        /\ db[k].packets_sent <= connections[k].packets_sent
        /\ db[k].packets_received <= connections[k].packets_received
        /\ db[k].last_seen <= connections[k].last_seen
    BY <1>4, <2>1 DEF IInv, StoredIsBehind
  <2>3. CASE k # key
    BY <1>4, <2>2, <2>3
  <2>4. CASE k = key
    <3>1. Addressed(p)
      BY <2>1, <2>4 DEF Addressed, key
    <3>2. connections[k].last_seen <= connections'[k].last_seen
      BY <1>1, <1>4, <2>1, <2>2, <2>4, <3>1 DEF IInv, TakenIsLater
    <3>3. /\ connections[k].packets_sent <= connections'[k].packets_sent
          /\ connections[k].packets_received <= connections'[k].packets_received
      BY <1>4, <2>2, <2>4
    <3>4. db[k] \in Records /\ connections[k] \in Stats /\ connections'[k] \in Stats
      BY <1>1, <1>4, <2>1, <2>2 DEF Shape
    <3>5. QED
      BY <2>2, <3>2, <3>3, <3>4 DEF Records, Stats, Analyzer!ConnectionStats
  <2>5. QED
    BY <2>3, <2>4
<1>15. QED
  BY <1>7, <1>8, <1>9, <1>10, <1>11, <1>12, <1>13, <1>14 DEF IInv

\* A worker asks the analyzer for the statistics.
LEMMA FetchIInv ==
    ASSUME IInv, NEW w \in Workers, Fetch(w)
    PROVE  IInv'
<1>1. /\ Shape /\ worker[w] = "processed"
      /\ worker' = [worker EXCEPT ![w] = "fetched"]
      /\ UNCHANGED <<connections, packets_captured, bytes_captured, capture, in_hand, tasks,
                     holding, db, contended>>
  BY DEF Fetch, analyzerVars, captureVars, countVars, IInv
<1>2. /\ worker' \in [Workers -> {"idle", "taken", "processed", "fetched"}]
      /\ worker'[w] = "fetched"
      /\ \A v \in Workers \ {w} : worker'[v] = worker[v]
      /\ \A v \in Workers : Key(v)' = Key(v)
      /\ \A v \in Workers : Storing(v)' = Storing(v)
      /\ \A v \in Workers : worker'[v] = "taken" <=> worker[v] = "taken"
      /\ Busy' = Busy
  <2>1. /\ worker' \in [Workers -> {"idle", "taken", "processed", "fetched"}]
        /\ worker'[w] = "fetched"
        /\ \A v \in Workers \ {w} : worker'[v] = worker[v]
    BY <1>1 DEF Shape
  <2>2. \A v \in Workers : Key(v)' = Key(v)
    BY <1>1 DEF Key
  <2>3. \A v \in Workers : Storing(v)' = Storing(v)
    BY <1>1, <2>1 DEF Storing
  <2>4. Busy' = Busy /\ \A v \in Workers : worker'[v] = "taken" <=> worker[v] = "taken"
    BY <1>1, <2>1 DEF Busy
  <2>5. QED
    BY <2>1, <2>2, <2>3, <2>4
<1>3. /\ Key(w) \in DOMAIN connections
      /\ conn_stats' = [conn_stats EXCEPT ![w] = connections[Key(w)]]
      /\ connections[Key(w)] \in Stats
  BY <1>1 DEF Fetch, IInv, CopyIsCurrent, Storing, Shape
<1>4. Shape'
  BY <1>1, <1>2, <1>3 DEF Shape
<1>5. CapturedIsAccounted'
  <2>1. BytesInHand' = BytesInHand /\ AnalysedBytes' = AnalysedBytes
        /\ QueuedBytes' = QueuedBytes /\ BytesReceived' = BytesReceived
    BY <1>1, <1>2 DEF BytesInHand, AnalysedBytes, QueuedBytes, BytesReceived
  <2>2. QED
    BY <1>1, <2>1 DEF IInv, CapturedIsAccounted
<1>6. AloneAtWork'
  BY <1>1, <1>2 DEF IInv, AloneAtWork, Busy
<1>7. CopyIsCurrent'
  <2>1. \A v \in Workers : Storing(v)' => Key(v)' \in DOMAIN connections'
    BY <1>1, <1>2 DEF IInv, CopyIsCurrent
  <2>2. conn_stats'[w] = connections[Key(w)]
    BY <1>3 DEF IInv, Shape
  <2>3. \A v \in Workers \ {w} : conn_stats'[v] = conn_stats[v]
    BY <1>3 DEF IInv, Shape
  <2>4. ASSUME NEW v \in Workers, worker'[v] = "fetched", Key(v)' \notin contended'
        PROVE  conn_stats'[v] = connections'[Key(v)']
    <3>1. CASE v = w
      BY <1>1, <1>2, <2>2, <3>1
    <3>2. CASE v # w
      BY <1>1, <1>2, <2>3, <2>4, <3>2 DEF IInv, CopyIsCurrent
    <3>3. QED
      BY <3>1, <3>2
  <2>5. QED
    BY <2>1, <2>4 DEF CopyIsCurrent
<1>8. StoredUnlessStoring' /\ HandIsLatest'
  BY <1>1, <1>2 DEF IInv, StoredUnlessStoring, HandIsLatest
<1>9. QueueInOrder'
  BY <1>1, <1>2 DEF IInv, QueueInOrder, Past, Addressed
<1>10. TakenIsLater' /\ StoredIsBehind'
  BY <1>1, <1>2 DEF IInv, TakenIsLater, StoredIsBehind, Addressed
<1>11. QED
  BY <1>4, <1>5, <1>6, <1>7, <1>8, <1>9, <1>10 DEF IInv

\* What a worker with a copy of the statistics stores: for a connection that is not
\* contended, what the analyzer has.
LEMMA Stores ==
    ASSUME IInv, NEW w \in Workers, Store(w)
    PROVE  /\ db' \in [DOMAIN db' -> Records]
           /\ \A k \in (DOMAIN db \cup DOMAIN db') \ {Key(w)} :
                 k \in DOMAIN db /\ k \in DOMAIN db' /\ db'[k] = db[k]
           /\ DOMAIN db \subseteq DOMAIN db'
           /\ Key(w) \in DOMAIN connections
           /\ Key(w) \notin contended =>
                 Key(w) \in DOMAIN db' /\ db'[Key(w)] = Record(connections[Key(w)])
<1>1. Shape /\ worker[w] = "fetched" /\ CopyIsCurrent
  BY DEF Store, IInv
<1>2. /\ Key(w) \in DOMAIN connections
      /\ Key(w) \notin contended => conn_stats[w] = connections[Key(w)]
  BY <1>1 DEF CopyIsCurrent, Storing
<1>3. CASE conn_stats[w] = NoPacket
  <2>1. db' = db
    BY <1>3 DEF Store
  <2>2. Key(w) \in contended
    <3>1. connections[Key(w)] \in Stats
      BY <1>1, <1>2 DEF Shape
    <3>2. QED
      BY <1>2, <1>3, <3>1, NoPacketIsNoStats DEF Stats
  <2>3. QED
    BY <1>1, <1>2, <2>1, <2>2 DEF Shape
<1>4. CASE conn_stats[w] # NoPacket
  <2>1. db' = [k \in DOMAIN db \cup {Key(w)} |->
                 IF k = Key(w) THEN Record(conn_stats[w]) ELSE db[k]]
    BY <1>4 DEF Store
  <2>2. conn_stats[w] \in Stats
    BY <1>1, <1>4 DEF Shape
  <2>3. Record(conn_stats[w]) \in Records
    BY <2>2 DEF Record, Records, Stats, Analyzer!ConnectionStats
  <2>4. db' \in [DOMAIN db' -> Records]
    BY <1>1, <2>1, <2>3 DEF Shape
  <2>5. QED
    BY <1>2, <2>1, <2>4
<1>5. QED
  BY <1>3, <1>4

\* A worker stores its copy and ends the task.
LEMMA StoreIInv ==
    ASSUME IInv, NEW w \in Workers, Store(w)
    PROVE  IInv'
<1>1. /\ Shape /\ worker[w] = "fetched"
      /\ worker' = [worker EXCEPT ![w] = "idle"]
      /\ holding' = [holding EXCEPT ![w] = NoPacket]
      /\ conn_stats' = [conn_stats EXCEPT ![w] = NoPacket]
      /\ UNCHANGED <<connections, packets_captured, bytes_captured, capture, in_hand, tasks,
                     contended>>
  BY DEF Store, EndTask, analyzerVars, captureVars, countVars, IInv
<1>2. /\ worker' \in [Workers -> {"idle", "taken", "processed", "fetched"}]
      /\ holding' \in [Workers -> Packets \cup {NoPacket}]
      /\ \A v \in Busy' : holding'[v] \in Packets
      /\ worker'[w] = "idle"
      /\ \A v \in Workers \ {w} : worker'[v] = worker[v] /\ holding'[v] = holding[v]
                                  /\ Key(v)' = Key(v)
  <2>1. "idle" \in {"idle", "taken", "processed", "fetched"}
    OBVIOUS
  <2>2. QED
    BY <1>1, <2>1, WorkerMoves
<1>3. /\ conn_stats' \in [Workers -> Stats \cup {NoPacket}]
      /\ \A v \in Workers \ {w} : conn_stats'[v] = conn_stats[v]
  BY <1>1 DEF Shape
<1>4. /\ db' \in [DOMAIN db' -> Records]
      /\ \A k \in (DOMAIN db \cup DOMAIN db') \ {Key(w)} :
            k \in DOMAIN db /\ k \in DOMAIN db' /\ db'[k] = db[k]
      /\ Key(w) \in DOMAIN connections
      /\ Key(w) \notin contended =>
            Key(w) \in DOMAIN db' /\ db'[Key(w)] = Record(connections[Key(w)])
  BY Stores
<1>5. Shape'
  BY <1>1, <1>2, <1>3, <1>4 DEF Shape
<1>6. CapturedIsAccounted'
  <2>1. BytesInHand' = BytesInHand
    BY <1>1, <1>2 DEF BytesInHand
  <2>2. AnalysedBytes' = AnalysedBytes /\ QueuedBytes' = QueuedBytes
        /\ BytesReceived' = BytesReceived
    BY <1>1 DEF AnalysedBytes, QueuedBytes, BytesReceived
  <2>3. QED
    BY <1>1, <2>1, <2>2 DEF IInv, CapturedIsAccounted
<1>7. \A v \in Workers : worker'[v] # "idle" =>
         /\ v # w /\ worker'[v] = worker[v] /\ holding'[v] = holding[v]
         /\ Key(v)' = Key(v) /\ conn_stats'[v] = conn_stats[v]
  BY <1>2, <1>3
<1>8. AloneAtWork'
  BY <1>1, <1>7 DEF IInv, AloneAtWork, Busy
<1>9. CopyIsCurrent'
  BY <1>1, <1>7 DEF IInv, CopyIsCurrent, Storing
<1>10. StoredUnlessStoring'
  <2>1. SUFFICES ASSUME NEW k \in DOMAIN connections, k \notin contended,
                        \A v \in Workers : Storing(v)' => Key(v)' # k
                 PROVE  k \in DOMAIN db' /\ db'[k] = Record(connections[k])
    BY <1>1 DEF StoredUnlessStoring, Record
  <2>2. CASE k = Key(w)
    BY <1>4, <2>1, <2>2
  <2>3. CASE k # Key(w)
    <3>1. \A v \in Workers : Storing(v) => Key(v) # k
      BY <1>2, <2>1, <2>3 DEF Storing
    <3>2. k \in DOMAIN db /\ db[k] = Record(connections[k])
      BY <2>1, <3>1 DEF IInv, StoredUnlessStoring
    <3>3. QED
      BY <1>4, <2>3, <3>2
  <2>4. QED
    BY <2>2, <2>3
<1>11. QueueInOrder'
  BY <1>1, <1>7 DEF IInv, QueueInOrder, Past, Addressed
<1>12. TakenIsLater' /\ HandIsLatest'
  BY <1>1, <1>7 DEF IInv, TakenIsLater, HandIsLatest, Addressed
<1>13. StoredIsBehind'
  <2>1. SUFFICES ASSUME NEW k \in DOMAIN db', k \notin contended, k.source_ip # NoAddress
                 PROVE  /\ k \in DOMAIN connections
                        /\ db'[k].packets_sent <= connections[k].packets_sent
                        /\ db'[k].packets_received <= connections[k].packets_received
                        /\ db'[k].last_seen <= connections[k].last_seen
    BY <1>1 DEF StoredIsBehind
  <2>2. CASE k = Key(w)
    <3>1. connections[k] \in Stats /\ db'[k] = Record(connections[k])
      BY <1>1, <1>4, <2>1, <2>2 DEF Shape
    <3>2. QED
      BY <1>4, <2>2, <3>1 DEF Record, Stats, Analyzer!ConnectionStats
  <2>3. CASE k # Key(w)
    BY <1>4, <2>1, <2>3 DEF IInv, StoredIsBehind
  <2>4. QED
    BY <2>2, <2>3
<1>14. QED
  BY <1>5, <1>6, <1>8, <1>9, <1>10, <1>11, <1>12, <1>13 DEF IInv

LEMMA NextIInv == IInv /\ [Next]_vars => IInv'
<1> SUFFICES ASSUME IInv, [Next]_vars PROVE IInv'
  OBVIOUS
<1>1. CASE UNCHANGED vars
  BY <1>1, StutterIInv
<1>2. ASSUME NEW b \in Blanks, CaptureTimeout(b) \/ \E f \in Frames : CapturePacket(b, f)
      PROVE  IInv'
  BY <1>2, CapturesIInv
<1>3. ASSUME NEW w \in Workers, WorkerStep(w) PROVE IInv'
  <2>1. CASE Take(w)
    BY <2>1, TakeIInv
  <2>2. CASE Process(w)
    BY <2>2, ProcessIInv
  <2>3. CASE Fetch(w)
    BY <2>3, FetchIInv
  <2>4. CASE Store(w)
    BY <2>4, StoreIInv
  <2>5. QED
    BY <1>3, <2>1, <2>2, <2>3, <2>4 DEF WorkerStep
<1>4. CASE Handle \/ Keep
  BY <1>4, HandleIInv, KeepIInv
<1>5. QED
  BY <1>1, <1>2, <1>3, <1>4 DEF Next

-----------------------------------------------------------------------------
(* The theorems *)

\* All of it holds of every state that main's packet path reaches (main.cpp
\* 148-188 with packet_capture.cpp 205-224).
THEOREM InductiveInvariant == Spec => []IInv
<1>1. Init => IInv
  BY InitIInv
<1>2. IInv /\ [Next]_vars => IInv'
  BY NextIInv
<1>3. QED
  BY <1>1, <1>2, PTL DEF Spec

\* For any number of workers, no captured byte is lost or counted twice on its way
\* from the capture thread through the queue and the workers to the analyzer
\* (packet_capture.cpp 214-224, main.cpp 153-154).
THEOREM BytesAddUp == Spec => []CapturedIsAccounted
<1>1. IInv => CapturedIsAccounted
  BY DEF IInv
<1>2. QED
  BY <1>1, InductiveInvariant, PTL

\* When the workers have caught up, the database is current for every connection
\* whose tasks never overlapped (main.cpp 153-177).
THEOREM StoredWhenCaughtUp == Spec => []StoredIsCurrent
<1>1. IInv => StoredIsCurrent
  BY DEF IInv, StoredUnlessStoring, StoredIsCurrent, Quiescent, Storing
<1>2. QED
  BY <1>1, InductiveInvariant, PTL

\* A step that stores puts nothing older in the place of what it replaces.
LEMMA StoringGoesForward ==
    ASSUME IInv, NEW w \in Workers, Store(w),
           NEW k \in DOMAIN db, k \notin contended', k.source_ip # NoAddress
    PROVE  /\ db'[k].packets_sent >= db[k].packets_sent
           /\ db'[k].packets_received >= db[k].packets_received
           /\ db'[k].last_seen >= db[k].last_seen
<1>1. contended' = contended /\ Shape
  BY DEF Store, EndTask, IInv
<1>2. db[k] \in Records
  BY <1>1 DEF Shape
<1>3. CASE k # Key(w)
  <2>1. db'[k] = db[k]
    BY <1>3, Stores
  <2>2. QED
    BY <1>2, <2>1 DEF Records
<1>4. CASE k = Key(w)
  <2>1. db'[k] = Record(connections[k]) /\ connections[k] \in Stats
    BY <1>1, <1>4, Stores DEF Shape
  <2>2. /\ db[k].packets_sent <= connections[k].packets_sent
        /\ db[k].packets_received <= connections[k].packets_received
        /\ db[k].last_seen <= connections[k].last_seen
    BY <1>1 DEF IInv, StoredIsBehind
  <2>3. QED
    BY <1>2, <2>1, <2>2 DEF Record, Records, Stats, Analyzer!ConnectionStats
<1>5. QED
  BY <1>3, <1>4

\* The stored figures of a connection never go back unless two tasks of it
\* overlapped, whatever order the workers run in (main.cpp 157-174).
THEOREM StoredFiguresGrow == Spec => StoredNeverGoesBack
<1> DEFINE Forward(k) == /\ db'[k].packets_sent >= db[k].packets_sent
                         /\ db'[k].packets_received >= db[k].packets_received
                         /\ db'[k].last_seen >= db[k].last_seen
           Goes == \A k \in DOMAIN db \ contended' : k.source_ip # NoAddress => Forward(k)
<1>1. ASSUME IInv, [Next]_vars PROVE [Goes]_vars
  <2>1. CASE UNCHANGED vars
    BY <2>1
  <2>2. CASE db' = db
    <3>1. ASSUME NEW k \in DOMAIN db PROVE Forward(k)
      <4>1. db[k] \in Records
        BY <1>1 DEF IInv, Shape
      <4>2. QED
        BY <2>2, <4>1 DEF Records
    <3>2. QED
      BY <3>1
  <2>3. ASSUME NEW w \in Workers, Store(w) PROVE Goes
    BY <1>1, <2>3, StoringGoesForward
  <2>4. UNCHANGED vars \/ db' = db \/ \E w \in Workers : Store(w)
    BY <1>1 DEF Next, WorkerStep, CaptureTimeout, CapturePacket, Receive, Handle, Keep, Take,
       Process, Fetch
  <2>5. QED
    BY <2>1, <2>2, <2>3, <2>4
<1>2. QED
  BY <1>1, InductiveInvariant, PTL DEF Spec, StoredNeverGoesBack

=============================================================================
