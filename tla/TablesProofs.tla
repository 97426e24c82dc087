---------------------------- MODULE TablesProofs ----------------------------
(***************************************************************************)
(* Proofs about what the program keeps of the past: the tables of the      *)
(* analyzer, the ring that its last packets lie in and the history of a    *)
(* metric.  They share nothing; each has a specification of its own, and   *)
(* its theorems are about that one, for all values of the constants.       *)
(***************************************************************************)
EXTENDS PacketAnalyzer, CircularBuffer, Metric, DataLemmas, FiniteSetTheorems

\* Min and Max of the community modules are the least and the greatest element.
LEMMA MinIs ==
    ASSUME NEW S \in SUBSET Nat, NEW m \in S, \A n \in S : m <= n
    PROVE  Min(S) = m
<1>1. \E x \in S : \A y \in S : x <= y
  OBVIOUS
<1>2. Min(S) \in S /\ \A y \in S : Min(S) <= y
  BY <1>1 DEF Min
<1>3. Min(S) <= m /\ m <= Min(S) /\ Min(S) \in Nat /\ m \in Nat
  BY <1>2
<1>4. QED
  BY <1>3

LEMMA MaxIs ==
    ASSUME NEW S \in SUBSET Nat, NEW m \in S, \A n \in S : n <= m
    PROVE  Max(S) = m
<1>1. \E x \in S : \A y \in S : x >= y
  OBVIOUS
<1>2. Max(S) \in S /\ \A y \in S : Max(S) >= y
  BY <1>1 DEF Max
<1>3. Max(S) >= m /\ m >= Max(S) /\ Max(S) \in Nat /\ m \in Nat
  BY <1>2
<1>4. QED
  BY <1>3

-----------------------------------------------------------------------------
(* The analyzer, for any set of packets and any list of parsers.  That every *)
(* key of the table is normalised is why a packet whose direction is not a   *)
(* key can only be filed under the flipped direction.                        *)

Protocols == {p.protocol : p \in Packets}

\* Every direction is a record of this shape.
DirectionRecords ==
    [source_ip : Nat, source_port : Nat, dest_ip : Nat, dest_port : Nat,
     protocol : Protocols]

\* The smaller endpoint is the source.
Normal(d) ==
    \/ d.source_ip < d.dest_ip
    \/ d.source_ip = d.dest_ip /\ d.source_port <= d.dest_port

KeysAreNormal == \A k \in DOMAIN connections : Normal(k)

IInv == TypeOK /\ KeysAreNormal /\ Conservation

-----------------------------------------------------------------------------
(* Keys *)

\* The key of a packet (createConnectionKey) is one of its two directions.
LEMMA KeyOfPacket ==
    ASSUME NEW p \in Packets
    PROVE  /\ Direction(p) \in Directions
           /\ createConnectionKey(p) \in Directions
           /\ createConnectionKey(p) \in {Direction(p), Flip(Direction(p))}
BY DEF Directions, createConnectionKey

LEMMA DirectionsAreRecords == Directions \subseteq DirectionRecords
<1>1. ASSUME NEW p \in Packets
      PROVE  Direction(p) \in DirectionRecords /\ Flip(Direction(p)) \in DirectionRecords
  BY PacketsArePackets DEF IsPacket, Direction, Flip, DirectionRecords, Protocols
<1>2. QED
  BY <1>1 DEF Directions

LEMMA FlipTwice ==
    ASSUME NEW d \in DirectionRecords
    PROVE  Flip(d) \in DirectionRecords /\ Flip(Flip(d)) = d
BY DEF Flip, DirectionRecords

LEMMA FlipInDirections ==
    ASSUME NEW d \in Directions
    PROVE  Flip(d) \in Directions
<1>1. PICK p \in Packets : d = Direction(p) \/ d = Flip(Direction(p))
  BY DEF Directions
<1>2. Direction(p) \in DirectionRecords
  BY DirectionsAreRecords, KeyOfPacket
<1>3. QED
  BY <1>1, <1>2, FlipTwice DEF Directions

\* Normalisation: the key of a packet has its smaller endpoint first.
LEMMA KeyIsNormal ==
    ASSUME NEW p \in Packets
    PROVE  Normal(createConnectionKey(p))
BY PacketsArePackets DEF IsPacket, createConnectionKey, Normal, Direction, Flip

\* A direction and its flip are both normal only when they are the same.
LEMMA NormalOnce ==
    ASSUME NEW d \in DirectionRecords, Normal(d), Normal(Flip(d))
    PROVE  Flip(d) = d
BY DEF Normal, Flip, DirectionRecords

\* A packet counts as sent exactly when its direction is the key.
LEMMA SentIffKey ==
    ASSUME NEW p \in Packets
    PROVE  LET key == createConnectionKey(p)
           IN  FromSource(p, key) <=> key = Direction(p)
<1> DEFINE key == createConnectionKey(p)
           d == Direction(p)
<1>1. CASE key = d
  BY <1>1 DEF FromSource, Direction
<1>2. CASE key # d
  <2>1. key = Flip(d)
    BY <1>2, KeyOfPacket
  <2>2. ASSUME FromSource(p, key) PROVE Flip(d) = d
    BY <2>1, <2>2, PacketsArePackets DEF IsPacket, FromSource, Flip, Direction
  <2>3. QED
    BY <1>2, <2>1, <2>2
<1>3. QED
  BY <1>1, <1>2

-----------------------------------------------------------------------------
(* Types of what one packet computes *)

\* analyzeProtocol picks one of the parsers or none.
LEMMA ParserIsKnown ==
    ASSUME NEW p \in Packets
    PROVE  analyzeProtocol(p) \in Range(Parsers) \cup {Unrecognised}
<1> DEFINE first == {i \in DOMAIN Parsers :
                        /\ Parsers[i] \in p.accepted
                        /\ \A j \in 1 .. (i - 1) : Parsers[j] \notin p.accepted}
<1>1. CASE first = {}
  BY <1>1 DEF analyzeProtocol
<1>2. CASE first # {}
  <2>1. (CHOOSE i \in first : TRUE) \in first
    BY <1>2
  <2>2. Parsers[CHOOSE i \in first : TRUE] \in Range(Parsers)
    BY <2>1 DEF Range
  <2>3. QED
    BY <1>2, <2>2 DEF analyzeProtocol
<1>3. QED
  BY <1>1, <1>2

LEMMA NewStatsType ==
    ASSUME NEW p \in Packets, NEW key
    PROVE  NewStats(p, key) \in ConnectionStats
BY ParserIsKnown, PacketsArePackets DEF IsPacket, NewStats, ConnectionStats

LEMMA UpdatedStatsType ==
    ASSUME NEW p \in Packets, NEW key, NEW s \in ConnectionStats
    PROVE  UpdatedStats(s, p, key) \in ConnectionStats
BY ParserIsKnown, PacketsArePackets DEF IsPacket, UpdatedStats, ConnectionStats

LEMMA InitIInv == Init => IInv
<1> SUFFICES ASSUME Init PROVE IInv
  OBVIOUS
<1>1. /\ DOMAIN connections = {} /\ connections = <<>>
      /\ DOMAIN host_traffic_stats = {} /\ host_traffic_stats = <<>>
  BY DEF Init
<1>2. TypeOK
  BY <1>1 DEF Init, TypeOK, NothingCarried
<1>3. KeysAreNormal
  BY <1>1 DEF KeysAreNormal
<1>4. Conservation
  BY <1>1 DEF Init, Conservation, Reported, NothingCarried
<1>5. QED
  BY <1>2, <1>3, <1>4 DEF IInv

LEMMA ResetIInv == IInv /\ reset => IInv'
<1> SUFFICES ASSUME IInv, reset PROVE IInv'
  OBVIOUS
<1>1. /\ DOMAIN connections' = {} /\ connections' = <<>>
      /\ DOMAIN host_traffic_stats' = {} /\ host_traffic_stats' = <<>>
  BY DEF reset
<1>2. TypeOK'
  BY <1>1, LenProperties DEF reset, IInv, TypeOK, NothingCarried
<1>3. KeysAreNormal'
  BY <1>1 DEF KeysAreNormal
<1>4. Conservation'
  BY <1>1 DEF reset, Conservation, Reported, NothingCarried
<1>5. QED
  BY <1>2, <1>3, <1>4 DEF IInv

-----------------------------------------------------------------------------
(* Processing a packet *)

LEMMA ProcessTypeOK ==
    ASSUME TypeOK, NEW p \in Packets, processPacket(p)
    PROVE  TypeOK'
<1> DEFINE key == createConnectionKey(p)
           hosts == DOMAIN host_traffic_stats \cup {p.source_ip, p.dest_ip}
<1>1. /\ DOMAIN connections' = DOMAIN connections \cup {key}
      /\ \A k \in DOMAIN connections' : connections'[k] =
            IF k # key THEN connections[k]
            ELSE IF key \in DOMAIN connections
                 THEN UpdatedStats(connections[key], p, key)
                 ELSE NewStats(p, key)
      /\ connections' = [k \in DOMAIN connections' |-> connections'[k]]
  BY DEF processPacket
<1>2. DOMAIN connections' \subseteq Directions
  BY <1>1, KeyOfPacket DEF TypeOK
<1>3. ASSUME NEW k \in DOMAIN connections' PROVE connections'[k] \in ConnectionStats
  <2> HIDE DEF key
  <2>1. k # key => connections[k] \in ConnectionStats
    BY <1>1, <1>3 DEF TypeOK
  <2>2. key \in DOMAIN connections => connections[key] \in ConnectionStats
    BY DEF TypeOK
  <2>3. QED
    BY <1>1, <1>3, <2>1, <2>2, NewStatsType, UpdatedStatsType
<1>4. connections' \in [DOMAIN connections' -> ConnectionStats]
  BY <1>1, <1>3
<1>5. host_traffic_stats' \in [DOMAIN host_traffic_stats' -> Nat]
  <2>1. /\ host_traffic_stats' = WithTraffic(p) /\ p.size \in Nat
        /\ \A h \in DOMAIN host_traffic_stats : host_traffic_stats[h] \in Nat
    BY PacketsArePackets DEF processPacket, IsPacket, TypeOK
  <2>2. /\ host_traffic_stats' = [h \in DOMAIN host_traffic_stats' |-> host_traffic_stats'[h]]
        /\ \A h \in DOMAIN host_traffic_stats' :
              host_traffic_stats'[h] =
                 (IF h \in DOMAIN host_traffic_stats THEN host_traffic_stats[h] ELSE 0)
                 + (IF h = p.source_ip THEN p.size ELSE 0)
                 + (IF h = p.dest_ip THEN p.size ELSE 0)
    BY <2>1 DEF WithTraffic
  <2>3. ASSUME NEW h \in DOMAIN host_traffic_stats' PROVE host_traffic_stats'[h] \in Nat
    <3>1. (IF h \in DOMAIN host_traffic_stats THEN host_traffic_stats[h] ELSE 0) \in Nat
      BY <2>1
    <3>2. QED
      BY <2>1, <2>2, <3>1
  <2>4. QED
    BY <2>2, <2>3
<1>6. recent_packets' \in Seq(Packets) /\ processed' \in Seq(Packets)
  BY AppendProperties DEF processPacket, PushRecent, TypeOK
<1>7. carried' \in [Directions -> [packets : Nat, bytes : Nat]]
  <2>1. Direction(p) \in Directions /\ p.size \in Nat
    BY KeyOfPacket, PacketsArePackets DEF IsPacket
  <2>2. carried[Direction(p)] \in [packets : Nat, bytes : Nat]
    BY <2>1 DEF TypeOK
  <2>3. /\ carried \in [Directions -> [packets : Nat, bytes : Nat]]
        /\ carried' = [carried EXCEPT ![Direction(p)] =
                          [packets |-> @.packets + 1, bytes |-> @.bytes + p.size]]
    BY DEF processPacket, TypeOK
  <2>4. QED
    BY <2>1, <2>2, <2>3
<1>8. QED
  BY <1>2, <1>4, <1>5, <1>6, <1>7 DEF processPacket, TypeOK

LEMMA ProcessKeysAreNormal ==
    ASSUME TypeOK, KeysAreNormal, NEW p \in Packets, processPacket(p)
    PROVE  KeysAreNormal'
<1>1. DOMAIN connections' = DOMAIN connections \cup {createConnectionKey(p)}
  BY DEF processPacket
<1>2. QED
  BY <1>1, KeyIsNormal DEF KeysAreNormal

\* What processPacket does to the report of one direction e: the direction of the
\* packet gains it, every other direction reports what it did before.
LEMMA ProcessReported ==
    ASSUME TypeOK, KeysAreNormal, NEW p \in Packets, processPacket(p),
           NEW e \in Directions
    PROVE  Reported(e)' =
              IF e = Direction(p)
              THEN [packets |-> Reported(e).packets + 1,
                    bytes |-> Reported(e).bytes + p.size]
              ELSE Reported(e)
<1> DEFINE d == Direction(p)
           key == createConnectionKey(p)
           f == Flip(e)
<1>1. /\ d \in DirectionRecords /\ key \in DirectionRecords
      /\ e \in DirectionRecords /\ f \in DirectionRecords
      /\ key = d \/ key = Flip(d)
      /\ Flip(Flip(d)) = d /\ Flip(f) = e
      /\ Normal(key)
  BY KeyOfPacket, KeyIsNormal, DirectionsAreRecords, FlipTwice
<1>2. /\ DOMAIN connections' = DOMAIN connections \cup {key}
      /\ \A k \in DOMAIN connections : k # key => connections'[k] = connections[k]
      /\ key \in DOMAIN connections =>
            connections'[key] = UpdatedStats(connections[key], p, key)
      /\ key \notin DOMAIN connections => connections'[key] = NewStats(p, key)
  BY DEF processPacket
<1>3. FromSource(p, key) <=> key = d
  BY SentIffKey
<1>4. /\ p.size \in Nat
      /\ \A k \in DOMAIN connections : connections[k] \in ConnectionStats
  BY PacketsArePackets DEF IsPacket, TypeOK
<1>5. \A k \in DOMAIN connections : Normal(k)
  BY DEF KeysAreNormal
<1>6. e \in DOMAIN connections /\ f \in DOMAIN connections => e = f
  BY <1>1, <1>5, NormalOnce
<1>7. key = e \/ key = f => /\ e \in DOMAIN connections => (key = e \/ e = f)
                            /\ f \in DOMAIN connections => (key = f \/ e = f)
  BY <1>1, <1>5, NormalOnce
<1> HIDE DEF d, key, f
<1> USE <1>1, <1>2, <1>3, <1>4, <1>6, <1>7
<1>8. CASE key = e
  BY <1>8 DEF f, d, Reported, UpdatedStats, NewStats, ConnectionStats
<1>9. CASE key = f /\ key # e
  BY <1>9 DEF f, d, Reported, UpdatedStats, NewStats, ConnectionStats
<1>10. CASE key # e /\ key # f
  BY <1>10 DEF f, d, Reported
<1>11. QED
  BY <1>8, <1>9, <1>10

LEMMA ProcessConservation ==
    ASSUME TypeOK, KeysAreNormal, Conservation, NEW p \in Packets, processPacket(p)
    PROVE  Conservation'
<1> DEFINE d == Direction(p)
<1>1. SUFFICES ASSUME NEW e \in Directions PROVE Reported(e)' = carried'[e]
  BY DEF Conservation
<1>2. /\ d \in Directions
      /\ carried \in [Directions -> [packets : Nat, bytes : Nat]]
      /\ carried' = [carried EXCEPT ![d] = [packets |-> carried[d].packets + 1,
                                            bytes |-> carried[d].bytes + p.size]]
  BY KeyOfPacket DEF processPacket, TypeOK
<1>3. Reported(e) = carried[e]
  BY DEF Conservation
<1> HIDE DEF d
<1>4. CASE e = d
  BY <1>2, <1>3, <1>4, ProcessReported DEF d
<1>5. CASE e # d
  BY <1>2, <1>3, <1>5, ProcessReported DEF d
<1>6. QED
  BY <1>4, <1>5

LEMMA NextIInv == IInv /\ [Next]_vars => IInv'
<1> SUFFICES ASSUME IInv, [Next]_vars PROVE IInv'
  OBVIOUS
<1>1. CASE reset
  BY <1>1, ResetIInv
<1>2. ASSUME NEW p \in Packets, processPacket(p) PROVE IInv'
  BY <1>2, ProcessTypeOK, ProcessKeysAreNormal, ProcessConservation DEF IInv
<1>3. CASE UNCHANGED vars
  <2> USE <1>3 DEF vars
  <2>1. TypeOK'
    BY DEF IInv, TypeOK
  <2>2. KeysAreNormal'
    BY DEF IInv, KeysAreNormal
  <2>3. Conservation'
    BY DEF IInv, Conservation, Reported
  <2>4. QED
    BY <2>1, <2>2, <2>3 DEF IInv
<1>4. QED
  BY <1>1, <1>2, <1>3 DEF Next

-----------------------------------------------------------------------------
(* The theorems *)

\* Types, normalised keys and conservation hold together in every state.
THEOREM InductiveInvariant == Spec => []IInv
BY InitIInv, NextIInv, PTL DEF Spec

\* The analyzer's tables keep their types.
THEOREM TypeCorrect == Spec => []TypeOK
<1>1. IInv => TypeOK
  BY DEF IInv
<1>2. QED
  BY <1>1, InductiveInvariant, PTL

\* createConnectionKey never files the two directions of a conversation apart.
THEOREM FlowsAreNotSplit == Spec => []OneFlowPerPair
<1>1. IInv => OneFlowPerPair
  <2> SUFFICES ASSUME IInv, NEW k \in DOMAIN connections, Flip(k) \in DOMAIN connections
               PROVE  Flip(k) = k
    BY DEF OneFlowPerPair
  <2>1. k \in DirectionRecords /\ Normal(k) /\ Normal(Flip(k))
    BY DirectionsAreRecords DEF IInv, TypeOK, KeysAreNormal
  <2>2. QED
    BY <2>1, NormalOnce
<1>2. QED
  BY <1>1, InductiveInvariant, PTL

\* processPacket credits every packet and byte to its direction exactly once.
THEOREM NothingLost == Spec => []Conservation
<1>1. IInv => Conservation
  BY DEF IInv
<1>2. QED
  BY <1>1, InductiveInvariant, PTL

LEMMA DirectionsAreFinite == IsFiniteSet(Directions)
<1> DEFINE sent == {Direction(p) : p \in Packets}
           back == {Flip(Direction(p)) : p \in Packets}
<1>1. IsFiniteSet(Packets)
  BY PacketsArePackets
<1>2. IsFiniteSet(sent)
  <2> DEFINE f == [p \in Packets |-> Direction(p)]
  <2>1. sent = {f[p] : p \in Packets} /\ f \in [Packets -> sent]
    OBVIOUS
  <2>2. f \in Surjection(Packets, sent)
    BY <2>1 DEF Surjection
  <2>3. QED
    BY <1>1, <2>2, FS_Surjection
<1>3. IsFiniteSet(back)
  <2> DEFINE f == [p \in Packets |-> Flip(Direction(p))]
  <2>1. back = {f[p] : p \in Packets} /\ f \in [Packets -> back]
    OBVIOUS
  <2>2. f \in Surjection(Packets, back)
    BY <2>1 DEF Surjection
  <2>3. QED
    BY <1>1, <2>2, FS_Surjection
<1>4. QED
  BY <1>2, <1>3, FS_Union DEF Directions

\* What a packet adds to the bytes carried in a set of directions.
LEMMA CarriedOneMore ==
    ASSUME TypeOK, NEW p \in Packets, processPacket(p), NEW D \in SUBSET Directions
    PROVE  /\ SumFunctionOnSet(CarriedBytes, D)' =
                SumFunctionOnSet(CarriedBytes, D) + (IF Direction(p) \in D THEN p.size ELSE 0)
           /\ SumFunctionOnSet(CarriedBytes, D) \in Nat
<1> DEFINE d == Direction(p)
           f == CarriedBytes
           g == [e \in Directions |-> carried'[e].bytes]
<1>1. SumFunctionOnSet(CarriedBytes, D)' = SumFunctionOnSet(g, D)
  BY DEF CarriedBytes
<1>2. IsFiniteSet(D)
  BY DirectionsAreFinite, FS_Subset
<1>3. /\ d \in Directions /\ p.size \in Nat
      /\ \A e \in Directions : carried[e] \in [packets : Nat, bytes : Nat]
      /\ carried' = [carried EXCEPT ![d] = [packets |-> carried[d].packets + 1,
                                            bytes |-> carried[d].bytes + p.size]]
      /\ DOMAIN carried = Directions
  BY KeyOfPacket, PacketsArePackets DEF IsPacket, TypeOK, processPacket
<1> HIDE DEF d
<1>4. \A e \in Directions : /\ f[e] \in Nat /\ g[e] \in Nat
                            /\ g[e] = IF e = d THEN f[e] + p.size ELSE f[e]
  BY <1>3 DEF CarriedBytes
<1> HIDE DEF f, g
<1>5. CASE d \in D
  <2>1. /\ SumFunctionOnSet(g, D) + f[d] = SumFunctionOnSet(f, D) + g[d]
        /\ SumFunctionOnSet(f, D) \in Nat /\ SumFunctionOnSet(g, D) \in Nat
    BY <1>2, <1>4, <1>5, SumChange
  <2>2. f[d] \in Nat /\ g[d] = f[d] + p.size
    BY <1>3, <1>4
  <2>3. SumFunctionOnSet(g, D) = SumFunctionOnSet(f, D) + p.size
    BY <1>3, <2>1, <2>2
  <2>4. QED
    BY <1>1, <1>5, <2>1, <2>3 DEF d, f
<1>6. CASE d \notin D
  <2>1. SumFunctionOnSet(g, D) = SumFunctionOnSet(f, D)
    BY <1>2, <1>4, <1>6, SumSame
  <2>2. SumFunctionOnSet(f, D) \in Nat
    BY <1>2, <1>4, SumUnfolds
  <2>3. QED
    BY <1>1, <1>6, <2>1, <2>2 DEF d, f
<1>7. QED
  BY <1>5, <1>6

LEMMA ProcessTraffic ==
    ASSUME TypeOK, HostTrafficAddsUp, NEW p \in Packets, processPacket(p)
    PROVE  HostTrafficAddsUp'
<1> SUFFICES ASSUME NEW h \in {d.source_ip : d \in Directions}
             PROVE  Traffic(h)' =
                      SumFunctionOnSet(CarriedBytes, {d \in Directions : d.source_ip = h})'
                      + SumFunctionOnSet(CarriedBytes, {d \in Directions : d.dest_ip = h})'
  BY DEF HostTrafficAddsUp
<1> DEFINE S == {d \in Directions : d.source_ip = h}
           D == {d \in Directions : d.dest_ip = h}
<1>1. /\ Traffic(h)' = Traffic(h) + (IF h = p.source_ip THEN p.size ELSE 0)
                                  + (IF h = p.dest_ip THEN p.size ELSE 0)
      /\ Traffic(h) \in Nat /\ p.size \in Nat
  <2>1. p.size \in Nat /\ Traffic(h) \in Nat
    BY PacketsArePackets DEF IsPacket, TypeOK, Traffic
  <2>2. host_traffic_stats' = WithTraffic(p)
    BY DEF processPacket
  <2>3. CASE h \in DOMAIN host_traffic_stats \cup {p.source_ip, p.dest_ip}
    BY <2>1, <2>2, <2>3 DEF Traffic, WithTraffic
  <2>4. CASE h \notin DOMAIN host_traffic_stats \cup {p.source_ip, p.dest_ip}
    BY <2>1, <2>2, <2>4 DEF Traffic, WithTraffic
  <2>5. QED
    BY <2>1, <2>3, <2>4
<1>2. /\ Direction(p) \in S <=> h = p.source_ip
      /\ Direction(p) \in D <=> h = p.dest_ip
  BY KeyOfPacket DEF Direction
<1>3. /\ SumFunctionOnSet(CarriedBytes, S)' =
            SumFunctionOnSet(CarriedBytes, S) + (IF h = p.source_ip THEN p.size ELSE 0)
      /\ SumFunctionOnSet(CarriedBytes, S) \in Nat
  BY <1>2, CarriedOneMore
<1>4. /\ SumFunctionOnSet(CarriedBytes, D)' =
            SumFunctionOnSet(CarriedBytes, D) + (IF h = p.dest_ip THEN p.size ELSE 0)
      /\ SumFunctionOnSet(CarriedBytes, D) \in Nat
  BY <1>2, CarriedOneMore
<1>5. Traffic(h) = SumFunctionOnSet(CarriedBytes, S) + SumFunctionOnSet(CarriedBytes, D)
  BY DEF HostTrafficAddsUp
<1> HIDE DEF S, D
<1>6. QED
  BY <1>1, <1>3, <1>4, <1>5 DEF S, D

\* Where nothing was carried nothing adds up.
LEMMA NoTraffic ==
    ASSUME carried = NothingCarried, DOMAIN host_traffic_stats = {}
    PROVE  HostTrafficAddsUp
<1>1. ASSUME NEW D \in SUBSET Directions PROVE SumFunctionOnSet(CarriedBytes, D) = 0
  <2>1. IsFiniteSet(D)
    BY DirectionsAreFinite, FS_Subset
  <2>2. \A d \in D : CarriedBytes[d] = 0
    BY DEF CarriedBytes, NothingCarried
  <2>3. QED
    BY <2>1, <2>2, SumZero
<1>2. QED
  BY <1>1 DEF HostTrafficAddsUp, Traffic

\* host_traffic_stats_ counts each packet once for its sender and once for its
\* receiver (packet_analyzer.cpp 57-58).
THEOREM TrafficAddsUp == Spec => []HostTrafficAddsUp
<1>1. Init => HostTrafficAddsUp
  BY NoTraffic DEF Init
<1>2. IInv /\ HostTrafficAddsUp /\ [Next]_vars => HostTrafficAddsUp'
  <2> SUFFICES ASSUME IInv, HostTrafficAddsUp, [Next]_vars PROVE HostTrafficAddsUp'
    OBVIOUS
  <2>1. CASE reset
    <3>1. carried' = NothingCarried /\ DOMAIN host_traffic_stats' = {}
      BY <2>1 DEF reset
    <3>2. ASSUME NEW D \in SUBSET Directions
          PROVE  SumFunctionOnSet(CarriedBytes, D)' = 0
      <4>1. IsFiniteSet(D)
        BY DirectionsAreFinite, FS_Subset
      <4> DEFINE g == [e \in Directions |-> carried'[e].bytes]
      <4>2. \A d \in D : g[d] = 0
        BY <3>1 DEF NothingCarried
      <4>3. SumFunctionOnSet(g, D) = 0
        <5> HIDE DEF g
        <5>1. QED
          BY <4>1, <4>2, SumZero
      <4>4. QED
        BY <4>3 DEF CarriedBytes
    <3>3. QED
      BY <3>1, <3>2 DEF HostTrafficAddsUp, Traffic
  <2>2. ASSUME NEW p \in Packets, processPacket(p) PROVE HostTrafficAddsUp'
    BY <2>2, ProcessTraffic DEF IInv
  <2>3. CASE UNCHANGED vars
    BY <2>3 DEF vars, HostTrafficAddsUp, Traffic, CarriedBytes
  <2>4. QED
    BY <2>1, <2>2, <2>3 DEF Next
<1>3. QED
  BY <1>1, <1>2, InductiveInvariant, PTL DEF Spec

\* What the statistics s tell of the packets of q at the places F.
Spoken(q, T) ==
    IF T = {} THEN Unrecognised
    ELSE Parsers[Min({i \in DOMAIN Parsers : Parsers[i] \in q[Min(T)].accepted})]

Telling(q, F) == {i \in F : q[i].accepted # {}}

Told(s, q, F) ==
    /\ F # {}
    /\ s.first_seen = q[Min(F)].timestamp
    /\ s.last_seen = q[Max(F)].timestamp
    /\ s.protocol_type = Spoken(q, Telling(q, F))

\* Every packet since the last reset belongs to a connection of the table.
FlowsAreKnown ==
    /\ resetAt <= Len(processed)
    /\ \A i \in resetAt + 1 .. Len(processed) :
          createConnectionKey(processed[i]) \in DOMAIN connections

FlowsAreTold == \A k \in DOMAIN connections : Told(connections[k], processed, FlowOf(k))

\* The packets of a connection are the ones with its key.
LEMMA KeyOfFlow ==
    ASSUME NEW p \in Packets, NEW k \in DirectionRecords, Normal(k)
    PROVE  Direction(p) \in {k, Flip(k)} <=> createConnectionKey(p) = k
<1> DEFINE d == Direction(p)
           key == createConnectionKey(p)
<1>1. /\ d \in DirectionRecords /\ key \in {d, Flip(d)} /\ Normal(key)
      /\ Flip(Flip(d)) = d /\ Flip(Flip(k)) = k
  BY KeyOfPacket, DirectionsAreRecords, KeyIsNormal, FlipTwice
<1> HIDE DEF d, key
<1>2. d = k => key = k
  BY <1>1, NormalOnce
<1>3. d = Flip(k) => key = k
  BY <1>1, NormalOnce
<1>4. key = k => d = k \/ d = Flip(k)
  BY <1>1
<1>5. QED
  BY <1>2, <1>3, <1>4 DEF d, key

\* The first parser that accepts, if any does, is what analyzeProtocol finds.
LEMMA FirstParserSpeaks ==
    ASSUME NEW p \in Packets, p.accepted # {}
    PROVE  LET hits == {i \in DOMAIN Parsers : Parsers[i] \in p.accepted}
           IN  /\ analyzeProtocol(p) = Parsers[Min(hits)]
               /\ Parsers[Min(hits)] \in Range(Parsers)
               /\ Parsers[Min(hits)] # Unrecognised
<1> DEFINE hits == {i \in DOMAIN Parsers : Parsers[i] \in p.accepted}
           first == {i \in DOMAIN Parsers :
                        /\ Parsers[i] \in p.accepted
                        /\ \A j \in 1 .. (i - 1) : Parsers[j] \notin p.accepted}
<1>1. DOMAIN Parsers = 1 .. Len(Parsers) /\ Len(Parsers) \in Nat
  BY ParsersAreASequence, LenProperties
<1>2. hits \in SUBSET Nat /\ hits # {}
  <2>1. p.accepted \subseteq Range(Parsers)
    BY PacketsArePackets DEF IsPacket
  <2>2. QED
    BY <1>1, <2>1 DEF Range
<1>3. PICK m \in hits : \A i \in hits : m <= i
  <2> HIDE DEF hits
  <2>1. QED
    BY <1>2, LeastElement
<1>4. Min(hits) = m
  <2> HIDE DEF hits
  <2>1. QED
    BY <1>2, <1>3, MinIs
<1>5. m \in first
  <2>1. ASSUME NEW j \in 1 .. (m - 1), Parsers[j] \in p.accepted PROVE FALSE
    <3>1. j \in hits /\ j < m /\ j \in Nat /\ m \in Nat
      BY <1>1, <2>1
    <3>2. m <= j
      BY <1>3, <3>1
    <3>3. QED
      BY <3>1, <3>2
  <2>2. QED
    BY <2>1
<1>6. ASSUME NEW i \in first PROVE i = m
  <2>1. i \in hits /\ i \in Nat /\ m \in Nat /\ 1 <= m
    BY <1>1
  <2>2. m <= i
    BY <1>3, <2>1
  <2>3. ~(m < i)
    <3>1. m < i => m \in 1 .. (i - 1)
      BY <2>1
    <3>2. QED
      BY <3>1
  <2>4. QED
    BY <2>1, <2>2, <2>3
<1>7. analyzeProtocol(p) = Parsers[m]
  <2>1. first = {m}
    BY <1>5, <1>6
  <2>2. QED
    BY <2>1 DEF analyzeProtocol
<1>8. Parsers[m] \in Range(Parsers)
  BY DEF Range
<1>9. QED
  BY <1>4, <1>7, <1>8, ParsersAreASequence

LEMMA NobodySpeaks ==
    ASSUME NEW p \in Packets, p.accepted = {}
    PROVE  analyzeProtocol(p) = Unrecognised
BY DEF analyzeProtocol

\* What is told stays told when packets are added elsewhere.
LEMMA ToldSame ==
    ASSUME NEW s, NEW q, NEW q2, NEW F \in SUBSET Nat, \A i \in F : q2[i] = q[i], Told(s, q, F),
           NEW n \in Nat, \A i \in F : i <= n
    PROVE  Told(s, q2, F)
<1>1. PICK a \in F : \A i \in F : a <= i
  BY LeastElement DEF Told
<1>2. PICK b \in F : \A i \in F : i <= b
  BY GreatestElement DEF Told
<1>3. Min(F) = a /\ Max(F) = b
  BY <1>1, <1>2, MinIs, MaxIs
<1>4. Telling(q2, F) = Telling(q, F)
  BY DEF Telling
<1>5. Spoken(q2, Telling(q2, F)) = Spoken(q, Telling(q, F))
  <2>1. CASE Telling(q, F) = {}
    BY <1>4, <2>1 DEF Spoken
  <2>2. CASE Telling(q, F) # {}
    <3>1. Telling(q, F) \in SUBSET Nat /\ Telling(q, F) \in SUBSET F
      BY DEF Telling
    <3>2. PICK m \in Telling(q, F) : \A i \in Telling(q, F) : m <= i
      BY <2>2, <3>1, LeastElement
    <3>3. Min(Telling(q, F)) = m /\ q2[m] = q[m]
      BY <3>1, <3>2, MinIs
    <3>4. QED
      BY <1>4, <2>2, <3>3 DEF Spoken
  <2>3. QED
    BY <2>1, <2>2
<1>6. QED
  BY <1>3, <1>5 DEF Told

\* A connection's first packet.
LEMMA ToldFirst ==
    ASSUME NEW p \in Packets, NEW key, NEW q, NEW n \in Nat, q[n] = p
    PROVE  Told(NewStats(p, key), q, {n})
<1>1. Min({n}) = n /\ Max({n}) = n
  BY MinIs, MaxIs
<1>2. Spoken(q, Telling(q, {n})) = analyzeProtocol(p)
  <2>1. CASE p.accepted = {}
    <3>1. Telling(q, {n}) = {}
      BY <2>1 DEF Telling
    <3>2. QED
      BY <2>1, <3>1, NobodySpeaks DEF Spoken
  <2>2. CASE p.accepted # {}
    <3>1. Telling(q, {n}) = {n}
      BY <2>2 DEF Telling
    <3>2. QED
      BY <1>1, <2>2, <3>1, FirstParserSpeaks DEF Spoken
  <2>3. QED
    BY <2>1, <2>2
<1>3. /\ NewStats(p, key).first_seen = p.timestamp
      /\ NewStats(p, key).last_seen = p.timestamp
      /\ NewStats(p, key).protocol_type = analyzeProtocol(p)
  BY DEF NewStats
<1>4. QED
  BY <1>1, <1>2, <1>3 DEF Told

\* A further packet of a connection.
LEMMA ToldMore ==
    ASSUME NEW p \in Packets, NEW key, NEW s, NEW q, NEW n \in Nat, NEW F \in SUBSET Nat,
           \A i \in F : i < n /\ q[i] \in Packets, q[n] = p, Told(s, q, F)
    PROVE  Told(UpdatedStats(s, p, key), q, F \cup {n})
<1> DEFINE G == F \cup {n}
           u == UpdatedStats(s, p, key)
<1>1. /\ u.first_seen = s.first_seen /\ u.last_seen = p.timestamp
      /\ u.protocol_type = IF s.protocol_type = Unrecognised
                           THEN analyzeProtocol(p) ELSE s.protocol_type
  BY DEF UpdatedStats
<1>2. PICK a \in F : \A i \in F : a <= i
  BY LeastElement DEF Told
<1>3. Min(F) = a /\ Min(G) = a /\ Max(G) = n
  <2>1. Min(F) = a
    BY <1>2, MinIs
  <2>2. a \in G /\ G \in SUBSET Nat /\ \A i \in G : a <= i
    BY <1>2
  <2>3. n \in G /\ \A i \in G : i <= n
    OBVIOUS
  <2> HIDE DEF G
  <2>4. QED
    BY <2>1, <2>2, <2>3, MinIs, MaxIs
<1>4. u.protocol_type = Spoken(q, Telling(q, G))
  <2> DEFINE T == Telling(q, F)
  <2>1. CASE T = {}
    <3>1. u.protocol_type = analyzeProtocol(p)
      BY <1>1, <2>1 DEF Told, Spoken
    <3>2. Telling(q, G) = Telling(q, {n})
      BY <2>1 DEF Telling
    <3>3. Told(NewStats(p, key), q, {n})
      BY ToldFirst
    <3>4. Spoken(q, Telling(q, {n})) = analyzeProtocol(p)
      BY <3>3 DEF Told, NewStats
    <3>5. QED
      BY <3>1, <3>2, <3>4
  <2>2. CASE T # {}
    <3>1. T \in SUBSET Nat /\ T \in SUBSET F
      BY DEF Telling
    <3>2. PICK m \in T : \A i \in T : m <= i
      <4> HIDE DEF T
      <4>1. QED
        BY <2>2, <3>1, LeastElement
    <3>3. Min(T) = m
      <4> HIDE DEF T
      <4>1. QED
        BY <3>1, <3>2, MinIs
    <3>4. Min(Telling(q, G)) = m /\ Telling(q, G) # {}
      <4> DEFINE U == Telling(q, G)
      <4>1. m \in U /\ U \in SUBSET Nat /\ \A i \in U : i \in T \/ i = n
        BY DEF Telling
      <4>2. \A i \in U : m <= i
        BY <3>1, <3>2, <4>1
      <4> HIDE DEF U
      <4>3. QED
        BY <4>1, <4>2, MinIs DEF U
    <3>5. Spoken(q, Telling(q, G)) = Spoken(q, T)
      BY <2>2, <3>3, <3>4 DEF Spoken
    <3>6. q[m] \in Packets /\ q[m].accepted # {}
      BY <3>1, <3>2 DEF Telling
    <3>7. s.protocol_type = Spoken(q, T) /\ Spoken(q, T) # Unrecognised
      BY <2>2, <3>3, <3>6, FirstParserSpeaks DEF Told, Spoken
    <3>8. QED
      BY <1>1, <3>5, <3>7
  <2>3. QED
    BY <2>1, <2>2
<1>5. G # {} /\ s.first_seen = q[a].timestamp
  BY <1>3 DEF Told
<1> HIDE DEF u, G
<1>6. Told(u, q, G)
  BY <1>1, <1>3, <1>4, <1>5 DEF Told
<1>7. QED
  BY <1>6 DEF u, G

\* What a packet adds to the flows.
LEMMA ProcessFlows ==
    ASSUME IInv, FlowsAreKnown, NEW p \in Packets, processPacket(p), NEW k \in DirectionRecords,
           Normal(k)
    PROVE  LET n == Len(processed) + 1
           IN  /\ FlowOf(k)' = IF createConnectionKey(p) = k THEN FlowOf(k) \cup {n} ELSE FlowOf(k)
               /\ n \in Nat /\ processed'[n] = p /\ Len(processed') = n
               /\ FlowOf(k) \in SUBSET Nat
               /\ \A i \in FlowOf(k) : i < n /\ i <= n /\ processed[i] \in Packets
                                       /\ processed'[i] = processed[i]
               /\ k \notin DOMAIN connections => FlowOf(k) = {}
<1> DEFINE n == Len(processed) + 1
<1>1. processed \in Seq(Packets) /\ resetAt \in Nat /\ resetAt <= Len(processed)
  BY DEF IInv, TypeOK, FlowsAreKnown
<1>2. processed' = Append(processed, p) /\ resetAt' = resetAt
  BY DEF processPacket
<1>3. /\ Len(processed') = n /\ processed'[n] = p /\ n \in Nat /\ Len(processed) \in Nat
      /\ \A i \in 1 .. Len(processed) : processed'[i] = processed[i] /\ processed[i] \in Packets
  BY <1>1, <1>2, AppendProperties, LenProperties, ElementOfSeq
<1>4. resetAt + 1 .. n = (resetAt + 1 .. Len(processed)) \cup {n}
  BY <1>1, <1>3
<1>5. \A i \in resetAt + 1 .. Len(processed) :
          i \in 1 .. Len(processed) /\ i \in Nat /\ i < n /\ i <= n
  BY <1>1, <1>3
<1>6. FlowOf(k)' = IF Direction(p) \in {k, Flip(k)} THEN FlowOf(k) \cup {n} ELSE FlowOf(k)
  <2>1. FlowOf(k)' = {i \in resetAt + 1 .. n : Direction(processed'[i]) \in {k, Flip(k)}}
    BY <1>2, <1>3 DEF FlowOf
  <2>2. FlowOf(k) = {i \in resetAt + 1 .. Len(processed) :
                        Direction(processed'[i]) \in {k, Flip(k)}}
    BY <1>3, <1>5 DEF FlowOf
  <2> HIDE DEF n
  <2>3. QED
    BY <1>3, <1>4, <2>1, <2>2
<1>7. ASSUME NEW i \in FlowOf(k) PROVE k \in DOMAIN connections
  <2>1. /\ i \in resetAt + 1 .. Len(processed) /\ processed[i] \in Packets
        /\ Direction(processed[i]) \in {k, Flip(k)}
    BY <1>3, <1>5 DEF FlowOf
  <2>2. createConnectionKey(processed[i]) = k
    BY <2>1, KeyOfFlow
  <2>3. QED
    BY <2>1, <2>2 DEF FlowsAreKnown
<1>8. \A i \in FlowOf(k) : i \in resetAt + 1 .. Len(processed)
  BY DEF FlowOf
<1>9. \A i \in FlowOf(k) : i \in Nat /\ i < n /\ i <= n /\ processed[i] \in Packets
                           /\ processed'[i] = processed[i]
  BY <1>3, <1>5, <1>8
<1>10. FlowOf(k)' = IF createConnectionKey(p) = k THEN FlowOf(k) \cup {n} ELSE FlowOf(k)
  BY <1>6, KeyOfFlow
<1>11. QED
  BY <1>3, <1>7, <1>9, <1>10

LEMMA ProcessTold ==
    ASSUME IInv, FlowsAreKnown, FlowsAreTold, NEW p \in Packets, processPacket(p)
    PROVE  FlowsAreKnown' /\ FlowsAreTold'
<1> DEFINE key == createConnectionKey(p)
           n == Len(processed) + 1
<1>1. /\ DOMAIN connections' = DOMAIN connections \cup {key}
      /\ \A k \in DOMAIN connections : k # key => connections'[k] = connections[k]
      /\ key \in DOMAIN connections =>
            connections'[key] = UpdatedStats(connections[key], p, key)
      /\ key \notin DOMAIN connections => connections'[key] = NewStats(p, key)
  BY DEF processPacket
<1>2. key \in DirectionRecords /\ Normal(key)
  BY KeyOfPacket, KeyIsNormal, DirectionsAreRecords
<1>3. \A k \in DOMAIN connections : k \in DirectionRecords /\ Normal(k)
  BY DirectionsAreRecords DEF IInv, TypeOK, KeysAreNormal
<1> HIDE DEF key
<1>4. FlowsAreKnown'
  <2>1. processed \in Seq(Packets) /\ resetAt' = resetAt /\ resetAt \in Nat
        /\ processed' = Append(processed, p)
    BY DEF IInv, TypeOK, processPacket
  <2>2. /\ Len(processed') = n /\ processed'[n] = p /\ n \in Nat /\ Len(processed) \in Nat
        /\ \A i \in 1 .. Len(processed) : processed'[i] = processed[i]
    BY <2>1, AppendProperties, LenProperties
  <2>3. resetAt' <= Len(processed')
    BY <2>1, <2>2 DEF FlowsAreKnown
  <2>4. ASSUME NEW i \in resetAt + 1 .. n
        PROVE  createConnectionKey(processed'[i]) \in DOMAIN connections'
    <3>1. CASE i = n
      BY <1>1, <2>2, <3>1 DEF key
    <3>2. CASE i # n
      <4>1. i \in resetAt + 1 .. Len(processed) /\ i \in 1 .. Len(processed)
        BY <2>1, <2>2, <3>2
      <4>2. QED
        BY <1>1, <2>2, <4>1 DEF FlowsAreKnown
    <3>3. QED
      BY <3>1, <3>2
  <2>5. QED
    BY <2>1, <2>2, <2>3, <2>4 DEF FlowsAreKnown
<1>5. ASSUME NEW k \in DOMAIN connections' PROVE Told(connections'[k], processed', FlowOf(k)')
  <2>1. k \in DirectionRecords /\ Normal(k)
    BY <1>1, <1>2, <1>3
  <2>2. /\ FlowOf(k)' = IF key = k THEN FlowOf(k) \cup {n} ELSE FlowOf(k)
        /\ n \in Nat /\ processed'[n] = p
        /\ FlowOf(k) \in SUBSET Nat
        /\ \A i \in FlowOf(k) : i < n /\ i <= n /\ processed[i] \in Packets
                                /\ processed'[i] = processed[i]
        /\ k \notin DOMAIN connections => FlowOf(k) = {}
    BY <2>1, ProcessFlows DEF key
  <2>3. k \in DOMAIN connections => Told(connections[k], processed', FlowOf(k))
    <3> HIDE DEF n
    <3>1. SUFFICES ASSUME k \in DOMAIN connections
                   PROVE  Told(connections[k], processed', FlowOf(k))
      OBVIOUS
    <3>2. Told(connections[k], processed, FlowOf(k))
      BY <3>1 DEF FlowsAreTold
    <3>3. QED
      BY <2>2, <3>2, ToldSame
  <2> HIDE DEF n
  <2>4. CASE k # key
    BY <1>1, <2>2, <2>3, <2>4
  <2>5. CASE k = key /\ k \in DOMAIN connections
    <3>1. \A i \in FlowOf(k) : i < n /\ processed'[i] \in Packets
      BY <2>2
    <3>2. Told(UpdatedStats(connections[k], p, key), processed', FlowOf(k) \cup {n})
      BY <2>2, <2>3, <2>5, <3>1, ToldMore
    <3>3. QED
      BY <1>1, <2>2, <2>5, <3>2
  <2>6. CASE k = key /\ k \notin DOMAIN connections
    <3>1. Told(NewStats(p, key), processed', {n})
      BY <2>2, ToldFirst
    <3>2. FlowOf(k)' = {n}
      BY <2>2, <2>6
    <3>3. QED
      BY <1>1, <2>6, <3>1, <3>2
  <2>7. QED
    BY <2>4, <2>5, <2>6
<1>6. QED
  BY <1>4, <1>5 DEF FlowsAreTold

\* A connection's times and protocol are those of its packets since the last reset
\* (packet_analyzer.cpp 20-55 and 103-112).
THEOREM FlowsTellTheirStory == Spec => []StatsTellTheFlow
<1>1. Init => FlowsAreKnown /\ FlowsAreTold
  <2> SUFFICES ASSUME Init PROVE FlowsAreKnown /\ FlowsAreTold
    OBVIOUS
  <2>1. processed = <<>> /\ resetAt = 0 /\ Len(processed) = 0 /\ DOMAIN connections = {}
    BY DEF Init
  <2>2. QED
    BY <2>1 DEF FlowsAreKnown, FlowsAreTold
<1>2. IInv /\ FlowsAreKnown /\ FlowsAreTold /\ [Next]_vars => FlowsAreKnown' /\ FlowsAreTold'
  <2> SUFFICES ASSUME IInv, FlowsAreKnown, FlowsAreTold, [Next]_vars
               PROVE  FlowsAreKnown' /\ FlowsAreTold'
    OBVIOUS
  <2>1. CASE reset
    <3>1. /\ DOMAIN connections' = {} /\ resetAt' = Len(processed) /\ processed' = processed
          /\ Len(processed) \in Nat
      BY <2>1, LenProperties DEF reset, IInv, TypeOK
    <3>2. QED
      BY <3>1 DEF FlowsAreKnown, FlowsAreTold
  <2>2. ASSUME NEW p \in Packets, processPacket(p) PROVE FlowsAreKnown' /\ FlowsAreTold'
    BY <2>2, ProcessTold
  <2>3. CASE UNCHANGED vars
    <3>1. UNCHANGED <<connections, processed, resetAt>> /\ \A k : FlowOf(k)' = FlowOf(k)
      BY <2>3 DEF vars, FlowOf
    <3>2. QED
      BY <3>1 DEF FlowsAreKnown, FlowsAreTold
  <2>4. QED
    BY <2>1, <2>2, <2>3 DEF Next
<1>3. FlowsAreTold => StatsTellTheFlow
  BY DEF FlowsAreTold, StatsTellTheFlow, Told, Spoken, Telling
<1>4. QED
  BY <1>1, <1>2, <1>3, InductiveInvariant, PTL DEF Spec

-----------------------------------------------------------------------------
(* The ring, for any capacity, items and threads.                            *)

\* The inductive invariant: the array's shape and what it holds.
BufferIInv == BufferTypeOK /\ HoldsWhatIsLeft

\* One step around the array stays in it and is the next slot: the increments of
\* head_ and tail_ modulo Capacity.
LEMMA Around ==
    ASSUME NEW i \in Slots
    PROVE  /\ (i + 1) % Capacity \in Slots
           /\ (i + 1) % Capacity = IF i + 1 < Capacity THEN i + 1 ELSE 0
<1>1. Capacity \in Nat \ {0} /\ i \in Nat /\ i < Capacity
  BY CapacityIsPositive DEF Slots
<1>2. CASE i + 1 < Capacity
  BY <1>1, <1>2 DEF Slots
<1>3. CASE i + 1 = Capacity
  <2>1. (i + 1) % Capacity = 0
    BY <1>1, <1>3
  <2> QED BY <2>1, <1>1, <1>3 DEF Slots
<1> QED BY <1>1, <1>2, <1>3

\* The constructor leaves an empty array.
LEMMA BufferInitHolds == BufferInit => BufferIInv
<1> SUFFICES ASSUME BufferInit PROVE BufferIInv
  OBVIOUS
<1>1. 0 \in Slots /\ 0 < Capacity
  BY CapacityIsPositive DEF Slots
<1>2. Len(put) = 0 /\ Len(got) = 0 /\ put \in Seq(Items)
      /\ got \in Seq(Items \cup {Moved})
  BY DEF BufferInit
<1>3. BufferTypeOK
  BY <1>1, <1>2, CapacityIsPositive DEF BufferInit, BufferTypeOK
<1>4. HoldsWhatIsLeft
  BY <1>1, <1>2 DEF BufferInit, HoldsWhatIsLeft, Slot
<1> QED BY <1>3, <1>4 DEF BufferIInv

\* A push that is accepted fills the slot after the last item and moves none.
LEMMA PushHolds ==
    ASSUME BufferIInv, NEW p \in Producers, NEW x \in Items, Push(p, x)
    PROVE  BufferIInv'
<1> USE CapacityIsPositive
<1>1. /\ head \in Slots /\ tail \in Slots /\ size \in 0 .. Capacity
      /\ buffer \in [Slots -> Items \cup {Moved}]
      /\ put \in Seq(Items) /\ got \in Seq(Items \cup {Moved})
  BY DEF BufferIInv, BufferTypeOK
<1>2. size < Capacity /\ size' = size + 1 /\ head' = head /\ got' = got
      /\ tail' = (tail + 1) % Capacity
      /\ buffer' = [buffer EXCEPT ![tail] = x] /\ put' = Append(put, x)
  BY DEF Push
<1>3. Len(put') = Len(put) + 1 /\ put' \in Seq(Items) /\ put'[Len(put) + 1] = x
      /\ \A i \in 1 .. Len(put) : put'[i] = put[i]
  BY <1>1, <1>2
<1>4. Len(put) \in Nat /\ Len(got) \in Nat
  BY <1>1
<1>5. tail' \in Slots /\ tail' = IF tail + 1 < Capacity THEN tail + 1 ELSE 0
  BY <1>1, <1>2, Around
<1>6. BufferTypeOK'
  <2>1. seen' \in [Threads -> 0 .. Capacity \cup {Nothing}]
    BY DEF BufferIInv, BufferTypeOK, Push
  <2>2. ref' = ref
    BY DEF Push
  <2>3. buffer' \in [Slots -> Items \cup {Moved}] /\ size' \in 0 .. Capacity
    BY <1>1, <1>2
  <2> QED BY <1>1, <1>2, <1>3, <1>5, <2>1, <2>2, <2>3 DEF BufferIInv, BufferTypeOK
<1>7. size' = Len(put') - Len(got')
  BY <1>2, <1>3, <1>4 DEF BufferIInv, HoldsWhatIsLeft
<1>8. tail = Slot(size)
  BY DEF BufferIInv, HoldsWhatIsLeft
<1>9. tail' = Slot(size)'
  BY <1>1, <1>2, <1>5, <1>8 DEF Slot, Slots
<1>10. ASSUME NEW k \in 0 .. (size' - 1)
       PROVE  buffer'[Slot(k)'] = put'[Len(got') + k + 1]
  <2>1. Slot(k)' = Slot(k) /\ Slot(k) \in Slots
    BY <1>1, <1>2 DEF Slot, Slots
  <2>2. CASE k = size
    BY <2>1, <2>2, <1>1, <1>2, <1>3, <1>4, <1>8 DEF BufferIInv, HoldsWhatIsLeft
  <2>3. CASE k < size
    <3>1. k \in 0 .. (size - 1) /\ Slot(k) # Slot(size)
      BY <2>3, <1>1, <1>2 DEF Slot, Slots
    <3>2. buffer'[Slot(k)] = buffer[Slot(k)]
      BY <3>1, <2>1, <1>1, <1>2, <1>8
    <3>3. buffer[Slot(k)] = put[Len(got) + k + 1]
      BY <3>1 DEF BufferIInv, HoldsWhatIsLeft
    <3>4. Len(got) + k + 1 \in 1 .. Len(put)
      BY <3>1, <1>1, <1>4 DEF BufferIInv, HoldsWhatIsLeft
    <3> QED BY <2>1, <3>2, <3>3, <3>4, <1>2, <1>3
  <2>4. k = size \/ k < size
    BY <1>1, <1>2
  <2> QED BY <2>2, <2>3, <2>4
<1> QED BY <1>6, <1>7, <1>9, <1>10 DEF BufferIInv, HoldsWhatIsLeft

\* A pop hands out the oldest item and moves none of the others.
LEMMA PopHolds ==
    ASSUME BufferIInv, NEW c \in Consumers, Pop(c)
    PROVE  BufferIInv' /\ buffer[head] = put[Len(got) + 1] /\ Len(got) < Len(put)
<1> USE CapacityIsPositive
<1>1. /\ head \in Slots /\ tail \in Slots /\ size \in 0 .. Capacity
      /\ buffer \in [Slots -> Items \cup {Moved}]
      /\ put \in Seq(Items) /\ got \in Seq(Items \cup {Moved})
  BY DEF BufferIInv, BufferTypeOK
<1>2. size > 0 /\ size' = size - 1 /\ tail' = tail /\ put' = put
      /\ head' = (head + 1) % Capacity /\ got' = Append(got, buffer[head])
      /\ buffer' \in {buffer, [buffer EXCEPT ![head] = Moved]}
  BY DEF Pop
<1>3. Len(got') = Len(got) + 1 /\ got' \in Seq(Items \cup {Moved})
  BY <1>1, <1>2
<1>4. Len(put) \in Nat /\ Len(got) \in Nat
  BY <1>1
<1>5. head' \in Slots /\ head' = IF head + 1 < Capacity THEN head + 1 ELSE 0
  BY <1>1, <1>2, Around
<1>2a. size > 0 /\ size' = size - 1 /\ tail' = tail
  BY <1>2
<1>6. BufferTypeOK'
  <2>1. seen' \in [Threads -> 0 .. Capacity \cup {Nothing}]
    BY DEF BufferIInv, BufferTypeOK, Pop
  <2>2. ref' \in [Consumers ->
                     [slot : Slots, item : Items \cup {Moved}] \cup {Nothing}]
    BY DEF BufferIInv, BufferTypeOK, Pop
  <2>3. buffer' \in [Slots -> Items \cup {Moved}] /\ size' \in 0 .. Capacity
    BY <1>1, <1>2
  <2> QED BY <1>1, <1>2, <1>3, <1>5, <2>1, <2>2, <2>3 DEF BufferTypeOK
<1>7. size = Len(put) - Len(got) /\ tail = Slot(size)
      /\ \A k \in 0 .. (size - 1) : buffer[Slot(k)] = put[Len(got) + k + 1]
  BY DEF BufferIInv, HoldsWhatIsLeft
<1>8. buffer[head] = put[Len(got) + 1]
  <2>1. 0 \in 0 .. (size - 1) /\ Slot(0) = head
    BY <1>1, <1>2 DEF Slot, Slots
  <2> QED BY <2>1, <1>4, <1>7
<1>9. ASSUME NEW k \in 0 .. (size' - 1)
      PROVE  buffer'[Slot(k)'] = put'[Len(got') + k + 1]
  <2>1. k + 1 \in 0 .. (size - 1) /\ Slot(k)' = Slot(k + 1)
        /\ Slot(k + 1) \in Slots /\ Slot(k + 1) # head
    BY <1>1, <1>2a, <1>5 DEF Slot, Slots
  <2>2. buffer'[Slot(k + 1)] = buffer[Slot(k + 1)]
    BY <2>1, <1>1, <1>2
  <2> QED BY <2>1, <2>2, <1>2, <1>3, <1>4, <1>7
<1>10. size' = Len(put') - Len(got') /\ tail' = Slot(size)'
  <2>1. size' = Len(put') - Len(got')
    BY <1>1, <1>2, <1>3, <1>4, <1>7
  <2>2. tail' = Slot(size)'
    BY <1>1, <1>2a, <1>5, <1>7 DEF Slot, Slots
  <2> QED BY <2>1, <2>2
<1>11. Len(got) < Len(put)
  BY <1>1, <1>2, <1>4, <1>7
<1> QED BY <1>6, <1>8, <1>9, <1>10, <1>11 DEF BufferIInv, HoldsWhatIsLeft

\* Operations that only look: refused pushes and pops, size() and peek.
Looking ==
    \/ \E p \in Producers : PushFull(p)
    \/ \E c \in Consumers : PopEmpty(c) \/ Peek(c) \/ DropRef(c)
    \/ \E t \in Threads : Look(t)
    \/ UNCHANGED bufferVars

\* Looking changes neither the array nor the histories.
LEMMA LookingHolds ==
    ASSUME BufferIInv, Looking
    PROVE  BufferIInv' /\ UNCHANGED <<put, got>>
<1>1. UNCHANGED <<buffer, head, tail, size, put, got>>
  BY DEF Looking, PushFull, PopEmpty, Peek, DropRef, Look, bufferVars
<1>2. seen' \in [Threads -> 0 .. Capacity \cup {Nothing}]
  BY DEF BufferIInv, BufferTypeOK, Looking, PushFull, PopEmpty, Peek, DropRef, Look, bufferVars
<1>3. ref' \in [Consumers ->
                   [slot : Slots, item : Items \cup {Moved}] \cup {Nothing}]
  BY DEF BufferIInv, BufferTypeOK, Looking, PushFull, PopEmpty, Peek, DropRef, Look, bufferVars
<1>4. BufferTypeOK'
  BY <1>1, <1>2, <1>3 DEF BufferIInv, BufferTypeOK
<1>5. HoldsWhatIsLeft'
  BY <1>1 DEF BufferIInv, HoldsWhatIsLeft, Slot
<1> QED BY <1>1, <1>4, <1>5 DEF BufferIInv

\* Every step of a client is one of the three.
LEMMA BufferStepCases ==
    ASSUME [BufferNext]_bufferVars
    PROVE  \/ \E p \in Producers, x \in Items : Push(p, x)
           \/ \E c \in Consumers : Pop(c)
           \/ Looking
BY DEF BufferNext, Looking

\* push, pop and what only looks keep the array and its histories in step.
THEOREM BufferInvariant == BufferSpec => []BufferIInv
<1>1. BufferIInv /\ [BufferNext]_bufferVars => BufferIInv'
  BY BufferStepCases, PushHolds, PopHolds, LookingHolds
<1> QED BY BufferInitHolds, <1>1, PTL DEF BufferSpec

\* The members always have the shape the class declares.
THEOREM BufferTypeCorrect == BufferSpec => []BufferTypeOK
BY BufferInvariant, PTL DEF BufferIInv

\* push and pop, wrapping around, never lose, repeat or reorder an item, and
\* size_ is the number of pushes minus the number of pops.
THEOREM BufferLosesNothing == BufferSpec => []HoldsWhatIsLeft
BY BufferInvariant, PTL DEF BufferIInv

\* The buffer is a bounded FIFO, whatever the threads that push, pop, peek or ask
\* for its size.
THEOREM BufferImplementsFifo == BufferSpec => ImplementsBoundedFifo
<1>1. BufferInit => Fifo!Init
  BY DEF BufferInit, Fifo!Init
<1>2. ASSUME BufferIInv, [BufferNext]_bufferVars PROVE [Fifo!Next]_<<put, got>>
  <2>1. ASSUME NEW p \in Producers, NEW x \in Items, Push(p, x)
        PROVE  Fifo!Put(x)
    <3>1. Len(put) - Len(got) < Capacity
      BY <1>2, <2>1 DEF BufferIInv, HoldsWhatIsLeft, Push
    <3> QED BY <3>1, <2>1 DEF Push, Fifo!Put
  <2>2. ASSUME NEW c \in Consumers, Pop(c) PROVE Fifo!Get
    BY <1>2, <2>2, PopHolds DEF Pop, Fifo!Get
  <2>3. CASE Looking
    BY <1>2, <2>3, LookingHolds
  <2> QED BY <1>2, <2>1, <2>2, <2>3, BufferStepCases DEF Fifo!Next
<1> QED BY <1>1, <1>2, BufferInvariant, PTL DEF BufferSpec, ImplementsBoundedFifo, Fifo!Spec

\* A thread that acts on a size it read may do so where nobody else pushes or
\* nobody else pops.
LEMMA SeenKept ==
    ASSUME \A p, q \in Producers : p = q, \A c, d \in Consumers : c = d,
           BufferIInv, SeenIsABound, [BufferNext]_bufferVars
    PROVE  SeenIsABound'
<1>1. size \in 0 .. Capacity /\ Capacity \in Nat
      /\ seen \in [Threads -> 0 .. Capacity \cup {Nothing}]
  BY CapacityIsPositive DEF BufferIInv, BufferTypeOK
<1>2. ASSUME NEW t \in Threads, seen' = [seen EXCEPT ![t] = Nothing]
      PROVE  seen'[t] = Nothing /\ \A u \in Threads : u # t => seen'[u] = seen[u]
  BY <1>1, <1>2
<1>3. ASSUME NEW p \in Producers, NEW x \in Items, Push(p, x) PROVE SeenIsABound'
  <2>1. seen'[p] = Nothing /\ \A u \in Threads : u # p => seen'[u] = seen[u]
    BY <1>2, <1>3 DEF Push, Threads
  <2>2. ASSUME NEW c \in Consumers, seen'[c] # Nothing PROVE size' >= seen'[c]
    <3>1. c # p /\ seen'[c] = seen[c] /\ size >= seen[c]
      BY <2>1, <2>2 DEF SeenIsABound, Threads
    <3>2. seen[c] \in 0 .. Capacity /\ size' = size + 1
      BY <1>1, <1>3, <2>2, <3>1 DEF Push, Threads
    <3>3. QED
      BY <1>1, <3>1, <3>2
  <2>3. QED
    BY <2>1, <2>2 DEF SeenIsABound
<1>4. ASSUME NEW c \in Consumers, Pop(c) PROVE SeenIsABound'
  <2>1. seen'[c] = Nothing /\ \A u \in Threads : u # c => seen'[u] = seen[u]
    BY <1>2, <1>4 DEF Pop, Threads
  <2>2. ASSUME NEW p \in Producers, seen'[p] # Nothing PROVE size' <= seen'[p]
    <3>1. p # c /\ seen'[p] = seen[p] /\ size <= seen[p]
      BY <2>1, <2>2 DEF SeenIsABound, Threads
    <3>2. seen[p] \in 0 .. Capacity /\ size' = size - 1
      BY <1>1, <1>4, <2>2, <3>1 DEF Pop, Threads
    <3>3. QED
      BY <1>1, <3>1, <3>2
  <2>3. QED
    BY <2>1, <2>2 DEF SeenIsABound
<1>5. ASSUME NEW t \in Threads, Look(t) PROVE SeenIsABound'
  <2>1. size' = size /\ seen'[t] = size /\ \A u \in Threads : u # t => seen'[u] = seen[u]
    BY <1>1, <1>5 DEF Look
  <2>2. QED
    BY <1>1, <2>1 DEF SeenIsABound, Threads
<1>6. ASSUME NEW t \in Threads, seen' = [seen EXCEPT ![t] = Nothing], size' = size
      PROVE  SeenIsABound'
  BY <1>2, <1>6 DEF SeenIsABound, Threads
<1>7. ASSUME UNCHANGED <<seen, size>> PROVE SeenIsABound'
  BY <1>7 DEF SeenIsABound
<1>8. CASE Looking
  BY <1>5, <1>6, <1>7, <1>8
     DEF Looking, PushFull, PopEmpty, Peek, DropRef, Threads, bufferVars
<1>9. QED
  BY <1>3, <1>4, <1>8, BufferStepCases

\* One producer and one consumer may act on a size read without the lock
\* (circular_buffer.hpp 70-81).
THEOREM SizeIsABound ==
    ASSUME \A p, q \in Producers : p = q, \A c, d \in Consumers : c = d
    PROVE  BufferSpec => []SeenIsABound
<1>1. BufferInit => SeenIsABound
  BY DEF BufferInit, SeenIsABound, Threads
<1>2. BufferIInv /\ SeenIsABound /\ [BufferNext]_bufferVars => SeenIsABound'
  BY SeenKept
<1>3. QED
  BY <1>1, <1>2, BufferInvariant, PTL DEF BufferSpec

\* What a reference is to: the oldest item, as long as its holder alone pops.
RefIsHead ==
    \A c \in Consumers : ref[c] # Nothing =>
        size > 0 /\ ref[c].slot = head /\ ref[c].item = buffer[head]

LEMMA RefKept ==
    ASSUME \A c, d \in Consumers : c = d, BufferIInv, RefIsHead, [BufferNext]_bufferVars
    PROVE  RefIsHead'
<1>1. /\ head \in Slots /\ tail \in Slots /\ size \in 0 .. Capacity
      /\ Capacity \in Nat \ {0}
      /\ buffer \in [Slots -> Items \cup {Moved}]
      /\ DOMAIN ref = Consumers
      /\ tail = Slot(size)
  BY CapacityIsPositive DEF BufferIInv, BufferTypeOK, HoldsWhatIsLeft
<1>2. ASSUME NEW p \in Producers, NEW x \in Items, Push(p, x) PROVE RefIsHead'
  <2>1. UNCHANGED <<head, ref>> /\ size' = size + 1 /\ size < Capacity
        /\ buffer' = [buffer EXCEPT ![tail] = x]
    BY <1>2 DEF Push
  <2>2. ASSUME NEW c \in Consumers, ref[c] # Nothing
        PROVE  size' > 0 /\ ref[c].slot = head /\ ref[c].item = buffer'[head]
    <3>1. size > 0 /\ ref[c].slot = head /\ ref[c].item = buffer[head]
      BY <2>2 DEF RefIsHead
    <3>2. tail # head
      BY <1>1, <2>1, <3>1 DEF Slot, Slots
    <3>3. buffer'[head] = buffer[head]
      BY <1>1, <2>1, <3>2
    <3>4. size' > 0
      BY <1>1, <2>1, <3>1
    <3>5. QED
      BY <3>1, <3>3, <3>4
  <2>3. QED
    BY <2>1, <2>2 DEF RefIsHead
<1>3. ASSUME NEW c \in Consumers, Pop(c) PROVE RefIsHead'
  BY <1>1, <1>3 DEF Pop, RefIsHead
<1>4. ASSUME NEW c \in Consumers, Peek(c) PROVE RefIsHead'
  <2>1. UNCHANGED <<buffer, head, size>> /\ size > 0
        /\ ref'[c] = [slot |-> head, item |-> buffer[head]]
    BY <1>1, <1>4 DEF Peek
  <2>2. QED
    BY <2>1 DEF RefIsHead
<1>5. ASSUME NEW c \in Consumers, DropRef(c) PROVE RefIsHead'
  BY <1>1, <1>5 DEF DropRef, RefIsHead
<1>6. ASSUME UNCHANGED <<buffer, head, size, ref>> PROVE RefIsHead'
  BY <1>6 DEF RefIsHead
<1>7. CASE Looking
  BY <1>4, <1>5, <1>6, <1>7 DEF Looking, PushFull, PopEmpty, Look, bufferVars
<1>8. QED
  BY <1>2, <1>3, <1>7, BufferStepCases

\* With one consumer what peek referred to stays until it pops, whoever pushes
\* (circular_buffer.hpp 60-68).
THEOREM PeekIsSafe ==
    ASSUME \A c, d \in Consumers : c = d
    PROVE  BufferSpec => []PeekedItemStays
<1>1. BufferInit => RefIsHead
  BY DEF BufferInit, RefIsHead
<1>2. BufferIInv /\ RefIsHead /\ [BufferNext]_bufferVars => RefIsHead'
  BY RefKept
<1>3. RefIsHead => PeekedItemStays
  BY DEF RefIsHead, PeekedItemStays
<1>4. QED
  BY <1>1, <1>2, <1>3, BufferInvariant, PTL DEF BufferSpec

-----------------------------------------------------------------------------
(* The history of a metric, for any number of values kept.                   *)

Records == [time : Nat, value : Int]

MetricTypeOK ==
    /\ clock \in Nat \ {0}
    /\ current_value \in Int
    /\ updates \in Seq(Records)
    /\ IsFiniteSet(Times)
    /\ IsFiniteSet(DOMAIN historical_values)

\* The history against all that was recorded: what is missing is older than what
\* there is, and it is missing only if the history is full.
OldestIsGone ==
    LET kept == DOMAIN historical_values
    IN  /\ kept \subseteq Times
        /\ Cardinality(kept) <= Kept
        /\ kept # Times => Cardinality(kept) = Kept
        /\ \A t \in Times \ kept, s \in kept : t < s

HistoryIsOfLast ==
    historical_values = [t \in DOMAIN historical_values |-> LastAt(t)]

\* The last update is the newest, unless the clock was set back.
LastIsNewest ==
    updates # <<>> =>
        LET last == updates[Len(updates)]
        IN  /\ current_value = last.value
            /\ ~set_back => last.time <= clock /\ \A t \in Times : t <= last.time

MetricIInv == MetricTypeOK /\ OldestIsGone /\ HistoryIsOfLast /\ LastIsNewest

LEMMA TimesAreNumbers ==
    ASSUME MetricTypeOK
    PROVE  /\ Times \in SUBSET Nat
           /\ updates # <<>> => updates[Len(updates)].time \in Nat
<1>1. updates \in Seq(Records)
  BY DEF MetricTypeOK
<1>2. DOMAIN updates = 1 .. Len(updates) /\ Len(updates) \in Nat
  BY <1>1, LenProperties
<1>3. ASSUME NEW i \in DOMAIN updates PROVE updates[i].time \in Nat
  <2>1. updates[i] \in Records
    BY <1>1, <1>2, ElementOfSeq
  <2>2. QED
    BY <2>1 DEF Records
<1>4. updates # <<>> => Len(updates) \in DOMAIN updates
  BY <1>1, <1>2, EmptySeq
<1>5. QED
  BY <1>3, <1>4 DEF Times

\* A time that was recorded was last recorded once.
LEMMA LastAtIs ==
    ASSUME updates \in Seq(Records), NEW t \in Times
    PROVE  \E i \in DOMAIN updates :
              /\ updates[i].time = t
              /\ \A j \in DOMAIN updates : updates[j].time = t => j <= i
              /\ LastAt(t) = updates[i].value
<1> DEFINE I == {i \in DOMAIN updates : updates[i].time = t}
<1>1. DOMAIN updates = 1 .. Len(updates) /\ Len(updates) \in Nat
  BY LenProperties
<1>2. I \in SUBSET Nat /\ I # {} /\ \A i \in I : i <= Len(updates)
  BY <1>1 DEF Times
<1>3. PICK i \in I : \A j \in I : j <= i
  <2> HIDE DEF I
  <2>1. QED
    BY <1>1, <1>2, GreatestElement
<1>4. Max(I) = i
  <2> HIDE DEF I
  <2>1. QED
    BY <1>2, <1>3, MaxIs
<1>5. LastAt(t) = updates[i].value
  BY <1>4 DEF LastAt
<1>6. QED
  BY <1>3, <1>5

\* The sequence of what was recorded after one more.
LEMMA OneMoreRecord ==
    ASSUME MetricTypeOK, NEW v \in Int, Recorded(v)
    PROVE  /\ updates' \in Seq(Records) /\ Len(updates') = Len(updates) + 1
           /\ updates # <<>> => Len(updates) > 0
           /\ Len(updates) \in Nat
           /\ DOMAIN updates = 1 .. Len(updates)
           /\ DOMAIN updates' = 1 .. (Len(updates) + 1)
           /\ \A i \in 1 .. Len(updates) : updates'[i] = updates[i]
           /\ updates'[Len(updates) + 1] = [time |-> clock, value |-> v]
           /\ Times' = Times \cup {clock}
<1>1. /\ updates \in Seq(Records) /\ [time |-> clock, value |-> v] \in Records
      /\ updates' = Append(updates, [time |-> clock, value |-> v])
  BY DEF MetricTypeOK, Recorded, Records
<1>2. /\ updates' \in Seq(Records) /\ Len(updates') = Len(updates) + 1
      /\ \A i \in 1 .. Len(updates) : updates'[i] = updates[i]
      /\ updates'[Len(updates) + 1] = [time |-> clock, value |-> v]
      /\ DOMAIN updates' = 1 .. (Len(updates) + 1)
      /\ DOMAIN updates = 1 .. Len(updates) /\ Len(updates) \in Nat
  BY <1>1, AppendProperties, LenProperties
<1>3. updates # <<>> => Len(updates) > 0
  BY <1>1, <1>2, EmptySeq
<1>4. Times' = Times \cup {clock}
  <2>1. ASSUME NEW i \in DOMAIN updates' PROVE updates'[i].time \in Times \cup {clock}
    BY <1>2 DEF Times
  <2>2. ASSUME NEW i \in DOMAIN updates PROVE updates[i].time \in Times'
    <3>1. i \in DOMAIN updates' /\ updates'[i].time = updates[i].time
      BY <1>2
    <3>2. QED
      BY <3>1 DEF Times
  <2>3. clock \in Times'
    <3>1. Len(updates) + 1 \in DOMAIN updates' /\ updates'[Len(updates) + 1].time = clock
      BY <1>2
    <3>2. QED
      BY <3>1 DEF Times
  <2>4. Times' \subseteq Times \cup {clock}
    BY <2>1 DEF Times
  <2>5. Times \subseteq Times'
    BY <2>2 DEF Times
  <2>6. QED
    BY <2>3, <2>4, <2>5
<1>5. QED
  BY <1>2, <1>3, <1>4

LEMMA LastAtRecorded ==
    ASSUME MetricTypeOK, NEW v \in Int, Recorded(v), NEW t \in Times'
    PROVE  LastAt(t)' = IF t = clock THEN v ELSE LastAt(t)
<1>1. /\ updates' \in Seq(Records) /\ Len(updates) \in Nat
      /\ DOMAIN updates = 1 .. Len(updates)
      /\ DOMAIN updates' = 1 .. (Len(updates) + 1)
      /\ \A i \in 1 .. Len(updates) : updates'[i] = updates[i]
      /\ updates'[Len(updates) + 1] = [time |-> clock, value |-> v]
  BY OneMoreRecord
<1> DEFINE I == {i \in DOMAIN updates' : updates'[i].time = t}
<1>2. LastAt(t)' = updates'[Max(I)].value
  BY DEF LastAt
<1>3. CASE t = clock
  <2>1. Len(updates) + 1 \in I /\ I \in SUBSET Nat /\ \A i \in I : i <= Len(updates) + 1
    BY <1>1, <1>3
  <2>2. Max(I) = Len(updates) + 1
    <3> HIDE DEF I
    <3>1. QED
      BY <2>1, MaxIs
  <2>3. QED
    BY <1>1, <1>2, <1>3, <2>2
<1>4. CASE t # clock
  <2>1. I = {i \in DOMAIN updates : updates[i].time = t}
    BY <1>1, <1>4
  <2>2. t \in Times /\ updates \in Seq(Records)
    BY <1>4, OneMoreRecord DEF MetricTypeOK
  <2>3. PICK i \in DOMAIN updates :
              /\ updates[i].time = t
              /\ \A j \in DOMAIN updates : updates[j].time = t => j <= i
              /\ LastAt(t) = updates[i].value
    BY <2>2, LastAtIs
  <2>4. i \in I /\ I \in SUBSET Nat /\ \A j \in I : j <= i
    BY <1>1, <2>1, <2>3
  <2>5. Max(I) = i
    <3> HIDE DEF I
    <3>1. QED
      BY <2>4, MaxIs
  <2>6. updates'[i] = updates[i]
    BY <1>1, <2>3
  <2>7. QED
    BY <1>2, <1>4, <2>3, <2>5, <2>6
<1>5. QED
  BY <1>3, <1>4

\* The trim after an update drops the oldest entry if there is one too many.
LEMMA TrimmedToKept ==
    ASSUME NEW N \in SUBSET Nat, IsFiniteSet(N), Cardinality(N) <= Kept + 1,
           NEW f, f = [t \in N |-> f[t]]
    PROVE  \E D \in SUBSET N :
              /\ Trimmed(f) = [t \in D |-> f[t]]
              /\ Cardinality(D) <= Kept
              /\ Cardinality(N) <= Kept => D = N
              /\ Cardinality(N) > Kept =>
                    /\ Cardinality(D) = Kept
                    /\ \E m \in N : D = N \ {m} /\ \A t \in D : m < t
<1>1. Cardinality(N) \in Nat /\ Kept \in Nat \ {0}
  BY FS_CardinalityType, KeptIsPositive
<1>2. CASE Cardinality(N) <= Kept
  <2>1. Trimmed(f) = f
    BY <1>2 DEF Trimmed
  <2>2. PICK D \in SUBSET N : D = N
    OBVIOUS
  <2>3. Cardinality(D) <= Kept /\ ~(Cardinality(N) > Kept)
    BY <1>1, <1>2, <2>2
  <2>4. QED
    BY <2>1, <2>2, <2>3
<1>3. CASE ~(Cardinality(N) <= Kept)
  <2>1. Cardinality(N) = Kept + 1
    BY <1>1, <1>3
  <2>2. N # {}
    BY <1>1, <2>1, FS_EmptySet
  <2>3. PICK m \in N : \A t \in N : m <= t
    BY <2>2, LeastElement
  <2>4. Min(N) = m
    BY <2>3, MinIs
  <2>5. Trimmed(f) = [t \in N \ {m} |-> f[t]]
    BY <1>3, <2>4 DEF Trimmed
  <2>6. Cardinality(N \ {m}) = Cardinality(N) - 1
    BY FS_RemoveElement
  <2>7. Cardinality(N \ {m}) = Kept
    BY <1>1, <2>1, <2>6
  <2>8. \A t \in N \ {m} : m < t
    BY <2>3
  <2>9. PICK D \in SUBSET N : D = N \ {m}
    OBVIOUS
  <2>10. Cardinality(D) = Kept /\ Cardinality(D) <= Kept
    BY <1>1, <2>7, <2>9
  <2>11. QED
    BY <1>3, <2>3, <2>5, <2>8, <2>9, <2>10
<1>4. QED
  BY <1>2, <1>3

LEMMA RecordedTypeOK ==
    ASSUME MetricIInv, NEW v \in Int, Recorded(v)
    PROVE  /\ clock' \in Nat \ {0} /\ current_value' \in Int /\ updates' \in Seq(Records)
           /\ IsFiniteSet(Times')
<1>1. IsFiniteSet(Times \cup {clock})
  BY FS_AddElement DEF MetricIInv, MetricTypeOK
<1>2. Times' = Times \cup {clock} /\ updates' \in Seq(Records)
  BY OneMoreRecord DEF MetricIInv
<1>3. clock' = clock /\ current_value' = v
  BY DEF Recorded
<1>4. QED
  BY <1>1, <1>2, <1>3 DEF MetricIInv, MetricTypeOK

\* What an update leaves of the history.
LEMMA RecordedHistory ==
    ASSUME MetricIInv, NEW v \in Int, Recorded(v)
    PROVE  OldestIsGone' /\ HistoryIsOfLast' /\ IsFiniteSet(DOMAIN historical_values')
<1> DEFINE H == DOMAIN historical_values
           N == H \cup {clock}
           f == [t \in N |-> IF t = clock THEN v ELSE historical_values[t]]
<1>1. /\ H \subseteq Times /\ IsFiniteSet(H) /\ Cardinality(H) \in Nat
      /\ Cardinality(H) <= Kept /\ (H # Times => Cardinality(H) = Kept)
      /\ \A t \in Times \ H, s \in H : t < s
      /\ clock \in Nat /\ Kept \in Nat \ {0}
  BY FS_CardinalityType, KeptIsPositive
     DEF MetricIInv, MetricTypeOK, OldestIsGone
<1>2. Times \in SUBSET Nat
  BY TimesAreNumbers DEF MetricIInv
<1>3. Times' = Times \cup {clock}
  BY OneMoreRecord DEF MetricIInv
<1>4. N \in SUBSET Nat /\ IsFiniteSet(N)
      /\ Cardinality(N) = IF clock \in H THEN Cardinality(H) ELSE Cardinality(H) + 1
  BY <1>1, <1>2, FS_AddElement
<1>5. historical_values' = Trimmed(f) /\ f = [t \in N |-> f[t]]
  BY DEF Recorded
<1> HIDE DEF f
<1>6. PICK D \in SUBSET N :
          /\ Trimmed(f) = [t \in D |-> f[t]]
          /\ Cardinality(D) <= Kept
          /\ Cardinality(N) <= Kept => D = N
          /\ Cardinality(N) > Kept =>
                /\ Cardinality(D) = Kept
                /\ \E m \in N : D = N \ {m} /\ \A t \in D : m < t
  <2>1. Cardinality(N) <= Kept + 1
    BY <1>1, <1>4
  <2> HIDE DEF N
  <2>2. QED
    BY <1>4, <1>5, <2>1, TrimmedToKept
<1>7. DOMAIN historical_values' = D
  BY <1>5, <1>6
<1>8. OldestIsGone'
  <2>1. D \subseteq Times'
    BY <1>1, <1>3, <1>6
  <2>2. CASE Cardinality(N) <= Kept
    <3>1. D = N
      BY <1>6, <2>2
    <3>2. ASSUME NEW t \in Times' \ D
          PROVE  Cardinality(D) = Kept /\ \A s \in D : t < s
      <4>1. t \in Times \ H
        BY <1>3, <3>1, <3>2
      <4>2. Cardinality(H) = Kept
        BY <1>1, <4>1
      <4>3. clock \in H
        BY <1>1, <1>4, <2>2, <4>2
      <4>4. D = H
        BY <3>1, <4>3
      <4>5. QED
        BY <1>1, <4>1, <4>2, <4>4
    <3>3. QED
      BY <1>6, <1>7, <2>1, <3>2 DEF OldestIsGone
  <2>3. CASE Cardinality(N) > Kept
    <3>1. Cardinality(D) = Kept
      BY <1>6, <2>3
    <3>2. PICK m \in N : D = N \ {m} /\ \A t \in D : m < t
      BY <1>6, <2>3
    <3>3. clock \notin H /\ Cardinality(H) = Kept
      BY <1>1, <1>4, <2>3
    <3>4. ASSUME NEW t \in Times' \ D, NEW s \in D PROVE t < s
      <4>1. CASE t = m
        BY <3>2, <4>1
      <4>2. CASE t # m
        <5>1. t \in Times \ H /\ t # clock
          BY <1>3, <3>2, <3>4, <4>2
        <5>2. CASE s \in H
          BY <1>1, <5>1, <5>2
        <5>3. CASE s = clock
          <6>1. m \in H /\ m < s
            BY <3>2, <5>3
          <6>2. t < m
            BY <1>1, <5>1, <6>1
          <6>3. t \in Nat /\ m \in Nat /\ s \in Nat
            BY <1>1, <1>2, <5>1, <5>3, <6>1
          <6>4. QED
            BY <6>1, <6>2, <6>3
        <5>4. QED
          BY <5>2, <5>3
      <4>3. QED
        BY <4>1, <4>2
    <3>5. QED
      BY <1>6, <1>7, <2>1, <3>1, <3>4 DEF OldestIsGone
  <2>4. QED
    BY <1>1, <1>4, <2>2, <2>3
<1>9. HistoryIsOfLast'
  <2>1. ASSUME NEW t \in D PROVE f[t] = LastAt(t)'
    <3>1. t \in Times' /\ t \in N
      BY <1>1, <1>3, <1>6
    <3>2. LastAt(t)' = IF t = clock THEN v ELSE LastAt(t)
      BY <3>1, LastAtRecorded DEF MetricIInv
    <3>3. t # clock => historical_values[t] = LastAt(t)
      BY <3>1 DEF MetricIInv, HistoryIsOfLast
    <3>4. QED
      BY <3>1, <3>2, <3>3 DEF f
  <2>2. QED
    BY <1>5, <1>6, <1>7, <2>1 DEF HistoryIsOfLast
<1>10. IsFiniteSet(DOMAIN historical_values')
  BY <1>4, <1>7, FS_Subset
<1>11. QED
  BY <1>8, <1>9, <1>10

LEMMA RecordedIInv == ASSUME MetricIInv, NEW v \in Int, Recorded(v) PROVE MetricIInv'
<1>1. MetricTypeOK'
  BY RecordedTypeOK, RecordedHistory DEF MetricTypeOK
<1>2. LastIsNewest'
  <2>1. /\ current_value' = v /\ clock' = clock /\ set_back' = set_back /\ clock \in Nat
    BY DEF Recorded, MetricIInv, MetricTypeOK
  <2>2. /\ updates'[Len(updates')] = [time |-> clock, value |-> v]
        /\ Times' = Times \cup {clock}
    BY OneMoreRecord DEF MetricIInv
  <2>3. ASSUME ~set_back, NEW t \in Times PROVE t <= clock
    <3>1. updates # <<>> /\ updates \in Seq(Records)
      BY <2>3 DEF Times, MetricIInv, MetricTypeOK
    <3>2. updates[Len(updates)].time \in Nat /\ t \in Nat
      BY <3>1, TimesAreNumbers DEF MetricIInv
    <3>3. updates[Len(updates)].time <= clock /\ t <= updates[Len(updates)].time
      BY <2>3, <3>1 DEF MetricIInv, LastIsNewest
    <3>4. QED
      BY <2>1, <3>2, <3>3
  <2>4. QED
    BY <2>1, <2>2, <2>3 DEF LastIsNewest
<1>3. QED
  BY <1>1, <1>2, RecordedHistory DEF MetricIInv

\* A metric's values, its history and the clock keep to the invariant.
THEOREM MetricInvariant == MetricSpec => []MetricIInv
<1>1. MetricInit => MetricIInv
  <2> SUFFICES ASSUME MetricInit PROVE MetricIInv
    OBVIOUS
  <2>1. Times = {} /\ updates = <<>> /\ DOMAIN historical_values = {}
        /\ historical_values = <<>>
    BY DEF MetricInit, Times
  <2>2. IsFiniteSet({}) /\ Cardinality({}) = 0
    BY FS_EmptySet
  <2>3. MetricTypeOK
    BY <2>1, <2>2 DEF MetricInit, MetricTypeOK
  <2>4. OldestIsGone
    BY <2>1, <2>2, KeptIsPositive DEF OldestIsGone
  <2>5. HistoryIsOfLast
    BY <2>1 DEF HistoryIsOfLast
  <2>6. LastIsNewest
    BY <2>1 DEF LastIsNewest
  <2>7. QED
    BY <2>3, <2>4, <2>5, <2>6 DEF MetricIInv
<1>2. MetricIInv /\ [MetricNext]_metricVars => MetricIInv'
  <2> SUFFICES ASSUME MetricIInv, [MetricNext]_metricVars PROVE MetricIInv'
    OBVIOUS
  <2>1. ASSUME NEW v \in Values, update(v) PROVE MetricIInv'
    BY <2>1, ValuesAreNumbers, RecordedIInv DEF update
  <2>2. CASE increment(1)
    <3>1. current_value + 1 \in Int
      BY DEF MetricIInv, MetricTypeOK
    <3>2. QED
      BY <2>2, <3>1, RecordedIInv DEF increment
  <2>3. ASSUME UNCHANGED <<current_value, historical_values, updates>>,
               clock' \in Nat \ {0}, ~set_back' => ~set_back /\ clock <= clock'
        PROVE  MetricIInv'
    <3>1. Times' = Times /\ \A t : LastAt(t)' = LastAt(t)
      BY <2>3 DEF Times, LastAt
    <3>2. MetricTypeOK'
      BY <2>3, <3>1 DEF MetricIInv, MetricTypeOK
    <3>3. OldestIsGone'
      BY <2>3, <3>1 DEF MetricIInv, OldestIsGone
    <3>4. HistoryIsOfLast'
      BY <2>3, <3>1 DEF MetricIInv, HistoryIsOfLast
    <3>5. LastIsNewest'
      <4> SUFFICES ASSUME updates # <<>>
                   PROVE  LET last == updates[Len(updates)]
                          IN  /\ current_value = last.value
                              /\ ~set_back' => last.time <= clock'
                                              /\ \A t \in Times : t <= last.time
        BY <2>3, <3>1 DEF LastIsNewest
      <4>1. updates[Len(updates)].time \in Nat
        BY TimesAreNumbers DEF MetricIInv
      <4>2. clock \in Nat
        BY DEF MetricIInv, MetricTypeOK
      <4>3. QED
        BY <2>3, <4>1, <4>2 DEF MetricIInv, LastIsNewest
    <3>6. QED
      BY <3>2, <3>3, <3>4, <3>5 DEF MetricIInv
  <2>4. CASE Tick
    <3>1. clock' \in Nat \ {0} /\ clock <= clock'
      BY <2>4 DEF Tick, MetricIInv, MetricTypeOK
    <3>2. QED
      BY <2>3, <2>4, <3>1 DEF Tick
  <2>5. CASE SetBack
    <3>1. clock' \in Nat \ {0}
      BY <2>5 DEF SetBack, MetricIInv, MetricTypeOK
    <3>2. UNCHANGED <<current_value, historical_values, updates>>
      BY <2>5 DEF SetBack
    <3>3. ~set_back' => ~set_back /\ clock <= clock'
      BY <2>5 DEF SetBack
    <3>4. QED
      BY <2>3, <3>1, <3>2, <3>3
  <2>6. CASE UNCHANGED metricVars
    BY <2>3, <2>6 DEF metricVars, MetricIInv, MetricTypeOK
  <2>7. QED
    BY <2>1, <2>2, <2>4, <2>5, <2>6 DEF MetricNext
<1>3. QED
  BY <1>1, <1>2, PTL DEF MetricSpec

\* Dropping the oldest entry when there is one too many keeps the latest times, even
\* of a clock that is set back (system_metrics.cpp 12-21 and 45-65).
THEOREM LatestAreKept == MetricSpec => []HistoryIsLatest
<1> DEFINE After(t) == {s \in Times : s > t}
<1>1. ASSUME MetricIInv PROVE HistoryIsLatest
  <2> DEFINE H == DOMAIN historical_values
  <2>1. /\ H \subseteq Times /\ IsFiniteSet(H) /\ Cardinality(H) \in Nat
        /\ Cardinality(H) <= Kept /\ (H # Times => Cardinality(H) = Kept)
        /\ \A t \in Times \ H, s \in H : t < s
        /\ IsFiniteSet(Times) /\ Times \in SUBSET Nat /\ Kept \in Nat
    BY <1>1, FS_CardinalityType, TimesAreNumbers, KeptIsPositive
       DEF MetricIInv, MetricTypeOK, OldestIsGone
  <2> HIDE DEF H
  <2>2. ASSUME NEW t \in H PROVE Cardinality(After(t)) < Kept
    <3>1. After(t) \subseteq H \ {t}
      <4>1. ASSUME NEW s \in Times, s > t PROVE s \in H /\ s # t
        BY <2>1, <4>1
      <4>2. QED
        BY <4>1
    <3>2. IsFiniteSet(H \ {t}) /\ Cardinality(H \ {t}) = Cardinality(H) - 1
      BY <2>1, FS_RemoveElement
    <3>3. Cardinality(After(t)) \in Nat /\ Cardinality(After(t)) <= Cardinality(H \ {t})
      BY <3>1, <3>2, FS_Subset, FS_CardinalityType
    <3>4. QED
      BY <2>1, <3>2, <3>3
  <2>3. ASSUME NEW t \in Times, t \notin H PROVE ~(Cardinality(After(t)) < Kept)
    <3>1. H \subseteq After(t)
      BY <2>1, <2>3
    <3>2. IsFiniteSet(After(t))
      BY <2>1, FS_Subset
    <3>3. Cardinality(After(t)) \in Nat /\ Cardinality(H) <= Cardinality(After(t))
      BY <3>1, <3>2, FS_Subset, FS_CardinalityType
    <3>4. Cardinality(H) = Kept
      BY <2>1, <2>3
    <3>5. QED
      BY <2>1, <3>3, <3>4
  <2>4. H = {t \in Times : Cardinality(After(t)) < Kept}
    BY <2>1, <2>2, <2>3
  <2>5. QED
    BY <1>1, <2>4 DEF H, HistoryIsLatest, MetricIInv, HistoryIsOfLast
<1>2. QED
  BY <1>1, MetricInvariant, PTL

\* The newest entry of a history and what it is worth.
LEMMA NewestEntry ==
    ASSUME MetricIInv, ~set_back, updates # <<>>
    PROVE  LET newest == updates[Len(updates)].time
           IN  /\ newest \in DOMAIN historical_values /\ newest \in Nat
               /\ newest <= clock /\ clock \in Nat
               /\ \A t \in Times : t <= newest
               /\ historical_values[newest] = current_value
<1> DEFINE newest == updates[Len(updates)].time
           H == DOMAIN historical_values
<1>1. /\ newest <= clock /\ \A t \in Times : t <= newest
      /\ current_value = updates[Len(updates)].value
  BY DEF MetricIInv, LastIsNewest
<1>2. newest \in Nat /\ Times \in SUBSET Nat /\ updates \in Seq(Records) /\ clock \in Nat
  BY TimesAreNumbers DEF MetricIInv, MetricTypeOK
<1>3. Len(updates) \in DOMAIN updates /\ DOMAIN updates = 1 .. Len(updates)
  BY <1>2, LenProperties, EmptySeq
<1>4. newest \in Times
  BY <1>3 DEF Times
<1>5. newest \in H
  <2>1. H # {}
    BY <1>4, FS_EmptySet, KeptIsPositive DEF MetricIInv, OldestIsGone
  <2>2. SUFFICES ASSUME newest \notin H PROVE FALSE
    OBVIOUS
  <2>3. PICK t \in H : TRUE
    BY <2>1
  <2>4. newest < t /\ t \in Times
    BY <1>4, <2>2 DEF MetricIInv, OldestIsGone
  <2>5. t <= newest /\ t \in Nat
    BY <1>1, <1>2, <2>4
  <2>6. QED
    BY <1>2, <2>4, <2>5
<1>6. LastAt(newest) = current_value
  <2>1. PICK i \in DOMAIN updates :
              /\ updates[i].time = newest
              /\ \A j \in DOMAIN updates : updates[j].time = newest => j <= i
              /\ LastAt(newest) = updates[i].value
    BY <1>2, <1>4, LastAtIs
  <2>2. i = Len(updates)
    BY <1>3, <2>1
  <2>3. QED
    BY <1>1, <2>1, <2>2
<1>7. historical_values[newest] = current_value
  BY <1>5, <1>6 DEF MetricIInv, HistoryIsOfLast
<1>8. QED
  BY <1>1, <1>2, <1>5, <1>7

\* What getValueAt finds: the entry at the time, and the newest one where all are
\* older.
LEMMA ValueAtEntry ==
    ASSUME MetricIInv, NEW t \in DOMAIN historical_values
    PROVE  getValueAt(t) = historical_values[t]
<1> DEFINE from == {s \in DOMAIN historical_values : s >= t}
<1>1. DOMAIN historical_values \in SUBSET Nat
  BY TimesAreNumbers DEF MetricIInv, OldestIsGone
<1>2. from \in SUBSET Nat /\ t \in from /\ \A s \in from : t <= s
  BY <1>1
<1>3. Min(from) = t
  <2> HIDE DEF from
  <2>1. QED
    BY <1>2, MinIs
<1>4. historical_values # <<>>
  OBVIOUS
<1>5. QED
  BY <1>2, <1>3, <1>4 DEF getValueAt

LEMMA ValueOfNewest ==
    ASSUME MetricIInv, ~set_back, updates # <<>>, NEW t \in Nat, \A s \in Times : s < t
    PROVE  getValueAt(t) = current_value
<1> DEFINE newest == updates[Len(updates)].time
           H == DOMAIN historical_values
<1>1. /\ newest \in H /\ newest \in Nat /\ \A s \in Times : s <= newest
      /\ historical_values[newest] = current_value
  BY NewestEntry
<1>2. H \in SUBSET Nat /\ H \subseteq Times
  BY TimesAreNumbers DEF MetricIInv, OldestIsGone
<1>3. Max(H) = newest
  <2>1. \A s \in H : s <= newest
    BY <1>1, <1>2
  <2> HIDE DEF H, newest
  <2>2. QED
    BY <1>1, <1>2, <2>1, MaxIs
<1>4. {s \in H : s >= t} = {}
  BY <1>2
<1>5. historical_values # <<>>
  BY <1>1
<1>6. QED
  BY <1>1, <1>3, <1>4, <1>5 DEF getValueAt

\* Asked for a time at which it holds a value a metric gives that value, and asked for
\* now the current one (system_metrics.cpp 28-40).
THEOREM HistoryAnswers == MetricSpec => []AskedAtItsTime
<1>1. ASSUME MetricIInv PROVE AskedAtItsTime
  <2> SUFFICES ASSUME ~set_back, updates # <<>>
               PROVE  /\ getValueAt(clock) = current_value
                      /\ \A t \in DOMAIN historical_values : getValueAt(t) = LastAt(t)
                      /\ \A t \in 1 .. clock :
                            (\A s \in Times : s < t) => getValueAt(t) = current_value
    BY DEF AskedAtItsTime
  <2> DEFINE newest == updates[Len(updates)].time
  <2>1. /\ newest \in DOMAIN historical_values /\ newest \in Nat
        /\ newest <= clock /\ clock \in Nat
        /\ \A t \in Times : t <= newest
        /\ historical_values[newest] = current_value
    BY <1>1, NewestEntry
  <2>2. getValueAt(clock) = current_value
    <3>1. CASE newest = clock
      BY <1>1, <2>1, <3>1, ValueAtEntry
    <3>2. CASE newest < clock
      <4>1. Times \in SUBSET Nat
        BY <1>1, TimesAreNumbers DEF MetricIInv
      <4>2. \A t \in Times : t < clock
        BY <2>1, <3>2, <4>1
      <4>3. QED
        BY <1>1, <2>1, <4>2, ValueOfNewest
    <3>3. QED
      BY <2>1, <3>1, <3>2
  <2>3. ASSUME NEW t \in DOMAIN historical_values PROVE getValueAt(t) = LastAt(t)
    BY <1>1, ValueAtEntry DEF MetricIInv, HistoryIsOfLast
  <2>4. ASSUME NEW t \in 1 .. clock, \A s \in Times : s < t
        PROVE  getValueAt(t) = current_value
    <3>1. t \in Nat
      BY <2>1
    <3>2. QED
      BY <1>1, <2>4, <3>1, ValueOfNewest
  <2>5. QED
    BY <2>2, <2>3, <2>4
<1>2. QED
  BY <1>1, MetricInvariant, PTL

=============================================================================
