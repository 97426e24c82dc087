--------------------------- MODULE PacketAnalyzer ---------------------------
(***************************************************************************)
(* network::PacketAnalyzer (src/network/packet_analyzer.cpp): per          *)
(* connection statistics, traffic per host, a ring of packets, and the     *)
(* protocol each connection was recognised to speak.                       *)
(*                                                                         *)
(* Every public operation holds mutex_ from its first line to its last, so *)
(* each is one action.  An ip is a number in the order std::string gives   *)
(* the addresses; the content of a packet is the set of parsers whose      *)
(* parse() returns data for it.                                            *)
(***************************************************************************)
EXTENDS Integers, Sequences, FiniteSets, FiniteSetsExt, Functions

CONSTANTS
    Packets,          \* the packets that may be processed, see IsPacket
    Parsers,          \* protocol_parsers_, in the order they are tried
    Unrecognised,     \* protocol_type without a value
    RecentCapacity,   \* the capacity of recent_packets_, 1000 in the code
    MaxPackets        \* bound: packets processed in a behaviour

\* A packet as parsePacket leaves it; "accepted" are its successful parsers.
IsPacket(p) ==
    /\ p.source_ip \in Nat /\ p.dest_ip \in Nat
    /\ p.source_port \in Nat /\ p.dest_port \in Nat
    /\ p.size \in Nat \ {0}
    /\ p.timestamp \in Nat
    /\ p.accepted \subseteq Range(Parsers)

ASSUME PacketsArePackets == IsFiniteSet(Packets) /\ \A p \in Packets : IsPacket(p)
ASSUME ParsersAreASequence ==
    /\ Parsers \in Seq(Range(Parsers))
    /\ Unrecognised \notin Range(Parsers)
ASSUME BoundsAreNumbers == RecentCapacity \in Nat /\ MaxPackets \in Nat

VARIABLES
    connections,          \* connections_: a function on the keys it holds
    host_traffic_stats,   \* host_traffic_stats_: a function on the hosts it holds
    recent_packets,       \* recent_packets_, oldest first
    carried,              \* history: what went over the wire, per direction
    processed,            \* history: all packets, in the order processed
    resetAt               \* history: how many of them preceded the last reset

vars == <<connections, host_traffic_stats, recent_packets,
          carried, processed, resetAt>>

-----------------------------------------------------------------------------
(* Keys and directions *)

\* The connection key of a packet that is not normalised: who sends to whom.
Direction(p) ==
    [source_ip |-> p.source_ip, source_port |-> p.source_port,
     dest_ip |-> p.dest_ip, dest_port |-> p.dest_port, protocol |-> p.protocol]

Flip(d) ==
    [source_ip |-> d.dest_ip, source_port |-> d.dest_port,
     dest_ip |-> d.source_ip, dest_port |-> d.source_port, protocol |-> d.protocol]

Directions == {Direction(p) : p \in Packets} \cup {Flip(Direction(p)) : p \in Packets}

\* Mutant of createConnectionKey: ports do not break the tie of equal ips.
KeyByIpOnly(p) ==
    IF p.source_ip > p.dest_ip THEN Flip(Direction(p)) ELSE Direction(p)

\* The smaller endpoint first.
createConnectionKey(p) ==
    IF \/ p.source_ip > p.dest_ip
       \/ p.source_ip = p.dest_ip /\ p.source_port > p.dest_port
    THEN Flip(Direction(p))
    ELSE Direction(p)

FromSource(p, key) ==
    p.source_ip = key.source_ip /\ p.source_port = key.source_port

-----------------------------------------------------------------------------
(* Statistics of one connection *)

\* Mutant of analyzeProtocol: the last parser that accepts, not the first.
LastParser(p) ==
    LET hits == {i \in DOMAIN Parsers : Parsers[i] \in p.accepted}
    IN  IF hits = {} THEN Unrecognised ELSE Parsers[Max(hits)]

\* The first parser that returns data decides.
analyzeProtocol(p) ==
    LET first == {i \in DOMAIN Parsers :
                     /\ Parsers[i] \in p.accepted
                     /\ \A j \in 1 .. (i - 1) : Parsers[j] \notin p.accepted}
    IN  IF first = {} THEN Unrecognised ELSE Parsers[CHOOSE i \in first : TRUE]

NewStats(p, key) ==
    LET sent == FromSource(p, key) IN
    [packets_sent     |-> IF sent THEN 1 ELSE 0,
     packets_received |-> IF sent THEN 0 ELSE 1,
     bytes_sent       |-> IF sent THEN p.size ELSE 0,
     bytes_received   |-> IF sent THEN 0 ELSE p.size,
     first_seen       |-> p.timestamp,
     last_seen        |-> p.timestamp,
     protocol_type    |-> analyzeProtocol(p)]

\* Mutant of UpdatedStats: bytes of the way back are not counted.
UpdatedSentOnly(s, p, key) ==
    [s EXCEPT !.last_seen = p.timestamp,
              !.packets_sent = IF FromSource(p, key) THEN @ + 1 ELSE @,
              !.packets_received = IF FromSource(p, key) THEN @ ELSE @ + 1,
              !.bytes_sent = IF FromSource(p, key) THEN @ + p.size ELSE @]

UpdatedStats(s, p, key) ==
    LET sent == FromSource(p, key) IN
    [packets_sent     |-> s.packets_sent + (IF sent THEN 1 ELSE 0),
     packets_received |-> s.packets_received + (IF sent THEN 0 ELSE 1),
     bytes_sent       |-> s.bytes_sent + (IF sent THEN p.size ELSE 0),
     bytes_received   |-> s.bytes_received + (IF sent THEN 0 ELSE p.size),
     first_seen       |-> s.first_seen,
     last_seen        |-> p.timestamp,
     protocol_type    |-> IF s.protocol_type = Unrecognised
                          THEN analyzeProtocol(p) ELSE s.protocol_type]

-----------------------------------------------------------------------------
(* Operations *)

NothingCarried == [d \in Directions |-> [packets |-> 0, bytes |-> 0]]

Init ==
    /\ connections = <<>>
    /\ host_traffic_stats = <<>>
    /\ recent_packets = <<>>
    /\ carried = NothingCarried
    /\ processed = <<>>
    /\ resetAt = 0

\* CircularBuffer::push: refused when full, and nobody pops this buffer.
PushRecent(p) ==
    IF Len(recent_packets) = RecentCapacity
    THEN recent_packets
    ELSE Append(recent_packets, p)

\* Mutant of WithTraffic: a packet from a host to itself counts once.
TrafficOncePerHost(p) ==
    [h \in DOMAIN host_traffic_stats \cup {p.source_ip, p.dest_ip} |->
        (IF h \in DOMAIN host_traffic_stats THEN host_traffic_stats[h] ELSE 0)
        + (IF h \in {p.source_ip, p.dest_ip} THEN p.size ELSE 0)]

WithTraffic(p) ==
    [h \in DOMAIN host_traffic_stats \cup {p.source_ip, p.dest_ip} |->
        (IF h \in DOMAIN host_traffic_stats THEN host_traffic_stats[h] ELSE 0)
        + (IF h = p.source_ip THEN p.size ELSE 0)
        + (IF h = p.dest_ip THEN p.size ELSE 0)]

processPacket(p) ==
    LET key == createConnectionKey(p)
        d == Direction(p)
    IN
    /\ Len(processed) < MaxPackets
    /\ recent_packets' = PushRecent(p)
    /\ connections' =
          [k \in DOMAIN connections \cup {key} |->
              IF k # key THEN connections[k]
              ELSE IF key \in DOMAIN connections
                   THEN UpdatedStats(connections[key], p, key)
                   ELSE NewStats(p, key)]
    /\ host_traffic_stats' = WithTraffic(p)
    /\ carried' = [carried EXCEPT ![d] =
                      [packets |-> @.packets + 1, bytes |-> @.bytes + p.size]]
    /\ processed' = Append(processed, p)
    /\ UNCHANGED resetAt

\* reset(): recent_packets_ is kept.
reset ==
    /\ connections # <<>>
    /\ connections' = <<>>
    /\ host_traffic_stats' = <<>>
    /\ carried' = NothingCarried
    /\ resetAt' = Len(processed)
    /\ UNCHANGED <<recent_packets, processed>>

Next == reset \/ \E p \in Packets : processPacket(p)

Spec == Init /\ [][Next]_vars

-----------------------------------------------------------------------------
(* Properties *)

ConnectionStats ==
    [packets_sent : Nat, packets_received : Nat, bytes_sent : Nat,
     bytes_received : Nat, first_seen : Nat, last_seen : Nat,
     protocol_type : Range(Parsers) \cup {Unrecognised}]

\* The shape of the members of packet_analyzer.hpp lines 71-73.
TypeOK ==
    /\ DOMAIN connections \subseteq Directions
    /\ connections \in [DOMAIN connections -> ConnectionStats]
    /\ host_traffic_stats \in [DOMAIN host_traffic_stats -> Nat]
    /\ recent_packets \in Seq(Packets)
    /\ carried \in [Directions -> [packets : Nat, bytes : Nat]]
    /\ processed \in Seq(Packets)
    /\ resetAt \in Nat

\* Both directions of a conversation are one connection: normalisation never
\* files a packet under a second key (packet_analyzer.cpp lines 117-129).
OneFlowPerPair ==
    \A k \in DOMAIN connections : Flip(k) \in DOMAIN connections => Flip(k) = k

\* What the table reports for the packets that went in direction d.
Reported(d) ==
    IF d \in DOMAIN connections
    THEN [packets |-> connections[d].packets_sent, bytes |-> connections[d].bytes_sent]
    ELSE IF Flip(d) \in DOMAIN connections
    THEN [packets |-> connections[Flip(d)].packets_received,
          bytes |-> connections[Flip(d)].bytes_received]
    ELSE [packets |-> 0, bytes |-> 0]

\* No packet is lost, counted twice or credited to the wrong side: per
\* direction the table reports what was carried since the last reset (lines
\* 20-50), whichever side spoke first.
Conservation == \A d \in Directions : Reported(d) = carried[d]

Traffic(h) == IF h \in DOMAIN host_traffic_stats THEN host_traffic_stats[h] ELSE 0

CarriedBytes == [d \in Directions |-> carried[d].bytes]

\* A host's traffic is what it sent plus what it received, a packet to itself
\* counting twice (lines 57-58).
HostTrafficAddsUp ==
    \A h \in {d.source_ip : d \in Directions} :
        Traffic(h) = SumFunctionOnSet(CarriedBytes, {d \in Directions : d.source_ip = h})
                     + SumFunctionOnSet(CarriedBytes, {d \in Directions : d.dest_ip = h})

\* Where the packets of connection k since the last reset are in the history.
FlowOf(k) ==
    {i \in resetAt + 1 .. Len(processed) : Direction(processed[i]) \in {k, Flip(k)}}

\* A connection starts with its first packet, was last seen with its last one
\* and speaks the protocol of the first packet any parser recognises, by the
\* first parser that does (lines 22-23, 42, 52-54 and 103-112).
StatsTellTheFlow ==
    \A k \in DOMAIN connections :
        LET flow == FlowOf(k)
            telling == {i \in flow : processed[i].accepted # {}}
            hits == {i \in DOMAIN Parsers : Parsers[i] \in processed[Min(telling)].accepted}
        IN  /\ flow # {}
            /\ connections[k].first_seen = processed[Min(flow)].timestamp
            /\ connections[k].last_seen = processed[Max(flow)].timestamp
            /\ connections[k].protocol_type =
                  IF telling = {} THEN Unrecognised ELSE Parsers[Min(hits)]

=============================================================================
