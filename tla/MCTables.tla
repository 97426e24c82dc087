------------------------------ MODULE MCTables ------------------------------
(* Instances for TLC of what the program keeps of the past: the tables of    *)
(* the analyzer, the ring that its last packets lie in, the history of a     *)
(* metric, and the last reading of a collector.  They share nothing, and     *)
(* each behaviour is about one of them.                                      *)
EXTENDS PacketAnalyzer, PacketParsing, CircularBuffer, Metric, MCCollector

\* Three endpoints on two hosts, both directions, equal ips with different
\* ports, an endpoint talking to itself.
Packet(from, to, bytes, time, begins) ==
    Asked([source_ip |-> from[1], source_port |-> from[2],
           dest_ip |-> to[1], dest_port |-> to[2],
           protocol |-> TCP, size |-> bytes, timestamp |-> time], begins, Plain)

\* A web server, a DNS server on the same host, and a client.
A == <<1, 80>>
B == <<1, 53>>
C == <<2, 443>>

\* One that two parsers accept, and ones that nobody does.
MCPackets ==
    {Packet(A, C, 1, 1, Plain), Packet(C, A, 2, 2, "TLS"),
     Packet(C, A, 1, 3, "HTTP"), Packet(A, B, 1, 2, "TLS"),
     Packet(B, A, 2, 1, Plain), Packet(C, C, 1, 1, "HTTP")}

VARIABLE subject   \* what the behaviour is about

tablesVars == <<subject, vars, bufferVars, metricVars, collectorVars>>

TablesInit ==
    /\ subject \in {"analyzer", "buffer", "metric", "collector"}
    /\ Init /\ BufferInit /\ MetricInit /\ CollectorInit
    /\ subject = "metric" \/ metric_type = "gauge"
    /\ subject = "collector" \/ prev_stats = ReadingOf(Cores)

TablesNext ==
    /\ UNCHANGED subject
    /\ \/ subject = "analyzer" /\ Next /\ UNCHANGED <<bufferVars, metricVars, collectorVars>>
       \/ subject = "buffer" /\ BufferNext /\ UNCHANGED <<vars, metricVars, collectorVars>>
       \/ subject = "metric" /\ MetricNext /\ UNCHANGED <<vars, bufferVars, collectorVars>>
       \/ subject = "collector" /\ CollectorNext /\ UNCHANGED <<vars, bufferVars, metricVars>>

\* A collector that has not been started has no fair step to take.
TablesSpec == TablesInit /\ [][TablesNext]_tablesVars /\ CollectorFairness
=============================================================================
