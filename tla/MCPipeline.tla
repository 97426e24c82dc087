----------------------------- MODULE MCPipeline -----------------------------
(* Instances of Pipeline for TLC: two conversations over two hosts, one of   *)
(* them seen in both directions, and a frame too short to be parsed.         *)
EXTENDS Pipeline

Frame(from, to, size, held, payload, start) ==
    [source_ip |-> from[1], source_port |-> from[2],
     dest_ip |-> to[1], dest_port |-> to[2], protocol |-> TCP,
     size |-> size, held |-> held, payload |-> payload, start |-> start]

\* A web server, and two ports of one client.
A == <<1, 80>>
B == <<2, 443>>
C == <<2, 444>>

MCFrames ==
    {Frame(A, B, 1, "whole", Plain, Plain), Frame(B, A, 2, "whole", "HTTP", "TLS"),
     Frame(C, A, 1, "whole", "HTTP", Plain), Frame(C, A, 1, "link", Plain, Plain)}

\* Left over from an earlier packet: its time, or one of another order.
MCBlanks ==
    {[source_ip |-> NoAddress, source_port |-> 80, dest_ip |-> NoAddress, dest_port |-> 53,
      protocol |-> TCP, size |-> 1, timestamp |-> t] : t \in {0, 2}}

=============================================================================
