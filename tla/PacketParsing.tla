--------------------------- MODULE PacketParsing ---------------------------
(***************************************************************************)
(* From a frame on the wire to the PacketInfo that the analyzer is given:  *)
(* capturePacket and parsePacket (src/network/packet_capture.cpp), and the *)
(* question each parser asks of it (protocol_handlers/protocol_parser.cpp).*)
(*                                                                         *)
(* A frame has the fields of a connection key and its size, and            *)
(*   held     how far pcap captured it: "link", up to the "network" header *)
(*            or "whole";                                                  *)
(*   payload  the protocol it carries, or Plain;                           *)
(*   start    the protocol that its first bytes, the link header, happen   *)
(*            to look like, or Plain.                                      *)
(* A frame that is not IPv4 is read as if it were: any addresses may come  *)
(* of it.                                                                  *)
(***************************************************************************)
EXTENDS Naturals

TCP == 6
UDP == 17

\* The start of data that is of no protocol.
Plain == "plain"

\* Does one of the packet's ports serve a protocol?
Served(p, ports) == p.source_port \in ports \/ p.dest_port \in ports

\* Each parser's parse returns data if its question is answered yes; start is
\* what data begins with.
HttpParses(p, start) == p.protocol = TCP /\ start = "HTTP" /\ Served(p, {80, 8080})
DnsParses(p) == p.protocol \in {TCP, UDP} /\ Served(p, {53})
TlsParses(p, start) == p.protocol = TCP /\ start = "TLS"

\* The parsers that createAllParsers makes, in their order.
AllParsers == <<"HTTP", "DNS", "TLS">>

\* The parsers that return data.
Accepting(p, start) ==
    {r \in {"HTTP", "DNS", "TLS"} :
        \/ r = "HTTP" /\ HttpParses(p, start)
        \/ r = "DNS" /\ DnsParses(p)
        \/ r = "TLS" /\ TlsParses(p, start)}

\* A packet as the analyzer will see it.  carries is a history: what it was of.
Asked(p, start, carries) ==
    [source_ip |-> p.source_ip, source_port |-> p.source_port, dest_ip |-> p.dest_ip,
     dest_port |-> p.dest_port, protocol |-> p.protocol, size |-> p.size,
     timestamp |-> p.timestamp, accepted |-> Accepting(p, start), carries |-> carries]

\* parsePacket fills a packet that may hold anything, unless the frame is short.
\* Without a whole transport header of a known kind there are no ports.
parsePacket(blank, f) ==
    LET ported == f.held = "whole" /\ f.protocol \in {TCP, UDP}
    IN  IF f.held = "link" THEN blank
        ELSE [blank EXCEPT !.source_ip = f.source_ip, !.dest_ip = f.dest_ip,
                           !.protocol = f.protocol,
                           !.source_port = IF ported THEN f.source_port ELSE 0,
                           !.dest_port = IF ported THEN f.dest_port ELSE 0]

\* capturePacket, when a frame comes at time t: data is the frame from its first
\* byte, so that the parsers look at its link header.
capturePacket(blank, f, t) ==
    Asked([parsePacket(blank, f) EXCEPT !.size = f.size, !.timestamp = t],
          f.start, f.payload)

\* capturePacket, when none comes within a second: nothing is filled in.
noPacket(blank) == Asked(blank, Plain, Plain)

=============================================================================
