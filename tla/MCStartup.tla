----------------------------- MODULE MCStartup -----------------------------
(* Instances of Startup for TLC.  Ports have 3 values. *)
EXTENDS Startup

MCDefault == [enable_api |-> FALSE, api_port |-> 0, enable_packet_capture |-> FALSE,
              capture_interface |-> "eth0"]
MCFallback == [enable_api |-> FALSE, api_port |-> 0, enable_packet_capture |-> FALSE,
               capture_interface |-> "eth0", connections_max_age_days |-> 2]

\* --api-enable, --api-port with numbers in and out of range, and --interface.
MCOptions == {[enable_api |-> TRUE], [api_port |-> 1], [api_port |-> 4], [api_port |-> -1],
              [capture_interface |-> "lo", enable_packet_capture |-> TRUE]}

Line(k, looks, v) == [key |-> k, looks |-> looks, value |-> v]

\* One turns the server on twice over and gives ages; one turns it off and gives
\* numbers where others are read, one of them too large.
MCFiles == {<<Line("enable_api", "bool", FALSE), Line("enable_api", "bool", TRUE),
              Line("api_port", "int64", 2), Line("connections_max_age_days", "int64", 7)>>,
            <<Line("enable_api", "bool", FALSE), Line("enable_api", "overflow", FALSE),
              Line("capture_interface", "int64", "2")>>}

Request(method, path) == [method |-> method, path |-> path]

MCRequests == {Request("GET", CpuUsage), Request("GET", Connections)}
=============================================================================
