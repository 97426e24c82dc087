\* Up to two options, in any order; two threads and two clients, whatever they ask.
\* Two iterations of the loop and two packets: tasks of every kind may be queued
\* at once when main stops, returns or throws.
SPECIFICATION ProcessSpec
CONSTANTS
    Flags = {"enable_api", "enable_packet_capture"}
    Strings = {"capture_interface"}
    Ports = {"api_port"}
    Ages = {"connections_max_age_days"}
    Default <- MCDefault
    Fallback <- MCFallback
    Options <- MCOptions
    Files <- MCFiles
    NoValue = NoValue
    PortModulus = 3
    MaxOptions = 2
    NumThreads = 2
    Clients = {c1, c2}
    Requests <- MCRequests
    None = None
    Workers = {w1, w2}
    NoTask = NoTask
    MaxLoops = 2
    MaxPackets = 2
INVARIANTS
    LastWordCounts
    StopLeavesNothing
    HandlersAreGone
    CaptureThreadHasItsPool
    SafeUntilReturn
    NothingDropped
PROPERTIES
    EveryClientIsServed
    StopReturns
    SignalEndsTheProcess
CHECK_DEADLOCK FALSE
