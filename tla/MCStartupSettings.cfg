\* A configuration and no client.
SPECIFICATION StartupSpec
CONSTANTS
    Flags = {"enable_api", "enable_packet_capture"}
    Strings = {"capture_interface"}
    Ports = {"api_port"}
    Ages = {"connections_max_age_days"}
    Default <- MCDefault
    Fallback <- MCFallback
    Options <- MCOptions
    Files <- MCFiles
    NoValue = NoValue
    PortModulus = 3
    MaxOptions = 1
    NumThreads = 1
    Clients = {c1}
    Requests <- MCRequests
    None = None
INVARIANTS
    SettingsTakeEffect
CHECK_DEADLOCK FALSE
