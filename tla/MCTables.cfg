\* Four packets; one producer and one consumer with a ring smaller than what
\* passes through it; a metric that keeps 2 of the values of 4 times; a collector of
\* three cores, so that as many can come as go, started again after a stop.
SPECIFICATION TablesSpec
CONSTANTS
    Packets <- MCPackets
    Parsers <- AllParsers
    Unrecognised = Unrecognised
    RecentCapacity = 3
    MaxPackets = 4
    Producers = {p1}
    Consumers = {c1}
    Items = {a, b}
    Capacity = 3
    Moved = Moved
    Nothing = Nothing
    MaxPushes = 6
    Values = {0, 5}
    Kept = 2
    NoTime = NoTime
    MaxTime = 4
    MaxUpdates = 4
    Cores <- ThreeCores
    NoCore = NoCore
    Slices = 1
    MaxThreads = 2
INVARIANTS
    OneFlowPerPair
    Conservation
    HostTrafficAddsUp
    StatsTellTheFlow
    SeenIsABound
    PeekedItemStays
    HistoryIsLatest
    AskedAtItsTime
    StoppedMeansStopped
PROPERTIES
    ImplementsBoundedFifo
    UsageIsOfOneCore
    StopReturns
    RecoversFromHotplug
CHECK_DEADLOCK FALSE
