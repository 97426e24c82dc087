\* Two producers and a consumer; a chunk's second block is refused when it comes
\* back.  Only p2 is sure to run.
SPECIFICATION FairSpec
CONSTANTS
    Producers = {p1, p2}
    Consumers = {c1}
    Addresses = {a1, a2, a3, a4}
    NoNode = NoNode
    Nothing = Nothing
    SizeModulus = 4
    BlocksPerChunk = 2
    SizeofBlock = 2
    MaxChunks = 2
    Scheduled = {p2}
    MaxPushes = 3
INVARIANTS
    Settles
    EveryBlockHasOneHolder
PROPERTIES
    ImplementsFifo
    StalledThreadsBlockNobody
CHECK_DEADLOCK FALSE
