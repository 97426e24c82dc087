\* A producer and two consumers that push and pop when they like.
SPECIFICATION Spec
CONSTANTS
    Producers = {p1}
    Consumers = {c1, c2}
    Addresses = {a1, a2, a3}
    NoNode = NoNode
    Nothing = Nothing
    SizeModulus = 4
    BlocksPerChunk = 2
    SizeofBlock = 2
    MaxChunks = 1
    Scheduled = {}
    MaxPushes = 2
INVARIANT TouchesOnlyLiveNodes
CHECK_DEADLOCK FALSE
