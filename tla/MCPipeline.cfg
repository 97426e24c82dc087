\* Two workers, three packets of two conversations; liveness forbids symmetry.
SPECIFICATION FairSpec
CONSTANTS
    Workers = {w1, w2}
    Frames <- MCFrames
    Blanks <- MCBlanks
    Unrecognised = Unrecognised
    NoPacket = NoPacket
    RecentCapacity = 2
    BufferCapacity = 2
    MaxPackets = 3
INVARIANTS
    CapturedIsAccounted
    StoredIsCurrent
PROPERTIES
    StoredNeverGoesBack
    EveryPacketIsAnalysed
CHECK_DEADLOCK FALSE
