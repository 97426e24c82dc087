\* One worker and two packets.
SPECIFICATION Spec
CONSTANTS
    Workers = {w1}
    Frames <- MCFrames
    Blanks <- MCBlanks
    Unrecognised = Unrecognised
    NoPacket = NoPacket
    RecentCapacity = 2
    BufferCapacity = 2
    MaxPackets = 2
INVARIANTS
    ProtocolsAreDetected
CHECK_DEADLOCK FALSE
