SPECIFICATION Spec
CONSTANTS
    Workers = {w1, w2}
    NoTask = NoTask
    MaxLoops = 1
    MaxPackets = 1
INVARIANTS
    TasksTouchLiveObjects
CHECK_DEADLOCK FALSE
