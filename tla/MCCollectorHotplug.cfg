\* One thread and cores that come and go.
SPECIFICATION CollectorSpec
CONSTANTS
    Cores <- ThreeCores
    NoCore = NoCore
    Slices = 1
    MaxThreads = 1
INVARIANTS
    EntriesExist
CHECK_DEADLOCK FALSE
