\* Three workers, so that a wakeup can go to one of several sleepers.
SPECIFICATION FairSpec
CONSTANTS
    Workers = {w1, w2, w3}
    Clients = {c1, c2}
    Tasks = {t1, t2, t3}
    NoTask = NoTask
INVARIANTS
    FifoDispatch
    NoLostWakeup
PROPERTIES
    ImplementsTaskService
    EveryTaskRuns
    DestructorReturns
CHECK_DEADLOCK FALSE
