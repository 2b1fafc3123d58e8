SPECIFICATION FairSpec
CONSTANTS
    Threads = {t1, t2, t3}
    None = None
    TimerFails = TRUE
INVARIANTS
    DoneInOrder
    WatchersInEntries
PROPERTIES
    ReleaseReturnsInTime
    ExitedJoined
CHECK_DEADLOCK FALSE
