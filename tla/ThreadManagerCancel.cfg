SPECIFICATION FairSpec
CONSTANTS
    Threads = {t1, t2}
    None = None
    TimerFails = FALSE
CHECK_DEADLOCK FALSE
PROPERTY
    ReleaseReturns
