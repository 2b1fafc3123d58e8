SPECIFICATION Spec
CONSTANTS
    a = a
    s = s
    x = x
    R = R
    W = W
    Read = R
    Null = Null
    Counters <- NoWatcher
    Signals <- NoWatcher
    IOs <- OneIO
    Events <- ReadWrite
    EpollSize = 1
    MaxSends = 0
    MaxCalls = 3
INVARIANT
    OwnEventsKept
