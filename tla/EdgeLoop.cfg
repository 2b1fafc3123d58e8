SPECIFICATION FairSpec
CONSTANTS
    a = a
    s = s
    x = x
    R = R
    W = W
    Read = R
    Null = Null
    Counters <- OneCounter
    Signals <- OneSignal
    IOs <- OneIO
    Events <- ReadOnly
    EpollSize = 2
    MaxSends = 2
    MaxCalls = 2
INVARIANTS
    Consistent
    NoStaleCallback
    EdgesKept
    WaitsOnlyIdle
PROPERTIES
    EventsDelivered
    BreakReturns
