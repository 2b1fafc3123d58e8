SPECIFICATION FairSpec
CONSTANTS
    Producers = {p1, p2}
    Size = 3
    Requests = {1, 2}
    MaxAcquires = 2
INVARIANTS
    NoOverlap
    NoSpaceLost
    StopsSafely
PROPERTIES
    ImplementsStream
    MessagesArrive
    ReleaseReturns
CHECK_DEADLOCK FALSE
