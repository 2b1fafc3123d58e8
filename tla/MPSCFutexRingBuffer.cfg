SPECIFICATION FairSpec
CONSTANTS
    Producers = {p1, p2}
    Size = 3
    Requests = {1, 2}
    MaxAcquires = 2
    Failing = {p1, "consumer"}
INVARIANTS
    NoLostWakeup
    Sound
PROPERTIES
    ImplementsStream
    NobodyStuck
CHECK_DEADLOCK FALSE
