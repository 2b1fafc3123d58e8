SPECIFICATION Spec
CONSTANTS
    Block = 4
    MaxBlocks = 1
INVARIANT
    WalkComplete
CHECK_DEADLOCK FALSE
