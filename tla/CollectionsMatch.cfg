SPECIFICATION AllSpec
CONSTANTS
    Block = 2
    MaxBlocks = 4
    Null = 0
    Keys = {1, 2, 3, 4, 5, 6, 7}
    NameOf <- HashNameOf
    HashOf <- HashHashOf
    Kept = {1, 2, 3}
    Values = {1}
    SetKeys = {1, 2, 3, 4, 5, 7}
    SetKept = {2}
    Items = {1, 2}
    Junk = 0
    Zero = 5
    Time <- TimeWritten
    MaxItems = 4
    \* Sizes below, at and between whole bytes and words; bits at both ends of each width.
    BitSizes = {5, 16, 19, 43, 101, 128}
    Touched = {0, 2, 8, 12, 17, 39, 42, 98, 100, 127}
    Subjects = {"lpm"}
INVARIANT
    MatchCovers
CHECK_DEADLOCK FALSE
