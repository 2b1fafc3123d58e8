SPECIFICATION SystemSpec
CONSTANTS
    Subjects = {"net", "log", "program", "server", "client", "splicer", "line", "test"}
    Kinds = {"tcp", "udp", "ssl", "udpServer", "tcpServer", "sslServer"}
    MaxCalls = 4
    LogThreads = {1, 2}
    MaxLines = 6
    Capacity = 2
    MaxFileSize = 2
    MaxFileCount = 1
    MaxServers = 4
    MaxPorts = 2
    MaxConnections = 2
    BufferSize = 2
    PipeSize = 2
    MaxBytes = 3
    Declarations <- LineDeclarations
    Arguments <- LineArguments
    MaxArguments = 3
    Counts = {1, 2, 3}
    Share = 2
INVARIANTS
    KeepsTrying
    LossActedOn
    SameBuffer
    FilesKeepNewest
    NoneDangles
    NeedsMet
    ToolsStopAll
    PipesConserve
    SetTogether
    ArgumentsPlaced
    LoopLeftInTime
PROPERTY
    TriesAgain
CHECK_DEADLOCK FALSE
