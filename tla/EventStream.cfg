SPECIFICATION FairSpec
CONSTANTS
    HistorySize = 3
    BufferSize = 1
    PageLimit = 3
    DisplaySize = 2
    SocketSize = 1
    MaxEvents = 4
    MaxClears = 1
    MaxCloses = 2
INVARIANTS
    NoSilentGap
    InOrder
PROPERTY
    CatchesUp
CHECK_DEADLOCK FALSE
