SPECIFICATION FairSpec
CONSTANTS
    Clients = {c1, c2, i1}
    Internal = {i1}
    QueueSize = 2
    NoClient = NoClient
    MaxStarts = 2
    MaxDaemons = 3
    MaxFrames = 5
INVARIANTS
    OneClient
    StoppedIsReleased
PROPERTIES
    GatewayProgress
    ImplementsLink
CHECK_DEADLOCK FALSE
