SPECIFICATION Spec
CONSTANTS
    n1 = n1
    n2 = n2
    n3 = n3
    n4 = n4
    MaxBytes = 4
    LineSizes = {1, 2, 5}
    MaxOld = 3
    MaxWritten = 7
    ByteValues = {0, 1, 2, 3}
    Magic1 = 2
    Magic2 = 3
    MaxPayload = 1
    StreamLength = 7
    GraphNodes <- MCNodes
    Source = n1
    HopLimits = {1, 2, 3, 4}
    RunNodes <- MCRunNodes
    Flows <- MCFlows
    Durations = {1, 7, 12}
    MaxFlows = 2
INVARIANTS
    LogIsRecent
    FramesMatchReference
    ReachabilityExact
    ScheduleIsExact
    VerifiedIsApplied
CHECK_DEADLOCK FALSE
