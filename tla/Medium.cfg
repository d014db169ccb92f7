SPECIFICATION Spec
CONSTANTS
    n1 = n1
    n2 = n2
    n3 = n3
    Nodes <- MCNodes
    Presets <- MCPresets
    RFSize = 1
    WriteSize = 1
    MaxFrames = 2
    MaxEdits = 1
INVARIANTS
    FanOutIsOneTopology
    FramesInOrder
    LossIsFailure
PROPERTY
    QuietAfterStop
CHECK_DEADLOCK FALSE
