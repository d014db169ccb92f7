SPECIFICATION EvidenceFairSpec
CONSTANTS
    NodeSeq <- MCNodeSeq
    n1 = n1
    n2 = n2
    Counted = {n1}
    MaxChanges = 1
    MaxWire = 1
    MaxBad = 2
    MaxRequests = 2
    MaxEdits = 1
INVARIANTS
    SampleIsFresh
    FailedReceptionsExact
    HistoryReplays
PROPERTY
    SamplingEnds
CHECK_DEADLOCK FALSE
