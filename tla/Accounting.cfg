SPECIFICATION Spec
SYMMETRY Symmetry
CONSTANTS
    Receivers = {r1, r2}
    Ids = {p1, p2}
    Quarantine = 2
    Capacity = 1
    Lateness = 2
    MaxMessages = 2
    MaxRuns = 2
    MaxRF = 3
    MaxTime = 3
INVARIANTS
    Conserved
    ResultConsistent
    NoCrossRun
CHECK_DEADLOCK FALSE
