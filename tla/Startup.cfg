SPECIFICATION FairSpec
CONSTANTS
    Nodes = {n1, n2, n3}
    Rounds = 3
    MaxLosses = 7
INVARIANTS
    RestartsMatchLosses
    NoThreadAtCleanup
PROPERTY
    StartupEnds
CHECK_DEADLOCK FALSE
