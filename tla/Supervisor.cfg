SPECIFICATION FairSpec
CONSTANTS
    NodeSeq <- MCNodeSeq
    n1 = n1
    n2 = n2
    RecentLines = 1
    MaxLines = 2
INVARIANTS
    NoOrphan
    NoFalseFailure
    ArchiveIsWhole
PROPERTY
    ExitsAreHandled
CHECK_DEADLOCK FALSE
