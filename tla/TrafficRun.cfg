SPECIFICATION FairSpec
CONSTANTS
    Controllers = {k1, k2}
    MaxRuns = 2
    MaxVolatile = 1
    None = None
INVARIANT
    NoRunLost
PROPERTIES
    RunsSettle
    ImplementsContract
