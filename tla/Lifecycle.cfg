SPECIFICATION FairSpec
CONSTANTS
    Clients = {c1, c2}
    LifecycleCallers = {c1, c2}
    Versions = {v1, v2}
    DefaultVersion = v1
    FailTask = ft
    None = None
INVARIANTS
    ScenarioAgreement
    StoppedIsReleased
    FailedHasCleaner
    TrafficHasRFPath
PROPERTIES
    FailedIsSticky
    CleanBoot
    CommandsReturn
