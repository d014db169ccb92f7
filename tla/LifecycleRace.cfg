SPECIFICATION Spec
CONSTANTS
    Clients = {c1, c2}
    LifecycleCallers = {c1, c2}
    Versions = {v1}
    DefaultVersion = v1
    FailTask = ft
    None = None
INVARIANT
    StartAwaitsFailureTask
