SPECIFICATION Spec
CONSTANTS
    Procs = {p1, p2}
    Nobody = Nobody
    DefaultTry = 3
    MaxCalls = 1
    FaultKinds <- OnlyCrashes
    MaxFaults = 2
    TTLCoversHolder = TRUE
INVARIANT MutualExclusion
PROPERTY ImplementsLock
CHECK_DEADLOCK FALSE
