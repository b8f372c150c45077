SPECIFICATION Spec
CONSTANTS
    Procs = {p1, p2, p3}
    Nobody = Nobody
    DefaultTry = 3
    MaxCalls = 1
    FaultKinds <- NoFaults
    MaxFaults = 0
    TTLCoversHolder = TRUE
INVARIANT MutualExclusion
CHECK_DEADLOCK FALSE
