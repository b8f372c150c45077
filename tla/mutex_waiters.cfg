SPECIFICATION FairSpec
CONSTANTS
    Procs = {p1, p2, p3}
    Nobody = Nobody
    DefaultTry = 3
    MaxCalls = 1
    FaultKinds <- AllFaults
    MaxFaults = 2
    TTLCoversHolder = FALSE
INVARIANTS
    TypeOK
    NoLostWakeup
PROPERTIES
    CallsAdvance
    LockReturns
CHECK_DEADLOCK FALSE
