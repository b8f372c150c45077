SPECIFICATION FairSpec
CONSTANTS
    Procs = {p1, p2}
    Nobody = Nobody
    DefaultTry = 3
    FaultKinds <- AllFaults
    MaxFaults = 2
    TTLCoversHolder = TRUE
    PoolSize = 3
INVARIANTS
    TypeOK
PROPERTIES
    ImplementsPool
    OperationReturns
CHECK_DEADLOCK FALSE
