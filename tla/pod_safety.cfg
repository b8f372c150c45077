SPECIFICATION Spec
CONSTANTS
    Procs = {p1, p2, p3, p4}
    Containers = {c1, c2}
    Nobody = Nobody
    None = None
    FirstBridge = FirstBridge
    DefaultTry = 3
    MaxCalls = 2
    FaultKinds <- NoEtcdFaults
    MaxFaults = 1
    Slots = 1
    DeleteMissingOk = FALSE
    TTLCoversHolder = FALSE
SYMMETRY Symmetry
INVARIANTS
    UniqueUnlessOverlap
    CachedResultBacked
    RunningPodConnected
    NoLostAddress
    NoOrphanPort
    DelLeavesNothing
PROPERTY ImplementsPool
CHECK_DEADLOCK FALSE
