SPECIFICATION Spec
CONSTANTS
    Procs = {p1, p2, p3, p4}
    Nobody = Nobody
    DefaultTry = 3
    FaultKinds <- NoFaults
    MaxFaults = 0
    TTLCoversHolder = TRUE
    PoolSize = 3
SYMMETRY Symmetry
INVARIANTS
    UniqueUnlessOverlap
    AlwaysAPair
    NoLostAddress
CHECK_DEADLOCK FALSE
