SPECIFICATION Spec
CONSTANTS
    Procs = {p1, p2, p3}
    Containers = {c1, c2, c3}
    Nobody = Nobody
    None = None
    FirstBridge = FirstBridge
    DefaultTry = 3
    MaxCalls = 2
    FaultKinds <- NoFaults
    MaxFaults = 0
    Slots = 1
    DeleteMissingOk = FALSE
    TTLCoversHolder = TRUE
INVARIANT AddressOnBridge
CHECK_DEADLOCK FALSE
