SPECIFICATION Spec
CONSTANTS
    Space = 64
    Octet = 16
    Sizes <- PowersOfTwo
    MaxWalk = 5
INVARIANTS
    TypeOK
    NeverShort
    PoolExact
    GatewayReserved
    NeverTwice
CHECK_DEADLOCK FALSE
