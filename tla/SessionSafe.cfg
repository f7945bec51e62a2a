CONSTANTS
    C = C
    S = S
    Hosts <- CS
    MaxObjects <- Size12
    MaxSessions <- Size12
    IdBits <- TwoAtS
    Connectors = {C}
    Reentry <- Harmless
    MaxDepth = 3
    NetCap = 2
SPECIFICATION Spec
INVARIANTS
    ToldOnce
    NoTwins
    GoneForAReason
PROPERTIES
    CloseIsFinal
CHECK_DEADLOCK FALSE
