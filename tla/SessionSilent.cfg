CONSTANTS
    C = C
    S = S
    Hosts <- CS
    MaxObjects <- Size11
    MaxSessions <- Size11
    IdBits <- OneId
    Connectors = {C}
    Reentry <- Harmless
    MaxDepth = 3
    NetCap = 1
SPECIFICATION Spec
INVARIANTS
    ConnectIsAnswered
CHECK_DEADLOCK FALSE
