CONSTANTS
    C = C
    S = S
    Hosts <- CS
    MaxObjects <- Size21
    MaxSessions <- Size21
    IdBits <- OneId
    Connectors = {C}
    Reentry <- CreateInConnection
    MaxDepth = 3
    NetCap = 1
SPECIFICATION Spec
INVARIANTS
    TableSound
CHECK_DEADLOCK FALSE
