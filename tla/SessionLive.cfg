CONSTANTS
    C = C
    S = S
    Hosts <- CS
    MaxObjects <- Size12
    MaxSessions <- Size11
    IdBits <- OneId
    Connectors = {C}
    Reentry <- Harmless
    MaxDepth = 3
    NetCap = 1
SPECIFICATION FairSpec
INVARIANTS
    TypeOK
PROPERTIES
    SessionsEnd
CHECK_DEADLOCK FALSE
