CONSTANTS
    C = C
    S = S
    Hosts <- CS
    MaxObjects <- Size21
    MaxSessions <- Size21
    IdBits <- TwoAtC
    Connectors = {C}
    Reentry <- Harmless
    MaxDepth = 3
    NetCap = 1
SPECIFICATION Spec
INVARIANTS
    TableSound
    ConnectedIsAccepted
CHECK_DEADLOCK FALSE
