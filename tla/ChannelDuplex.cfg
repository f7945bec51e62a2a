CONSTANTS
    A = A
    B = B
    MaxSeq <- Duplex21
    MaxFragments = 1
    Windows <- Windows21
    ReorderLimit = 2
    AckEvery = 0
    RepairCaps = {2}
    UrgentPeers = {A}
    NetCap = 2
SPECIFICATION Spec
INVARIANTS
    AcksTrue
PROPERTIES
    BothWaysFifo
CHECK_DEADLOCK FALSE
