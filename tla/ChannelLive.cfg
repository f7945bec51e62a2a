CONSTANTS
    A = A
    B = B
    MaxSeq <- OneWay2
    MaxFragments = 2
    Windows <- Windows12
    ReorderLimit = 1
    AckEvery = 1
    RepairCaps = {1}
    UrgentPeers = {}
    NetCap = 2
SPECIFICATION FairSpec
PROPERTIES
    EverythingAcknowledged
CHECK_DEADLOCK FALSE
