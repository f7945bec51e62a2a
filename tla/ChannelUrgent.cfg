CONSTANTS
    A = A
    B = B
    MaxSeq <- OneWay2
    MaxFragments = 2
    Windows <- Windows11
    ReorderLimit = 1
    AckEvery = 1
    RepairCaps = {1}
    UrgentPeers = {A}
    NetCap = 3
SPECIFICATION FairSpec
PROPERTIES
    EverythingAcknowledged
CHECK_DEADLOCK FALSE
