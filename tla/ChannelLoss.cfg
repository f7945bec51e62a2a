CONSTANTS
    A = A
    B = B
    MaxSeq <- OneWay3
    MaxFragments = 2
    Windows <- Windows13
    ReorderLimit = 3
    AckEvery = 1
    RepairCaps = {1, 2}
    UrgentPeers = {}
    NetCap = 2
SPECIFICATION Spec
INVARIANTS
    TypeOK
    InOrderOnce
    NothingLost
    CountersMatchQueue
    ReorderBuffer
    TimerArmed
    NoIdleWaiting
PROPERTIES
    OnlyArrivalsCount
    WindowRespected
    RepairsAreNeeded
CHECK_DEADLOCK FALSE
