CONSTANTS
    Subjects = {"timers", "wheel", "rate", "log", "load", "epoll", "ctrl", "select", "buffers", "cache", "stream", "coding", "dates", "time", "files", "pool", "sockets"}
    Handlers = {h1, h2}
    SlotCount = 2
    RingCount = 3
    PoolSize = 1
    Delays = {0, 1, 2, 3}
    CallDelays = {1, 2}
    MaxHeap = 3
    MaxTime = 8
    Sessions = {s1, s2}
    WheelSize = 4
    SlotRoom = 2
    SynTimes = {1, 2}
    MaxLag = 1
    WheelEnd = 9
    Pings = {0, 2000, 3000, 65545}
    WindowSizes = {50, 101, 65535}
    Writers = {w1, w2}
    Capacity = 3
    PoolCapacity = 2
    MaxLines = 5
    NodeIds = {1, 2, 3}
    Loads = {0, 2, 3, 4}
    MaxLoad = 3
    Connections = {c1, c2, c3}
    HeapSize = 3
    MaxFd = 2
    adr1 = adr1
    adr2 = adr2
    adr3 = adr3
    Addrs = {adr1, adr2, adr3}
    AddrLists <- AddrListsHere
    MaxPorts = 2
    TableSize = 2
    IndexWidth = 2
    RandWidth = 2
    MaxNodes = 2
    ConfigTimes = {50, 3001}
    Clients = {k1, k2}
    Descriptors = {1, 2}
    RegisterIn = {"none", "input", "output"}
    HeaderSize = 2
    SendCapacity = 3
    RecvCapacity = 2
    MaxBuffer = 10
    PacketSizes = {1, 5}
    MaxPackets = 4
    CacheCapacity = 4
    FirstKeys = {4, 5, 8}
    LastKey = 12
    StreamCapacity = 2
    ReduceAbove = 4
    Base = 4
    LengthSize = 1
    Numbers <- NumbersHere
    Strings <- StringsHere
    MaxItems = 3
    TextBytes = {0, 93, 186, 255}
    BlockSize = 2
    PacketBytes = {0, 1, 2, 3}
    MaxPacket = 5
    FirstDates <- DatesHere
    Amounts = {1, 11}
    MaxChanges = 2
    SecondUsecs = 10
    TimeValues = {0, 1, 7, 10, 19}
    LastUsec = 40
    MainLog = log1
    LogNames = {log1, log2}
    LinesPerFile = 1
    LastLine = 3
    LastDay = 2
    MaxOpenings = 4
    PoolUsers = {p1, p2}
    InitialObjects = 2
    MaxObjects = 6
    Dgrams = {d1}
    Streams = {t1, t2}
    Acceptors = {a1}
    Handles = {1, 2, 3}
    LocalIps = {1}
    PortCount = 3
    AddrTexts <- TextsHere
    TryLimit = 4
    AnyIpAfter = 2
SPECIFICATION Spec
INVARIANTS
    TypeOK
    TimersSound
    FiresInItsTurn
    ArmedHasOneTimer
    SynTimeFitsWheel
    LinesInOrder
    ChoiceFollowsLoad
    KernelAgrees
    EventsReachRegistered
    ModuleOwnsItsThreads
    HandlesFindTheirSession
    SelectServesItsOwn
    PacketsComeOutWhole
    CacheGivesWhatWasPut
    UnpacksWhatWasPacked
    NothingElseComesBack
    TimesStayInOrder
    LogLinesSurvive
    HoldersAreUnique
CHECK_DEADLOCK FALSE
