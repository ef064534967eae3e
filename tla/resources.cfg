SPECIFICATION ResourcesSpec
CONSTANTS
    Size = 4
    Conns = {c1, c2, c3}
    NoConn = NoConn
    Limits = {2}
    MaxWr = 6
    FlSize = 10
    Unit = 2
    Egress = 1
    Frags = {1, 3}
    RspSize = 2
    Budget = 2
    MaxRx = 4
    MaxRxFails = 2
    Contexts = {u1, u2}
    Density = 2
    NumPages = 2
    Objects = {o1, o2}
    QueueKinds = {"cq", "rc"}
    MaxQueues = 3
    MaxNoMem = 1
    Regions = {m1, m2}
    Stags = {u1, u2}
    Pbls = {p1}
    NoPbl = NoPbl
    NoStag = NoStag
    MaxRefused = 1
    MaxRegFails = 1
SYMMETRY Symmetry
INVARIANTS TypeOK CountsAgree DeferredWaitForHole LimitWarns RxSound HandedOutOnce
PROPERTIES NoSlotReused KeepsPromise
CHECK_DEADLOCK FALSE
