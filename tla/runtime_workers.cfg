SPECIFICATION Spec
CONSTANTS
    m1 = m1
    m2 = m2
    m3 = m3
    Msgs = {m1, m2, m3}
    NoMsg = NoMsg
    Holders = {h1, h2}
    Affinity <- MCAffinity
    HasWorkers = TRUE
    Capacity = 1
    Capacities = {0, 1}
    Main = main
    Workers = {w1}
    N = 2
    Kind <- MCKind
    MayPanic = {m1, m2}
SYMMETRY HolderSymmetry
INVARIANTS
    RuntimeOK
    MessagesAccounted
    AffinityRespected
    ParkedIsIdle
    ChannelSound
    CleanShutdown
PROPERTIES
    PoolSpec
CHECK_DEADLOCK FALSE
