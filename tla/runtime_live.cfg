SPECIFICATION FairSpec
CONSTANTS
    m1 = m1
    m2 = m2
    m3 = m3
    Msgs = {m1, m2, m3}
    NoMsg = NoMsg
    Holders = {h1}
    Affinity <- MCAffinity
    HasWorkers = TRUE
    Capacity = 1
    Capacities = {0, 1, 2}
    Main = main
    Workers = {w1}
    N = 1
    Kind <- MCKind
    MayPanic = {}
PROPERTIES
    QueuedIsHandled
    DispatchResolves
    ShutsDownUnlessParked
CHECK_DEADLOCK FALSE
