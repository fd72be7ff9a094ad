CONSTANTS
    Future = {f1, f2, f3}
    Context = {c1, c2}
    NoWaker = NoWaker
    Movable = {f3}
SPECIFICATION FairSpec
INVARIANTS
    FuturesOK
    NoLostWakeup
PROPERTIES
    FutureResolves
