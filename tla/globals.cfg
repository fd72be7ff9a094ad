SPECIFICATION CacheFairSpec
CONSTANTS
    Lookers = {t1, t2}
    Paths = {p1, p2}
    Types = {Value, Function, Module}
    Valid = {Value, Function}
    MayNest = {t1}
    NoType = NoType
    NoPath = NoPath
INVARIANTS
    CacheOK
PROPERTIES
    LookupsReturn
CHECK_DEADLOCK FALSE
