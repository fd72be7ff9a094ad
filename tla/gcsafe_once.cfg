CONSTANTS
    Thread = {t1, t2}
    MaxDepth = 2
    MaxCollections = 2
    Fallible = TRUE
    Catchers = {t1}
SPECIFICATION OnceFairSpec
INVARIANTS
    OnceOK
PROPERTIES
    OnceProgress
CHECK_DEADLOCK FALSE
