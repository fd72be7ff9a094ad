CONSTANTS
    Thread = {t1, t2}
    MaxDepth = 2
    MaxCollections = 2
    Modes = {"shared", "upgradable", "exclusive"}
SPECIFICATION FairSpec
INVARIANTS
    LocksOK
    StopTheWorld
    BlockedIsSafe
PROPERTIES
    CollectionStarts
    LockIsGranted
CHECK_DEADLOCK FALSE
