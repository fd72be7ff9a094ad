SPECIFICATION FairSpec
CONSTANTS
    Data = {arr, imm}
    Mutable = {arr}
    Arrays = {arr}
    Slots = {s1, s2}
    Owners = {a, b, local}
    NoGuard = NoGuard
    MaxBorrows = 2
    Jobs = {a, b}
    Direct = {b}
    MayPanic = {a}
    Local = local
    MaxSize = 2
INVARIANTS
    LedgerOK
    NotifiedJoinReturns
PROPERTIES
    CallsSettle
CHECK_DEADLOCK FALSE
