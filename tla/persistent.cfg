CONSTANTS
    p = p
    q = q
    z = z
    Users = {u1}
    Tasks = {p, q, z}
    Nested = {p}
    Calls = {k1, k2}
    N = 2
    Channel <- MCChannel
    Capacity <- MCCapacity
    MayPanic = {p, q}
    NoCall = NoCall
    Nobody = Nobody
SPECIFICATION FairSpec
INVARIANTS
    TasksOK
PROPERTIES
    ServiceSpec
    DispatchedStarts
    AcceptedSettles
    WindsDown
CHECK_DEADLOCK FALSE
