------------------------- MODULE MCPersistentTasks -------------------------
(* An instance of PersistentTasks for TLC.                                 *)
EXTENDS PersistentTasks

CONSTANTS p, q, z

\* p has room for one call.  q and z have the default CHANNEL_CAPACITY, which
\* is no bound for the channel of async-std.
MCChannel == [t \in Tasks |-> IF t = q THEN "asyncstd" ELSE "bounded"]
MCCapacity == [t \in Tasks |-> IF t = p THEN 1 ELSE 0]
=============================================================================
