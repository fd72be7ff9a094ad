------------------------------ MODULE TaskPool ------------------------------
(***************************************************************************)
(* What the async runtime promises to its users, without queues, stacks or *)
(* loops: a submitted task is run once, on a thread its affinity allows,   *)
(* at most Limit tasks at a time per thread, and the pool stops only when  *)
(* nobody can submit any more and every submitted task has finished.  A    *)
(* task may unwind its thread, which takes the tasks on that thread with   *)
(* it and nothing else; then what only that thread may run is left behind. *)
(* AsyncRuntime implements it (AsyncRuntime!PoolSpec).                     *)
(***************************************************************************)
EXTENDS Naturals, FiniteSets

CONSTANTS
    Tasks,      \* the tasks that may be submitted, each of them once
    Threads,    \* the threads of the pool
    NoThread,   \* "on no thread"
    Eligible,   \* [Tasks -> SUBSET Threads]
    Limit       \* how many tasks a thread runs concurrently

VARIABLES
    status,     \* [Tasks -> {"idle", "accepted", "rejected", "active", "finished"}]
    thread,     \* [Tasks -> the thread that runs the task]
    unwound,    \* the threads that were unwound
    closed,     \* nobody can submit a task any more
    stopped     \* the pool has shut down

poolVars == <<status, thread, unwound, closed, stopped>>

ActiveOn(t) == {m \in Tasks : thread[m] = t}

Init ==
    /\ status = [m \in Tasks |-> "idle"]
    /\ thread = [m \in Tasks |-> NoThread]
    /\ unwound = {}
    /\ closed = FALSE
    /\ stopped = FALSE

\* A task enters the pool, or is refused (the submitter gave up, or there was
\* no room).
Submit(m) ==
    /\ ~closed
    /\ status[m] = "idle"
    /\ \E answer \in {"accepted", "rejected"} : status' = [status EXCEPT ![m] = answer]
    /\ UNCHANGED <<thread, unwound, closed, stopped>>

Begin(m, t) ==
    /\ status[m] = "accepted"
    /\ t \in Eligible[m] \ unwound
    /\ Cardinality(ActiveOn(t)) < Limit
    /\ status' = [status EXCEPT ![m] = "active"]
    /\ thread' = [thread EXCEPT ![m] = t]
    /\ UNCHANGED <<unwound, closed, stopped>>

Finish(m) ==
    /\ status[m] = "active"
    /\ status' = [status EXCEPT ![m] = "finished"]
    /\ thread' = [thread EXCEPT ![m] = NoThread]
    /\ UNCHANGED <<unwound, closed, stopped>>

\* One of the tasks of thread t unwinds it.
Unwind(t) ==
    /\ t \notin unwound
    /\ ActiveOn(t) # {}
    /\ status' = [m \in Tasks |-> IF m \in ActiveOn(t) THEN "finished" ELSE status[m]]
    /\ thread' = [m \in Tasks |-> IF m \in ActiveOn(t) THEN NoThread ELSE thread[m]]
    /\ unwound' = unwound \cup {t}
    /\ UNCHANGED <<closed, stopped>>

Close ==
    /\ ~closed
    /\ closed' = TRUE
    /\ UNCHANGED <<status, thread, unwound, stopped>>

Stop ==
    /\ closed
    /\ \A m \in Tasks :
          \/ status[m] \notin {"accepted", "active"}
          \/ status[m] = "accepted" /\ Eligible[m] \cap unwound # {}
    /\ stopped' = TRUE
    /\ UNCHANGED <<status, thread, unwound, closed>>

Next ==
    \/ \E m \in Tasks : Submit(m) \/ Finish(m) \/ \E t \in Threads : Begin(m, t)
    \/ \E t \in Threads : Unwind(t)
    \/ Close
    \/ Stop

Spec == Init /\ [][Next]_poolVars
=============================================================================
