----------------------------- MODULE AsyncCalls -----------------------------
(***************************************************************************)
(* Rust functions that Julia calls and that continue on a thread pool      *)
(* (ccall.rs, and the functions the julia_module macro generates,          *)
(* jlrs_macros/src/module/mod.rs).  The function tracks its arguments and  *)
(* returns a callback that owns the guards; the pool runs it, stores the   *)
(* result in a DispatchHandle and notifies Julia, which then joins the     *)
(* handle.  Rust code that uses dispatch_to_pool itself joins when it      *)
(* likes.                                                                  *)
(***************************************************************************)
EXTENDS Ledger, Sequences

CONSTANTS
    Jobs,      \* the calls
    Direct,    \* the jobs whose handle is joined without waiting for Julia
    MayPanic,  \* the jobs whose callback may panic
    Local,     \* a thread that tracks data and dispatches nothing
    MaxSize    \* bound: the pool is not made larger than this

ASSUME AsyncCallsAssumption ==
    /\ Direct \subseteq Jobs
    /\ MayPanic \subseteq Jobs
    /\ Local \notin Jobs
    /\ Owners = Jobs \cup {Local}
    /\ MaxSize \in Nat \ {0}

VARIABLES
    phase,    \* [Jobs -> where the job is]
    jobs,     \* the queue of the pool
    size,     \* the number of threads of the pool
    flag,     \* [Jobs -> DispatchHandle.flag]
    refs,     \* [Jobs -> the strong count of the handle's Arc]
    join      \* [Jobs -> what became of the handle Julia was given]

jobVars == <<phase, jobs, size, flag, refs, join>>
vars == <<ledgerVars, jobVars>>

\* "returned": the callback has returned; "set": the flag is set, set() still
\* owns its Arc; "released": set() has returned; "notified": Julia knows.
Phases == {"none", "body", "queued", "running", "returned", "set", "released",
           "notified", "panicked"}

Init ==
    /\ LedgerInit
    /\ phase = [j \in Jobs |-> "none"]
    /\ jobs = <<>>
    /\ size = 1
    /\ flag = [j \in Jobs |-> FALSE]
    /\ refs = [j \in Jobs |-> 0]
    /\ join = [j \in Jobs |-> "none"]

\* The jobs a thread of the pool is busy with.
Busy == {j \in Jobs : phase[j] \in {"running", "returned", "set", "released"}}

GoTo(j, p) == phase' = [phase EXCEPT ![j] = p]

----------------------------------------------------------------------------
Enter(j) ==
    /\ phase[j] = "none"
    /\ GoTo(j, "body")
    /\ UNCHANGED <<ledgerVars, jobs, size, flag, refs, join>>

\* Who runs code of its own that can track data.
Tracks(o) == o = Local \/ (o \in Jobs /\ phase[o] = "body")

\* Who can use and drop the guards it owns.
Uses(o) == o = Local \/ (o \in Jobs /\ phase[o] \in {"body", "running"})

Track(o) ==
    /\ Tracks(o)
    /\ \E s \in Slots, d \in Data :
          \/ TrackShared(s, o, d)
          \/ TrackSharedUnbound(s, o, d)
          \/ TrackExclusive(s, o, d)
    /\ UNCHANGED jobVars

UseGuard(o) ==
    /\ Uses(o)
    /\ \E s \in GuardsOf(o) :
          \/ \E r \in Slots : CloneArray(s, r)
          \/ AsTyped(s)
          \/ DropGuards({s})
    /\ UNCHANGED jobVars

\* The function has returned and its callback, which owns what it tracked, is
\* queued; for a function that fails the callback only owns the error.
Dispatch(j) ==
    /\ phase[j] = "body"
    /\ \/ UNCHANGED ledgerVars
       \/ GuardsOf(j) # {} /\ DropGuards(GuardsOf(j))
    /\ GoTo(j, "queued")
    /\ jobs' = Append(jobs, j)
    /\ refs' = [refs EXCEPT ![j] = 2]
    /\ join' = [join EXCEPT ![j] = IF j \in Direct THEN "spins" ELSE "awaits"]
    /\ UNCHANGED <<size, flag>>

SetPoolSize(n) ==
    /\ n # size
    /\ size' = n
    /\ UNCHANGED <<ledgerVars, phase, jobs, flag, refs, join>>

Start ==
    /\ jobs # <<>>
    /\ Cardinality(Busy) < size
    /\ GoTo(Head(jobs), "running")
    /\ jobs' = Tail(jobs)
    /\ UNCHANGED <<ledgerVars, size, flag, refs, join>>

\* The callback is consumed by its call: its guards are dropped.
CallbackReturns(j) ==
    /\ phase[j] = "running"
    /\ DropGuards(GuardsOf(j))
    /\ GoTo(j, "returned")
    /\ UNCHANGED <<jobs, size, flag, refs, join>>

\* Faulty variant: a panic leaks what the callback owns.
CallbackPanicsLeaking(j) ==
    /\ j \in MayPanic
    /\ phase[j] = "running"
    /\ refs' = [refs EXCEPT ![j] = @ - 1]
    /\ GoTo(j, "panicked")
    /\ UNCHANGED <<ledgerVars, jobs, size, flag, join>>

\* The job unwinds and the pool replaces its thread: no result, no signal.
CallbackPanics(j) ==
    /\ j \in MayPanic
    /\ phase[j] = "running"
    /\ DropGuards(GuardsOf(j))
    /\ refs' = [refs EXCEPT ![j] = @ - 1]
    /\ GoTo(j, "panicked")
    /\ UNCHANGED <<jobs, size, flag, join>>

\* DispatchHandle::set stores the result and then the flag ...
Set(j) ==
    /\ phase[j] = "returned"
    /\ flag' = [flag EXCEPT ![j] = TRUE]
    /\ GoTo(j, "set")
    /\ UNCHANGED <<ledgerVars, jobs, size, refs, join>>

\* ... and drops its Arc when it returns.
Release(j) ==
    /\ phase[j] = "set"
    /\ refs' = [refs EXCEPT ![j] = @ - 1]
    /\ GoTo(j, "released")
    /\ UNCHANGED <<ledgerVars, jobs, size, flag, join>>

\* Faulty variant: Julia is notified before set() has returned.
NotifyEarly(j) ==
    /\ phase[j] = "set"
    /\ join' = [join EXCEPT ![j] = IF @ = "awaits" THEN "spins" ELSE @]
    /\ UNCHANGED <<ledgerVars, phase, jobs, size, flag, refs>>

\* uv_async_send: the Julia task that waits for the condition calls join_func.
Notify(j) ==
    /\ phase[j] = "released"
    /\ GoTo(j, "notified")
    /\ join' = [join EXCEPT ![j] = IF @ = "awaits" THEN "spins" ELSE @]
    /\ UNCHANGED <<ledgerVars, jobs, size, flag, refs>>

\* join sees the flag and unwraps its Arc, which panics if another one exists.
Join(j) ==
    /\ join[j] = "spins"
    /\ flag[j]
    /\ join' = [join EXCEPT ![j] = IF refs[j] = 1 THEN "joined" ELSE "aborted"]
    /\ refs' = [refs EXCEPT ![j] = @ - 1]
    /\ UNCHANGED <<ledgerVars, phase, jobs, size, flag>>

PoolStep(j) ==
    \/ CallbackReturns(j) \/ CallbackPanics(j)
    \/ Set(j) \/ Release(j) \/ Notify(j)

Next ==
    \/ \E o \in Owners : Track(o) \/ UseGuard(o)
    \/ \E j \in Jobs : Enter(j) \/ Dispatch(j) \/ PoolStep(j) \/ Join(j)
    \/ \E n \in 1..MaxSize : SetPoolSize(n)
    \/ Start

Spec == Init /\ [][Next]_vars

\* The threads of the pool and of Julia run, and callbacks return.
FairSpec ==
    /\ Spec
    /\ WF_vars(Start)
    /\ \A j \in Jobs : WF_vars(PoolStep(j)) /\ WF_vars(Join(j))

----------------------------------------------------------------------------
TypeOK ==
    /\ LedgerTypeOK
    /\ phase \in [Jobs -> Phases]
    /\ jobs \in Seq(Jobs)
    /\ size \in 1..MaxSize
    /\ flag \in [Jobs -> BOOLEAN]
    /\ refs \in [Jobs -> 0..2]
    /\ join \in [Jobs -> {"none", "awaits", "spins", "joined", "aborted"}]

\* "Wait until the value of the handle has been set, and return that value"
\* (ccall.rs:410), for whoever joins.
JoinReturns == \A j \in Jobs : join[j] # "aborted"

\* Julia, which joins when it has been notified, gets the result, and by then
\* nothing of the call is borrowed any more.
NotifiedJoinReturns ==
    \A j \in Jobs \ Direct :
        /\ join[j] # "aborted"
        /\ join[j] = "joined" => flag[j] /\ GuardsOf(j) = {}

\* A job that was dispatched is run, even if others panic or the pool is made
\* smaller, and one whose callback does not panic is joined.
JobsSettle ==
    \A j \in Jobs :
        phase[j] = "queued" ~> (phase[j] = "panicked" \/ join[j] \in {"joined", "aborted"})

\* The borrows a job was dispatched with end, also when the callback panics.
BorrowsEnd ==
    \A j \in Jobs : (phase[j] = "queued") ~> (GuardsOf(j) = {})

\* The ledger: its counts agree with the guards, and no guard that allows
\* writing has another one beside it, whatever was cloned or converted.
LedgerOK == TypeOK /\ LedgerExact /\ NoAliasedBorrow

\* Whatever callbacks do, jobs are run and borrows end.
CallsSettle == JobsSettle /\ BorrowsEnd
=============================================================================
