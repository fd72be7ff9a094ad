---------------------------- MODULE JuliaFutures ---------------------------
(***************************************************************************)
(* JuliaFuture (async_util/future.rs): a Rust future for a task that Julia  *)
(* runs, on whatever thread, and that calls wake_task when it is done.      *)
(*                                                                         *)
(* The future and Julia's task share a TaskState.  Both lock it for a whole *)
(* step, so a poll and a wake_task are atomic.  The executor and Julia's    *)
(* scheduler are external: a future is polled after the context it was      *)
(* polled in was woken.                                                     *)
(***************************************************************************)
EXTENDS Naturals

CONSTANTS
    Future,
    Context,    \* what polls futures: each has its own waker
    NoWaker,
    Movable     \* the futures that may be handed to another context

ASSUME FutureAssumption ==
    /\ NoWaker \notin Context
    /\ Movable \subseteq Future

VARIABLES
    phase,      \* of the future: "none", "calling", "pending", "ready", "dropped"
    julia,      \* of Julia's task: "none", "scheduled", "woken"
    state,      \* the TaskState: completed, waker, and whether task is set
    refs,       \* the strong count of the Arc around it
    context,    \* the context that polls the future
    due         \* will that context poll the future again?

vars == <<phase, julia, state, refs, context, due>>

NewState == [completed |-> FALSE, waker |-> NoWaker, task |-> FALSE]

Init ==
    /\ phase = [f \in Future |-> "none"]
    /\ julia = [f \in Future |-> "none"]
    /\ state = [f \in Future |-> NewState]
    /\ refs = [f \in Future |-> 0]
    /\ context \in [Future -> Context]
    /\ due = [f \in Future |-> FALSE]

-----------------------------------------------------------------------------
(* The constructors: Arc::into_raw of a clone goes to the function that     *)
(* creates and schedules the task; from then on Julia may complete it.      *)
Call(f) ==
    /\ phase[f] = "none"
    /\ phase' = [phase EXCEPT ![f] = "calling"]
    /\ julia' = [julia EXCEPT ![f] = "scheduled"]
    /\ state' = [state EXCEPT ![f] = NewState]
    /\ refs' = [refs EXCEPT ![f] = 2]
    /\ UNCHANGED <<context, due>>

(* The function throws, the constructor panics: Julia's share is leaked.    *)
CallThrows(f) ==
    /\ phase[f] = "none"
    /\ phase' = [phase EXCEPT ![f] = "failed"]
    /\ refs' = [refs EXCEPT ![f] = 1]
    /\ UNCHANGED <<julia, state, context, due>>

(* The function returns the task, which is stored; the future is awaited.   *)
CallReturns(f) ==
    /\ phase[f] = "calling"
    /\ phase' = [phase EXCEPT ![f] = "pending"]
    /\ state' = [state EXCEPT ![f].task = TRUE]
    /\ due' = [due EXCEPT ![f] = TRUE]
    /\ UNCHANGED <<julia, refs, context>>

Ready(f) ==
    /\ phase' = [phase EXCEPT ![f] = "ready"]
    /\ refs' = [refs EXCEPT ![f] = @ - 1]
    /\ UNCHANGED state

(* Faulty variant: no waker is kept.                                        *)
PendForgetsWaker(f) == UNCHANGED <<state, phase, refs>>

(* Only the first waker is kept.                                            *)
Pend(f) ==
    /\ state' = [state EXCEPT ![f].waker = IF @ = NoWaker THEN context[f] ELSE @]
    /\ UNCHANGED <<phase, refs>>

Poll(f) ==
    /\ phase[f] = "pending"
    /\ due[f]
    /\ IF state[f].completed THEN Ready(f) ELSE Pend(f)
    /\ due' = [due EXCEPT ![f] = FALSE]
    /\ UNCHANGED <<julia, context>>

(* External: a waker makes its context poll every future it has not         *)
(* finished, whichever of them the waker was given to.                      *)
Wake(waker) ==
    due' = [f \in Future |->
              due[f] \/ (phase[f] = "pending" /\ context[f] = waker)]

(* Faulty variant: wake_task borrows the state and never drops its share.   *)
WakeTaskLeaks(f) ==
    /\ julia[f] = "scheduled"
    /\ julia' = [julia EXCEPT ![f] = "woken"]
    /\ state' = [state EXCEPT ![f].completed = TRUE, ![f].waker = NoWaker]
    /\ Wake(state[f].waker)
    /\ UNCHANGED <<phase, refs, context>>

(* Faulty variant: the waker is taken but not called.                       *)
WakeTaskSilently(f) ==
    /\ julia[f] = "scheduled"
    /\ julia' = [julia EXCEPT ![f] = "woken"]
    /\ state' = [state EXCEPT ![f].completed = TRUE, ![f].waker = NoWaker]
    /\ refs' = [refs EXCEPT ![f] = @ - 1]
    /\ UNCHANGED <<phase, context, due>>

(* Julia's task is done and calls wake_task, which owns Julia's share.      *)
WakeTask(f) ==
    /\ julia[f] = "scheduled"
    /\ julia' = [julia EXCEPT ![f] = "woken"]
    /\ state' = [state EXCEPT ![f].completed = TRUE, ![f].waker = NoWaker]
    /\ Wake(state[f].waker)
    /\ refs' = [refs EXCEPT ![f] = @ - 1]
    /\ UNCHANGED <<phase, context>>

(* External: a pending future is dropped with the task that awaits it, or   *)
(* handed to another context, which polls what it is handed.                *)
Drop(f) ==
    /\ phase[f] = "pending"
    /\ phase' = [phase EXCEPT ![f] = "dropped"]
    /\ refs' = [refs EXCEPT ![f] = @ - 1]
    /\ due' = [due EXCEPT ![f] = FALSE]
    /\ UNCHANGED <<julia, state, context>>

Move(f, c) ==
    /\ f \in Movable
    /\ phase[f] = "pending"
    /\ c # context[f]
    /\ context' = [context EXCEPT ![f] = c]
    /\ due' = [due EXCEPT ![f] = TRUE]
    /\ UNCHANGED <<phase, julia, state, refs>>

Settled(f) ==
    \/ phase[f] \in {"ready", "dropped"} /\ julia[f] = "woken"
    \/ phase[f] = "failed"

(* Every future is settled.                                                 *)
Done ==
    /\ \A f \in Future : Settled(f)
    /\ UNCHANGED vars

Next ==
    \/ \E f \in Future :
          \/ Call(f) \/ CallThrows(f) \/ CallReturns(f)
          \/ Poll(f) \/ WakeTask(f) \/ Drop(f)
          \/ \E c \in Context : Move(f, c)
    \/ Done

Spec == Init /\ [][Next]_vars

(* The thread that calls goes on, Julia's tasks finish, and executors poll. *)
FairSpec ==
    /\ Spec
    /\ \A f \in Future :
          /\ WF_vars(CallReturns(f))
          /\ WF_vars(WakeTask(f))
          /\ WF_vars(Poll(f))

-----------------------------------------------------------------------------
TypeOK ==
    /\ phase \in [Future ->
         {"none", "calling", "pending", "ready", "dropped", "failed"}]
    /\ julia \in [Future -> {"none", "scheduled", "woken"}]
    /\ state \in [Future -> [completed : BOOLEAN,
                             waker : Context \cup {NoWaker}, task : BOOLEAN]]
    /\ refs \in [Future -> 0..2]
    /\ context \in [Future -> Context]
    /\ due \in [Future -> BOOLEAN]

(* The shared state lives as long as the future or Julia may use it and no  *)
(* longer, in whatever order they finish; only a constructor that panics    *)
(* leaks it.                                                                *)
StateOutlivesUse ==
    \A f \in Future :
        /\ phase[f] \in {"calling", "pending"} \/ julia[f] = "scheduled"
              => refs[f] > 0
        /\ Settled(f) /\ phase[f] # "failed" => refs[f] = 0

(* "JuliaFuture is not created if task cannot be set" (future.rs:359): Julia*)
(* may complete a task before the constructor has stored it, but no poll    *)
(* sees that.                                                               *)
CompletedHasTask ==
    \A f \in Future : phase[f] = "pending" /\ state[f].completed => state[f].task

(* A future that Julia has completed will be polled, however the poll that  *)
(* found it pending and the call of wake_task were interleaved, if it stays *)
(* with its context.                                                        *)
NoLostWakeup ==
    \A f \in Future \ Movable :
        phase[f] = "pending" /\ state[f].completed => due[f]

Resolves(f) == phase[f] = "pending" ~> phase[f] # "pending"

(* Such a future resolves.                                                  *)
FutureResolves == \A f \in Future \ Movable : Resolves(f)

(* "a future that resolves when this task is finished" (call.rs:396):       *)
(* whoever polls it.                                                        *)
MovedFutureResolves == \A f \in Future : Resolves(f)

\* The state that a future shares with Julia lives exactly as long as it is
\* used, and holds the task by the time anyone wants its result.
FuturesOK == TypeOK /\ StateOutlivesUse /\ CompletedHasTask
=============================================================================
