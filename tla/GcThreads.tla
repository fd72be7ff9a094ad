----------------------------- MODULE GcThreads -----------------------------
(***************************************************************************)
(* Threads that can call into Julia and the collector that stops them.      *)
(*                                                                         *)
(* A thread is in a GC-unsafe state while it may touch Julia data and in a  *)
(* GC-safe state while it promises not to (memory/gc.rs).  A collection     *)
(* waits until no thread is unsafe.  The collector and the calls that       *)
(* change the state of a thread belong to Julia; they are modelled as       *)
(* julia_threads.h and safepoint.c define them: a thread that leaves a      *)
(* safe state waits until the collection is over, but only if the call that *)
(* makes it leave is told that the state was safe.                          *)
(***************************************************************************)
EXTENDS Naturals, Sequences

CONSTANTS
    Thread,           \* threads known to Julia
    MaxDepth,         \* bound: closures and primitives nested in a thread
    MaxCollections    \* bound: collections started

ASSUME GcThreadsAssumption ==
    /\ MaxDepth \in Nat
    /\ MaxCollections \in Nat

VARIABLES
    gcState,        \* ptls->gc_state of every thread
    gc,             \* "idle", "stopping" the world, or "marking"
    collections,    \* how many collections were started
    calls,          \* the state each nested closure or primitive returns to
    pc              \* "user" code, or where in a primitive the thread is

gcVars == <<gcState, gc, collections>>
threadVars == <<gcState, gc, collections, calls, pc>>

States == {"unsafe", "safe", "waiting"}
Kinds == {"gc_safe", "gc_unsafe", "lock", "cell", "try_cell", "init"}

GcInit ==
    /\ gcState = [t \in Thread |-> "unsafe"]
    /\ gc = "idle"
    /\ collections = 0
    /\ calls = [t \in Thread |-> <<>>]
    /\ pc = [t \in Thread |-> "user"]

-----------------------------------------------------------------------------
(* The call a thread returns to first. *)
Innermost(t) == calls[t][Len(calls[t])]
InCall(t, kind) == calls[t] # <<>> /\ Innermost(t).kind = kind

(* The thread runs the user's code and is not stopped at a safepoint. *)
Running(t) == pc[t] = "user" /\ gcState[t] # "waiting"

(* The user's code may call into Julia unless gc_safe called it. *)
MayCallJulia(t) == pc[t] = "user" /\ ~InCall(t, "gc_safe")

(* External: jl_gc_state_set.  Only a thread that says it was safe waits.   *)
SetGcState(t, new, old) ==
    /\ old = "safe" /\ new = "unsafe" => gc = "idle"
    /\ gcState' = [gcState EXCEPT ![t] = new]
    /\ UNCHANGED <<gc, collections>>

Push(t, kind) ==
    calls' = [calls EXCEPT ![t] = Append(@, [kind |-> kind, state |-> gcState[t]])]
Pop(t) ==
    calls' = [calls EXCEPT ![t] = SubSeq(@, 1, Len(@) - 1)]

jlrs_gc_safe_enter(t, kind) ==
    Push(t, kind) /\ SetGcState(t, "safe", gcState[t])

jlrs_gc_unsafe_enter(t, kind) ==
    Push(t, kind) /\ SetGcState(t, "unsafe", gcState[t])

(* Faulty variant: the state is not set back to what it was, but to unsafe. *)
LeaveToUnsafe(t) ==
    Pop(t) /\ SetGcState(t, "unsafe", "safe")

(* Faulty variant: the leave does not say that the state was safe.          *)
LeaveWithoutWaiting(t) ==
    Pop(t) /\ SetGcState(t, Innermost(t).state, "unsafe")

jlrs_gc_safe_leave(t) ==
    Pop(t) /\ SetGcState(t, Innermost(t).state, "safe")

jlrs_gc_unsafe_leave(t) ==
    Pop(t) /\ SetGcState(t, Innermost(t).state, "unsafe")

-----------------------------------------------------------------------------
(* memory/gc.rs: a closure called in a safe state, and one called in an     *)
(* unsafe state from it.                                                    *)
GcSafe(t) ==
    /\ Running(t)
    /\ Len(calls[t]) < MaxDepth
    /\ jlrs_gc_safe_enter(t, "gc_safe")
    /\ UNCHANGED pc

GcSafeReturns(t) ==
    /\ Running(t)
    /\ InCall(t, "gc_safe")
    /\ jlrs_gc_safe_leave(t)
    /\ UNCHANGED pc

GcUnsafe(t) ==
    /\ Running(t)
    /\ Len(calls[t]) < MaxDepth
    /\ jlrs_gc_unsafe_enter(t, "gc_unsafe")
    /\ UNCHANGED pc

GcUnsafeReturns(t) ==
    /\ Running(t)
    /\ InCall(t, "gc_unsafe")
    /\ jlrs_gc_unsafe_leave(t)
    /\ UNCHANGED pc

-----------------------------------------------------------------------------
(* External: the collector.  A thread that allocates starts a collection;   *)
(* unsafe threads stop at their next safepoint, which code in gc_safe only  *)
(* reaches when it returns; when no thread is unsafe the heap is marked and *)
(* swept, after which the stopped threads continue.                         *)
Collect(t) ==
    /\ Running(t)
    /\ MayCallJulia(t)
    /\ gcState[t] = "unsafe"
    /\ gc = "idle"
    /\ collections < MaxCollections
    /\ gc' = "stopping"
    /\ collections' = collections + 1
    /\ gcState' = [gcState EXCEPT ![t] = "waiting"]
    /\ UNCHANGED <<calls, pc>>

Safepoint(t) ==
    /\ Running(t)
    /\ gcState[t] = "unsafe"
    /\ gc # "idle"
    /\ gcState' = [gcState EXCEPT ![t] = "waiting"]
    /\ UNCHANGED <<gc, collections, calls, pc>>

Mark ==
    /\ gc = "stopping"
    /\ \A t \in Thread : gcState[t] # "unsafe"
    /\ gc' = "marking"
    /\ UNCHANGED <<gcState, collections, calls, pc>>

Resume ==
    /\ gc = "marking"
    /\ gc' = "idle"
    /\ gcState' = [t \in Thread |->
                     IF gcState[t] = "waiting" THEN "unsafe" ELSE gcState[t]]
    /\ UNCHANGED <<collections, calls, pc>>

ClosureStep(t) ==
    GcSafe(t) \/ GcSafeReturns(t) \/ GcUnsafe(t) \/ GcUnsafeReturns(t)

CollectorStep ==
    \/ \E t \in Thread : Collect(t) \/ Safepoint(t)
    \/ Mark
    \/ Resume

-----------------------------------------------------------------------------
GcTypeOK ==
    /\ gcState \in [Thread -> States]
    /\ gc \in {"idle", "stopping", "marking"}
    /\ collections \in 0..MaxCollections
    /\ calls \in [Thread -> Seq([kind : Kinds, state : {"unsafe", "safe"}])]

(* While the heap is marked no thread is in a state in which it may touch   *)
(* Julia data, whatever it was blocked in when the collection started.      *)
StopTheWorld ==
    gc = "marking" => \A t \in Thread : gcState[t] # "unsafe"

(* User code is in a safe state exactly when gc_safe is the innermost call  *)
(* that changed it: "return to the previous GC state" (memory/gc.rs:263).   *)
StateRestored ==
    \A t \in Thread :
        pc[t] = "user" => (gcState[t] = "safe" <=> InCall(t, "gc_safe"))

(* Code that may call into Julia does so again and again, even if it takes  *)
(* and retries locks in between, and the collector runs.                    *)
CollectorFairness ==
    /\ \A t \in Thread : SF_threadVars(MayCallJulia(t) /\ Safepoint(t))
    /\ WF_threadVars(Mark)
    /\ WF_threadVars(Resume)
=============================================================================
