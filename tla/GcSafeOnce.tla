----------------------------- MODULE GcSafeOnce ----------------------------
(***************************************************************************)
(* GcSafeOnceLock (gc_safe/once_lock.rs): a once_cell that is waited for in *)
(* a GC-safe state and initialized in an unsafe one.                        *)
(***************************************************************************)
EXTENDS GcThreads

CONSTANTS
    Fallible,         \* is get_or_try_init used?
    Catchers          \* bound: threads in which a caught panic may leave a wrong state

ASSUME OnceAssumption ==
    /\ Fallible \in BOOLEAN
    /\ Catchers \subseteq Thread

VARIABLES
    cell,             \* "empty", "busy" while it is initialized, or "full"
    torn              \* history: the depths of calls at which the code runs in
                      \* the wrong state that a panic left

cellVars == <<threadVars, cell>>
onceVars == <<cellVars, torn>>

OnceInit ==
    /\ GcInit
    /\ cell = "empty"
    /\ torn = [t \in Thread |-> {}]

-----------------------------------------------------------------------------
Within(t, kinds) == \E i \in 1..Len(calls[t]) : calls[t][i].kind \in kinds

(* The user's code calls a method of the cell; code that initializes the    *)
(* cell does not.                                                           *)
MayUseCell(t) ==
    /\ Running(t)
    /\ ~Within(t, {"init"})
    /\ Len(calls[t]) < MaxDepth

Goto(t, place) == pc' = [pc EXCEPT ![t] = place]

(* wait returns when the cell is full.                                      *)
Wait(t) ==
    /\ MayUseCell(t)
    /\ jlrs_gc_safe_enter(t, "cell")
    /\ Goto(t, "wait")
    /\ UNCHANGED cell

WaitOver(t) ==
    /\ pc[t] = "wait"
    /\ cell = "full"
    /\ Goto(t, "leave")
    /\ UNCHANGED <<gcVars, calls, cell>>

(* set and try_insert fill the cell unless somebody else does; try_insert   *)
(* waits in the state the thread is in.                                     *)
Set(t) ==
    /\ MayUseCell(t)
    /\ jlrs_gc_safe_enter(t, "cell")
    /\ Goto(t, "set")
    /\ UNCHANGED cell

SetOver(t) ==
    /\ pc[t] = "set"
    /\ cell # "busy"
    /\ cell' = "full"
    /\ Goto(t, "leave")
    /\ UNCHANGED <<gcVars, calls>>

TryInsert(t) ==
    /\ MayUseCell(t)
    /\ Goto(t, "insert")
    /\ UNCHANGED <<gcVars, calls, cell>>

TryInsertOver(t) ==
    /\ pc[t] = "insert"
    /\ cell # "busy"
    /\ cell' = "full"
    /\ Goto(t, "user")
    /\ UNCHANGED <<gcVars, calls>>

(* Faulty variant: the cell is awaited in whatever state the thread is in.  *)
GetOrInitUnguarded(t) ==
    /\ MayUseCell(t)
    /\ cell # "full"
    /\ Push(t, "cell")
    /\ Goto(t, "init")
    /\ UNCHANGED <<gcVars, cell>>

(* get_or_init and get_or_try_init; a full cell is returned at once.        *)
GetOrInit(t) ==
    /\ MayUseCell(t)
    /\ cell # "full"
    /\ jlrs_gc_safe_enter(t, "cell")
    /\ Goto(t, "init")
    /\ UNCHANGED cell

GetOrTryInit(t) ==
    /\ Fallible
    /\ MayUseCell(t)
    /\ cell # "full"
    /\ jlrs_gc_safe_enter(t, "try_cell")
    /\ Goto(t, "init")
    /\ UNCHANGED cell

Finish(t) == Goto(t, "leave")

FoundFull(t) ==
    /\ pc[t] = "init"
    /\ cell = "full"
    /\ Finish(t)
    /\ UNCHANGED <<gcVars, calls, cell>>

(* once_cell lets one thread call the closure, which first becomes unsafe.  *)
StartInit(t) ==
    /\ pc[t] = "init"
    /\ cell = "empty"
    /\ cell' = "busy"
    /\ Goto(t, "start")
    /\ UNCHANGED <<gcVars, calls>>

(* Faulty variant: the initializer is called in the safe state.             *)
CallInitStaysSafe(t) ==
    /\ pc[t] = "start"
    /\ Push(t, "init")
    /\ Goto(t, "user")
    /\ UNCHANGED <<gcVars, cell>>

CallInit(t) ==
    /\ pc[t] = "start"
    /\ jlrs_gc_unsafe_enter(t, "init")
    /\ Goto(t, "user")
    /\ UNCHANGED cell

InitReturns(t) ==
    /\ Running(t)
    /\ InCall(t, "init")
    /\ jlrs_gc_unsafe_leave(t)
    /\ cell' = "full"
    /\ Finish(t)

InitFails(t) ==
    /\ Running(t)
    /\ InCall(t, "init")
    /\ Within(t, {"try_cell"})
    /\ jlrs_gc_unsafe_leave(t)
    /\ cell' = "empty"
    /\ Finish(t)

Leave(t) ==
    /\ pc[t] = "leave"
    /\ InCall(t, "cell")
    /\ jlrs_gc_safe_leave(t)
    /\ Goto(t, "user")
    /\ UNCHANGED cell

(* get_or_try_init leaves the safe state with gc_unsafe_leave.              *)
TryLeave(t) ==
    /\ pc[t] = "leave"
    /\ InCall(t, "try_cell")
    /\ jlrs_gc_unsafe_leave(t)
    /\ Goto(t, "user")
    /\ UNCHANGED cell

(* A panic is caught by the code that called the last n closures; no        *)
(* closure sets the state back, and once_cell empties the cell.  That code  *)
(* is left in a wrong state if either it or the code that panics, but not   *)
(* both, was called by gc_safe, or if the latter is in a wrong state too.   *)
Torn(t) == Len(calls[t]) \in torn[t]
Tears(t, n) ==
    \/ Torn(t)
    \/ InCall(t, "gc_safe") # (n > 0 /\ calls[t][n].kind = "gc_safe")

Panic(t, n) ==
    /\ Running(t)
    /\ Tears(t, n) => t \in Catchers
    /\ n > 0 => calls[t][n].kind \notin {"cell", "try_cell"}
    /\ calls' = [calls EXCEPT ![t] = SubSeq(@, 1, n)]
    /\ cell' = IF \E i \in n+1..Len(calls[t]) : calls[t][i].kind = "init"
               THEN "empty" ELSE cell
    /\ torn' = [torn EXCEPT ![t] =
                  {d \in @ : d < n} \cup (IF Tears(t, n) THEN {n} ELSE {})]
    /\ UNCHANGED <<gcVars, pc>>

(* Code that has returned is not torn any more: what it returned to is set  *)
(* back to the state it was left in.                                        *)
Mends == torn' = [t \in Thread |-> {d \in torn[t] : d <= Len(calls'[t])}]

CellStep(t) ==
    \/ Wait(t) \/ WaitOver(t)
    \/ Set(t) \/ SetOver(t)
    \/ TryInsert(t) \/ TryInsertOver(t)
    \/ GetOrInit(t) \/ GetOrTryInit(t) \/ FoundFull(t)
    \/ StartInit(t) \/ CallInit(t) \/ InitReturns(t) \/ InitFails(t)
    \/ Leave(t) \/ TryLeave(t)

OnceNext ==
    \/ \E t \in Thread : CellStep(t) /\ Mends
    \/ \E t \in Thread : ClosureStep(t) /\ UNCHANGED cell /\ Mends
    \/ \E t \in Thread : \E n \in 0..Len(calls[t]) - 1 : Panic(t, n)
    \/ CollectorStep /\ UNCHANGED <<cell, torn>>

OnceSpec == OnceInit /\ [][OnceNext]_onceVars

(* Initializers return, a thread that may continue does so, and one that    *)
(* was woken does not lose the race for the cell forever.                   *)
OnceFairSpec ==
    /\ OnceSpec
    /\ CollectorFairness
    /\ \A t \in Thread :
          /\ SF_cellVars(SetOver(t) \/ FoundFull(t) \/ StartInit(t))
          /\ WF_cellVars(CallInit(t))
          /\ WF_cellVars(Leave(t) \/ TryLeave(t))
          /\ SF_cellVars(InitReturns(t) \/ InitFails(t))

-----------------------------------------------------------------------------
OnceTypeOK ==
    /\ GcTypeOK
    /\ pc \in [Thread ->
                 {"user", "wait", "set", "insert", "init", "start", "leave"}]
    /\ cell \in {"empty", "busy", "full"}
    /\ torn \in [Thread -> SUBSET Nat]
    /\ \A t \in Thread : torn[t] \subseteq 0..Len(calls[t])

(* A thread that wait, set, get_or_init or get_or_try_init blocks is in a   *)
(* GC-safe state (gc_safe/mod.rs:8).                                        *)
WaitsAreSafe ==
    \A t \in Thread : pc[t] \in {"wait", "set", "init"} => gcState[t] = "safe"

(* Code is in a safe state exactly when gc_safe called it: initializers run *)
(* unsafe, also in gc_safe, and each call returns to "the previous GC       *)
(* state" (memory/gc.rs:263).  A caught panic does not change that, unless  *)
(* it left or entered code that gc_safe called, and then only until the     *)
(* code that caught it returns.                                             *)
StateKept ==
    \A t \in Thread :
        pc[t] = "user" /\ ~Torn(t) => (gcState[t] = "safe" <=> InCall(t, "gc_safe"))

(* No collection can stop a thread that try_insert blocks in an unsafe      *)
(* state, nor code in gc_safe that a panic left in one.                     *)
StuckAtCell(t) ==
    /\ gcState[t] = "unsafe"
    /\ pc[t] = "insert" \/ (Torn(t) /\ InCall(t, "gc_safe"))

(* A collection that was asked for takes place: no thread keeps it waiting  *)
(* because it waits for the cell, unless it is stuck.                       *)
OnceCollectionStarts ==
    gc = "stopping" ~> gc = "marking" \/ \E t \in Thread : StuckAtCell(t)

(* Whoever sets or initializes the cell gets an answer, although others may *)
(* initialize it, fail, panic and be stopped by collections meanwhile,      *)
(* unless a thread is stuck.                                                *)
CellAnswers ==
    \A t \in Thread :
        pc[t] \in {"set", "init"} ~> pc[t] = "user" \/ \E u \in Thread : StuckAtCell(u)

\* The threads and the cell: gc_safe, gc_unsafe, initializers and the methods of
\* the cell leave the state they found, and nobody who waits for the cell is
\* unsafe, whoever fails, panics or catches a panic in any nesting of them.
OnceOK == OnceTypeOK /\ StateKept /\ WaitsAreSafe

\* Neither the collector nor a user of the cell waits in vain.
OnceProgress == OnceCollectionStarts /\ CellAnswers
=============================================================================
