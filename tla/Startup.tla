-------------------------------- MODULE Startup --------------------------------
(***************************************************************************)
(* How Julia is started, and jlrs in it: the sync runtime                  *)
(* (PendingJulia::init, PendingJulia::instance), the async runtime         *)
(* (run_async, run_inner) and what both and every library call,            *)
(* init_jlrs.  A process may hold several copies of jlrs, each with its    *)
(* own statics: the application's and one in each library Julia loads.     *)
(***************************************************************************)
EXTENDS Naturals

CONSTANTS
    SyncStarters,    \* the threads that start Julia with the sync runtime
    AsyncStarters,   \* and those that start it with the async runtime
    Copies,          \* the copies of jlrs
    App              \* the copy of the application

Starters == SyncStarters \cup AsyncStarters

ASSUME StartupAssumption ==
    /\ SyncStarters \cap AsyncStarters = {}
    /\ App \in Copies

VARIABLES
    julia,     \* "off", "on", or "exited" after jl_atexit_hook
    inits,     \* how often Julia was initialized in this process
    INIT,      \* the flag of the application's runtimes
    starter,   \* [Starters -> how far the start is]
    copy       \* [Copies -> init_jlrs: "fresh", "ready", or "broken" by a panic]

startupVars == <<julia, inits, INIT, starter, copy>>

\* "pending": Julia runs, jlrs is not set up (PendingJulia, run_async);
\* "ready": the user has a Julia<'_>, or the receive loop runs.
Stages == {"idle", "checked", "claimed", "pending", "ready", "refused", "notFound", "gone"}

\* A process of the julia executable, or of an application.
Hosts == {[julia |-> "on", inits |-> 1], [julia |-> "off", inits |-> 0]}
NoStarts == [s \in Starters |-> "idle"]
FreshCopies == [c \in Copies |-> "fresh"]

StartupInit ==
    /\ \E host \in Hosts : julia = host.julia /\ inits = host.inits
    /\ INIT = FALSE /\ starter = NoStarts /\ copy = FreshCopies

\* The process ends, or is killed, and another one starts.
NewProcess ==
    /\ \E host \in Hosts : julia' = host.julia /\ inits' = host.inits
    /\ INIT' = FALSE /\ starter' = NoStarts /\ copy' = FreshCopies

Become(s, stage) == starter' = [starter EXCEPT ![s] = stage]

\* Julia that has exited still counts as initialized.
Check(s) ==
    /\ starter[s] = "idle"
    /\ Become(s, IF julia = "off" THEN "checked" ELSE "refused")
    /\ UNCHANGED <<julia, inits, INIT, copy>>

\* INIT.swap(true).
Claim(s) ==
    /\ starter[s] = "checked"
    /\ Become(s, IF INIT THEN "refused" ELSE "claimed")
    /\ INIT' = TRUE
    /\ UNCHANGED <<julia, inits, copy>>

\* The paths of a custom image are checked after the flag is set.
NotFound(s) ==
    /\ starter[s] = "claimed"
    /\ Become(s, "notFound")
    /\ UNCHANGED <<julia, inits, INIT, copy>>

\* jl_init or jl_init_with_image.
Boot(s) ==
    /\ starter[s] = "claimed"
    /\ julia' = "on"
    /\ inits' = inits + 1
    /\ Become(s, "pending")
    /\ UNCHANGED <<INIT, copy>>

\* init_jlrs: IS_INIT lets one caller in; JlrsCore may fail to load, which panics with
\* IS_INIT set.
InitJlrs(c, result) ==
    /\ result \in (IF copy[c] = "fresh" THEN {"ready", "broken"} ELSE {copy[c]})
    /\ copy' = [copy EXCEPT ![c] = result]

\* Faulty variant: whoever finds IS_INIT set takes jlrs for initialized.
ActivateFlagged(s) ==
    /\ starter[s] = "pending"
    /\ \E result \in {"ready", "broken"} :
        /\ InitJlrs(App, result)
        /\ \/ (result = "ready" \/ copy[App] = "broken") /\ Become(s, "ready")
           \/ result = "broken" /\ s \in SyncStarters /\ Become(s, "pending")
           \/ s \in AsyncStarters /\ Become(s, "gone")
    /\ UNCHANGED <<julia, inits, INIT>>

\* PendingJulia::instance, run_inner: init_jlrs, and the stacks of the base frame,
\* which panics unless the type of stacks has been created.  A user may catch the
\* panic of a sync start and try again.  The thread of an async start ends when that
\* panics, and also when set_custom_fns then finds no JlrsThreads or no wakerust in it:
\* neither way does it call the exit hook, so that Julia stays on and INIT set.
Activate(s) ==
    /\ starter[s] = "pending"
    /\ \E result \in {"ready", "broken"} :
        /\ InitJlrs(App, result)
        /\ \/ result = "ready" /\ Become(s, "ready")
           \/ result = "broken" /\ s \in SyncStarters /\ Become(s, "pending")
           \/ s \in AsyncStarters /\ Become(s, "gone")
    /\ UNCHANGED <<julia, inits, INIT>>

\* The user drops the Julia<'_> of a sync start.
Deactivate(s) ==
    /\ s \in SyncStarters
    /\ starter[s] = "ready"
    /\ Become(s, "pending")
    /\ UNCHANGED <<julia, inits, INIT, copy>>

\* Drop of PendingJulia, the end of run_inner: jl_atexit_hook.
Exit(s) ==
    /\ starter[s] = IF s \in SyncStarters THEN "pending" ELSE "ready"
    /\ julia' = "exited"
    /\ Become(s, "gone")
    /\ UNCHANGED <<inits, INIT, copy>>

StarterStep(s) ==
    \/ Check(s) \/ Claim(s) \/ NotFound(s) \/ Boot(s)
    \/ Activate(s) \/ Deactivate(s) \/ Exit(s)

-----------------------------------------------------------------------------
(* Two threads of an application may start a runtime at once, sync or async, *)
(* and a start may come after another failed or exited: Julia is initialized *)
(* at most once in a process, and never by a process that is Julia's.        *)
StartedOnce == inits <= 1

\* A runtime the user can use runs in a Julia that has not exited, with everything
\* init_jlrs sets up, also when it is a second instance after a panic in the first.
ReadyIsUsable ==
    \A s \in Starters :
        starter[s] = "ready" => julia = "on" /\ copy[App] = "ready"
=============================================================================
