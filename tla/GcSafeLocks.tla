---------------------------- MODULE GcSafeLocks ----------------------------
(***************************************************************************)
(* RawGcSafeMutex, RawGcSafeFairMutex and RawGcSafeRwLock (gc_safe):       *)
(* parking_lot's raw locks, entered through a GC-safe state when they are   *)
(* not free.  The three have one shape, so one lock is modelled: a mutex is *)
(* a lock that is only taken exclusively.                                   *)
(***************************************************************************)
EXTENDS GcThreads

CONSTANT
    Modes            \* how the lock is taken: a mutex has only "exclusive"

ASSUME LockAssumption ==
    /\ Modes \subseteq {"shared", "upgradable", "exclusive"}
    /\ "upgradable" \in Modes => "exclusive" \in Modes

VARIABLES
    holds,   \* how a thread holds the lock
    want     \* how a blocked thread will hold it

lockVars == <<holds, want>>
vars == <<threadVars, lockVars>>

Grants == Modes \cup {"none"}

LockInit ==
    /\ GcInit
    /\ holds = [t \in Thread |-> "none"]
    /\ want = [t \in Thread |-> "none"]

-----------------------------------------------------------------------------
(* External: parking_lot.  Readers share the lock with one thread that may  *)
(* upgrade, until that thread starts to wait for them.                      *)
Parked(t) == pc[t] \in {"blocked", "unguarded", "timed"}
Upgrading(t) == Parked(t) /\ holds[t] = "upgradable"

Compatible(mode, other) ==
    \/ other = "none"
    \/ mode = "shared" /\ other # "exclusive"
    \/ mode = "upgradable" /\ other = "shared"

Available(t, mode) ==
    \A u \in Thread \ {t} :
        /\ Compatible(mode, holds[u])
        /\ mode = "shared" => ~Upgrading(u)

(* The thread parks in parking_lot until it is granted the lock, or until   *)
(* the time it was given is over.                                           *)
Park(t, mode, how) ==
    /\ pc' = [pc EXCEPT ![t] = how]
    /\ want' = [want EXCEPT ![t] = mode]

TryLock(t, mode) ==
    /\ Running(t)
    /\ holds[t] = "none"
    /\ Available(t, mode)
    /\ holds' = [holds EXCEPT ![t] = mode]
    /\ UNCHANGED <<threadVars, want>>

(* Faulty variant: the lock is awaited in whatever state the thread is in.  *)
LockSlowUnguarded(t, mode) ==
    /\ Running(t)
    /\ holds[t] = "none"
    /\ ~Available(t, mode)
    /\ Park(t, mode, "blocked")
    /\ UNCHANGED <<gcVars, calls, holds>>

(* lock, lock_shared, lock_exclusive and lock_upgradable after try_lock     *)
(* failed.                                                                  *)
LockSlow(t, mode) ==
    /\ Running(t)
    /\ holds[t] = "none"
    /\ ~Available(t, mode)
    /\ jlrs_gc_safe_enter(t, "lock")
    /\ Park(t, mode, "blocked")
    /\ UNCHANGED holds

(* Faulty variant: an upgrade waits for the readers in an unsafe state.     *)
UpgradeUnguarded(t) ==
    /\ Running(t)
    /\ holds[t] = "upgradable"
    /\ \/ /\ Available(t, "exclusive")
          /\ holds' = [holds EXCEPT ![t] = "exclusive"]
          /\ UNCHANGED <<threadVars, want>>
       \/ /\ ~Available(t, "exclusive")
          /\ Park(t, "exclusive", "blocked")
          /\ UNCHANGED <<gcVars, calls, holds>>

Upgrade(t) ==
    /\ Running(t)
    /\ holds[t] = "upgradable"
    /\ \/ /\ Available(t, "exclusive")
          /\ holds' = [holds EXCEPT ![t] = "exclusive"]
          /\ UNCHANGED <<threadVars, want>>
       \/ /\ ~Available(t, "exclusive")
          /\ jlrs_gc_safe_enter(t, "lock")
          /\ Park(t, "exclusive", "blocked")
          /\ UNCHANGED holds

(* The parked thread is granted the lock.                                   *)
Granted(t) ==
    /\ Parked(t)
    /\ Available(t, want[t])
    /\ holds' = [holds EXCEPT ![t] = want[t]]
    /\ want' = [want EXCEPT ![t] = "none"]
    /\ pc' = [pc EXCEPT ![t] = IF InCall(t, "lock") THEN "leaving" ELSE "user"]
    /\ UNCHANGED <<gcVars, calls>>

(* It holds the lock while it waits for a collection to end.                *)
LeaveLock(t) ==
    /\ pc[t] = "leaving"
    /\ jlrs_gc_safe_leave(t)
    /\ pc' = [pc EXCEPT ![t] = "user"]
    /\ UNCHANGED lockVars

Unlock(t) ==
    /\ Running(t)
    /\ holds[t] # "none"
    /\ holds' = [holds EXCEPT ![t] = "none"]
    /\ UNCHANGED <<threadVars, want>>

Downgrade(t, mode) ==
    /\ Running(t)
    /\ <<holds[t], mode>> \in {<<"exclusive", "shared">>,
                               <<"exclusive", "upgradable">>,
                               <<"upgradable", "shared">>}
    /\ holds' = [holds EXCEPT ![t] = mode]
    /\ UNCHANGED <<threadVars, want>>

(* lock_shared_recursive and the timed methods park in the state the thread *)
(* is in; the timed ones may give up.                                       *)
LockSharedRecursive(t) ==
    /\ "shared" \in Modes
    /\ Running(t)
    /\ holds[t] = "none"
    /\ ~Available(t, "shared")
    /\ Park(t, "shared", "unguarded")
    /\ UNCHANGED <<gcVars, calls, holds>>

TryLockFor(t, mode) ==
    /\ Running(t)
    /\ holds[t] = "none" \/ <<holds[t], mode>> = <<"upgradable", "exclusive">>
    /\ ~Available(t, mode)
    /\ Park(t, mode, "timed")
    /\ UNCHANGED <<gcVars, calls, holds>>

GiveUp(t) ==
    /\ pc[t] = "timed"
    /\ want' = [want EXCEPT ![t] = "none"]
    /\ pc' = [pc EXCEPT ![t] = "user"]
    /\ UNCHANGED <<gcVars, calls, holds>>

(* bump hands the lock to a parked thread and waits to get it back, in the  *)
(* state the thread is in.                                                  *)
Bump(t) ==
    /\ Running(t)
    /\ holds[t] # "none"
    /\ \E u \in Thread \ {t} : Parked(u)
    /\ Park(t, holds[t], "unguarded")
    /\ holds' = [holds EXCEPT ![t] = "none"]
    /\ UNCHANGED <<gcVars, calls>>

LockStep(t) ==
    \/ \E mode \in Modes :
           \/ TryLock(t, mode)
           \/ LockSlow(t, mode)
           \/ Downgrade(t, mode)
           \/ TryLockFor(t, mode)
    \/ Upgrade(t)
    \/ Granted(t)
    \/ LeaveLock(t)
    \/ Unlock(t)
    \/ LockSharedRecursive(t)
    \/ GiveUp(t)
    \/ Bump(t)

Next ==
    \/ \E t \in Thread : LockStep(t)
    \/ \E t \in Thread : ClosureStep(t) /\ UNCHANGED lockVars
    \/ CollectorStep /\ UNCHANGED lockVars

Spec == LockInit /\ [][Next]_vars

(* parking_lot is eventually fair, critical sections and timeouts end, and  *)
(* a thread that may continue does so.                                      *)
FairSpec ==
    /\ Spec
    /\ CollectorFairness
    /\ \A t \in Thread :
          /\ SF_vars(Granted(t))
          /\ WF_vars(LeaveLock(t))
          /\ WF_vars(GiveUp(t))
          /\ SF_vars(Unlock(t))

-----------------------------------------------------------------------------
(* The variables have their types, and exactly the parked threads want the  *)
(* lock.                                                                    *)
LockTypeOK ==
    /\ GcTypeOK
    /\ pc \in [Thread -> {"user", "blocked", "unguarded", "timed", "leaving"}]
    /\ holds \in [Thread -> Grants]
    /\ want \in [Thread -> Grants]
    /\ \A t \in Thread : Parked(t) <=> want[t] # "none"

(* A thread that is blocked by a method that takes or upgrades the lock is  *)
(* "in a GC-safe state while it is blocked" (gc_safe/mod.rs:8), even if it  *)
(* holds the lock for reading meanwhile.                                    *)
BlockedIsSafe ==
    \A t \in Thread : pc[t] = "blocked" => gcState[t] = "safe"

(* The methods that wait unguarded may leave a thread where no collection   *)
(* can stop it.                                                             *)
Stuck(t) == pc[t] = "unguarded" /\ gcState[t] = "unsafe"

(* A collection that was asked for takes place: no thread keeps it waiting  *)
(* because it waits for the lock itself, unless it is stuck.                *)
CollectionStarts ==
    gc = "stopping" ~> gc = "marking" \/ \E t \in Thread : Stuck(t)

(* A thread that waits for the lock continues, although threads that hold   *)
(* it are stopped by collections in the meantime, unless one is stuck.      *)
LockIsGranted ==
    \A t \in Thread :
        Parked(t) ~> pc[t] = "user" \/ \E u \in Thread : Stuck(u)

\* The threads and the lock: each lock operation leaves the state it entered,
\* through any nesting of gc_safe and gc_unsafe and however it ends.
LocksOK == LockTypeOK /\ StateRestored
=============================================================================
