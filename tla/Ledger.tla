------------------------------- MODULE Ledger -------------------------------
(***************************************************************************)
(* The borrow ledger: what Rust code tracks of Julia's data and what it    *)
(* asks of the ledger (data/managed/value/mod.rs and value/tracked.rs,     *)
(* data/managed/array/mod.rs and array/tracked.rs, context/ledger.rs).     *)
(* The ledger itself is a library (JlrsLedger_jll) that counts borrows per *)
(* address; a guard is a Tracked, TrackedMut, TrackedArray or              *)
(* TrackedArrayMut that exists.  The ledger is not a lock: it refuses a    *)
(* borrow, nobody waits for one.                                           *)
(***************************************************************************)
EXTENDS Integers, FiniteSets

CONSTANTS
    Data,      \* Julia data
    Mutable,   \* the data whose type is mutable
    Arrays,    \* the data that are arrays
    Slots,     \* room for guards: at most Cardinality(Slots) exist at a time
    Owners,    \* who may own a guard
    NoGuard,
    MaxBorrows \* bound: the ledger counts at most this many shared borrows

ASSUME LedgerAssumption ==
    /\ Arrays \subseteq Mutable
    /\ Mutable \subseteq Data
    /\ IsFiniteSet(Slots)
    /\ MaxBorrows \in Nat

VARIABLES
    shared,     \* [Data -> the shared borrows the ledger counts]
    exclusive,  \* [Data -> whether the ledger has an exclusive borrow]
    guard       \* [Slots -> the guard, or NoGuard]

ledgerVars == <<shared, exclusive, guard>>

\* forked: a clone of an exclusive guard, or a clone of such a clone.
Guard == [data : Data, kind : {"shared", "exclusive"}, owner : Owners,
          typed : BOOLEAN, forked : BOOLEAN]

ASSUME NoGuardAssumption == NoGuard \notin Guard

LedgerInit ==
    /\ shared = [d \in Data |-> 0]
    /\ exclusive = [d \in Data |-> FALSE]
    /\ guard = [s \in Slots |-> NoGuard]

Live == {s \in Slots : guard[s] # NoGuard}
GuardsOf(o) == {s \in Live : guard[s].owner = o}

NewGuard(s, o, d, kind) ==
    /\ guard[s] = NoGuard
    /\ guard' = [guard EXCEPT ![s] =
          [data |-> d, kind |-> kind, owner |-> o, typed |-> FALSE, forked |-> FALSE]]

Count(d, n) == shared' = [shared EXCEPT ![d] = @ + n]

\* track_shared: data that cannot be borrowed exclusively is not recorded.
TrackShared(s, o, d) ==
    /\ d \in Mutable => ~exclusive[d]
    /\ NewGuard(s, o, d, "shared")
    /\ IF d \in Mutable THEN Count(d, 1) ELSE UNCHANGED shared
    /\ UNCHANGED exclusive

\* track_shared_unbound records a borrow of immutable data too, which nothing
\* ever takes back.
TrackSharedUnbound(s, o, d) ==
    /\ ~exclusive[d]
    /\ shared[d] < MaxBorrows
    /\ NewGuard(s, o, d, "shared")
    /\ Count(d, 1)
    /\ UNCHANGED exclusive

\* Faulty variant: shared borrows do not keep an exclusive one out.
TrackExclusiveOverShared(s, o, d) ==
    /\ d \in Mutable
    /\ ~exclusive[d]
    /\ NewGuard(s, o, d, "exclusive")
    /\ exclusive' = [exclusive EXCEPT ![d] = TRUE]
    /\ UNCHANGED shared

TrackExclusive(s, o, d) ==
    /\ d \in Mutable
    /\ ~exclusive[d] /\ shared[d] = 0
    /\ NewGuard(s, o, d, "exclusive")
    /\ exclusive' = [exclusive EXCEPT ![d] = TRUE]
    /\ UNCHANGED shared

\* TrackedArray::clone borrows without asking.  A TrackedArrayMut derefs to
\* the TrackedArray inside it, and is cloned as one.
CloneArray(s, r) ==
    /\ s \in Live
    /\ guard[s].data \in Arrays
    /\ guard[r] = NoGuard
    /\ guard' = [guard EXCEPT ![r] =
          [guard[s] EXCEPT !.kind = "shared",
                           !.forked = @ \/ guard[s].kind = "exclusive"]]
    /\ Count(guard[s].data, 1)
    /\ UNCHANGED exclusive

\* try_as_typed and as_typed_unchecked make a new guard of the old one and
\* forget the old one; a conversion that fails drops it.
AsTyped(s) ==
    /\ s \in Live
    /\ guard[s].data \in Arrays
    /\ guard[s].kind = "shared" /\ ~guard[s].typed
    /\ guard' = [guard EXCEPT ![s].typed = TRUE]
    /\ UNCHANGED <<shared, exclusive>>

\* The guards of S are dropped: only those of mutable data end a borrow.
DropGuards(S) ==
    LET Ends(d, kind) == {s \in S : guard[s].data = d /\ guard[s].kind = kind}
    IN  /\ guard' = [s \in Slots |-> IF s \in S THEN NoGuard ELSE guard[s]]
        /\ shared' = [d \in Data |->
              IF d \in Mutable THEN shared[d] - Cardinality(Ends(d, "shared"))
              ELSE shared[d]]
        /\ exclusive' = [d \in Data |-> exclusive[d] /\ Ends(d, "exclusive") = {}]

----------------------------------------------------------------------------
LedgerTypeOK ==
    /\ shared \in [Data -> Nat]
    /\ exclusive \in [Data -> BOOLEAN]
    /\ guard \in [Slots -> Guard \cup {NoGuard}]

\* "The ledger contains a list of all active borrows" (value/mod.rs:604): the
\* ledger agrees with the guards that exist, so the unwrap in the Drop impls
\* never panics and data nobody tracks can be borrowed again.
LedgerExact ==
    \A d \in Mutable :
        /\ shared[d] = Cardinality({s \in Live : guard[s].data = d
                                                 /\ guard[s].kind = "shared"})
        /\ exclusive[d] <=> \E s \in Live : guard[s].data = d
                                            /\ guard[s].kind = "exclusive"

\* Data that is tracked exclusively is not tracked otherwise, except by clones
\* that were made of the exclusive guard.
NoAliasedBorrow ==
    \A s, r \in Live :
        s # r /\ guard[s].kind = "exclusive" /\ guard[r].data = guard[s].data
            => guard[r].kind = "shared" /\ guard[r].forked

\* "While an array is exclusively tracked, it can't be tracked otherwise"
\* (array/mod.rs:635).
ExclusiveIsAlone ==
    \A s, r \in Live :
        guard[s].kind = "exclusive" /\ guard[r].data = guard[s].data => r = s
=============================================================================
