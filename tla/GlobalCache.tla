----------------------------- MODULE GlobalCache -----------------------------
(***************************************************************************)
(* The cache of a library's lookups of Julia's globals                     *)
(* (Module::typed_global_cached, data/managed/module.rs): a map behind a   *)
(* GcSafeRwLock from the path of a global to its value and to the type it  *)
(* was requested with.  The caches of symbols and of constructed types are *)
(* read, missed and filled in the same steps, without a type to compare.   *)
(***************************************************************************)
EXTENDS Naturals, FiniteSets

CONSTANTS
    Lookers,   \* the threads that look globals up
    Paths,     \* the globals
    Types,     \* the types they are requested as
    Valid,     \* the types that are types of the globals, e.g. Value and Function
    MayNest,   \* the lookers on which displaying a value runs code that looks up globals
    NoType, NoPath

ASSUME CacheAssumption ==
    /\ Valid \subseteq Types
    /\ NoType \notin Types
    /\ NoPath \notin Paths
    /\ MayNest \subseteq Lookers

VARIABLES
    entry,     \* [Paths -> the type the global is cached with, or NoType]
    look,      \* [Lookers -> the lookup: where it is, the global, the type]
    inner,     \* [Lookers -> the lookup inside a display: where it is, the global]
    answer     \* [Lookers -> what the last lookup returned]

cacheVars == <<entry, look, inner, answer>>

\* "read", "write": waits for the lock; "fetch": looks the global up in Julia;
\* "display": holds the lock for reading and calls Julia.
Idle == [at |-> "idle", path |-> NoPath, type |-> NoType]
NoInner == [at |-> "idle", path |-> NoPath]

CacheInit ==
    /\ entry = [p \in Paths |-> NoType]
    /\ look = [t \in Lookers |-> Idle]
    /\ inner = [t \in Lookers |-> NoInner]
    /\ answer = [t \in Lookers |-> "none"]

Readers == {t \in Lookers : look[t].at = "display"}

\* A waiting writer keeps new readers out, also those that read already.
WriterWaits == \E t \in Lookers : look[t].at = "write" \/ inner[t].at = "write"

Return(t, a) ==
    /\ look' = [look EXCEPT ![t] = Idle]
    /\ answer' = [answer EXCEPT ![t] = a]

Ask(t, p, T) ==
    /\ look[t].at = "idle"
    /\ look' = [look EXCEPT ![t] = [at |-> "read", path |-> p, type |-> T]]
    /\ UNCHANGED <<entry, inner, answer>>

\* Faulty variant: the type of the request is not compared.
ReadUnchecked(t) ==
    LET hit == entry[look[t].path]
    IN  /\ look[t].at = "read"
        /\ ~WriterWaits
        /\ \/ hit # NoType /\ Return(t, look[t].type)
           \/ /\ hit = NoType
              /\ look' = [look EXCEPT ![t].at = "fetch"]
              /\ UNCHANGED answer
        /\ UNCHANGED <<entry, inner>>

\* A hit with the type of the request returns; a hit with another type is
\* displayed for the error, and the guard of the lock is still alive; a miss
\* releases the lock.
Read(t) ==
    LET hit == entry[look[t].path]
    IN  /\ look[t].at = "read"
        /\ ~WriterWaits
        /\ \/ hit = look[t].type /\ Return(t, hit)
           \/ /\ hit # look[t].type
              /\ look' = [look EXCEPT ![t].at = IF hit = NoType THEN "fetch" ELSE "display"]
              /\ UNCHANGED answer
        /\ UNCHANGED <<entry, inner>>

\* The error has been made.
Display(t) ==
    /\ look[t].at = "display"
    /\ inner[t].at \in {"idle", "done"}
    /\ Return(t, "NotA")
    /\ inner' = [inner EXCEPT ![t] = NoInner]
    /\ UNCHANGED entry

\* The global is looked up and cast without the lock; what cannot be found or cast is
\* not cached.
Fetch(t) ==
    /\ look[t].at = "fetch"
    /\ \/ /\ look[t].type \in Valid
          /\ look' = [look EXCEPT ![t].at = "write"]
          /\ UNCHANGED answer
       \/ look[t].type \notin Valid /\ Return(t, "NotA")
    /\ UNCHANGED <<entry, inner>>

\* Faulty variant: the lock is upgraded and so is only free of other readers
\* when the reader that missed is gone.
WriteStarved(t) ==
    /\ look[t].at = "write"
    /\ \A r \in Lookers : look[r].at \in {"idle", "write"} /\ (r # t => look[r].at = "idle")
    /\ entry' = [entry EXCEPT ![look[t].path] = look[t].type]
    /\ Return(t, look[t].type)
    /\ UNCHANGED inner

\* Another thread may have filled the entry since: the last one wins.
Write(t) ==
    /\ look[t].at = "write"
    /\ Readers = {}
    /\ entry' = [entry EXCEPT ![look[t].path] = look[t].type]
    /\ Return(t, look[t].type)
    /\ UNCHANGED inner

\* Julia's code for showing the value calls Rust, which looks a global up,
\* once (a bound).
AskInner(t, p) ==
    /\ t \in MayNest
    /\ look[t].at = "display"
    /\ inner[t].at = "idle"
    /\ inner' = [inner EXCEPT ![t] = [at |-> "read", path |-> p]]
    /\ UNCHANGED <<entry, look, answer>>

ReadInner(t) ==
    /\ inner[t].at = "read"
    /\ ~WriterWaits
    /\ inner' = [inner EXCEPT ![t] =
          IF entry[@.path] = NoType THEN [@ EXCEPT !.at = "write"]
          ELSE [NoInner EXCEPT !.at = "done"]]
    /\ UNCHANGED <<entry, look, answer>>

\* What a lookup does by itself.
LookStep(t) == Read(t) \/ Display(t) \/ Fetch(t) \/ Write(t) \/ ReadInner(t)

CacheNext ==
    \E t \in Lookers :
        \/ LookStep(t)
        \/ \E p \in Paths : AskInner(t, p) \/ \E T \in Types : Ask(t, p, T)

CacheSpec == CacheInit /\ [][CacheNext]_cacheVars

\* Julia's code returns and the lock serves who waits for it; nobody has to
\* ask.
CacheFairSpec == CacheSpec /\ \A t \in Lookers : WF_cacheVars(LookStep(t))

----------------------------------------------------------------------------
CacheTypeOK ==
    /\ entry \in [Paths -> Types \cup {NoType}]
    /\ look \in [Lookers -> [at : {"idle", "read", "fetch", "write", "display"},
                             path : Paths \cup {NoPath}, type : Types \cup {NoType}]]
    /\ inner \in [Lookers -> [at : {"idle", "read", "write", "done"}, path : Paths \cup {NoPath}]]
    /\ answer \in [Lookers -> Types \cup {"none", "NotA"}]

\* What a lookup returns is of the type it was requested as, although a hit is
\* cast without a check.
AnswersAreTyped ==
    /\ \A p \in Paths : entry[p] \in Valid \cup {NoType}
    /\ \A t \in Lookers : answer[t] \in Valid \cup {"none", "NotA"}

\* A lookup only fails if the global is not of the type it was requested as,
\* or was cached when it was requested as another type.
RefusedForCause ==
    \A t \in Lookers :
        look[t].at = "display" => entry[look[t].path] \in Valid \ {look[t].type}

\* A thread that displays a value and looks a global up holds the lock for
\* reading; if it must write, or a writer came in between, nobody goes on.
Entangled == \E t \in Lookers : inner[t].at \in {"read", "write"} /\ WriterWaits

LookupsReturn ==
    \A t \in Lookers : look[t].at = "read" ~> (look[t].at = "idle" \/ []Entangled)

\* What a cached global answers: the type that was asked for, or an error
\* that has a cause.
CacheOK == CacheTypeOK /\ AnswersAreTyped /\ RefusedForCause
=============================================================================
