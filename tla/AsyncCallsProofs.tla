-------------------------- MODULE AsyncCallsProofs --------------------------
(***************************************************************************)
(* The borrow ledger and the calls from Julia, for any data, guards, jobs  *)
(* and sizes of the pool: the ledger agrees with the guards, and Julia's   *)
(* join never panics.                                                      *)
(*                                                                         *)
(* Neither is inductive.  The ledger is exact because data that cannot be  *)
(* borrowed exclusively never is.  A join finds the only Arc because each  *)
(* owner of one is known: the job until set() has returned, and the handle *)
(* until it is joined.                                                     *)
(***************************************************************************)
EXTENDS AsyncCalls, SequenceTheorems, FiniteSetTheorems, TLAPS

ExclusiveMutable ==
    \A s \in Live : guard[s].kind = "exclusive" => guard[s].data \in Mutable

LedgerInv == LedgerTypeOK /\ LedgerExact /\ NoAliasedBorrow /\ ExclusiveMutable

\* The jobs in the queue wait to be started, each of them once.
JobsQueued ==
    /\ \A i \in 1..Len(jobs) : phase[jobs[i]] = "queued"
    /\ \A i, k \in 1..Len(jobs) : i # k => jobs[i] # jobs[k]

\* The job owns an Arc until set() has returned, the handle until it is joined.
Holding == {"queued", "running", "returned", "set"}
RefsCounted ==
    \A j \in Jobs :
        /\ refs[j] = (IF phase[j] \in Holding THEN 1 ELSE 0)
                       + (IF join[j] \in {"awaits", "spins"} THEN 1 ELSE 0)
        /\ phase[j] \in {"none", "body"} <=> join[j] = "none"

\* Julia joins when the job is over, and by then the job owns no guard.
JoinsLate ==
    \A j \in Jobs :
        /\ j \notin Direct /\ join[j] \in {"spins", "joined", "aborted"} => phase[j] = "notified"
        /\ j \notin Direct => join[j] # "aborted"
        /\ join[j] = "joined" => flag[j]

GuardsEnd ==
    \A j \in Jobs : phase[j] \notin {"none", "body", "queued", "running"} => GuardsOf(j) = {}

JobTypeOK ==
    /\ phase \in [Jobs -> Phases]
    /\ jobs \in Seq(Jobs)
    /\ size \in 1..MaxSize
    /\ flag \in [Jobs -> BOOLEAN]
    /\ refs \in [Jobs -> 0..2]
    /\ join \in [Jobs -> {"none", "awaits", "spins", "joined", "aborted"}]

\* The inductive invariant.
JobInv == JobTypeOK /\ JobsQueued /\ RefsCounted /\ JoinsLate
Inv == LedgerInv /\ JobInv /\ GuardsEnd

----------------------------------------------------------------------------
\* The ledger.  The guards that count as shared borrows of d.
Shares(d) == {s \in Live : guard[s].data = d /\ guard[s].kind = "shared"}

LEMMA SharesFinite == \A d : IsFiniteSet(Shares(d)) /\ Cardinality(Shares(d)) \in Nat
<1> SUFFICES ASSUME NEW d PROVE IsFiniteSet(Shares(d)) /\ Cardinality(Shares(d)) \in Nat
  OBVIOUS
<1>1. Shares(d) \subseteq Slots /\ IsFiniteSet(Slots)
  BY LedgerAssumption DEF Shares, Live
<1> QED
  BY <1>1, FS_Subset, FS_CardinalityType

LEMMA SharesFiniteNext == (\A d : IsFiniteSet(Shares(d)) /\ Cardinality(Shares(d)) \in Nat)'
  BY SharesFinite, PTL

\* A new guard.
LEMMA NewLive ==
    ASSUME LedgerTypeOK, NEW s \in Slots, guard[s] = NoGuard, NEW g \in Guard,
           guard' = [guard EXCEPT ![s] = g]
    PROVE  /\ s \notin Live /\ Live' = Live \cup {s} /\ guard'[s] = g
           /\ \A x \in Live : guard'[x] = guard[x]
           /\ \A d : Cardinality(Shares(d)') = Cardinality(Shares(d))
                        + IF g.data = d /\ g.kind = "shared" THEN 1 ELSE 0
<1>1. /\ s \notin Live /\ guard'[s] = g /\ g # NoGuard
      /\ \A x \in Slots : x # s => guard'[x] = guard[x]
  BY NoGuardAssumption DEF LedgerTypeOK, Live
<1>2. Live' = Live \cup {s} /\ \A x \in Live : guard'[x] = guard[x]
  BY <1>1 DEF Live
<1>3. ASSUME NEW d
      PROVE  Cardinality(Shares(d)') = Cardinality(Shares(d))
                + IF g.data = d /\ g.kind = "shared" THEN 1 ELSE 0
  <2>1. Shares(d)' = IF g.data = d /\ g.kind = "shared" THEN Shares(d) \cup {s} ELSE Shares(d)
    BY <1>1, <1>2 DEF Shares
  <2>2. s \notin Shares(d)
    BY <1>1 DEF Shares
  <2>3. IsFiniteSet(Shares(d)) /\ Cardinality(Shares(d)) \in Nat
    BY SharesFinite
  <2>4. Cardinality(Shares(d) \cup {s}) = Cardinality(Shares(d)) + 1
    BY <2>2, <2>3, FS_AddElement
  <2>5. CASE g.data = d /\ g.kind = "shared"
    BY <2>1, <2>4, <2>5
  <2>6. CASE ~(g.data = d /\ g.kind = "shared")
    <3>1. Shares(d)' = Shares(d)
      BY <2>1, <2>6
    <3> QED
      BY <2>3, <2>6, <3>1
  <2> QED
    BY <2>5, <2>6
<1> QED
  BY <1>1, <1>2, <1>3

LEMMA LedgerGrows ==
    ASSUME LedgerInv, NEW s \in Slots, guard[s] = NoGuard, NEW g \in Guard,
           guard' = [guard EXCEPT ![s] = g],
           shared' \in [Data -> Nat], exclusive' \in [Data -> BOOLEAN],
           \A d \in Mutable :
              shared'[d] = shared[d] + IF g.data = d /\ g.kind = "shared" THEN 1 ELSE 0,
           \A d \in Mutable :
              exclusive'[d] <=> exclusive[d] \/ (g.data = d /\ g.kind = "exclusive"),
           g.kind = "exclusive" =>
              g.data \in Mutable /\ \A x \in Live : guard[x].data # g.data,
           g.kind = "shared" =>
              \A x \in Live : guard[x].data = g.data /\ guard[x].kind = "exclusive" => g.forked
    PROVE  LedgerInv'
<1>1. /\ s \notin Live /\ Live' = Live \cup {s} /\ guard'[s] = g
      /\ \A x \in Live : guard'[x] = guard[x]
      /\ \A d : Cardinality(Shares(d)') = Cardinality(Shares(d))
                   + IF g.data = d /\ g.kind = "shared" THEN 1 ELSE 0
  BY NewLive DEF LedgerInv
<1>2. LedgerTypeOK'
  BY DEF LedgerInv, LedgerTypeOK
<1>3. \A d \in Mutable : shared'[d] = Cardinality(Shares(d)')
  <2>1. \A d \in Mutable : shared[d] = Cardinality(Shares(d))
    BY DEF LedgerInv, LedgerExact, Shares
  <2> QED
    BY <1>1, <2>1
<1>4. \A d \in Mutable :
         exclusive'[d] <=> \E x \in Live' : guard'[x].data = d /\ guard'[x].kind = "exclusive"
  <2>1. \A d \in Mutable :
          exclusive[d] <=> \E x \in Live : guard[x].data = d /\ guard[x].kind = "exclusive"
    BY DEF LedgerInv, LedgerExact
  <2> QED
    BY <1>1, <2>1
<1>5. LedgerExact'
  BY <1>3, <1>4 DEF LedgerExact, Shares
<1>6. NoAliasedBorrow'
  <2>1. g.kind \in {"shared", "exclusive"}
    BY DEF Guard
  <2> QED
    BY <1>1, <2>1 DEF LedgerInv, NoAliasedBorrow
<1>7. ExclusiveMutable'
  BY <1>1 DEF LedgerInv, ExclusiveMutable
<1> QED
  BY <1>2, <1>5, <1>6, <1>7 DEF LedgerInv

\* The guards of S are dropped.
LEMMA LedgerShrinks ==
    ASSUME LedgerInv, NEW S \in SUBSET Live, DropGuards(S)
    PROVE  LedgerInv' /\ Live' = Live \ S /\ \A x \in Live' : guard'[x] = guard[x]
<1> DEFINE Ends(d, kind) == {s \in S : guard[s].data = d /\ guard[s].kind = kind}
<1>1. /\ guard' = [s \in Slots |-> IF s \in S THEN NoGuard ELSE guard[s]]
      /\ shared' = [d \in Data |->
            IF d \in Mutable THEN shared[d] - Cardinality(Ends(d, "shared")) ELSE shared[d]]
      /\ exclusive' = [d \in Data |-> exclusive[d] /\ Ends(d, "exclusive") = {}]
  BY DEF DropGuards
<1>2. Live' = Live \ S /\ \A x \in Live' : guard'[x] = guard[x]
  BY <1>1 DEF Live
<1>3. \A d : Shares(d)' = Shares(d) \ Ends(d, "shared") /\ Ends(d, "shared") \subseteq Shares(d)
  BY <1>2 DEF Shares
<1> HIDE DEF Ends
<1>4. \A d : Cardinality(Shares(d)') = Cardinality(Shares(d)) - Cardinality(Ends(d, "shared"))
  <2> SUFFICES ASSUME NEW d
      PROVE Cardinality(Shares(d)') = Cardinality(Shares(d)) - Cardinality(Ends(d, "shared"))
    OBVIOUS
  <2>1. IsFiniteSet(Shares(d)) /\ Ends(d, "shared") \subseteq Shares(d)
    BY <1>3, SharesFinite
  <2>2. Shares(d) \cap Ends(d, "shared") = Ends(d, "shared")
    BY <2>1
  <2>3. Cardinality(Shares(d) \ Ends(d, "shared")) =
          Cardinality(Shares(d)) - Cardinality(Shares(d) \cap Ends(d, "shared"))
    BY <2>1, FS_Difference
  <2> QED
    BY <1>3, <2>2, <2>3
<1>5. \A d \in Mutable : shared'[d] = Cardinality(Shares(d)')
  <2>1. \A d \in Mutable : d \in Data /\ shared[d] = Cardinality(Shares(d))
    BY LedgerAssumption DEF LedgerInv, LedgerExact, Shares
  <2> QED
    BY <1>1, <1>4, <2>1
<1>6. LedgerTypeOK'
  <2>1. \A d \in Data : shared'[d] \in Nat
    <3>1. \A d \in Mutable : Cardinality(Shares(d)') \in Nat
      <4>1. (\A d : IsFiniteSet(Shares(d)) /\ Cardinality(Shares(d)) \in Nat)'
        BY SharesFiniteNext
      <4> QED
        BY <4>1
    <3> QED
      BY <1>1, <1>5, <3>1 DEF LedgerInv, LedgerTypeOK
  <2>2. shared' \in [Data -> Nat]
    BY <1>1, <2>1
  <2>3. exclusive' \in [Data -> BOOLEAN]
    BY <1>1
  <2>4. guard' \in [Slots -> Guard \cup {NoGuard}]
    BY <1>1 DEF LedgerInv, LedgerTypeOK
  <2> QED
    BY <2>2, <2>3, <2>4 DEF LedgerTypeOK
<1>7. \A d \in Mutable :
         exclusive'[d] <=> \E x \in Live' : guard'[x].data = d /\ guard'[x].kind = "exclusive"
  <2> SUFFICES ASSUME NEW d \in Mutable
      PROVE exclusive'[d] <=> \E x \in Live' : guard'[x].data = d /\ guard'[x].kind = "exclusive"
    OBVIOUS
  <2>1. exclusive[d] <=> \E x \in Live : guard[x].data = d /\ guard[x].kind = "exclusive"
    BY DEF LedgerInv, LedgerExact
  <2>2. exclusive'[d] <=> exclusive[d] /\ Ends(d, "exclusive") = {}
    BY <1>1, LedgerAssumption
  <2>3. \A x, y \in Live :
           guard[x].data = d /\ guard[x].kind = "exclusive"
             /\ guard[y].data = d /\ guard[y].kind = "exclusive" => x = y
    BY DEF LedgerInv, NoAliasedBorrow
  <2>4. Ends(d, "exclusive") = {} <=>
          \A x \in S : ~(guard[x].data = d /\ guard[x].kind = "exclusive")
    BY DEF Ends
  <2> QED
    BY <1>2, <2>1, <2>2, <2>3, <2>4
<1>8. LedgerExact'
  BY <1>5, <1>7 DEF LedgerExact, Shares
<1>9. NoAliasedBorrow' /\ ExclusiveMutable'
  BY <1>2 DEF LedgerInv, NoAliasedBorrow, ExclusiveMutable
<1> QED
  BY <1>2, <1>6, <1>8, <1>9 DEF LedgerInv

\* Whoever tracks, clones, converts or drops keeps the ledger in order.  A
\* guard is made only by who tracks data, or by its owner.
LEMMA TrackLedger ==
    ASSUME LedgerInv, NEW s \in Slots, NEW o \in Owners, NEW d \in Data,
           TrackShared(s, o, d) \/ TrackSharedUnbound(s, o, d) \/ TrackExclusive(s, o, d)
    PROVE  /\ LedgerInv' /\ Live' = Live \cup {s}
           /\ \A x \in Live : guard'[x] = guard[x]
           /\ guard'[s].owner = o
<1> PICK kind \in {"shared", "exclusive"} :
        /\ NewGuard(s, o, d, kind)
        /\ kind = "shared" <=> TrackShared(s, o, d) \/ TrackSharedUnbound(s, o, d)
        /\ kind = "exclusive" => TrackExclusive(s, o, d)
  BY DEF TrackShared, TrackSharedUnbound, TrackExclusive, NewGuard, Guard
<1> PICK g : g = [data |-> d, kind |-> kind, owner |-> o, typed |-> FALSE, forked |-> FALSE]
  OBVIOUS
<1>1. /\ g \in Guard /\ g.data = d /\ g.kind = kind /\ g.owner = o
      /\ guard[s] = NoGuard /\ guard' = [guard EXCEPT ![s] = g]
  BY DEF Guard, NewGuard
<1>2. /\ shared \in [Data -> Nat] /\ exclusive \in [Data -> BOOLEAN]
      /\ Mutable \subseteq Data
      /\ \A m \in Mutable : shared[m] = Cardinality(Shares(m))
      /\ \A x \in Live : guard[x].kind = "exclusive" =>
            guard[x].data \in Mutable /\ exclusive[guard[x].data]
  BY LedgerAssumption
     DEF LedgerInv, LedgerTypeOK, LedgerExact, ExclusiveMutable, Shares
<1>3. CASE kind = "shared"
  <2>1. /\ d \in Mutable => ~exclusive[d]
        /\ \/ shared' = [shared EXCEPT ![d] = @ + 1]
           \/ d \notin Mutable /\ shared' = shared
        /\ exclusive' = exclusive
    BY <1>3 DEF TrackShared, TrackSharedUnbound, Count
  <2>2. shared' \in [Data -> Nat]
    BY <1>2, <2>1
  <2>3. \A m \in Mutable : shared'[m] =
           shared[m] + IF g.data = m /\ g.kind = "shared" THEN 1 ELSE 0
    BY <1>1, <1>2, <1>3, <2>1
  <2>4. \A x \in Live : guard[x].data = g.data => guard[x].kind # "exclusive"
    BY <1>1, <1>2, <2>1
  <2>5. LedgerInv'
    BY <1>1, <1>2, <1>3, <2>1, <2>2, <2>3, <2>4, LedgerGrows
  <2> QED
    BY <1>1, <2>5, NewLive DEF LedgerInv
<1>4. CASE kind = "exclusive"
  <2>1. /\ d \in Mutable /\ ~exclusive[d] /\ shared[d] = 0
        /\ exclusive' = [exclusive EXCEPT ![d] = TRUE] /\ shared' = shared
    BY <1>4 DEF TrackExclusive
  <2>2. \A x \in Live : guard[x].data # d
    <3>1. Shares(d) = {}
      <4>1. IsFiniteSet(Shares(d)) /\ Cardinality(Shares(d)) = 0
        BY <1>2, <2>1, SharesFinite
      <4> QED
        BY <4>1, FS_EmptySet
    <3>2. \A x \in Live : guard[x].kind \in {"shared", "exclusive"}
      BY DEF LedgerInv, LedgerTypeOK, Live, Guard
    <3> QED
      BY <1>2, <2>1, <3>1, <3>2 DEF Shares
  <2>3. \A m \in Mutable : exclusive'[m] <=> exclusive[m] \/ (g.data = m /\ g.kind = "exclusive")
    BY <1>1, <1>2, <1>4, <2>1
  <2>4. exclusive' \in [Data -> BOOLEAN]
    BY <1>2, <2>1
  <2>5. \A m \in Mutable : shared'[m] =
           shared[m] + IF g.data = m /\ g.kind = "shared" THEN 1 ELSE 0
    BY <1>1, <1>2, <1>4, <2>1
  <2>6. shared' \in [Data -> Nat]
    BY <1>2, <2>1
  <2>7. g.data \in Mutable /\ g.kind # "shared" /\ \A x \in Live : guard[x].data # g.data
    BY <1>1, <1>4, <2>1, <2>2
  <2>8. LedgerInv'
    BY <1>1, <2>3, <2>4, <2>5, <2>6, <2>7, LedgerGrows
  <2> QED
    BY <1>1, <2>8, NewLive DEF LedgerInv
<1> QED
  BY <1>3, <1>4

LEMMA CloneLedger ==
    ASSUME LedgerInv, NEW s \in Live, NEW r \in Slots, CloneArray(s, r)
    PROVE  /\ LedgerInv' /\ Live' = Live \cup {r}
           /\ \A x \in Live : guard'[x] = guard[x]
           /\ guard'[r].owner = guard[s].owner
<1> PICK g : g = [guard[s] EXCEPT !.kind = "shared",
                                  !.forked = @ \/ guard[s].kind = "exclusive"]
  OBVIOUS
<1>1. guard[s] \in Guard /\ guard[r] = NoGuard /\ guard' = [guard EXCEPT ![r] = g]
  BY DEF LedgerInv, LedgerTypeOK, Live, CloneArray
<1>2. /\ g \in Guard /\ g.data = guard[s].data /\ g.kind = "shared" /\ g.owner = guard[s].owner
      /\ g.forked <=> guard[s].forked \/ guard[s].kind = "exclusive"
  BY <1>1 DEF Guard
<1>3. /\ g.data \in Mutable /\ g.data \in Data
      /\ shared' = [shared EXCEPT ![g.data] = @ + 1] /\ exclusive' = exclusive
  BY <1>2, LedgerAssumption DEF CloneArray, Count
<1>4. shared' \in [Data -> Nat] /\ \A m \in Mutable : shared'[m] =
         shared[m] + IF g.data = m /\ g.kind = "shared" THEN 1 ELSE 0
  <2>1. shared \in [Data -> Nat] /\ Mutable \subseteq Data
    BY LedgerAssumption DEF LedgerInv, LedgerTypeOK
  <2> QED
    BY <1>2, <1>3, <2>1
<1>5. \A x \in Live : guard[x].data = g.data /\ guard[x].kind = "exclusive" => g.forked
  <2>1. \A x \in Live : x # s /\ guard[x].kind = "exclusive" /\ guard[x].data = guard[s].data
           => guard[s].forked
    BY DEF LedgerInv, NoAliasedBorrow
  <2> QED
    BY <1>2, <2>1
<1>6. exclusive' \in [Data -> BOOLEAN]
      /\ \A m \in Mutable : exclusive'[m] <=> exclusive[m] \/ (g.data = m /\ g.kind = "exclusive")
  BY <1>2, <1>3 DEF LedgerInv, LedgerTypeOK
<1>7. LedgerInv'
  BY <1>1, <1>2, <1>4, <1>5, <1>6, LedgerGrows, ZenonT(30)
<1> QED
  BY <1>1, <1>2, <1>7, NewLive DEF LedgerInv

LEMMA TypedLedger ==
    ASSUME LedgerInv, NEW s \in Live, AsTyped(s)
    PROVE  /\ LedgerInv' /\ Live' = Live /\ \A x \in Live : guard'[x].owner = guard[x].owner
<1>1. guard[s] \in Guard /\ s \in Slots
  BY DEF LedgerInv, LedgerTypeOK, Live
<1> PICK g : g = [guard[s] EXCEPT !.typed = TRUE]
  OBVIOUS
<1>2. /\ g \in Guard /\ g.data = guard[s].data /\ g.kind = guard[s].kind
      /\ g.owner = guard[s].owner /\ g.forked = guard[s].forked
  BY <1>1 DEF Guard
<1>3. /\ guard' = [guard EXCEPT ![s] = g] /\ UNCHANGED <<shared, exclusive>>
  BY DEF AsTyped
<1>4. /\ guard'[s] = g /\ \A x \in Slots : x # s => guard'[x] = guard[x]
      /\ guard' \in [Slots -> Guard \cup {NoGuard}]
  BY <1>1, <1>2, <1>3 DEF LedgerInv, LedgerTypeOK
<1>5. Live' = Live
  BY <1>2, <1>4, NoGuardAssumption DEF Live
<1>6. \A x \in Live : /\ guard'[x].data = guard[x].data /\ guard'[x].kind = guard[x].kind
                      /\ guard'[x].owner = guard[x].owner /\ guard'[x].forked = guard[x].forked
  BY <1>2, <1>4 DEF Live
<1>7. LedgerTypeOK'
  BY <1>3, <1>4 DEF LedgerInv, LedgerTypeOK
<1>8. LedgerExact'
  <2>1. \A d : {x \in Live' : guard'[x].data = d /\ guard'[x].kind = "shared"} =
               {x \in Live : guard[x].data = d /\ guard[x].kind = "shared"}
    BY <1>5, <1>6
  <2>2. \A d : (\E x \in Live' : guard'[x].data = d /\ guard'[x].kind = "exclusive") <=>
               \E x \in Live : guard[x].data = d /\ guard[x].kind = "exclusive"
    BY <1>5, <1>6
  <2> QED
    BY <1>3, <2>1, <2>2 DEF LedgerInv, LedgerExact
<1>9. NoAliasedBorrow' /\ ExclusiveMutable'
  BY <1>5, <1>6 DEF LedgerInv, NoAliasedBorrow, ExclusiveMutable
<1> QED
  BY <1>5, <1>6, <1>7, <1>8, <1>9 DEF LedgerInv

----------------------------------------------------------------------------
\* The jobs.  Removing the first element of a sequence, and adding one.
NoRepeats(s) == \A i, k \in 1..Len(s) : i # k => s[i] # s[k]

LEMMA FirstRemoved ==
    ASSUME NEW S, NEW s \in Seq(S), s # <<>>, NoRepeats(s)
    PROVE  /\ Head(s) = s[1] /\ Head(s) \in S /\ 1 \in 1..Len(s)
           /\ Tail(s) \in Seq(S) /\ NoRepeats(Tail(s))
           /\ \A i \in 1..Len(Tail(s)) : /\ i + 1 \in 1..Len(s) /\ Tail(s)[i] = s[i + 1]
                                         /\ Tail(s)[i] # Head(s)
<1>1. /\ Head(s) = s[1] /\ Head(s) \in S /\ 1 \in 1..Len(s) /\ Tail(s) \in Seq(S)
      /\ \A i \in 1..Len(Tail(s)) : i + 1 \in 1..Len(s) /\ Tail(s)[i] = s[i + 1] /\ i + 1 # 1
      /\ \A i, k \in 1..Len(Tail(s)) : i # k => i + 1 # k + 1
  OBVIOUS
<1> QED
  BY <1>1 DEF NoRepeats

LEMMA LastAdded ==
    ASSUME NEW S, NEW s \in Seq(S), NEW e \in S, NoRepeats(s), \A i \in 1..Len(s) : s[i] # e
    PROVE  /\ Append(s, e) \in Seq(S) /\ NoRepeats(Append(s, e))
           /\ \A i \in 1..Len(Append(s, e)) :
                 Append(s, e)[i] = e \/ (i \in 1..Len(s) /\ Append(s, e)[i] = s[i])
<1>1. /\ Append(s, e) \in Seq(S) /\ Len(Append(s, e)) = Len(s) + 1
      /\ Append(s, e)[Len(s) + 1] = e
      /\ \A i \in 1..Len(s) + 1 : i = Len(s) + 1 \/ (i \in 1..Len(s) /\ Append(s, e)[i] = s[i])
  OBVIOUS
<1> QED
  BY <1>1 DEF NoRepeats

\* A step of job j that goes from one phase to another, neither of which is
\* "queued", and leaves the handle alone.
LEMMA JobGoes ==
    ASSUME JobInv, NEW j \in Jobs, NEW p \in Phases, GoTo(j, p),
           phase[j] # "queued", p # "queued",
           UNCHANGED <<jobs, size, join>>,
           flag' = flag \/ flag' = [flag EXCEPT ![j] = TRUE],
           IF phase[j] \in Holding /\ p \notin Holding THEN refs' = [refs EXCEPT ![j] = @ - 1]
           ELSE refs' = refs /\ (phase[j] \in Holding <=> p \in Holding),
           phase[j] \in {"none", "body"} <=> p \in {"none", "body"},
           phase[j] # "notified"
    PROVE  JobInv'
<1>1. phase' = [phase EXCEPT ![j] = p] /\ phase'[j] = p
      /\ \A i \in Jobs : i # j => phase'[i] = phase[i]
  BY DEF GoTo, JobInv, JobTypeOK
<1>2. /\ refs'[j] = refs[j] - IF phase[j] \in Holding /\ p \notin Holding THEN 1 ELSE 0
      /\ \A i \in Jobs : i # j => refs'[i] = refs[i]
      /\ \A i \in Jobs : refs[i] \in 0..2
  BY DEF JobInv, JobTypeOK
<1>3. RefsCounted'
  <2>1. ASSUME NEW i \in Jobs
        PROVE  /\ refs'[i] = (IF phase'[i] \in Holding THEN 1 ELSE 0)
                               + (IF join'[i] \in {"awaits", "spins"} THEN 1 ELSE 0)
               /\ phase'[i] \in {"none", "body"} <=> join'[i] = "none"
    <3>1. CASE i = j
      BY <1>1, <1>2, <3>1 DEF JobInv, RefsCounted
    <3>2. CASE i # j
      BY <1>1, <1>2, <3>2 DEF JobInv, RefsCounted
    <3> QED
      BY <3>1, <3>2
  <2> QED
    BY <2>1 DEF RefsCounted
<1>4. JobsQueued'
  <2>1. \A i \in 1..Len(jobs) : jobs[i] \in Jobs /\ jobs[i] # j
    BY ElementOfSeq DEF JobInv, JobTypeOK, JobsQueued
  <2> QED
    BY <1>1, <2>1 DEF JobInv, JobsQueued
<1>5. JobTypeOK'
  <2>1. refs'[j] \in 0..2
    BY <1>2, <1>3 DEF RefsCounted
  <2>2. refs' \in [Jobs -> 0..2]
    BY <2>1 DEF JobInv, JobTypeOK
  <2> QED
    BY <1>1, <2>2 DEF JobInv, JobTypeOK
<1>6. JoinsLate'
  BY <1>1 DEF JobInv, JobTypeOK, JoinsLate
<1> QED
  BY <1>3, <1>4, <1>5, <1>6 DEF JobInv

LEMMA DispatchJob ==
    ASSUME JobInv, NEW j \in Jobs, Dispatch(j)
    PROVE  JobInv'
<1>1. /\ phase[j] = "body" /\ phase' = [phase EXCEPT ![j] = "queued"]
      /\ jobs' = Append(jobs, j) /\ refs' = [refs EXCEPT ![j] = 2]
      /\ join' = [join EXCEPT ![j] = IF j \in Direct THEN "spins" ELSE "awaits"]
      /\ UNCHANGED <<size, flag>>
  BY DEF Dispatch, GoTo
<1>2. /\ phase'[j] = "queued" /\ refs'[j] = 2
      /\ join'[j] = IF j \in Direct THEN "spins" ELSE "awaits"
      /\ \A i \in Jobs : i # j => phase'[i] = phase[i] /\ refs'[i] = refs[i] /\ join'[i] = join[i]
  BY <1>1 DEF JobInv, JobTypeOK
<1>3. /\ \A i \in 1..Len(jobs) : jobs[i] \in Jobs /\ jobs[i] # j
      /\ jobs \in Seq(Jobs) /\ NoRepeats(jobs)
  BY <1>1, ElementOfSeq DEF JobInv, JobTypeOK, JobsQueued, NoRepeats
<1>4. /\ jobs' \in Seq(Jobs) /\ NoRepeats(jobs')
      /\ \A i \in 1..Len(jobs') : jobs'[i] = j \/ (i \in 1..Len(jobs) /\ jobs'[i] = jobs[i])
  BY <1>1, <1>3, LastAdded
<1>5. JobTypeOK'
  BY <1>1, <1>4 DEF JobInv, JobTypeOK, Phases
<1>6. JobsQueued'
  <2>1. \A i \in 1..Len(jobs) : phase[jobs[i]] = "queued"
    BY DEF JobInv, JobsQueued
  <2>2. \A i \in 1..Len(jobs') : phase'[jobs'[i]] = "queued"
    BY <1>2, <1>3, <1>4, <2>1
  <2> QED
    BY <1>4, <2>2 DEF JobsQueued, NoRepeats
<1>7. RefsCounted'
  BY <1>2 DEF JobInv, RefsCounted, Holding
<1>8. JoinsLate'
  BY <1>1, <1>2 DEF JobInv, JoinsLate
<1> QED
  BY <1>5, <1>6, <1>7, <1>8 DEF JobInv

LEMMA StartJob == ASSUME JobInv, Start PROVE JobInv'
<1> PICK j : j = Head(jobs)
  OBVIOUS
<1>1. /\ jobs # <<>> /\ phase' = [phase EXCEPT ![j] = "running"] /\ jobs' = Tail(jobs)
      /\ UNCHANGED <<size, flag, refs, join>> /\ jobs \in Seq(Jobs) /\ NoRepeats(jobs)
  BY DEF Start, GoTo, JobInv, JobTypeOK, JobsQueued, NoRepeats
<1>2. /\ j = jobs[1] /\ j \in Jobs /\ 1 \in 1..Len(jobs) /\ jobs' \in Seq(Jobs) /\ NoRepeats(jobs')
      /\ \A i \in 1..Len(jobs') :
            i + 1 \in 1..Len(jobs) /\ jobs'[i] = jobs[i + 1] /\ jobs'[i] # j
  BY <1>1, FirstRemoved
<1>3. phase[j] = "queued"
  BY <1>2 DEF JobInv, JobsQueued
<1>4. phase'[j] = "running" /\ \A i \in Jobs : i # j => phase'[i] = phase[i]
  BY <1>1, <1>2 DEF JobInv, JobTypeOK
<1>5. JobsQueued'
  <2>1. \A i \in 1..Len(jobs') : jobs'[i] \in Jobs
    BY <1>2, ElementOfSeq
  <2> QED
    BY <1>2, <1>4, <2>1 DEF JobInv, JobsQueued, NoRepeats
<1>6. JobTypeOK'
  BY <1>1, <1>2 DEF JobInv, JobTypeOK, Phases
<1>7. RefsCounted' /\ JoinsLate'
  BY <1>1, <1>3, <1>4 DEF JobInv, RefsCounted, JoinsLate, Holding
<1> QED
  BY <1>5, <1>6, <1>7 DEF JobInv

\* The two steps that change the handle.
LEMMA NotifyJob ==
    ASSUME JobInv, NEW j \in Jobs, Notify(j)
    PROVE  JobInv'
<1>1. /\ phase[j] = "released" /\ phase' = [phase EXCEPT ![j] = "notified"]
      /\ join' = [join EXCEPT ![j] = IF @ = "awaits" THEN "spins" ELSE @]
      /\ UNCHANGED <<jobs, size, flag, refs>>
  BY DEF Notify, GoTo
<1>2. /\ phase'[j] = "notified" /\ join'[j] = (IF join[j] = "awaits" THEN "spins" ELSE join[j])
      /\ \A i \in Jobs : i # j => phase'[i] = phase[i] /\ join'[i] = join[i]
  BY <1>1 DEF JobInv, JobTypeOK
<1>3. JobTypeOK'
  BY <1>1 DEF JobInv, JobTypeOK, Phases
<1>4. JobsQueued'
  <2>1. \A i \in 1..Len(jobs) : jobs[i] \in Jobs /\ jobs[i] # j
    BY <1>1, ElementOfSeq DEF JobInv, JobTypeOK, JobsQueued
  <2> QED
    BY <1>1, <1>2, <2>1 DEF JobInv, JobsQueued
<1>5. RefsCounted' /\ JoinsLate'
  BY <1>1, <1>2 DEF JobInv, RefsCounted, JoinsLate, Holding
<1> QED
  BY <1>3, <1>4, <1>5 DEF JobInv

LEMMA JoinJob ==
    ASSUME JobInv, NEW j \in Jobs, Join(j)
    PROVE  JobInv'
<1>1. /\ join[j] = "spins" /\ flag[j]
      /\ join' = [join EXCEPT ![j] = IF refs[j] = 1 THEN "joined" ELSE "aborted"]
      /\ refs' = [refs EXCEPT ![j] = @ - 1]
      /\ UNCHANGED <<phase, jobs, size, flag>>
  BY DEF Join
<1>2. /\ refs[j] = (IF phase[j] \in Holding THEN 1 ELSE 0) + 1 /\ phase[j] \notin {"none", "body"}
      /\ j \notin Direct => phase[j] = "notified"
  BY <1>1 DEF JobInv, RefsCounted, JoinsLate
<1>3. /\ join'[j] = (IF refs[j] = 1 THEN "joined" ELSE "aborted") /\ refs'[j] = refs[j] - 1
      /\ \A i \in Jobs : i # j => refs'[i] = refs[i] /\ join'[i] = join[i]
  BY <1>1 DEF JobInv, JobTypeOK
<1>4. JobTypeOK'
  BY <1>1, <1>2 DEF JobInv, JobTypeOK
<1>5. JobsQueued'
  BY <1>1 DEF JobInv, JobsQueued
<1>6. RefsCounted'
  BY <1>1, <1>2, <1>3 DEF JobInv, RefsCounted
<1>7. JoinsLate'
  BY <1>1, <1>2, <1>3 DEF JobInv, JoinsLate, Holding
<1> QED
  BY <1>4, <1>5, <1>6, <1>7 DEF JobInv

----------------------------------------------------------------------------
\* A job that is over gets no guard.
LEMMA GuardsKept ==
    ASSUME GuardsEnd, phase' = phase,
           \A x \in Live' : \/ x \in Live /\ guard'[x].owner = guard[x].owner
                            \/ \A j \in Jobs : guard'[x].owner = j =>
                                  phase[j] \in {"none", "body", "queued", "running"}
    PROVE  GuardsEnd'
  BY DEF GuardsEnd, GuardsOf

LEMMA TrackInv ==
    ASSUME Inv, NEW o \in Owners, Track(o) \/ UseGuard(o)
    PROVE  Inv'
<1>1. UNCHANGED jobVars /\ (o \in Jobs => phase[o] \in {"body", "running"})
  BY AsyncCallsAssumption DEF Track, UseGuard, Tracks, Uses
<1>2. JobInv'
  BY <1>1 DEF Inv, JobInv, JobTypeOK, JobsQueued, RefsCounted, JoinsLate, jobVars
<1>3. CASE Track(o)
  <2> PICK s \in Slots, d \in Data :
          TrackShared(s, o, d) \/ TrackSharedUnbound(s, o, d) \/ TrackExclusive(s, o, d)
    BY <1>3 DEF Track
  <2>1. /\ LedgerInv' /\ Live' = Live \cup {s}
        /\ \A x \in Live : guard'[x] = guard[x]
        /\ guard'[s].owner = o
    BY TrackLedger DEF Inv
  <2>2. GuardsEnd'
    BY <1>1, <2>1, GuardsKept DEF Inv, jobVars
  <2> QED
    BY <1>2, <2>1, <2>2 DEF Inv
<1>4. CASE UseGuard(o)
  <2> PICK s \in GuardsOf(o) :
          (\E r \in Slots : CloneArray(s, r)) \/ AsTyped(s) \/ DropGuards({s})
    BY <1>4 DEF UseGuard
  <2>1. s \in Live /\ guard[s].owner = o
    BY DEF GuardsOf
  <2>2. CASE \E r \in Slots : CloneArray(s, r)
    <3> PICK r \in Slots : CloneArray(s, r)
      BY <2>2
    <3>1. /\ LedgerInv' /\ Live' = Live \cup {r}
          /\ \A x \in Live : guard'[x] = guard[x]
          /\ guard'[r].owner = o
      BY <2>1, CloneLedger DEF Inv
    <3>2. GuardsEnd'
      BY <1>1, <3>1, GuardsKept DEF Inv, jobVars
    <3> QED
      BY <1>2, <3>1, <3>2 DEF Inv
  <2>3. CASE AsTyped(s)
    <3>1. /\ LedgerInv' /\ Live' = Live /\ \A x \in Live : guard'[x].owner = guard[x].owner
      BY <2>1, <2>3, TypedLedger DEF Inv
    <3>2. GuardsEnd'
      BY <1>1, <3>1, GuardsKept DEF Inv, jobVars
    <3> QED
      BY <1>2, <3>1, <3>2 DEF Inv
  <2>4. CASE DropGuards({s})
    <3>1. /\ LedgerInv' /\ Live' = Live \ {s} /\ \A x \in Live' : guard'[x] = guard[x]
      BY <2>1, <2>4, LedgerShrinks DEF Inv
    <3>2. GuardsEnd'
      BY <1>1, <3>1, GuardsKept DEF Inv, jobVars
    <3> QED
      BY <1>2, <3>1, <3>2 DEF Inv
  <2> QED
    BY <2>2, <2>3, <2>4
<1> QED
  BY <1>3, <1>4

\* What a job owns is dropped when its callback is consumed.
LEMMA GuardsDropped ==
    ASSUME Inv, NEW j \in Jobs, DropGuards(GuardsOf(j))
    PROVE  /\ LedgerInv' /\ GuardsOf(j)' = {}
           /\ \A i \in Jobs : GuardsOf(i) = {} => GuardsOf(i)' = {}
<1>1. GuardsOf(j) \in SUBSET Live
  BY DEF GuardsOf
<1>2. LedgerInv' /\ Live' = Live \ GuardsOf(j) /\ \A x \in Live' : guard'[x] = guard[x]
  BY <1>1, LedgerShrinks DEF Inv
<1> QED
  BY <1>2 DEF GuardsOf

LEMMA JobStepInv ==
    ASSUME Inv, NEW j \in Jobs, Enter(j) \/ Dispatch(j) \/ PoolStep(j) \/ Join(j)
    PROVE  Inv'
<1> USE DEF Inv
<1>1. ASSUME NEW p, GoTo(j, p), JobInv', LedgerInv',
             \A i \in Jobs : i # j /\ GuardsOf(i) = {} => GuardsOf(i)' = {},
             p \in {"none", "body", "queued", "running"} \/ GuardsOf(j)' = {}
      PROVE  Inv'
  <2>1. phase'[j] = p /\ \A i \in Jobs : i # j => phase'[i] = phase[i]
    BY <1>1 DEF GoTo, JobInv, JobTypeOK
  <2>2. GuardsEnd'
    BY <1>1, <2>1 DEF GuardsEnd
  <2> QED
    BY <1>1, <2>2
<1>2. UNCHANGED ledgerVars => LedgerInv' /\ \A i \in Jobs : GuardsOf(i)' = GuardsOf(i)
  BY DEF ledgerVars, LedgerInv, LedgerTypeOK, LedgerExact, NoAliasedBorrow, ExclusiveMutable,
         Live, GuardsOf
<1>3. CASE Enter(j)
  <2>1. /\ phase[j] = "none" /\ GoTo(j, "body") /\ UNCHANGED ledgerVars
        /\ UNCHANGED <<jobs, size, flag, refs, join>>
    BY <1>3 DEF Enter
  <2>2. JobInv'
    BY <2>1, JobGoes DEF Phases, Holding
  <2> QED
    BY <1>1, <1>2, <2>1, <2>2
<1>4. CASE Dispatch(j)
  <2>1. GoTo(j, "queued") /\ (UNCHANGED ledgerVars \/ DropGuards(GuardsOf(j)))
    BY <1>4 DEF Dispatch
  <2>2. JobInv'
    BY <1>4, DispatchJob
  <2>3. LedgerInv' /\ \A i \in Jobs : GuardsOf(i) = {} => GuardsOf(i)' = {}
    BY <1>2, <2>1, GuardsDropped
  <2> QED
    BY <1>1, <2>1, <2>2, <2>3
<1>5. CASE CallbackReturns(j)
  <2>1. /\ phase[j] = "running" /\ GoTo(j, "returned") /\ DropGuards(GuardsOf(j))
        /\ UNCHANGED <<jobs, size, flag, refs, join>>
    BY <1>5 DEF CallbackReturns
  <2>2. JobInv'
    BY <2>1, JobGoes DEF Phases, Holding
  <2> QED
    BY <1>1, <2>1, <2>2, GuardsDropped
<1>6. CASE CallbackPanics(j)
  <2>1. /\ phase[j] = "running" /\ GoTo(j, "panicked") /\ DropGuards(GuardsOf(j))
        /\ refs' = [refs EXCEPT ![j] = @ - 1]
        /\ UNCHANGED <<jobs, size, flag, join>>
    BY <1>6 DEF CallbackPanics
  <2>2. JobInv'
    BY <2>1, JobGoes DEF Phases, Holding
  <2> QED
    BY <1>1, <2>1, <2>2, GuardsDropped
<1>7. CASE Set(j)
  <2>1. /\ phase[j] = "returned" /\ GoTo(j, "set") /\ UNCHANGED ledgerVars
        /\ flag' = [flag EXCEPT ![j] = TRUE]
        /\ UNCHANGED <<jobs, size, refs, join>>
    BY <1>7 DEF Set
  <2>2. JobInv'
    BY <2>1, JobGoes DEF Phases, Holding
  <2>3. GuardsOf(j) = {}
    BY <2>1 DEF GuardsEnd
  <2> QED
    BY <1>1, <1>2, <2>1, <2>2, <2>3
<1>8. CASE Release(j)
  <2>1. /\ phase[j] = "set" /\ GoTo(j, "released") /\ UNCHANGED ledgerVars
        /\ refs' = [refs EXCEPT ![j] = @ - 1]
        /\ UNCHANGED <<jobs, size, flag, join>>
    BY <1>8 DEF Release
  <2>2. JobInv'
    BY <2>1, JobGoes DEF Phases, Holding
  <2>3. GuardsOf(j) = {}
    BY <2>1 DEF GuardsEnd
  <2> QED
    BY <1>1, <1>2, <2>1, <2>2, <2>3
<1>9. CASE Notify(j)
  <2>1. phase[j] = "released" /\ GoTo(j, "notified") /\ UNCHANGED ledgerVars
    BY <1>9 DEF Notify
  <2>2. JobInv'
    BY <1>9, NotifyJob
  <2>3. GuardsOf(j) = {}
    BY <2>1 DEF GuardsEnd
  <2> QED
    BY <1>1, <1>2, <2>1, <2>2, <2>3
<1>10. CASE Join(j)
  <2>1. UNCHANGED ledgerVars /\ phase' = phase
    BY <1>10 DEF Join
  <2>2. JobInv'
    BY <1>10, JoinJob
  <2>3. GuardsEnd'
    BY <1>2, <2>1 DEF GuardsEnd
  <2> QED
    BY <1>2, <2>1, <2>2, <2>3
<1> QED
  BY <1>3, <1>4, <1>5, <1>6, <1>7, <1>8, <1>9, <1>10 DEF PoolStep

LEMMA InvInit == Init => Inv
<1> SUFFICES ASSUME Init PROVE Inv
  OBVIOUS
<1> USE DEF Init, LedgerInit
<1>1. Live = {} /\ \A j \in Jobs : GuardsOf(j) = {}
  BY DEF Live, GuardsOf
<1>2. LedgerInv
  <2>1. LedgerTypeOK
    BY DEF LedgerTypeOK
  <2>2. LedgerExact
    <3>1. \A d : {s \in Live : guard[s].data = d /\ guard[s].kind = "shared"} = {}
      BY <1>1
    <3>2. Cardinality({}) = 0
      BY FS_EmptySet
    <3>3. \A d \in Mutable : shared[d] = 0 /\ exclusive[d] = FALSE
      BY LedgerAssumption
    <3> QED
      BY <1>1, <3>1, <3>2, <3>3 DEF LedgerExact
  <2> QED
    BY <1>1, <2>1, <2>2 DEF LedgerInv, NoAliasedBorrow, ExclusiveMutable
<1>3. JobInv
  <2>1. jobs \in Seq(Jobs) /\ Len(jobs) = 0 /\ size \in 1..MaxSize
    BY AsyncCallsAssumption
  <2> QED
    BY <2>1 DEF JobInv, JobTypeOK, JobsQueued, RefsCounted, JoinsLate, Phases, Holding
<1> QED
  BY <1>1, <1>2, <1>3 DEF Inv, GuardsEnd

LEMMA InvAlways == Spec => []Inv
<1>1. Inv /\ [Next]_vars => Inv'
  <2> SUFFICES ASSUME Inv, [Next]_vars PROVE Inv'
    OBVIOUS
  <2>1. ASSUME UNCHANGED <<ledgerVars, phase>>
        PROVE  LedgerInv' /\ GuardsEnd'
    <3>1. UNCHANGED <<shared, exclusive, guard, phase>>
      BY <2>1 DEF ledgerVars
    <3>2. LedgerInv'
      BY <3>1, SMTT(20) DEF Inv, LedgerInv, LedgerTypeOK, LedgerExact, NoAliasedBorrow,
                  ExclusiveMutable, Live
    <3>3. GuardsEnd'
      BY <3>1 DEF Inv, GuardsEnd, GuardsOf, Live
    <3> QED
      BY <3>2, <3>3
  <2>2. ASSUME NEW n \in 1..MaxSize, SetPoolSize(n)
        PROVE  Inv'
    <3>1. JobInv'
      BY <2>2 DEF SetPoolSize, Inv, JobInv, JobTypeOK, JobsQueued, RefsCounted, JoinsLate
    <3> QED
      BY <2>1, <2>2, <3>1 DEF Inv, SetPoolSize
  <2>3. CASE Start
    <3>1. JobInv' /\ UNCHANGED ledgerVars
      BY <2>3, StartJob DEF Inv, Start
    <3>2. LedgerInv' /\ \A i \in Jobs : GuardsOf(i)' = GuardsOf(i)
      BY <3>1 DEF ledgerVars, Inv, LedgerInv, LedgerTypeOK, LedgerExact, NoAliasedBorrow,
                  ExclusiveMutable, Live, GuardsOf
    <3>3. \A i \in Jobs : phase'[i] = phase[i] \/ phase'[i] = "running"
      BY <2>3 DEF Start, GoTo, Inv, JobInv, JobTypeOK
    <3>4. GuardsEnd'
      BY <3>2, <3>3 DEF Inv, GuardsEnd
    <3> QED
      BY <3>1, <3>2, <3>4 DEF Inv
  <2>4. CASE UNCHANGED vars
    <3>1. UNCHANGED ledgerVars /\ UNCHANGED jobVars
      BY <2>4 DEF vars
    <3>2. JobInv'
      BY <3>1 DEF jobVars, Inv, JobInv, JobTypeOK, JobsQueued, RefsCounted, JoinsLate
    <3> QED
      BY <2>1, <3>1, <3>2 DEF Inv, jobVars
  <2> QED
    BY <2>2, <2>3, <2>4, TrackInv, JobStepInv DEF Next
<1> QED
  BY <1>1, InvInit, PTL DEF Spec

\* Whatever is tracked, cloned, converted and dropped by whom, and however
\* callbacks end, the ledger counts the guards that exist, and no exclusive
\* guard has another beside it but its own clones (value/tracked.rs,
\* array/tracked.rs).
THEOREM LedgerIsOK == Spec => []LedgerOK
<1>1. Inv => LedgerOK
  BY DEF Inv, LedgerInv, JobInv, JobTypeOK, LedgerOK, TypeOK
<1> QED
  BY <1>1, InvAlways, PTL

\* For any jobs and sizes of the pool, Julia, which joins when it is notified,
\* finds the only Arc of the handle and the result in it, and the call has no
\* borrow left (DispatchHandle::join, ccall.rs).
THEOREM NotifiedJoinsReturn == Spec => []NotifiedJoinReturns
<1>1. Inv => NotifiedJoinReturns
  <2>1. ASSUME Inv, NEW j \in Jobs \ Direct, join[j] = "joined"
        PROVE  GuardsOf(j) = {}
    <3>1. phase[j] = "notified"
      BY <2>1 DEF Inv, JobInv, JoinsLate
    <3> QED
      BY <2>1, <3>1 DEF Inv, GuardsEnd
  <2> QED
    BY <2>1 DEF Inv, JobInv, JoinsLate, NotifiedJoinReturns
<1> QED
  BY <1>1, InvAlways, PTL
=============================================================================
