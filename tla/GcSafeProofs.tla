---------------------------- MODULE GcSafeProofs ----------------------------
(***************************************************************************)
(* Theorems about the GC-safe locks (GcSafeLocks), the GC-safe cell         *)
(* (GcSafeOnce) and the cache of globals behind such a lock (GlobalCache),  *)
(* for any threads, modes, globals and bounds.                              *)
(***************************************************************************)
EXTENDS GcSafeLocks, GcSafeOnce, GlobalCache, SequenceTheorems, TLAPS

Frames == [kind : Kinds, state : {"unsafe", "safe"}]

(* The states a thread goes through nest: each call returns to the state    *)
(* that the calls outside of it put the thread in, and a lock is the last   *)
(* call of a thread that is blocked by it.                                  *)
Nested(c, state, place) ==
    /\ \A i \in 1..Len(c) :
          c[i].state = "safe" <=> i > 1 /\ c[i - 1].kind = "gc_safe"
    /\ \A i \in 1..Len(c) :
          c[i].kind = "lock" => i = Len(c) /\ place \in {"blocked", "leaving"}
    /\ place \in {"blocked", "leaving"} => c # <<>> /\ c[Len(c)].kind = "lock"
    /\ c # <<>> /\ c[Len(c)].kind = "lock" => state = "safe"
    /\ c = <<>> \/ c[Len(c)].kind # "lock" =>
          (state = "safe" <=> c # <<>> /\ c[Len(c)].kind = "gc_safe")

StatesNested == \A t \in Thread : Nested(calls[t], gcState[t], pc[t])

Typed ==
    /\ GcTypeOK
    /\ pc \in [Thread -> {"user", "blocked", "unguarded", "timed", "leaving"}]
    /\ holds \in [Thread -> Grants]
    /\ want \in [Thread -> Grants]

(* Exactly the parked threads want the lock.                                *)
ParkedWants == \A t \in Thread : Parked(t) <=> want[t] # "none"

Inv == Typed /\ StatesNested /\ StopTheWorld

-----------------------------------------------------------------------------
(* The frames of a thread that pushes one.                                  *)
LEMMA PushFrame ==
    ASSUME NEW c \in Seq(Frames), NEW f \in Frames
    PROVE  /\ Append(c, f) \in Seq(Frames)
           /\ Append(c, f) # <<>>
           /\ Len(Append(c, f)) = Len(c) + 1
           /\ Append(c, f)[Len(c) + 1] = f
           /\ \A i \in 1..Len(c) : Append(c, f)[i] = c[i]
           /\ Len(c) \in Nat
BY AppendProperties, LenProperties

(* The beginning of a sequence.                                             *)
LEMMA Prefix ==
    ASSUME NEW S, NEW s \in Seq(S), NEW n \in Nat, n <= Len(s)
    PROVE  /\ SubSeq(s, 1, n) \in Seq(S)
           /\ Len(SubSeq(s, 1, n)) = n
           /\ \A i \in 1..n : SubSeq(s, 1, n)[i] = s[i]
OBVIOUS

(* The frames of a thread that pops one.                                    *)
LEMMA PopFrame ==
    ASSUME NEW c \in Seq(Frames), c # <<>>
    PROVE  /\ SubSeq(c, 1, Len(c) - 1) \in Seq(Frames)
           /\ Len(SubSeq(c, 1, Len(c) - 1)) = Len(c) - 1
           /\ \A i \in 1..Len(c) - 1 : SubSeq(c, 1, Len(c) - 1)[i] = c[i]
           /\ Len(c) \in Nat \ {0}
           /\ c[Len(c)] \in Frames
<1>1. Len(c) \in Nat /\ Len(c) # 0
  BY EmptySeq, LenProperties
<1>2. c[Len(c)] \in Frames
  BY <1>1, ElementOfSeq
<1>3. Len(c) - 1 \in Nat /\ Len(c) - 1 <= Len(c)
  BY <1>1
<1>. HIDE DEF Frames
<1>. QED
  BY <1>1, <1>2, <1>3, Prefix

(* Entering a state from user code keeps the states nested.                 *)
LEMMA PushNested ==
    ASSUME NEW c \in Seq(Frames), NEW s \in {"unsafe", "safe"},
           Nested(c, s, "user"),
           NEW k \in Kinds, NEW new \in {"unsafe", "safe"}, NEW place,
           k \in {"gc_safe", "gc_unsafe"} => place = "user",
           k = "lock" => place = "blocked",
           k # "cell", k # "try_cell", k # "init",
           new = "safe" <=> k # "gc_unsafe"
    PROVE  Nested(Append(c, [kind |-> k, state |-> s]), new, place)
<1>. PICK f : f = [kind |-> k, state |-> s]
  OBVIOUS
<1>. PICK d : d = Append(c, f)
  OBVIOUS
<1>0. f \in Frames /\ f.kind = k /\ f.state = s
  BY DEF Frames
<1>1. /\ d # <<>> /\ Len(d) = Len(c) + 1 /\ d[Len(d)] = f /\ Len(c) \in Nat
      /\ \A i \in 1..Len(c) : d[i] = c[i]
  BY <1>0, PushFrame
<1>2. c = <<>> <=> Len(c) = 0
  BY EmptySeq
<1>3. \A i \in 1..Len(c) : c[i].kind # "lock"
  BY DEF Nested
<1>4. ASSUME NEW i \in 1..Len(d)
      PROVE  d[i].state = "safe" <=> i > 1 /\ d[i - 1].kind = "gc_safe"
  <2>1. CASE i = Len(d)
    <3>1. Len(c) = 0 => s # "safe"
      BY <1>2 DEF Nested
    <3>2. Len(c) > 0 => d[i - 1] = c[Len(c)] /\ c[Len(c)].kind # "lock"
      BY <2>1, <1>1, <1>3
    <3>3. Len(c) > 0 => (s = "safe" <=> c[Len(c)].kind = "gc_safe")
      BY <1>2, <1>1, <3>2 DEF Nested
    <3>. QED
      BY <2>1, <1>0, <1>1, <3>1, <3>2, <3>3
  <2>2. CASE i # Len(d)
    <3>1. i \in 1..Len(c) /\ d[i] = c[i] /\ (i > 1 => d[i - 1] = c[i - 1])
      BY <2>2, <1>1
    <3>. QED
      BY <3>1 DEF Nested
  <2>. QED
    BY <2>1, <2>2
<1>5. ASSUME NEW i \in 1..Len(d), d[i].kind = "lock"
      PROVE  i = Len(d) /\ place \in {"blocked", "leaving"}
  <2>1. i = Len(d)
    BY <1>1, <1>3, <1>5
  <2>. QED
    BY <2>1, <1>0, <1>1, <1>5
<1>6. place # "leaving"
  BY DEF Kinds
<1>7. d[Len(d)].kind = k
  BY <1>0, <1>1
<1>8. Nested(d, new, place)
  BY <1>1, <1>4, <1>5, <1>6, <1>7 DEF Nested, Kinds
<1>. QED
  BY <1>8

(* So does returning to the state the last call was entered in.             *)
LEMMA PopNested ==
    ASSUME NEW c \in Seq(Frames), c # <<>>, NEW s, NEW place,
           Nested(c, s, place)
    PROVE  Nested(SubSeq(c, 1, Len(c) - 1), c[Len(c)].state, "user")
<1>. PICK d : d = SubSeq(c, 1, Len(c) - 1)
  OBVIOUS
<1>1. /\ Len(d) = Len(c) - 1 /\ Len(c) \in Nat \ {0}
      /\ \A i \in 1..Len(c) - 1 : d[i] = c[i]
      /\ d \in Seq(Frames)
  BY PopFrame
<1>2. d = <<>> <=> Len(d) = 0
  BY <1>1, EmptySeq
<1>3. \A i \in 1..Len(d) : d[i] = c[i] /\ i \in 1..Len(c) /\ i # Len(c)
  BY <1>1
<1>4. \A i \in 1..Len(d) : d[i].kind # "lock"
  BY <1>3 DEF Nested
<1>5. \A i \in 1..Len(d) :
        d[i].state = "safe" <=> i > 1 /\ d[i - 1].kind = "gc_safe"
  <2>1. \A i \in 1..Len(d) : i > 1 => d[i - 1] = c[i - 1]
    BY <1>1
  <2>. QED
    BY <1>3, <2>1, SMTT(20) DEF Nested
<1>6. c[Len(c)].state = "safe" <=> Len(c) > 1 /\ c[Len(c) - 1].kind = "gc_safe"
  BY <1>1 DEF Nested
<1>7. Len(c) > 1 => d # <<>> /\ d[Len(d)] = c[Len(c) - 1]
  BY <1>1, <1>2
<1>8. Len(c) = 1 => d = <<>>
  BY <1>1, <1>2
<1>9. d # <<>> => d[Len(d)].kind # "lock"
  BY <1>1, <1>2, <1>4
<1>10. Nested(d, c[Len(c)].state, "user")
  BY <1>1, <1>4, <1>5, <1>6, <1>7, <1>8, <1>9, <1>2 DEF Nested
<1>. QED
  BY <1>10

-----------------------------------------------------------------------------
Places == {"user", "blocked", "unguarded", "timed", "leaving"}

(* A step of one thread, which may start a collection but not mark.         *)
LEMMA ThreadChanges ==
    ASSUME Inv, NEW t \in Thread,
           NEW c \in Seq(Frames), NEW s \in States, NEW p \in Places,
           Nested(c, s, p),
           calls' = [calls EXCEPT ![t] = c],
           gcState' = [gcState EXCEPT ![t] = s],
           pc' = [pc EXCEPT ![t] = p],
           gc' \in {"idle", "stopping", "marking"},
           gc' = "marking" => gc = "marking",
           collections' \in 0..MaxCollections,
           s = "unsafe" => gc' # "marking" \/ gcState[t] = "unsafe"
    PROVE  /\ GcTypeOK' /\ pc' \in [Thread -> Places]
           /\ StatesNested' /\ StopTheWorld'
<1>1. /\ gcState \in [Thread -> States] /\ pc \in [Thread -> Places]
      /\ calls \in [Thread -> Seq(Frames)]
  BY DEF Inv, Typed, GcTypeOK, Places, Frames
<1>2. GcTypeOK' /\ pc' \in [Thread -> Places]
  BY <1>1 DEF GcTypeOK, Frames
<1>3. StatesNested'
  <2>. SUFFICES ASSUME NEW u \in Thread
                PROVE  Nested(calls'[u], gcState'[u], pc'[u])
    BY DEF StatesNested, Nested
  <2>1. CASE u = t
    BY <1>1, <2>1
  <2>2. CASE u # t
    BY <1>1, <2>2 DEF Inv, StatesNested
  <2>. QED
    BY <2>1, <2>2
<1>4. StopTheWorld'
  BY <1>1 DEF Inv, StopTheWorld
<1>. QED
  BY <1>2, <1>3, <1>4

(* What the invariant says of a thread.                                     *)
LEMMA ThreadFacts ==
    ASSUME Inv, NEW t \in Thread
    PROVE  /\ calls[t] \in Seq(Frames) /\ gcState[t] \in States
           /\ pc[t] \in Places /\ Nested(calls[t], gcState[t], pc[t])
           /\ gc \in {"idle", "stopping", "marking"}
           /\ collections \in 0..MaxCollections
           /\ gc = "marking" => gcState[t] # "unsafe"
BY DEF Inv, Typed, GcTypeOK, StatesNested, StopTheWorld, Places, Frames

(* A thread in user code enters a safe or an unsafe state.                  *)
LEMMA EnterChanges ==
    ASSUME Inv, NEW t \in Thread, Running(t), NEW k \in Kinds,
           NEW new \in {"unsafe", "safe"}, NEW p \in Places,
           k \in {"gc_safe", "gc_unsafe"} => p = "user",
           k = "lock" => p = "blocked",
           k # "cell", k # "try_cell", k # "init",
           new = "safe" <=> k # "gc_unsafe",
           Push(t, k), SetGcState(t, new, gcState[t]),
           pc' = [pc EXCEPT ![t] = p]
    PROVE  /\ GcTypeOK' /\ pc' \in [Thread -> Places]
           /\ StatesNested' /\ StopTheWorld'
<1>. PICK f : f = [kind |-> k, state |-> gcState[t]]
  OBVIOUS
<1>. PICK c : c = Append(calls[t], f)
  OBVIOUS
<1>1. /\ calls[t] \in Seq(Frames) /\ gcState[t] \in {"unsafe", "safe"}
      /\ pc[t] = "user" /\ f \in Frames
  BY ThreadFacts DEF Running, States, Frames
<1>2. c \in Seq(Frames)
  BY <1>1, PushFrame
<1>3. Nested(c, new, p)
  <2>1. Nested(calls[t], gcState[t], "user")
    BY <1>1, ThreadFacts
  <2>. QED
    BY <1>1, <2>1, PushNested
<1>4. new = "unsafe" => gc # "marking" \/ gcState[t] = "unsafe"
  BY <1>1 DEF SetGcState
<1>5. /\ calls' = [calls EXCEPT ![t] = c]
      /\ gcState' = [gcState EXCEPT ![t] = new]
      /\ gc' = gc /\ collections' = collections
  <2>1. calls \in [Thread -> Seq(Frames)]
    BY DEF Inv, Typed, GcTypeOK, Frames
  <2>. QED
    BY <2>1 DEF Push, SetGcState
<1>6. gc' \in {"idle", "stopping", "marking"} /\ collections' \in 0..MaxCollections
  BY <1>5, ThreadFacts
<1>7. new \in States
  BY DEF States
<1>. QED
  BY <1>2, <1>3, <1>4, <1>5, <1>6, <1>7, ThreadChanges

(* A thread returns from the call that changed its state last.              *)
LEMMA LeaveChanges ==
    ASSUME Inv, NEW t \in Thread, calls[t] # <<>>, NEW old,
           Pop(t), SetGcState(t, Innermost(t).state, old),
           old = "safe" \/ gcState[t] = "unsafe",
           pc' = [pc EXCEPT ![t] = "user"]
    PROVE  /\ GcTypeOK' /\ pc' \in [Thread -> Places]
           /\ StatesNested' /\ StopTheWorld'
<1>. PICK c : c = SubSeq(calls[t], 1, Len(calls[t]) - 1)
  OBVIOUS
<1>. PICK s : s = calls[t][Len(calls[t])].state
  OBVIOUS
<1>1. calls[t] \in Seq(Frames)
  BY ThreadFacts
<1>2. c \in Seq(Frames) /\ s \in {"unsafe", "safe"}
  <2>1. calls[t][Len(calls[t])] \in Frames
    BY <1>1, PopFrame
  <2>. QED
    BY <1>1, <2>1, PopFrame DEF Frames
<1>3. Nested(c, s, "user")
  BY <1>1, ThreadFacts, PopNested
<1>4. s = "unsafe" => gc # "marking" \/ gcState[t] = "unsafe"
  BY DEF SetGcState, Innermost
<1>5. /\ calls' = [calls EXCEPT ![t] = c]
      /\ gcState' = [gcState EXCEPT ![t] = s]
      /\ gc' = gc /\ collections' = collections
  <2>1. calls \in [Thread -> Seq(Frames)]
    BY DEF Inv, Typed, GcTypeOK, Frames
  <2>. QED
    BY <2>1 DEF Pop, SetGcState, Innermost
<1>6. gc' \in {"idle", "stopping", "marking"} /\ collections' \in 0..MaxCollections
  BY <1>5, ThreadFacts
<1>7. s \in States /\ "user" \in Places
  BY <1>2 DEF States, Places
<1>. QED
  BY <1>2, <1>3, <1>4, <1>5, <1>6, <1>7, ThreadChanges

(* A thread parks or is granted the lock; nothing happens to its state.     *)
LEMMA PlaceChanges ==
    ASSUME Inv, NEW t \in Thread, NEW p \in Places,
           Nested(calls[t], gcState[t], p),
           UNCHANGED <<gcVars, calls>>,
           pc' = [pc EXCEPT ![t] = p]
    PROVE  /\ GcTypeOK' /\ pc' \in [Thread -> Places]
           /\ StatesNested' /\ StopTheWorld'
<1>1. /\ calls' = [calls EXCEPT ![t] = calls[t]]
      /\ gcState' = [gcState EXCEPT ![t] = gcState[t]]
      /\ gc' = gc /\ collections' = collections
  BY DEF Inv, Typed, GcTypeOK, gcVars
<1>2. gc' \in {"idle", "stopping", "marking"} /\ collections' \in 0..MaxCollections
  BY <1>1, ThreadFacts
<1>. QED
  BY <1>1, <1>2, ThreadFacts, ThreadChanges

(* Code outside of the primitives is in no call for a lock, so it may park  *)
(* without a call; a thread that is granted the lock is in the call or not. *)
LEMMA ParkNested ==
    ASSUME Inv, NEW t \in Thread, Running(t), NEW p \in {"unguarded", "timed"}
    PROVE  Nested(calls[t], gcState[t], p)
<1>1. Nested(calls[t], gcState[t], "user") /\ Len(calls[t]) \in Nat
  BY ThreadFacts, LenProperties DEF Running
<1>. QED
  BY <1>1 DEF Nested

LEMMA GrantNested ==
    ASSUME Inv, NEW t \in Thread, Parked(t)
    PROVE  Nested(calls[t], gcState[t], IF InCall(t, "lock") THEN "leaving" ELSE "user")
<1>1. /\ Nested(calls[t], gcState[t], pc[t]) /\ Len(calls[t]) \in Nat
      /\ calls[t] # <<>> => Len(calls[t]) \in 1..Len(calls[t])
      /\ \A i \in 1..Len(calls[t]) : calls[t] # <<>>
  BY ThreadFacts, LenProperties, EmptySeq
<1>2. CASE InCall(t, "lock")
  BY <1>1, <1>2 DEF Nested, InCall, Innermost
<1>3. CASE ~InCall(t, "lock")
  <2>1. \A i \in 1..Len(calls[t]) : calls[t][i].kind # "lock"
    BY <1>1, <1>3 DEF Nested, InCall, Innermost
  <2>. QED
    BY <1>1, <1>3, <2>1 DEF Nested, InCall, Innermost
<1>. QED
  BY <1>2, <1>3

-----------------------------------------------------------------------------
LEMMA InitInv == LockInit => Inv
<1>. SUFFICES ASSUME LockInit PROVE Inv
  OBVIOUS
<1>. USE DEF LockInit, GcInit
<1>1. <<>> \in Seq(Frames)
  BY EmptySeq
<1>2. Typed
  <2>1. 0 \in 0..MaxCollections
    BY GcThreadsAssumption DEF GcThreadsAssumption
  <2>. QED
    BY <1>1, <2>1 DEF Typed, GcTypeOK, States, Frames, Grants
<1>3. StatesNested
  <2>1. Len(<<>>) = 0 /\ 1..0 = {}
    BY EmptySeq
  <2>. QED
    BY <2>1 DEF StatesNested, Nested
<1>4. StopTheWorld
  BY DEF StopTheWorld
<1>. QED
  BY <1>2, <1>3, <1>4 DEF Inv

(* What a step of a lock leaves of the invariant to be proved.              *)
LEMMA LockTypes ==
    ASSUME GcTypeOK', pc' \in [Thread -> Places], StatesNested', StopTheWorld',
           holds' \in [Thread -> Grants], want' \in [Thread -> Grants]
    PROVE  Inv'
BY DEF Inv, Typed, Places

LEMMA ClosureInv ==
    ASSUME Inv, NEW t \in Thread, ClosureStep(t), UNCHANGED lockVars
    PROVE  Inv'
<1>1. holds' \in [Thread -> Grants] /\ want' \in [Thread -> Grants]
  BY DEF Inv, Typed, lockVars
<1>2. Running(t) => pc[t] = "user" /\ pc \in [Thread -> Places]
  BY DEF Running, Inv, Typed, Places
<1>3. "user" \in Places /\ {"gc_safe", "gc_unsafe"} \subseteq Kinds
  BY DEF Places, Kinds
<1>4. CASE GcSafe(t)
  <2>1. /\ Running(t) /\ Push(t, "gc_safe")
        /\ SetGcState(t, "safe", gcState[t])
        /\ pc' = [pc EXCEPT ![t] = "user"]
    BY <1>2, <1>4 DEF GcSafe, jlrs_gc_safe_enter
  <2>. QED
    BY <1>1, <1>3, <2>1, EnterChanges, LockTypes
<1>5. CASE GcUnsafe(t)
  <2>1. /\ Running(t) /\ Push(t, "gc_unsafe")
        /\ SetGcState(t, "unsafe", gcState[t])
        /\ pc' = [pc EXCEPT ![t] = "user"]
    BY <1>2, <1>5 DEF GcUnsafe, jlrs_gc_unsafe_enter
  <2>. QED
    BY <1>1, <1>3, <2>1, EnterChanges, LockTypes
<1>6. CASE GcSafeReturns(t)
  <2>1. /\ calls[t] # <<>> /\ Pop(t)
        /\ SetGcState(t, Innermost(t).state, "safe")
        /\ pc' = [pc EXCEPT ![t] = "user"]
    BY <1>2, <1>6 DEF GcSafeReturns, jlrs_gc_safe_leave, InCall
  <2>. QED
    BY <1>1, <2>1, LeaveChanges, LockTypes
<1>7. CASE GcUnsafeReturns(t)
  <2>1. /\ Running(t) /\ calls[t] # <<>> /\ Pop(t)
        /\ SetGcState(t, Innermost(t).state, "unsafe")
        /\ pc' = [pc EXCEPT ![t] = "user"]
        /\ calls[t][Len(calls[t])].kind = "gc_unsafe"
    BY <1>2, <1>7 DEF GcUnsafeReturns, jlrs_gc_unsafe_leave, InCall, Innermost
  <2>2. gcState[t] = "unsafe"
    BY <2>1, ThreadFacts DEF Nested, Running, States
  <2>. QED
    BY <1>1, <2>1, <2>2, LeaveChanges, LockTypes
<1>. QED
  BY <1>4, <1>5, <1>6, <1>7 DEF ClosureStep

LEMMA CollectorInv ==
    ASSUME Inv, CollectorStep, UNCHANGED lockVars
    PROVE  Inv'
<1>1. holds' \in [Thread -> Grants] /\ want' \in [Thread -> Grants]
  BY DEF Inv, Typed, lockVars
<1>2. /\ gcState \in [Thread -> States] /\ pc \in [Thread -> Places]
      /\ calls \in [Thread -> Seq(Frames)]
      /\ gc \in {"idle", "stopping", "marking"}
      /\ collections \in 0..MaxCollections
  BY DEF Inv, Typed, GcTypeOK, Places, Frames
<1>3. ASSUME NEW t \in Thread, Collect(t) \/ Safepoint(t) PROVE Inv'
  <2>1. Running(t) /\ gcState[t] = "unsafe"
    BY <1>3 DEF Collect, Safepoint
  <2>2. Nested(calls[t], "waiting", "user")
    <3>1. Nested(calls[t], gcState[t], "user") /\ pc[t] = "user"
      BY <2>1, ThreadFacts DEF Running
    <3>. QED
      BY <2>1, <3>1 DEF Nested
  <2>3. /\ calls' = [calls EXCEPT ![t] = calls[t]]
        /\ gcState' = [gcState EXCEPT ![t] = "waiting"]
        /\ pc' = [pc EXCEPT ![t] = "user"]
        /\ gc' \in {"idle", "stopping", "marking"}
        /\ gc' = "marking" => gc = "marking"
    BY <1>2, <1>3, <2>1 DEF Collect, Safepoint, Running
  <2>4. collections' \in 0..MaxCollections
    BY <1>2, <1>3, GcThreadsAssumption DEF Collect, Safepoint, GcThreadsAssumption
  <2>5. "waiting" \in States /\ "user" \in Places /\ calls[t] \in Seq(Frames)
    BY <1>2 DEF States, Places
  <2>. QED
    BY <1>1, <2>2, <2>3, <2>4, <2>5, ThreadChanges, LockTypes
<1>4. CASE Mark
  <2>1. /\ UNCHANGED <<gcState, collections, calls, pc>> /\ gc' = "marking"
        /\ \A t \in Thread : gcState[t] # "unsafe"
    BY <1>4 DEF Mark
  <2>2. GcTypeOK' /\ pc' \in [Thread -> Places]
    BY <1>2, <2>1 DEF GcTypeOK, Frames
  <2>3. StatesNested' /\ StopTheWorld'
    BY <2>1 DEF Inv, StatesNested, Nested, StopTheWorld
  <2>. QED
    BY <1>1, <2>2, <2>3, LockTypes
<1>5. CASE Resume
  <2>1. /\ UNCHANGED <<collections, calls, pc>> /\ gc' = "idle"
        /\ gcState' = [t \in Thread |->
              IF gcState[t] = "waiting" THEN "unsafe" ELSE gcState[t]]
    BY <1>5 DEF Resume
  <2>2. GcTypeOK' /\ pc' \in [Thread -> Places]
    BY <1>2, <2>1 DEF GcTypeOK, Frames, States
  <2>3. ASSUME NEW t \in Thread PROVE Nested(calls[t], gcState'[t], pc[t])
    <3>1. Nested(calls[t], gcState[t], pc[t])
      BY ThreadFacts
    <3>2. gcState'[t] = IF gcState[t] = "waiting" THEN "unsafe" ELSE gcState[t]
      BY <2>1
    <3>. QED
      BY <3>1, <3>2 DEF Nested
  <2>4. StatesNested'
    BY <2>1, <2>3 DEF StatesNested, Nested
  <2>5. StopTheWorld'
    BY <2>1 DEF StopTheWorld
  <2>. QED
    BY <1>1, <2>2, <2>4, <2>5, LockTypes
<1>. QED
  BY <1>3, <1>4, <1>5 DEF CollectorStep

LEMMA LockInv ==
    ASSUME Inv, NEW t \in Thread, LockStep(t)
    PROVE  Inv'
<1>1. /\ holds \in [Thread -> Grants] /\ want \in [Thread -> Grants]
      /\ pc \in [Thread -> Places] /\ GcTypeOK /\ StatesNested /\ StopTheWorld
  BY DEF Inv, Typed, Places
<1>2. Modes \subseteq Grants /\ "none" \in Grants /\ holds[t] \in Grants
  BY <1>1 DEF Grants
<1>3. {"user", "blocked", "unguarded", "timed", "leaving"} \subseteq Places /\ "lock" \in Kinds
  BY DEF Places, Kinds
<1>4. ASSUME UNCHANGED <<threadVars, want>>,
             NEW mode \in Grants, holds' = [holds EXCEPT ![t] = mode]
      PROVE  Inv'
  <2>1. holds' \in [Thread -> Grants] /\ want' \in [Thread -> Grants]
    BY <1>1, <1>2, <1>4
  <2>2. GcTypeOK' /\ pc' \in [Thread -> Places] /\ StatesNested' /\ StopTheWorld'
    BY <1>1, <1>4 DEF threadVars, GcTypeOK, StatesNested, Nested, StopTheWorld
  <2>. QED
    BY <2>1, <2>2, LockTypes
<1>5. ASSUME NEW mode \in Grants, Running(t), jlrs_gc_safe_enter(t, "lock"),
             Park(t, mode, "blocked"), UNCHANGED holds
      PROVE  Inv'
  <2>1. holds' \in [Thread -> Grants] /\ want' \in [Thread -> Grants]
    BY <1>1, <1>5 DEF Park
  <2>2. /\ Push(t, "lock") /\ SetGcState(t, "safe", gcState[t])
        /\ pc' = [pc EXCEPT ![t] = "blocked"]
    BY <1>5 DEF jlrs_gc_safe_enter, Park
  <2>. QED
    BY <1>3, <1>5, <2>1, <2>2, EnterChanges, LockTypes
<1>6. ASSUME NEW mode \in Grants, NEW p \in {"unguarded", "timed"}, Running(t),
             Park(t, mode, p), UNCHANGED <<gcVars, calls>>,
             holds' \in [Thread -> Grants]
      PROVE  Inv'
  <2>1. want' \in [Thread -> Grants] /\ pc' = [pc EXCEPT ![t] = p]
    BY <1>1, <1>6 DEF Park
  <2>2. Nested(calls[t], gcState[t], p) /\ p \in Places
    BY <1>3, <1>6, ParkNested
  <2>. QED
    BY <1>6, <2>1, <2>2, PlaceChanges, LockTypes
<1>7. ASSUME NEW mode \in Modes, TryLock(t, mode) PROVE Inv'
  BY <1>2, <1>4, <1>7 DEF TryLock
<1>8. ASSUME NEW mode \in Modes, LockSlow(t, mode) PROVE Inv'
  BY <1>2, <1>5, <1>8 DEF LockSlow
<1>9. ASSUME NEW mode \in Modes, Downgrade(t, mode) PROVE Inv'
  BY <1>2, <1>4, <1>9 DEF Downgrade
<1>10. ASSUME NEW mode \in Modes, TryLockFor(t, mode) PROVE Inv'
  BY <1>1, <1>2, <1>6, <1>10 DEF TryLockFor
<1>11. CASE Upgrade(t)
  <2>1. "exclusive" \in Grants
    BY <1>1, <1>11, LockAssumption DEF Upgrade, LockAssumption, Grants
  <2>2. CASE Available(t, "exclusive")
    BY <1>4, <1>11, <2>1, <2>2 DEF Upgrade
  <2>3. CASE ~Available(t, "exclusive")
    BY <1>5, <1>11, <2>1, <2>3 DEF Upgrade
  <2>. QED
    BY <2>2, <2>3
<1>12. CASE Granted(t)
  <2>1. PICK p \in Places : p = IF InCall(t, "lock") THEN "leaving" ELSE "user"
    BY <1>3
  <2>2. /\ Parked(t) /\ UNCHANGED <<gcVars, calls>>
        /\ pc' = [pc EXCEPT ![t] = p]
    BY <1>12, <2>1 DEF Granted
  <2>3. Nested(calls[t], gcState[t], p)
    BY <2>1, <2>2, GrantNested
  <2>4. holds' \in [Thread -> Grants] /\ want' \in [Thread -> Grants]
    BY <1>1, <1>2, <1>12 DEF Granted
  <2>. QED
    BY <2>2, <2>3, <2>4, PlaceChanges, LockTypes
<1>13. CASE LeaveLock(t)
  <2>1. /\ pc[t] = "leaving" /\ Pop(t)
        /\ SetGcState(t, Innermost(t).state, "safe")
        /\ pc' = [pc EXCEPT ![t] = "user"]
        /\ UNCHANGED <<holds, want>>
    BY <1>13 DEF LeaveLock, jlrs_gc_safe_leave, lockVars
  <2>2. calls[t] # <<>>
    BY <2>1, ThreadFacts DEF Nested
  <2>. QED
    BY <1>1, <2>1, <2>2, LeaveChanges, LockTypes
<1>14. CASE Unlock(t)
  BY <1>2, <1>4, <1>14 DEF Unlock
<1>15. CASE LockSharedRecursive(t)
  BY <1>1, <1>2, <1>6, <1>15 DEF LockSharedRecursive
<1>16. CASE GiveUp(t)
  <2>1. ~InCall(t, "lock")
    <3>1. Nested(calls[t], gcState[t], "timed") /\ Len(calls[t]) \in Nat
      BY <1>16, ThreadFacts, LenProperties DEF GiveUp
    <3>2. calls[t] # <<>> => Len(calls[t]) \in 1..Len(calls[t])
      BY <3>1, ThreadFacts, EmptySeq
    <3>. QED
      BY <3>1, <3>2 DEF Nested, InCall, Innermost
  <2>2. Nested(calls[t], gcState[t], "user")
    BY <1>16, <2>1, GrantNested DEF GiveUp, Parked
  <2>3. /\ UNCHANGED <<gcVars, calls>> /\ pc' = [pc EXCEPT ![t] = "user"]
        /\ holds' \in [Thread -> Grants] /\ want' \in [Thread -> Grants]
    BY <1>1, <1>2, <1>16 DEF GiveUp
  <2>. QED
    BY <1>3, <2>2, <2>3, PlaceChanges, LockTypes
<1>17. CASE Bump(t)
  BY <1>1, <1>2, <1>6, <1>17 DEF Bump
<1>. QED
  BY <1>7, <1>8, <1>9, <1>10, <1>11, <1>12, <1>13, <1>14, <1>15, <1>16, <1>17
  DEF LockStep

LEMMA StepInv == Inv /\ [Next]_vars => Inv'
<1>. SUFFICES ASSUME Inv, [Next]_vars PROVE Inv'
  OBVIOUS
<1>1. ASSUME NEW t \in Thread, LockStep(t) PROVE Inv'
  BY <1>1, LockInv
<1>2. ASSUME NEW t \in Thread, ClosureStep(t), UNCHANGED lockVars PROVE Inv'
  BY <1>2, ClosureInv
<1>3. CASE CollectorStep /\ UNCHANGED lockVars
  BY <1>3, CollectorInv
<1>4. CASE UNCHANGED vars
  BY <1>4 DEF Inv, Typed, GcTypeOK, StatesNested, Nested, StopTheWorld,
              vars, threadVars, lockVars
<1>. QED
  BY <1>1, <1>2, <1>3, <1>4 DEF Next

LEMMA Invariance == Spec => []Inv
<1>. QED
  BY InitInv, StepInv, PTL DEF Spec

-----------------------------------------------------------------------------
(* A thread that parks wants the lock, and one that continues does not.     *)
LEMMA ParkChangesWant ==
    ASSUME Typed, ParkedWants, NEW t \in Thread, NEW p \in Places, NEW mode,
           pc' = [pc EXCEPT ![t] = p], want' = [want EXCEPT ![t] = mode],
           p \in {"blocked", "unguarded", "timed"} <=> mode # "none"
    PROVE  ParkedWants'
BY DEF Typed, ParkedWants, Parked

LEMMA WantInv ==
    ASSUME Typed, ParkedWants, [Next]_vars
    PROVE  ParkedWants'
<1>. USE DEF Places
<1>1. \A t \in Thread : pc[t] \in Places /\ holds[t] \in Grants
  BY DEF Typed
<1>2. "none" \notin Modes
  BY LockAssumption DEF LockAssumption
<1>3. ASSUME UNCHANGED <<pc, want>> PROVE ParkedWants'
  BY <1>3 DEF ParkedWants, Parked
<1>4. ASSUME NEW t \in Thread, NEW p \in {"blocked", "unguarded", "timed"},
             NEW mode, mode # "none", Park(t, mode, p)
      PROVE  ParkedWants'
  BY <1>4, ParkChangesWant DEF Park
<1>5. ASSUME NEW t \in Thread, LockStep(t) PROVE ParkedWants'
  <2>1. ASSUME NEW mode \in Modes, TryLock(t, mode) \/ Downgrade(t, mode)
        PROVE  ParkedWants'
    BY <1>3, <2>1 DEF TryLock, Downgrade, threadVars
  <2>2. ASSUME NEW mode \in Modes, LockSlow(t, mode) \/ TryLockFor(t, mode)
        PROVE  ParkedWants'
    BY <1>2, <1>4, <2>2 DEF LockSlow, TryLockFor
  <2>3. CASE Upgrade(t)
    BY <1>3, <1>4, <2>3 DEF Upgrade, threadVars
  <2>4. CASE Granted(t)
    <3>1. PICK p \in {"leaving", "user"} :
              p = IF InCall(t, "lock") THEN "leaving" ELSE "user"
      OBVIOUS
    <3>. QED
      BY <2>4, <3>1, ParkChangesWant DEF Granted
  <2>5. CASE LeaveLock(t)
    <3>1. want[t] = "none" /\ want' = want /\ pc' = [pc EXCEPT ![t] = "user"]
      BY <2>5 DEF LeaveLock, ParkedWants, Parked, lockVars
    <3>. QED
      BY <3>1 DEF ParkedWants, Parked, Typed
  <2>6. CASE Unlock(t)
    BY <1>3, <2>6 DEF Unlock, threadVars
  <2>7. CASE LockSharedRecursive(t) \/ Bump(t)
    BY <1>4, <2>7 DEF LockSharedRecursive, Bump
  <2>8. CASE GiveUp(t)
    BY <2>8, ParkChangesWant DEF GiveUp
  <2>. QED
    BY <1>5, <2>1, <2>2, <2>3, <2>4, <2>5, <2>6, <2>7, <2>8 DEF LockStep
<1>6. ASSUME NEW t \in Thread, ClosureStep(t) /\ UNCHANGED lockVars
      PROVE  ParkedWants'
  BY <1>3, <1>6 DEF ClosureStep, GcSafe, GcSafeReturns, GcUnsafe, GcUnsafeReturns,
                    lockVars
<1>7. CASE CollectorStep /\ UNCHANGED lockVars
  BY <1>3, <1>7 DEF CollectorStep, Collect, Safepoint, Mark, Resume, lockVars
<1>8. CASE UNCHANGED vars
  BY <1>3, <1>8 DEF vars, threadVars, lockVars
<1>. QED
  BY <1>5, <1>6, <1>7, <1>8 DEF Next

(* The variables have their types, and exactly the parked threads want the  *)
(* lock, whoever bumps, gives up or is granted it.                          *)
THEOREM LocksTyped == Spec => []LockTypeOK
<1>1. LockInit => ParkedWants
  BY DEF LockInit, GcInit, ParkedWants, Parked
<1>2. Inv /\ ParkedWants /\ [Next]_vars => ParkedWants'
  BY WantInv DEF Inv
<1>3. Inv /\ ParkedWants => LockTypeOK
  BY DEF Inv, Typed, LockTypeOK, ParkedWants
<1>. QED
  BY <1>1, <1>2, <1>3, Invariance, PTL DEF Spec

(* While the collector marks no thread is in an unsafe state, although      *)
(* threads lock, are granted the lock and leave safe states meanwhile.      *)
THEOREM WorldIsStopped == Spec => []StopTheWorld
<1>1. Inv => StopTheWorld
  BY DEF Inv
<1>. QED
  BY <1>1, Invariance, PTL

(* However the closures and locks are nested, user code is in a safe state  *)
(* exactly when gc_safe called it last.                                     *)
THEOREM StatesRestored == Spec => []StateRestored
<1>1. Inv => StateRestored
  <2>. SUFFICES ASSUME Inv, NEW t \in Thread, pc[t] = "user"
                PROVE  gcState[t] = "safe" <=> InCall(t, "gc_safe")
    BY DEF StateRestored
  <2>1. /\ Nested(calls[t], gcState[t], "user") /\ Len(calls[t]) \in Nat
        /\ calls[t] # <<>> => Len(calls[t]) \in 1..Len(calls[t])
    BY ThreadFacts, LenProperties, EmptySeq
  <2>. QED
    BY <2>1 DEF Nested, InCall, Innermost
<1>. QED
  BY <1>1, Invariance, PTL

(* "All of them guarantee the calling thread is in a GC-safe state while it *)
(* is blocked" holds of the methods that take or upgrade the lock.          *)
THEOREM BlockedThreadsAreSafe == Spec => []BlockedIsSafe
<1>1. Inv => BlockedIsSafe
  <2>. SUFFICES ASSUME Inv, NEW t \in Thread, pc[t] = "blocked"
                PROVE  gcState[t] = "safe"
    BY DEF BlockedIsSafe
  <2>. QED
    BY ThreadFacts DEF Nested
<1>. QED
  BY <1>1, Invariance, PTL

\* Each lock operation leaves the state it entered.
THEOREM LocksAreOK == Spec => []LocksOK
<1>1. LockTypeOK /\ StateRestored => LocksOK
    BY DEF LocksOK
<1> QED
    BY <1>1, LocksTyped, StatesRestored, PTL
-----------------------------------------------------------------------------
(* The cell.  What the calls of a thread say of its state and place: a      *)
(* thread is in a method of the cell exactly if its last call is for it,    *)
(* and only an initializer runs inside of such a call.  The states say what *)
(* the calls do, except at the depths in T, where a caught panic left the   *)
(* wrong one.                                                               *)
CellKinds == {"cell", "try_cell"}
SafeKinds == CellKinds \cup {"gc_safe"}
InCell == {"wait", "set", "init", "start", "leave"}

CellNested(c, state, place, T) ==
    /\ \A i \in 1..Len(c) :
          i - 1 \notin T =>
             (c[i].state = "safe" <=> i > 1 /\ c[i - 1].kind \in SafeKinds)
    /\ \A i \in 1..Len(c) :
          c[i].kind \in CellKinds =>
             IF i = Len(c) THEN place \in InCell ELSE c[i + 1].kind = "init"
    /\ \A i \in 1..Len(c) :
          c[i].kind = "init" => i > 1 /\ c[i - 1].kind \in CellKinds
    /\ Len(c) \notin T =>
          (state = "safe" <=> c # <<>> /\ c[Len(c)].kind \in SafeKinds)
    /\ place \in InCell => c # <<>> /\ c[Len(c)].kind \in CellKinds
    /\ T \subseteq 0..Len(c)
    /\ \A i \in 1..Len(c) : i \in T => c[i].kind \notin CellKinds

OnceInv ==
    /\ OnceTypeOK
    /\ \A t \in Thread : CellNested(calls[t], gcState[t], pc[t], torn[t])

CellPlaces == InCell \cup {"user", "insert"}

(* A thread calls a method of the cell, an initializer or a closure.        *)
LEMMA PushCellNested ==
    ASSUME NEW c \in Seq(Frames), NEW f \in Frames, NEW p, NEW T,
           CellNested(c, f.state, p, T), NEW s \in {"unsafe", "safe"}, NEW q,
           s = "safe" <=> f.kind \in SafeKinds,
           f.kind \in CellKinds <=> q \in InCell,
           f.kind = "init" <=> p \in InCell
    PROVE  CellNested(Append(c, f), s, q, T)
<1>. PICK d : d = Append(c, f)
  OBVIOUS
<1>1. /\ d # <<>> /\ Len(d) = Len(c) + 1 /\ d[Len(d)] = f /\ Len(c) \in Nat
      /\ \A i \in 1..Len(c) : d[i] = c[i]
  BY PushFrame
<1>2. c = <<>> <=> Len(c) = 0
  BY EmptySeq
<1>3. \A i \in 1..Len(d) : i # Len(d) => i \in 1..Len(c) /\ d[i] = c[i]
  BY <1>1
<1>4. \A i \in 1..Len(d) : i > 1 => i - 1 \in 1..Len(c) /\ d[i - 1] = c[i - 1]
  BY <1>1
<1>5. \A i \in 1..Len(d) :
        i - 1 \notin T =>
           (d[i].state = "safe" <=> i > 1 /\ d[i - 1].kind \in SafeKinds)
  <2>. TAKE i \in 1..Len(d)
  <2>1. CASE i = Len(d)
    <3>1. i - 1 = Len(c) /\ (i > 1 <=> c # <<>>) /\ (i > 1 => d[i - 1] = c[Len(c)])
      BY <2>1, <1>1, <1>2, <1>4
    <3>. QED
      BY <2>1, <1>1, <3>1 DEF CellNested
  <2>2. CASE i # Len(d)
    BY <2>2, <1>3, <1>4 DEF CellNested
  <2>. QED
    BY <2>1, <2>2
<1>6. p \in InCell <=> c # <<>> /\ c[Len(c)].kind \in CellKinds
  BY <1>1, <1>2 DEF CellNested
<1>7. \A i \in 1..Len(d) :
        d[i].kind \in CellKinds =>
           IF i = Len(d) THEN q \in InCell ELSE d[i + 1].kind = "init"
  <2>. TAKE i \in 1..Len(d)
  <2>1. CASE i = Len(d)
    BY <2>1, <1>1
  <2>2. CASE i = Len(c) /\ i # Len(d)
    BY <2>2, <1>1, <1>2, <1>3, <1>6
  <2>3. CASE i # Len(c) /\ i # Len(d)
    <3>1. i \in 1..Len(c) /\ i + 1 \in 1..Len(c) /\ d[i] = c[i] /\ d[i + 1] = c[i + 1]
      BY <2>3, <1>1
    <3>. QED
      BY <2>3, <3>1 DEF CellNested
  <2>. QED
    BY <2>1, <2>2, <2>3
<1>8. \A i \in 1..Len(d) :
        d[i].kind = "init" => i > 1 /\ d[i - 1].kind \in CellKinds
  <2>. TAKE i \in 1..Len(d)
  <2>1. CASE i = Len(d)
    BY <2>1, <1>1, <1>2, <1>4, <1>6
  <2>2. CASE i # Len(d)
    BY <2>2, <1>3, <1>4 DEF CellNested
  <2>. QED
    BY <2>1, <2>2
<1>9. /\ Len(d) \notin T /\ T \subseteq 0..Len(d)
      /\ \A i \in 1..Len(d) : i \in T => d[i].kind \notin CellKinds
  <2>1. T \subseteq 0..Len(c)
    BY DEF CellNested
  <2>. QED
    BY <1>1, <1>3, <2>1 DEF CellNested
<1>10. CellNested(d, s, q, T)
  BY <1>1, <1>5, <1>7, <1>8, <1>9 DEF CellNested
<1>. QED
  BY <1>10

(* It returns from the last call, or, after a panic, from several.          *)
LEMMA CutCellNested ==
    ASSUME NEW c \in Seq(Frames), NEW s, NEW p, NEW T, CellNested(c, s, p, T),
           NEW n \in Nat, n < Len(c), NEW q, NEW r, NEW U,
           U \subseteq 0..n, \A i \in U : i \in T \/ i = n,
           \A i \in T : i < n => i \in U,
           n \in U => n = 0 \/ c[n].kind \notin CellKinds,
           n \notin U => (r = "safe" <=> n > 0 /\ c[n].kind \in SafeKinds),
           q \in InCell <=> n > 0 /\ c[n].kind \in CellKinds
    PROVE  CellNested(SubSeq(c, 1, n), r, q, U)
<1>. PICK d : d = SubSeq(c, 1, n)
  OBVIOUS
<1>1. Len(d) = n /\ \A i \in 1..n : d[i] = c[i]
  <2>1. Len(c) \in Nat /\ n <= Len(c)
    BY LenProperties
  <2>. HIDE DEF Frames
  <2>. QED
    BY <2>1, Prefix
<1>2. d = <<>> <=> n = 0
  <2>1. d \in Seq(Frames)
    <3>. HIDE DEF Frames
    <3>. QED
      BY Prefix, LenProperties
  <2>. QED
    BY <1>1, <2>1, EmptySeq
<1>3. Len(c) \in Nat /\ \A i \in 1..n : i \in 1..Len(c) /\ i # Len(c)
  BY LenProperties
<1>4. \A i \in 1..n : i > 1 => d[i - 1] = c[i - 1]
  BY <1>1
<1>5. \A i \in 1..n : i # n => d[i + 1] = c[i + 1]
  BY <1>1
<1>6. \A i \in 1..n :
        i - 1 \notin U =>
           (d[i].state = "safe" <=> i > 1 /\ d[i - 1].kind \in SafeKinds)
  <2>. TAKE i \in 1..n
  <2>1. i - 1 < n
    OBVIOUS
  <2>. QED
    BY <1>1, <1>3, <1>4, <2>1 DEF CellNested
<1>7. \A i \in 1..n :
        d[i].kind \in CellKinds =>
           IF i = n THEN q \in InCell ELSE d[i + 1].kind = "init"
  BY <1>1, <1>3, <1>5 DEF CellNested
<1>8. \A i \in 1..n :
        d[i].kind = "init" => i > 1 /\ d[i - 1].kind \in CellKinds
  BY <1>1, <1>3, <1>4 DEF CellNested
<1>9. /\ n \notin U => (r = "safe" <=> d # <<>> /\ d[n].kind \in SafeKinds)
      /\ q \in InCell => d # <<>> /\ d[n].kind \in CellKinds
  <2>1. n > 0 => n \in 1..n /\ d[n] = c[n]
    BY <1>1
  <2>. QED
    BY <1>2, <2>1
<1>10. \A i \in 1..n : i \in U => d[i].kind \notin CellKinds
  BY <1>1, <1>3 DEF CellNested
<1>11. CellNested(d, r, q, U)
  BY <1>1, <1>6, <1>7, <1>8, <1>9, <1>10 DEF CellNested
<1>. QED
  BY <1>11

LEMMA PopCellNested ==
    ASSUME NEW c \in Seq(Frames), c # <<>>, NEW s, NEW p, NEW T,
           CellNested(c, s, p, T), NEW q,
           q \in InCell <=> c[Len(c)].kind = "init"
    PROVE  CellNested(SubSeq(c, 1, Len(c) - 1), c[Len(c)].state, q,
                      {i \in T : i <= Len(c) - 1})
<1>1. Len(c) \in Nat \ {0}
  BY PopFrame
<1>. PICK n \in Nat : n = Len(c) - 1
  BY <1>1
<1>. PICK m \in Nat : m = Len(c)
  BY <1>1
<1>2. n = m - 1 /\ n < m /\ m \in 1..m /\ (m > 1 <=> n > 0) /\ (n > 0 => n \in 1..m)
      /\ n + 1 = m
  BY <1>1
<1>3. n \notin T => (c[m].state = "safe" <=> n > 0 /\ c[n].kind \in SafeKinds)
  BY <1>2 DEF CellNested
<1>4. q \in InCell <=> n > 0 /\ c[n].kind \in CellKinds
  <2>1. n > 0 /\ c[n].kind \in CellKinds => c[m].kind = "init"
    BY <1>2 DEF CellNested
  <2>2. c[m].kind = "init" => n > 0 /\ c[n].kind \in CellKinds
    BY <1>2 DEF CellNested
  <2>. QED
    BY <2>1, <2>2
<1>. PICK U : U = {i \in T : i <= n}
  OBVIOUS
<1>5. /\ U \subseteq 0..n /\ (\A i \in U : i \in T) /\ (\A i \in T : i < n => i \in U)
      /\ (n \in U <=> n \in T)
  <2>1. T \subseteq 0..m
    BY DEF CellNested
  <2>2. \A i \in T : i \in Nat
    BY <1>2, <2>1
  <2>3. \A i \in U : i \in 0..n
    BY <2>2
  <2>. QED
    BY <2>2, <2>3, <1>2
<1>6. n \in T => n = 0 \/ c[n].kind \notin CellKinds
  BY <1>2 DEF CellNested
<1>7. CellNested(SubSeq(c, 1, n), c[m].state, q, U)
  BY <1>2, <1>3, <1>4, <1>5, <1>6, CutCellNested
<1>. QED
  BY <1>7

(* A step of one thread.                                                    *)
LEMMA CellThreadStep ==
    ASSUME OnceInv, NEW t \in Thread,
           NEW c \in Seq(Frames), calls' = [calls EXCEPT ![t] = c],
           NEW s \in States, gcState' = [gcState EXCEPT ![t] = s],
           NEW p \in CellPlaces, pc' = [pc EXCEPT ![t] = p],
           NEW T, torn' = [torn EXCEPT ![t] = T],
           CellNested(c, s, p, T),
           gc' \in {"idle", "stopping", "marking"}, collections' \in 0..MaxCollections,
           cell' \in {"empty", "busy", "full"}
    PROVE  OnceInv'
<1>1. /\ gcState \in [Thread -> States] /\ pc \in [Thread -> CellPlaces]
      /\ calls \in [Thread -> Seq(Frames)] /\ torn \in [Thread -> SUBSET Nat]
  BY DEF OnceInv, OnceTypeOK, GcTypeOK, CellPlaces, InCell, Frames
<1>2. OnceTypeOK'
  <2>1. pc' \in [Thread -> CellPlaces]
    BY <1>1
  <2>2. pc' \in [Thread -> {"user", "wait", "set", "insert", "init", "start", "leave"}]
    BY <2>1 DEF CellPlaces, InCell
  <2>3. GcTypeOK'
    BY <1>1 DEF GcTypeOK, Frames
  <2>4. T \in SUBSET Nat /\ T \subseteq 0..Len(c)
    BY DEF CellNested
  <2>5. torn' \in [Thread -> SUBSET Nat]
    BY <1>1, <2>4
  <2>6. ASSUME NEW u \in Thread PROVE torn'[u] \subseteq 0..Len(calls'[u])
    <3>1. CASE u = t
      BY <1>1, <2>4, <3>1
    <3>2. CASE u # t
      BY <1>1, <3>2 DEF OnceInv, OnceTypeOK
    <3>. QED
      BY <3>1, <3>2
  <2>. QED
    BY <2>2, <2>3, <2>5, <2>6 DEF OnceTypeOK
<1>3. ASSUME NEW u \in Thread PROVE CellNested(calls'[u], gcState'[u], pc'[u], torn'[u])
  <2>1. CASE u = t
    BY <1>1, <2>1
  <2>2. CASE u # t
    <3>1. calls'[u] = calls[u] /\ gcState'[u] = gcState[u] /\ pc'[u] = pc[u] /\ torn'[u] = torn[u]
      BY <1>1, <2>2
    <3>. QED
      BY <3>1 DEF OnceInv
  <2>. QED
    BY <2>1, <2>2
<1>. QED
  BY <1>2, <1>3 DEF OnceInv, CellNested

LEMMA CellThreadFacts ==
    ASSUME OnceInv, NEW t \in Thread
    PROVE  /\ calls[t] \in Seq(Frames) /\ gcState[t] \in States
           /\ pc[t] \in CellPlaces /\ CellNested(calls[t], gcState[t], pc[t], torn[t])
           /\ gc \in {"idle", "stopping", "marking"}
           /\ collections \in 0..MaxCollections
           /\ cell \in {"empty", "busy", "full"}
           /\ gcState = [gcState EXCEPT ![t] = gcState[t]]
           /\ calls = [calls EXCEPT ![t] = calls[t]]
           /\ calls \in [Thread -> Seq(Frames)]
           /\ pc = [pc EXCEPT ![t] = pc[t]]
           /\ torn = [torn EXCEPT ![t] = torn[t]]
           /\ torn \in [Thread -> SUBSET Nat] /\ torn[t] \subseteq 0..Len(calls[t])
BY DEF OnceInv, OnceTypeOK, GcTypeOK, CellPlaces, InCell, Frames

(* What a step of t leaves torn.                                            *)
LEMMA ThreadMends ==
    ASSUME OnceInv, NEW t \in Thread, NEW c \in Seq(Frames),
           calls' = [calls EXCEPT ![t] = c], Mends
    PROVE  torn' = [torn EXCEPT ![t] = {d \in torn[t] : d <= Len(c)}]
<1>1. calls \in [Thread -> Seq(Frames)] /\ torn \in [Thread -> SUBSET Nat]
  BY CellThreadFacts
<1>2. ASSUME NEW u \in Thread, u # t
      PROVE  {d \in torn[u] : d <= Len(calls'[u])} = torn[u]
  <2>1. calls'[u] = calls[u] /\ torn[u] \subseteq 0..Len(calls[u]) /\ Len(calls[u]) \in Nat
    BY <1>1, <1>2, CellThreadFacts, LenProperties
  <2>. QED
    BY <2>1
<1>3. calls'[t] = c
  BY <1>1
<1>. QED
  BY <1>1, <1>2, <1>3 DEF Mends

LEMMA NothingToMend ==
    ASSUME OnceInv, NEW t \in Thread, NEW c \in Seq(Frames), Len(c) >= Len(calls[t])
    PROVE  {d \in torn[t] : d <= Len(c)} = torn[t]
<1>1. torn[t] \subseteq 0..Len(calls[t]) /\ Len(calls[t]) \in Nat /\ Len(c) \in Nat
  BY CellThreadFacts, LenProperties
<1>. QED
  BY <1>1

(* A thread enters a method of the cell, an initializer or a closure, and   *)
(* returns from it.                                                         *)
LEMMA EnterCell ==
    ASSUME OnceInv, NEW t \in Thread, gcState[t] # "waiting", NEW k \in Kinds,
           NEW s \in {"unsafe", "safe"}, NEW p \in CellPlaces,
           Push(t, k), SetGcState(t, s, gcState[t]), pc' = [pc EXCEPT ![t] = p],
           cell' \in {"empty", "busy", "full"},
           s = "safe" <=> k \in SafeKinds,
           k \in CellKinds <=> p \in InCell,
           k = "init" <=> pc[t] \in InCell, Mends
    PROVE  OnceInv'
<1>. PICK f : f = [kind |-> k, state |-> gcState[t]]
  OBVIOUS
<1>. PICK c : c = Append(calls[t], f)
  OBVIOUS
<1>1. f \in Frames /\ f.kind = k /\ f.state = gcState[t]
  BY CellThreadFacts DEF States, Frames
<1>2. c \in Seq(Frames) /\ CellNested(c, s, p, torn[t]) /\ Len(c) >= Len(calls[t])
  <2>1. calls[t] \in Seq(Frames) /\ CellNested(calls[t], f.state, pc[t], torn[t])
    BY <1>1, CellThreadFacts
  <2>2. CellNested(Append(calls[t], f), s, p, torn[t])
    BY <1>1, <2>1, PushCellNested, ZenonT(30)
  <2>. QED
    BY <1>1, <2>1, <2>2, PushFrame
<1>3. /\ calls' = [calls EXCEPT ![t] = c] /\ gcState' = [gcState EXCEPT ![t] = s]
      /\ gc' = gc /\ collections' = collections
  BY CellThreadFacts DEF Push, SetGcState
<1>4. s \in States
  BY DEF States
<1>5. torn' = [torn EXCEPT ![t] = torn[t]]
  BY <1>2, <1>3, ThreadMends, NothingToMend
<1>. QED
  BY <1>2, <1>3, <1>4, <1>5, CellThreadFacts, CellThreadStep

LEMMA LeaveCell ==
    ASSUME OnceInv, NEW t \in Thread, calls[t] # <<>>, NEW old, NEW p \in CellPlaces,
           Pop(t), SetGcState(t, Innermost(t).state, old), pc' = [pc EXCEPT ![t] = p],
           cell' \in {"empty", "busy", "full"},
           p \in InCell <=> Innermost(t).kind = "init", Mends
    PROVE  OnceInv'
<1>. PICK c : c = SubSeq(calls[t], 1, Len(calls[t]) - 1)
  OBVIOUS
<1>. PICK s : s = Innermost(t).state
  OBVIOUS
<1>1. calls[t] \in Seq(Frames)
  BY CellThreadFacts
<1>2. c \in Seq(Frames) /\ s \in States
  <2>1. calls[t][Len(calls[t])] \in Frames /\ c \in Seq(Frames)
    BY <1>1, PopFrame
  <2>. QED
    BY <2>1 DEF Frames, States, Innermost
<1>. PICK T : T = {d \in torn[t] : d <= Len(c)}
  OBVIOUS
<1>3. CellNested(c, s, p, T)
  <2>1. T = {d \in torn[t] : d <= Len(calls[t]) - 1}
    BY <1>1, PopFrame
  <2>2. CellNested(calls[t], gcState[t], pc[t], torn[t])
    BY CellThreadFacts
  <2>3. CellNested(SubSeq(calls[t], 1, Len(calls[t]) - 1), calls[t][Len(calls[t])].state, p,
                   {d \in torn[t] : d <= Len(calls[t]) - 1})
    BY <1>1, <2>2, PopCellNested DEF Innermost
  <2>. QED
    BY <2>1, <2>3 DEF Innermost
<1>4. /\ calls' = [calls EXCEPT ![t] = c] /\ gcState' = [gcState EXCEPT ![t] = s]
      /\ gc' = gc /\ collections' = collections
  BY CellThreadFacts DEF Pop, SetGcState
<1>5. torn' = [torn EXCEPT ![t] = T]
  BY <1>2, <1>4, ThreadMends
<1>. QED
  BY <1>2, <1>3, <1>4, <1>5, CellThreadFacts, CellThreadStep

(* It goes on in the call it is in.                                         *)
LEMMA StayInCell ==
    ASSUME OnceInv, NEW t \in Thread, NEW p \in CellPlaces,
           pc' = [pc EXCEPT ![t] = p], UNCHANGED <<gcVars, calls>>,
           cell' \in {"empty", "busy", "full"},
           p \in InCell <=> pc[t] \in InCell, Mends
    PROVE  OnceInv'
<1>1. CellNested(calls[t], gcState[t], p, torn[t])
  BY CellThreadFacts DEF CellNested
<1>2. /\ calls' = [calls EXCEPT ![t] = calls[t]]
      /\ gcState' = [gcState EXCEPT ![t] = gcState[t]]
      /\ gc' = gc /\ collections' = collections
  BY CellThreadFacts DEF gcVars
<1>3. calls[t] \in Seq(Frames) /\ Len(calls[t]) \in Nat
  BY CellThreadFacts, LenProperties
<1>4. torn' = [torn EXCEPT ![t] = torn[t]]
  <2>1. Len(calls[t]) >= Len(calls[t])
    BY <1>3
  <2>2. {d \in torn[t] : d <= Len(calls[t])} = torn[t]
    BY <1>3, <2>1, NothingToMend
  <2>3. torn' = [torn EXCEPT ![t] = {d \in torn[t] : d <= Len(calls[t])}]
    BY <1>2, <1>3, ThreadMends
  <2>. QED
    BY <2>2, <2>3
<1>. QED
  BY <1>1, <1>2, <1>3, <1>4, CellThreadFacts, CellThreadStep

LEMMA OnceInitInv == OnceInit => OnceInv
<1>. SUFFICES ASSUME OnceInit PROVE OnceInv
  OBVIOUS
<1>. USE DEF OnceInit, GcInit
<1>1. <<>> \in Seq(Frames) /\ Len(<<>>) = 0 /\ 1..0 = {}
  BY EmptySeq
<1>2. 0 \in 0..MaxCollections
  BY GcThreadsAssumption DEF GcThreadsAssumption
<1>3. OnceTypeOK
  BY <1>1, <1>2 DEF OnceTypeOK, GcTypeOK, States, Frames
<1>4. ASSUME NEW t \in Thread PROVE CellNested(calls[t], gcState[t], pc[t], torn[t])
  BY <1>1 DEF CellNested, InCell
<1>. QED
  BY <1>3, <1>4 DEF OnceInv

LEMMA CellStepInv ==
    ASSUME OnceInv, NEW t \in Thread, CellStep(t), Mends
    PROVE  OnceInv'
<1>. USE DEF CellPlaces, InCell, CellKinds, SafeKinds, Kinds
<1>1. cell \in {"empty", "busy", "full"}
  BY CellThreadFacts
<1>2. MayUseCell(t) => gcState[t] # "waiting" /\ pc[t] \notin InCell
  BY DEF MayUseCell, Running
<1>3. CASE Wait(t) \/ Set(t) \/ GetOrInit(t)
  <2>1. PICK p \in {"wait", "set", "init"} : pc' = [pc EXCEPT ![t] = p]
    BY <1>3 DEF Wait, Set, GetOrInit, Goto
  <2>2. MayUseCell(t) /\ Push(t, "cell") /\ SetGcState(t, "safe", gcState[t]) /\ cell' = cell
    BY <1>3 DEF Wait, Set, GetOrInit, jlrs_gc_safe_enter
  <2>. QED
    BY <1>1, <1>2, <2>1, <2>2, EnterCell
<1>4. CASE GetOrTryInit(t)
  <2>1. /\ MayUseCell(t) /\ Push(t, "try_cell") /\ SetGcState(t, "safe", gcState[t])
        /\ pc' = [pc EXCEPT ![t] = "init"] /\ cell' = cell
    BY <1>4 DEF GetOrTryInit, jlrs_gc_safe_enter, Goto
  <2>. QED
    BY <1>1, <1>2, <2>1, EnterCell
<1>5. CASE WaitOver(t) \/ SetOver(t) \/ FoundFull(t) \/ StartInit(t)
  <2>1. PICK p \in {"leave", "start"} : pc' = [pc EXCEPT ![t] = p]
    BY <1>5 DEF WaitOver, SetOver, FoundFull, StartInit, Finish, Goto
  <2>2. /\ pc[t] \in {"wait", "set", "init"} /\ UNCHANGED <<gcVars, calls>>
        /\ cell' \in {"empty", "busy", "full"}
    BY <1>1, <1>5 DEF WaitOver, SetOver, FoundFull, StartInit
  <2>. QED
    BY <2>1, <2>2, StayInCell
<1>6. CASE TryInsert(t) \/ TryInsertOver(t)
  <2>1. PICK p \in {"insert", "user"} : pc' = [pc EXCEPT ![t] = p]
    BY <1>6 DEF TryInsert, TryInsertOver, Goto
  <2>2. /\ pc[t] \in {"user", "insert"} /\ UNCHANGED <<gcVars, calls>>
        /\ cell' \in {"empty", "busy", "full"}
    BY <1>1, <1>6 DEF TryInsert, TryInsertOver, MayUseCell, Running
  <2>. QED
    BY <2>1, <2>2, StayInCell
<1>7. CASE CallInit(t)
  <2>1. /\ pc[t] = "start" /\ Push(t, "init") /\ SetGcState(t, "unsafe", gcState[t])
        /\ pc' = [pc EXCEPT ![t] = "user"] /\ cell' = cell
    BY <1>7 DEF CallInit, jlrs_gc_unsafe_enter, Goto
  <2>2. gcState[t] # "waiting"
    BY <2>1, CellThreadFacts DEF CellNested
  <2>. QED
    BY <1>1, <2>1, <2>2, EnterCell
<1>8. CASE InitReturns(t) \/ InitFails(t)
  <2>1. /\ calls[t] # <<>> /\ Innermost(t).kind = "init" /\ Pop(t)
        /\ SetGcState(t, Innermost(t).state, "unsafe")
        /\ pc' = [pc EXCEPT ![t] = "leave"] /\ cell' \in {"empty", "full"}
    BY <1>8 DEF InitReturns, InitFails, jlrs_gc_unsafe_leave, InCall, Finish, Goto
  <2>. QED
    BY <2>1, LeaveCell
<1>9. CASE Leave(t) \/ TryLeave(t)
  <2>1. PICK old \in {"safe", "unsafe"} : SetGcState(t, Innermost(t).state, old)
    BY <1>9 DEF Leave, TryLeave, jlrs_gc_safe_leave, jlrs_gc_unsafe_leave
  <2>2. /\ calls[t] # <<>> /\ Innermost(t).kind \in CellKinds /\ Pop(t)
        /\ pc' = [pc EXCEPT ![t] = "user"] /\ cell' = cell
    BY <1>9 DEF Leave, TryLeave, jlrs_gc_safe_leave, jlrs_gc_unsafe_leave, InCall, Goto
  <2>. QED
    BY <1>1, <2>1, <2>2, LeaveCell
<1>. QED
  BY <1>3, <1>4, <1>5, <1>6, <1>7, <1>8, <1>9 DEF CellStep

(* A panic leaves the state of the code that panics, which is right for the *)
(* code that catches it if gc_safe called both or neither.                  *)
LEMMA PanicInv ==
    ASSUME OnceInv, NEW t \in Thread, NEW n \in 0..Len(calls[t]) - 1, Panic(t, n)
    PROVE  OnceInv'
<1>. DEFINE c == SubSeq(calls[t], 1, n)
            U == {d \in torn[t] : d < n} \cup (IF Tears(t, n) THEN {n} ELSE {})
<1>1. /\ pc[t] = "user" /\ gcState[t] # "waiting"
      /\ n > 0 => calls[t][n].kind \notin CellKinds
      /\ calls' = [calls EXCEPT ![t] = c] /\ UNCHANGED <<gcVars, pc>>
      /\ torn' = [torn EXCEPT ![t] = U]
      /\ cell' \in {"empty", "busy", "full"}
  BY CellThreadFacts DEF Panic, Running, CellKinds
<1>2. /\ calls[t] \in Seq(Frames) /\ Len(calls[t]) \in Nat
      /\ CellNested(calls[t], gcState[t], "user", torn[t])
      /\ torn[t] \subseteq 0..Len(calls[t])
  BY <1>1, CellThreadFacts, LenProperties
<1>3. n \in Nat /\ n < Len(calls[t]) /\ n <= Len(calls[t])
  BY <1>2
<1>4. U \subseteq 0..n /\ \A i \in U : i \in torn[t] \/ i = n
  BY <1>2, <1>3
<1>5. ASSUME n \notin U
      PROVE  gcState[t] = "safe" <=> n > 0 /\ calls[t][n].kind \in SafeKinds
  <2>1. /\ Len(calls[t]) \notin torn[t]
        /\ InCall(t, "gc_safe") <=> n > 0 /\ calls[t][n].kind = "gc_safe"
    BY <1>5 DEF Tears, Torn, InCall
  <2>2. Len(calls[t]) \in 1..Len(calls[t]) /\ calls[t] # <<>>
    BY <1>2, <1>3, EmptySeq
  <2>3. calls[t][Len(calls[t])].kind \notin CellKinds
    BY <1>2, <2>2 DEF CellNested, InCell
  <2>4. gcState[t] = "safe" <=> InCall(t, "gc_safe")
    BY <1>2, <2>1, <2>2, <2>3 DEF CellNested, SafeKinds, InCall, Innermost
  <2>. QED
    BY <1>1, <2>1, <2>4 DEF SafeKinds
<1>6. c \in Seq(Frames)
  <2>. HIDE DEF Frames
  <2>. QED
    BY <1>2, <1>3, Prefix
<1>7. CellNested(c, gcState[t], "user", U)
  <2>1. "user" \notin InCell
    BY DEF InCell
  <2>2. \A i \in torn[t] : i < n => i \in U
    OBVIOUS
  <2>. HIDE DEF U
  <2>3. n \in U => n = 0 \/ calls[t][n].kind \notin CellKinds
    BY <1>1, <1>3
  <2>4. "user" \in InCell <=> n > 0 /\ calls[t][n].kind \in CellKinds
    BY <1>1, <2>1
  <2>5. n \notin U => (gcState[t] = "safe" <=> n > 0 /\ calls[t][n].kind \in SafeKinds)
    BY <1>5
  <2>. HIDE DEF Frames, CellNested, CellKinds, SafeKinds, InCell
  <2>. QED
    BY <1>2, <1>3, <1>4, <2>2, <2>3, <2>4, <2>5, CutCellNested
<1>8. /\ gcState' = [gcState EXCEPT ![t] = gcState[t]] /\ pc' = [pc EXCEPT ![t] = "user"]
      /\ gc' = gc /\ collections' = collections /\ "user" \in CellPlaces
  BY <1>1, CellThreadFacts DEF gcVars, CellPlaces
<1>. HIDE DEF c, U
<1>. QED
  BY <1>1, <1>6, <1>7, <1>8, CellThreadFacts, CellThreadStep

LEMMA CellClosureInv ==
    ASSUME OnceInv, NEW t \in Thread, ClosureStep(t), UNCHANGED cell, Mends
    PROVE  OnceInv'
<1>. USE DEF CellPlaces, InCell, CellKinds, SafeKinds, Kinds
<1>1. cell' \in {"empty", "busy", "full"}
  BY CellThreadFacts
<1>2. Running(t) /\ pc[t] = "user" /\ pc' = [pc EXCEPT ![t] = "user"] /\ gcState[t] # "waiting"
  BY CellThreadFacts DEF ClosureStep, GcSafe, GcSafeReturns, GcUnsafe, GcUnsafeReturns, Running
<1>3. CASE GcSafe(t)
  BY <1>1, <1>2, <1>3, EnterCell DEF GcSafe, jlrs_gc_safe_enter
<1>4. CASE GcUnsafe(t)
  BY <1>1, <1>2, <1>4, EnterCell DEF GcUnsafe, jlrs_gc_unsafe_enter
<1>5. CASE GcSafeReturns(t) \/ GcUnsafeReturns(t)
  <2>1. PICK old \in {"safe", "unsafe"} : SetGcState(t, Innermost(t).state, old)
    BY <1>5 DEF GcSafeReturns, GcUnsafeReturns, jlrs_gc_safe_leave, jlrs_gc_unsafe_leave
  <2>2. calls[t] # <<>> /\ Innermost(t).kind \in {"gc_safe", "gc_unsafe"} /\ Pop(t)
    BY <1>5 DEF GcSafeReturns, GcUnsafeReturns, jlrs_gc_safe_leave, jlrs_gc_unsafe_leave, InCall
  <2>. QED
    BY <1>1, <1>2, <2>1, <2>2, LeaveCell
<1>. QED
  BY <1>3, <1>4, <1>5 DEF ClosureStep

(* No thread does anything.                                                 *)
LEMMA SameCalls ==
    ASSUME OnceInv, UNCHANGED <<gcState, collections, calls, pc, cell, torn>>,
           gc' \in {"idle", "stopping", "marking"}
    PROVE  OnceInv'
<1>1. OnceTypeOK'
  BY DEF OnceInv, OnceTypeOK, GcTypeOK
<1>2. ASSUME NEW t \in Thread PROVE CellNested(calls'[t], gcState'[t], pc'[t], torn'[t])
  <2>1. CellNested(calls[t], gcState[t], pc[t], torn[t])
    BY DEF OnceInv
  <2>. QED
    BY <2>1
<1>. QED
  BY <1>1, <1>2 DEF OnceInv, CellNested

LEMMA CellCollectorInv ==
    ASSUME OnceInv, CollectorStep, UNCHANGED <<cell, torn>>
    PROVE  OnceInv'
<1>1. ASSUME NEW t \in Thread, Collect(t) \/ Safepoint(t) PROVE OnceInv'
  <2>1. /\ pc[t] = "user" /\ gcState[t] = "unsafe" /\ UNCHANGED <<calls, pc>>
        /\ gcState' = [gcState EXCEPT ![t] = "waiting"]
        /\ gc' \in {"idle", "stopping", "marking"}
    BY <1>1, CellThreadFacts DEF Collect, Safepoint, Running
  <2>2. collections' \in 0..MaxCollections
    <3>1. collections \in 0..MaxCollections
      BY CellThreadFacts
    <3>. QED
      BY <1>1, <3>1, GcThreadsAssumption DEF Collect, Safepoint, GcThreadsAssumption
  <2>3. CellNested(calls[t], "waiting", "user", torn[t])
    <3>1. CellNested(calls[t], "unsafe", "user", torn[t])
      BY <2>1, CellThreadFacts
    <3>. QED
      BY <3>1 DEF CellNested
  <2>4. /\ calls' = [calls EXCEPT ![t] = calls[t]] /\ pc' = [pc EXCEPT ![t] = "user"]
        /\ torn' = [torn EXCEPT ![t] = torn[t]]
    <3>1. torn' = torn
      OBVIOUS
    <3>. QED
      BY <2>1, <3>1, CellThreadFacts
  <2>5. "waiting" \in States /\ "user" \in CellPlaces
    BY DEF States, CellPlaces
  <2>6. cell' \in {"empty", "busy", "full"}
    BY CellThreadFacts
  <2>7. calls[t] \in Seq(Frames)
    BY CellThreadFacts
  <2>. QED
    BY <2>1, <2>2, <2>3, <2>4, <2>5, <2>6, <2>7, CellThreadStep
<1>2. CASE Mark
  BY <1>2, SameCalls DEF Mark
<1>3. CASE Resume
  <2>1. /\ UNCHANGED <<collections, calls, pc>> /\ gc' = "idle"
        /\ gcState' = [t \in Thread |->
              IF gcState[t] = "waiting" THEN "unsafe" ELSE gcState[t]]
    BY <1>3 DEF Resume
  <2>2. OnceTypeOK'
    BY <2>1 DEF OnceInv, OnceTypeOK, GcTypeOK, States
  <2>3. ASSUME NEW t \in Thread PROVE CellNested(calls'[t], gcState'[t], pc'[t], torn'[t])
    <3>1. CellNested(calls[t], gcState[t], pc[t], torn[t]) /\ calls' = calls /\ pc' = pc
      BY <2>1 DEF OnceInv
    <3>2. gcState'[t] = "safe" <=> gcState[t] = "safe"
      BY <2>1
    <3>. QED
      BY <3>1, <3>2 DEF CellNested
  <2>. QED
    BY <2>2, <2>3 DEF OnceInv, CellNested
<1>. QED
  BY <1>1, <1>2, <1>3 DEF CollectorStep

LEMMA OnceStepInv == OnceInv /\ [OnceNext]_onceVars => OnceInv'
<1>. SUFFICES ASSUME OnceInv, [OnceNext]_onceVars PROVE OnceInv'
  OBVIOUS
<1>1. CASE UNCHANGED onceVars
  <2>1. UNCHANGED <<gcState, gc, collections, calls, pc, cell, torn>>
    BY <1>1 DEF onceVars, cellVars, threadVars
  <2>2. gc \in {"idle", "stopping", "marking"}
    BY DEF OnceInv, OnceTypeOK, GcTypeOK
  <2>. QED
    BY <2>1, <2>2, SameCalls
<1>. QED
  BY <1>1, CellStepInv, CellClosureInv, PanicInv, CellCollectorInv DEF OnceNext

(* Code is in a safe state exactly when gc_safe called it, however the      *)
(* closures, the initializers and the methods of the cell are nested, fail, *)
(* panic and catch panics, except where a panic was caught that left or     *)
(* entered code of gc_safe, until that code returns; and nobody who waits   *)
(* for the cell keeps a collection waiting.                                 *)
THEOREM OnceIsOK == OnceSpec => []OnceOK
<1>1. OnceInv => OnceOK
  <2>. SUFFICES ASSUME OnceInv PROVE OnceOK
    OBVIOUS
  <2>1. \A t \in Thread : CellNested(calls[t], gcState[t], pc[t], torn[t])
    BY DEF OnceInv
  <2>2. WaitsAreSafe
    BY <2>1 DEF WaitsAreSafe, CellNested, InCell, SafeKinds
  <2>3. ASSUME NEW t \in Thread, pc[t] = "user", ~Torn(t)
        PROVE  gcState[t] = "safe" <=> InCall(t, "gc_safe")
    <3>1. CellNested(calls[t], gcState[t], "user", torn[t]) /\ calls[t] \in Seq(Frames)
      BY <2>3, CellThreadFacts
    <3>2. calls[t] # <<>> => Len(calls[t]) \in 1..Len(calls[t])
      BY <3>1, PopFrame
    <3>. QED
      BY <2>3, <3>1, <3>2 DEF Torn, CellNested, InCell, SafeKinds, InCall, Innermost
  <2>. QED
    BY <2>2, <2>3 DEF OnceInv, OnceOK, StateKept
<1>. QED
  BY <1>1, OnceInitInv, OnceStepInv, PTL DEF OnceSpec

-----------------------------------------------------------------------------
(* The cache of globals.  CacheOK is inductive once it is known what the     *)
(* lookups in progress are about: a lookup that waits to write has a type of *)
(* the global, and a lookup inside a display a global.                       *)


\* A lookup in progress has a global and a type; only one that was cast, or
\* was displayed because of a cached one, gets that far.
LookOK(l) ==
    /\ l.at # "idle" => l.path \in Paths /\ l.type \in Types
    /\ l.at = "write" => l.type \in Valid
    /\ l.at = "display" => entry[l.path] # NoType

InnerOK(i) == i.at \in {"read", "write"} => i.path \in Paths

\* The lock is what makes an error have its cause until it is returned: the
\* entry a display is about is not written meanwhile.
CacheInv ==
    /\ CacheOK
    /\ \A t \in Lookers : LookOK(look[t]) /\ InnerOK(inner[t])

Looks == [at : {"idle", "read", "fetch", "write", "display"},
          path : Paths \cup {NoPath}, type : Types \cup {NoType}]
Inners == [at : {"idle", "read", "write", "done"}, path : Paths \cup {NoPath}]

LEMMA CacheInvInit == CacheInit => CacheInv
  BY CacheAssumption DEF CacheInit, CacheInv, CacheOK, CacheTypeOK, AnswersAreTyped,
     RefusedForCause, LookOK, InnerOK, Idle, NoInner

\* What a step of thread t must establish: what holds of t and of the entries
\* it leaves, if it changes nothing of the others'.
LEMMA OwnStep ==
  ASSUME CacheInv, NEW t \in Lookers,
         NEW l \in Looks, look' = [look EXCEPT ![t] = l],
         NEW i \in Inners, inner' = [inner EXCEPT ![t] = i],
         NEW a \in Valid \cup {"none", "NotA"}, answer' = [answer EXCEPT ![t] = a],
         UNCHANGED entry,
         LookOK(l), InnerOK(i),
         l.at = "display" => entry[l.path] # l.type
  PROVE  CacheInv'
  <1> USE DEF Looks, Inners, CacheInv, CacheOK
  <1>1. CacheTypeOK'
    BY CacheAssumption DEF CacheTypeOK
  <1>2. AnswersAreTyped'
    BY DEF AnswersAreTyped, CacheTypeOK
  <1>3. RefusedForCause'
    BY DEF RefusedForCause, LookOK, CacheTypeOK, AnswersAreTyped
  <1>4. \A u \in Lookers : (LookOK(look[u]) /\ InnerOK(inner[u]))'
    BY DEF LookOK, InnerOK, CacheTypeOK
  <1> QED
    BY <1>1, <1>2, <1>3, <1>4

LEMMA WriteStep ==
  ASSUME CacheInv, NEW t \in Lookers, Write(t)
  PROVE  CacheInv'
  <1> USE DEF CacheInv, CacheOK
  <1>1. look[t].path \in Paths /\ look[t].type \in Valid
    BY DEF Write, LookOK
  <1>2. CacheTypeOK'
    BY <1>1, CacheAssumption DEF CacheTypeOK, Write, Return, Idle
  <1>3. AnswersAreTyped'
    BY <1>1 DEF AnswersAreTyped, CacheTypeOK, Write, Return
  <1>4. RefusedForCause'
    <2> SUFFICES ASSUME NEW u \in Lookers, look'[u].at = "display"
                 PROVE  FALSE
      BY DEF RefusedForCause
    <2> QED
      BY DEF Write, Return, Idle, Readers, CacheTypeOK
  <1>5. \A u \in Lookers : (LookOK(look[u]) /\ InnerOK(inner[u]))'
    BY <1>1 DEF Write, Return, Idle, Readers, LookOK, InnerOK, CacheTypeOK
  <1> QED
    BY <1>2, <1>3, <1>4, <1>5

LEMMA CacheInvStep == CacheInv /\ [CacheNext]_cacheVars => CacheInv'
  <1> SUFFICES ASSUME CacheInv, [CacheNext]_cacheVars PROVE CacheInv'
    OBVIOUS
  <1>0. CASE UNCHANGED cacheVars
    BY <1>0 DEF cacheVars, CacheInv, CacheOK, CacheTypeOK, AnswersAreTyped, RefusedForCause,
       LookOK, InnerOK
  <1> SUFFICES ASSUME NEW t \in Lookers,
                      \/ LookStep(t)
                      \/ \E p \in Paths : AskInner(t, p) \/ \E T \in Types : Ask(t, p, T)
               PROVE  CacheInv'
    BY <1>0 DEF CacheNext
  <1>a. /\ look[t] \in Looks /\ inner[t] \in Inners
        /\ answer[t] \in Valid \cup {"none", "NotA"}
        /\ LookOK(look[t]) /\ InnerOK(inner[t])
        /\ look[t].at = "display" => entry[look[t].path] # look[t].type
    BY DEF CacheInv, CacheOK, CacheTypeOK, AnswersAreTyped, RefusedForCause, Looks, Inners
  <1>b. /\ look = [look EXCEPT ![t] = look[t]]
        /\ inner = [inner EXCEPT ![t] = inner[t]]
        /\ answer = [answer EXCEPT ![t] = answer[t]]
    BY DEF CacheInv, CacheOK, CacheTypeOK
  <1>c. Idle \in Looks /\ LookOK(Idle) /\ Idle.at # "display"
    BY DEF Idle, Looks, LookOK
  <1>d. NoInner \in Inners /\ InnerOK(NoInner)
    BY DEF NoInner, Inners, InnerOK
  <1>1. ASSUME NEW p \in Paths, NEW T \in Types, Ask(t, p, T) PROVE CacheInv'
    <2>1. PICK l : l = [at |-> "read", path |-> p, type |-> T]
      OBVIOUS
    <2>2. l \in Looks /\ LookOK(l) /\ l.at # "display"
      BY <2>1 DEF Looks, LookOK
    <2> QED
      BY <1>1, <1>a, <1>b, <2>1, <2>2, OwnStep, ZenonT(30) DEF Ask
  <1>2. CASE Read(t)
    <2>1. CASE entry[look[t].path] = look[t].type
      <3>1. look[t].path \in Paths /\ look[t].type \in Types
        BY <1>2, <1>a DEF Read, LookOK
      <3>2. entry[look[t].path] \in Valid
        BY <2>1, <3>1, CacheAssumption DEF CacheInv, CacheOK, AnswersAreTyped
      <3> QED
        BY <1>2, <1>a, <1>b, <1>c, <2>1, <3>2, OwnStep DEF Read, Return
    <2>2. CASE entry[look[t].path] # look[t].type
      <3>1. PICK l : l = [look[t] EXCEPT !.at = IF entry[look[t].path] = NoType THEN "fetch"
                                                ELSE "display"]
        OBVIOUS
      <3>2. l \in Looks
        BY <1>a, <3>1 DEF Looks
      <3>3. LookOK(l) /\ (l.at = "display" => entry[l.path] # l.type)
        BY <1>2, <1>a, <2>2, <3>1 DEF Looks, LookOK, Read
      <3>4. look' = [look EXCEPT ![t] = l]
        BY <1>2, <2>2, <3>1 DEF Read, CacheInv, CacheOK, CacheTypeOK
      <3>5. /\ UNCHANGED entry
            /\ inner' = [inner EXCEPT ![t] = inner[t]]
            /\ answer' = [answer EXCEPT ![t] = answer[t]]
        BY <1>2, <1>b, <2>2 DEF Read
      <3> QED
        BY <1>a, <3>2, <3>3, <3>4, <3>5, OwnStep
    <2> QED
      BY <2>1, <2>2
  <1>3. CASE Display(t)
    BY <1>3, <1>a, <1>c, <1>d, OwnStep DEF Display, Return
  <1>4. CASE Fetch(t)
    <2>1. CASE look[t].type \in Valid
      <3>1. PICK l : l = [look[t] EXCEPT !.at = "write"]
        OBVIOUS
      <3>2. l \in Looks /\ LookOK(l) /\ l.at # "display"
        BY <1>4, <1>a, <2>1, <3>1 DEF Looks, LookOK, Fetch
      <3>3. look' = [look EXCEPT ![t] = l]
        BY <1>4, <2>1, <3>1 DEF Fetch, CacheInv, CacheOK, CacheTypeOK
      <3>4. /\ UNCHANGED entry
            /\ inner' = [inner EXCEPT ![t] = inner[t]]
            /\ answer' = [answer EXCEPT ![t] = answer[t]]
        BY <1>4, <1>b, <2>1 DEF Fetch
      <3> QED
        BY <1>a, <3>2, <3>3, <3>4, OwnStep
    <2>2. CASE look[t].type \notin Valid
      BY <1>4, <1>a, <1>b, <1>c, <2>2, OwnStep DEF Fetch, Return
    <2> QED
      BY <2>1, <2>2
  <1>5. CASE Write(t)
    BY <1>5, WriteStep
  <1>6. CASE ReadInner(t)
    <2>1. PICK i : i = IF entry[inner[t].path] = NoType THEN [inner[t] EXCEPT !.at = "write"]
                       ELSE [NoInner EXCEPT !.at = "done"]
      OBVIOUS
    <2>2. i \in Inners /\ InnerOK(i)
      BY <1>6, <1>a, <2>1 DEF Inners, InnerOK, NoInner, ReadInner
    <2>3. inner' = [inner EXCEPT ![t] = i]
      BY <1>6, <2>1 DEF ReadInner, CacheInv, CacheOK, CacheTypeOK
    <2> QED
      BY <1>6, <1>a, <1>b, <2>2, <2>3, OwnStep DEF ReadInner
  <1>7. ASSUME NEW p \in Paths, AskInner(t, p) PROVE CacheInv'
    <2>1. PICK i : i = [at |-> "read", path |-> p]
      OBVIOUS
    <2>2. i \in Inners /\ InnerOK(i)
      BY <2>1 DEF Inners, InnerOK
    <2> QED
      BY <1>7, <1>a, <1>b, <2>1, <2>2, OwnStep DEF AskInner
  <1> QED
    BY <1>1, <1>2, <1>3, <1>4, <1>5, <1>6, <1>7 DEF LookStep

\* What a lookup returns is of the type it was requested as, although a hit
\* is cast without a check, and an error has a cause.
THEOREM CacheIsOK == CacheSpec => []CacheOK
<1>1. CacheInv => CacheOK
    BY DEF CacheInv
<1> QED
    BY <1>1, CacheInvInit, CacheInvStep, PTL DEF CacheSpec
=============================================================================
