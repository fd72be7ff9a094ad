------------------------- MODULE JuliaFuturesProofs ------------------------
(***************************************************************************)
(* Theorems about Julia futures, for any futures and contexts.              *)
(***************************************************************************)
EXTENDS JuliaFutures, TLAPS

Holds(condition) == IF condition THEN 1 ELSE 0

(* The owners of the shared state of a future: the future itself, Julia's   *)
(* task, and the share that a constructor which panics leaks.               *)
RefsCounted ==
    \A f \in Future :
        refs[f] = Holds(phase[f] \in {"calling", "pending"})
                    + Holds(julia[f] = "scheduled") + Holds(phase[f] = "failed")

(* The phases of a future and of its task belong together.                  *)
PhasesAgree ==
    \A f \in Future :
        /\ julia[f] = "none" <=> phase[f] \in {"none", "failed"}
        /\ state[f].completed <=> julia[f] = "woken"
        /\ state[f].task <=> phase[f] \in {"pending", "ready", "dropped"}

Inv == TypeOK /\ RefsCounted /\ PhasesAgree

(* A future that nobody is going to poll has the waker of its context, if   *)
(* it stays there.                                                          *)
WakerKept ==
    \A f \in Future \ Movable :
        phase[f] = "pending" =>
            due[f] \/ (~state[f].completed /\ state[f].waker = context[f])

(* A waker that was stored is that of the context of the future.            *)
WakerCurrent ==
    \A f \in Future \ Movable : state[f].waker \in {NoWaker, context[f]}

WakeInv == WakerKept /\ WakerCurrent

-----------------------------------------------------------------------------
States == [completed : BOOLEAN, waker : Context \cup {NoWaker}, task : BOOLEAN]

LEMMA InitInv == Init => Inv /\ WakeInv
BY FutureAssumption DEF Init, Inv, WakeInv, TypeOK, RefsCounted, PhasesAgree,
   WakerKept, WakerCurrent, NewState, Holds

LEMMA StepInv == Inv /\ [Next]_vars => Inv'
<1>. SUFFICES ASSUME Inv, [Next]_vars PROVE Inv'
  OBVIOUS
<1>. USE DEF Inv
<1>1. ASSUME NEW f \in Future, Call(f) PROVE Inv'
  <2>1. TypeOK'
    BY <1>1 DEF Call, TypeOK, NewState
  <2>2. RefsCounted'
    BY <1>1 DEF Call, TypeOK, RefsCounted, PhasesAgree, Holds
  <2>3. PhasesAgree'
    BY <1>1 DEF Call, TypeOK, PhasesAgree, NewState
  <2>. QED
    BY <2>1, <2>2, <2>3
<1>2. ASSUME NEW f \in Future, CallThrows(f) PROVE Inv'
  <2>1. TypeOK'
    BY <1>2 DEF CallThrows, TypeOK
  <2>2. RefsCounted'
    BY <1>2 DEF CallThrows, TypeOK, RefsCounted, PhasesAgree, Holds
  <2>3. PhasesAgree'
    BY <1>2 DEF CallThrows, TypeOK, PhasesAgree
  <2>. QED
    BY <2>1, <2>2, <2>3
<1>3. ASSUME NEW f \in Future, CallReturns(f) PROVE Inv'
  <2>1. TypeOK'
    BY <1>3 DEF CallReturns, TypeOK
  <2>2. RefsCounted'
    BY <1>3 DEF CallReturns, TypeOK, RefsCounted, Holds
  <2>3. PhasesAgree'
    BY <1>3 DEF CallReturns, TypeOK, PhasesAgree
  <2>. QED
    BY <2>1, <2>2, <2>3
<1>4. ASSUME NEW f \in Future, Poll(f) PROVE Inv'
  <2>1. CASE state[f].completed
    <3>1. Ready(f) /\ phase[f] = "pending" /\ UNCHANGED <<julia, context, state>>
          /\ due' = [due EXCEPT ![f] = FALSE] /\ refs[f] = 1
      BY <1>4, <2>1 DEF Poll, Ready, RefsCounted, PhasesAgree, Holds
    <3>2. TypeOK'
      BY <3>1 DEF Ready, TypeOK
    <3>3. RefsCounted' /\ PhasesAgree'
      BY <3>1 DEF Ready, TypeOK, RefsCounted, PhasesAgree, Holds
    <3>. QED
      BY <3>2, <3>3
  <2>2. CASE ~state[f].completed
    <3>1. /\ Pend(f) /\ UNCHANGED <<julia, context, phase, refs>>
          /\ due' = [due EXCEPT ![f] = FALSE]
      BY <1>4, <2>2 DEF Poll, Pend
    <3>2. TypeOK'
      BY <3>1 DEF Pend, TypeOK
    <3>3. RefsCounted' /\ PhasesAgree'
      BY <3>1 DEF Pend, TypeOK, RefsCounted, PhasesAgree
    <3>. QED
      BY <3>2, <3>3
  <2>. QED
    BY <2>1, <2>2
<1>5. ASSUME NEW f \in Future, WakeTask(f) PROVE Inv'
  <2>1. refs[f] \in 1..2
    BY <1>5 DEF WakeTask, RefsCounted, Holds
  <2>2. TypeOK'
    <3>1. due' \in [Future -> BOOLEAN]
      BY <1>5 DEF WakeTask, Wake
    <3>2. refs' \in [Future -> 0..2] /\ julia' \in [Future -> {"none", "scheduled", "woken"}]
      BY <1>5, <2>1 DEF WakeTask, TypeOK
    <3>3. /\ state' \in [Future -> States]
          /\ phase' = phase /\ context' = context
      BY <1>5 DEF WakeTask, TypeOK, States
    <3>. QED
      BY <3>1, <3>2, <3>3 DEF TypeOK, States
  <2>3. RefsCounted'
    BY <1>5, <2>1 DEF WakeTask, TypeOK, RefsCounted, Holds
  <2>4. PhasesAgree'
    BY <1>5 DEF WakeTask, TypeOK, PhasesAgree
  <2>. QED
    BY <2>2, <2>3, <2>4
<1>6. ASSUME NEW f \in Future, Drop(f) PROVE Inv'
  <2>1. refs[f] \in 1..2
    BY <1>6 DEF Drop, RefsCounted, Holds
  <2>2. TypeOK'
    BY <1>6, <2>1 DEF Drop, TypeOK
  <2>3. RefsCounted'
    BY <1>6, <2>1 DEF Drop, TypeOK, RefsCounted, Holds
  <2>4. PhasesAgree'
    BY <1>6 DEF Drop, TypeOK, PhasesAgree
  <2>. QED
    BY <2>2, <2>3, <2>4
<1>7. ASSUME NEW f \in Future, NEW c \in Context, Move(f, c) PROVE Inv'
  BY <1>7 DEF Move, TypeOK, RefsCounted, PhasesAgree
<1>8. CASE UNCHANGED vars
  BY <1>8 DEF vars, TypeOK, RefsCounted, PhasesAgree
<1>. QED
  BY <1>1, <1>2, <1>3, <1>4, <1>5, <1>6, <1>7, <1>8 DEF Next, Done

(* For a future that stays where it is polled the first waker is right.     *)
LEMMA WakeStep ==
    Inv /\ WakeInv /\ [Next]_vars => WakeInv'
<1>. SUFFICES ASSUME Inv, WakeInv, [Next]_vars PROVE WakeInv'
  OBVIOUS
<1>. USE FutureAssumption DEF Inv, WakeInv, TypeOK, WakerKept, WakerCurrent
<1>1. ASSUME NEW f \in Future, Call(f) PROVE WakeInv'
  BY <1>1 DEF Call, NewState
<1>2. ASSUME NEW f \in Future, CallThrows(f) PROVE WakeInv'
  BY <1>2 DEF CallThrows
<1>3. ASSUME NEW f \in Future, CallReturns(f) PROVE WakeInv'
  BY <1>3 DEF CallReturns
<1>4. ASSUME NEW f \in Future, Poll(f) PROVE WakeInv'
  <2>1. CASE state[f].completed
    BY <1>4, <2>1 DEF Poll, Ready
  <2>2. CASE ~state[f].completed
    <3>1. /\ phase' = phase /\ context' = context
          /\ due' = [due EXCEPT ![f] = FALSE]
          /\ state' = [state EXCEPT ![f].waker = IF @ = NoWaker THEN context[f] ELSE @]
      BY <1>4, <2>2 DEF Poll, Pend
    <3>2. ASSUME NEW g \in Future \ Movable
          PROVE  /\ phase'[g] = "pending" =>
                      due'[g] \/ (~state'[g].completed /\ state'[g].waker = context'[g])
                 /\ state'[g].waker \in {NoWaker, context'[g]}
      <4>1. CASE g = f
        <5>1. state'[g].completed = state[f].completed /\ state'[g].waker = context[f]
          BY <3>1, <4>1
        <5>. QED
          BY <2>2, <3>1, <4>1, <5>1
      <4>2. CASE g # f
        <5>1. state'[g] = state[g] /\ due'[g] = due[g]
          BY <3>1, <4>2
        <5>. QED
          BY <3>1, <5>1
      <4>. QED
        BY <4>1, <4>2
    <3>. QED
      BY <3>2
  <2>. QED
    BY <2>1, <2>2
<1>5. ASSUME NEW f \in Future, WakeTask(f) PROVE WakeInv'
  <2>1. WakerCurrent'
    BY <1>5 DEF WakeTask
  <2>2. ASSUME NEW g \in Future \ Movable, phase'[g] = "pending"
        PROVE  due'[g] \/ (~state'[g].completed /\ state'[g].waker = context'[g])
    <3>1. phase[g] = "pending" /\ context'[g] = context[g]
      BY <1>5, <2>2 DEF WakeTask
    <3>2. CASE g = f
      <4>1. ~state[f].completed
        BY <1>5 DEF WakeTask, PhasesAgree
      <4>2. CASE due[f]
        BY <1>5, <3>2, <4>2 DEF WakeTask, Wake
      <4>3. CASE ~due[f]
        <5>1. state[f].waker = context[f]
          BY <3>1, <3>2, <4>3
        <5>. QED
          BY <1>5, <3>1, <3>2, <5>1 DEF WakeTask, Wake
      <4>. QED
        BY <4>2, <4>3
    <3>3. CASE g # f
      <4>1. state'[g] = state[g] /\ (due[g] => due'[g])
        BY <1>5, <3>3 DEF WakeTask, Wake
      <4>. QED
        BY <3>1, <4>1
    <3>. QED
      BY <3>2, <3>3
  <2>. QED
    BY <2>1, <2>2
<1>6. ASSUME NEW f \in Future, Drop(f) PROVE WakeInv'
  BY <1>6 DEF Drop
<1>7. ASSUME NEW f \in Future, NEW c \in Context, Move(f, c) PROVE WakeInv'
  <2>1. \A g \in Future \ Movable : context'[g] = context[g] /\ due'[g] = due[g]
    BY <1>7 DEF Move
  <2>. QED
    BY <1>7, <2>1 DEF Move
<1>8. CASE UNCHANGED vars
  BY <1>8 DEF vars
<1>. QED
  BY <1>1, <1>2, <1>3, <1>4, <1>5, <1>6, <1>7, <1>8 DEF Next, Done

LEMMA Invariance == Spec => []Inv
<1>1. Init => Inv
  BY InitInv
<1>. QED
  BY <1>1, StepInv, PTL DEF Spec

-----------------------------------------------------------------------------
(* The variables have their types; in particular no share is dropped twice. *)
THEOREM FuturesTyped == Spec => []TypeOK
<1>1. Inv => TypeOK
  BY DEF Inv
<1>. QED
  BY <1>1, Invariance, PTL

(* wake_task never finds a freed state, and nothing is leaked but by a      *)
(* constructor that panics.                                                 *)
THEOREM StateIsShared == Spec => []StateOutlivesUse
<1>1. Inv => StateOutlivesUse
  <2>. SUFFICES ASSUME Inv, NEW f \in Future
                PROVE  /\ phase[f] \in {"calling", "pending"} \/ julia[f] = "scheduled"
                              => refs[f] > 0
                       /\ Settled(f) /\ phase[f] # "failed" => refs[f] = 0
    BY DEF StateOutlivesUse
  <2>1. refs[f] = Holds(phase[f] \in {"calling", "pending"})
                    + Holds(julia[f] = "scheduled") + Holds(phase[f] = "failed")
    BY DEF Inv, RefsCounted
  <2>2. phase[f] = "failed" => julia[f] = "none"
    BY DEF Inv, PhasesAgree
  <2>3. phase[f] \in {"calling", "pending"} \/ julia[f] = "scheduled" => refs[f] > 0
    BY <2>1 DEF Holds
  <2>4. Settled(f) /\ phase[f] # "failed" => refs[f] = 0
    BY <2>1, <2>2 DEF Holds, Settled
  <2>. QED
    BY <2>3, <2>4
<1>. QED
  BY <1>1, Invariance, PTL

(* The unreachable! in poll is.                                             *)
THEOREM TaskIsSet == Spec => []CompletedHasTask
<1>1. Inv => CompletedHasTask
  BY DEF Inv, PhasesAgree, CompletedHasTask
<1>. QED
  BY <1>1, Invariance, PTL

(* Whatever the interleaving of polls and completions, a completed future   *)
(* is polled again, if it is always polled in the same context.             *)
THEOREM WakeupsArrive == Spec => []NoLostWakeup
<1>1. Init => Inv /\ WakeInv
  BY InitInv
<1>2. WakeInv => NoLostWakeup
  BY DEF WakeInv, WakerKept, NoLostWakeup
<1>. QED
  BY <1>1, <1>2, StepInv, WakeStep, PTL DEF Spec

\* The shared state lives as long as it is used, and holds the task in time.
THEOREM FuturesAreOK == Spec => []FuturesOK
<1>1. TypeOK /\ StateOutlivesUse /\ CompletedHasTask => FuturesOK
    BY DEF FuturesOK
<1> QED
    BY <1>1, FuturesTyped, StateIsShared, TaskIsSet, PTL
=============================================================================
