----------------------- MODULE PersistentTasksProofs -----------------------
(***************************************************************************)
(* PersistentTasks for any number of tasks, users, calls and stacks: each  *)
(* stack has one owner, a task ends after its last call, and calls are     *)
(* lost by panics only.                                                    *)
(*                                                                         *)
(* None of the three is inductive.  That a stack has one owner needs that  *)
(* a task is dispatched once.  That a task ends last needs that every      *)
(* sender of a call keeps its handle, that nobody has a handle to a task   *)
(* that has not started or is over, and that the calls that count as       *)
(* queued are those in the channels, each of them once.                    *)
(***************************************************************************)
EXTENDS PersistentTasks, SequenceTheorems, FiniteSetTheorems, TLAPS

\* The tasks in the inbox are those that wait to be started, each of them once.
InboxQueued ==
    /\ \A i \in 1..Len(inbox) : stage[inbox[i]] = "queued"
    /\ \A i, j \in 1..Len(inbox) : i # j => inbox[i] # inbox[j]

\* Who has a stack, and that no two have the same one.
StacksOwned ==
    /\ \A i, j \in 1..Len(free) : i # j => free[i] # free[j]
    /\ \A t \in Tasks : \A i \in 1..Len(free) : stack[t] # free[i]
    /\ \A t, u \in Tasks : t # u /\ stack[t] # 0 => stack[t] # stack[u]
    /\ \A s \in Stacks :
          (\E t \in Tasks : stack[t] = s) \/ (\E i \in 1..Len(free) : free[i] = s)
    /\ \A t \in Tasks :
          stack[t] # 0 <=> stage[t] \in {"init", "recv", "run", "exit", "panicked"}

\* Only a task that takes calls, or that panicked, has handles and a queue.
Reachable == {"recv", "run", "panicked"}

HandlesLive ==
    \A t \in Tasks : (holders[t] # {} \/ chan[t] # <<>>) => stage[t] \in Reachable

\* A call that was made is to a task, and whoever sends it keeps its handle.
SendersHold ==
    /\ \A k \in Calls : call[k].state # "idle" => call[k].to \in Tasks
    /\ \A k \in Calls : call[k].state = "sending" => call[k].by \in holders[call[k].to]

\* The calls that count as queued are in the channels, each of them once.
ChannelsHold ==
    /\ \A t \in Tasks : \A i \in 1..Len(chan[t]) :
          call[chan[t][i]].state = "queued" /\ call[chan[t][i]].to = t
    /\ \A t \in Tasks : \A i, j \in 1..Len(chan[t]) : i # j => chan[t][i] # chan[t][j]
    /\ \A k \in Calls : call[k].state = "queued" =>
          \E i \in 1..Len(chan[call[k].to]) : chan[call[k].to][i] = k

\* A task runs one call, and the call that counts as running is that one.
OneCurrent ==
    /\ \A t \in Tasks : IF stage[t] = "run"
                        THEN /\ current[t] \in Calls
                             /\ call[current[t]].state = "running"
                             /\ call[current[t]].to = t
                        ELSE current[t] = NoCall
    /\ \A k \in Calls : call[k].state = "running" => current[call[k].to] = k

\* The inductive invariant.
StackInv == InboxQueued /\ StacksOwned
CallInv == HandlesLive /\ SendersHold /\ ChannelsHold /\ OneCurrent /\ LostOnlyByPanic
Inv == TypeOK /\ StackInv /\ CallInv

----------------------------------------------------------------------------
\* Removing the first element of a sequence, and adding one at the end.
LEMMA TailFacts ==
    ASSUME NEW S, NEW s \in Seq(S), s # <<>>
    PROVE  /\ Head(s) = s[1] /\ Head(s) \in S /\ 1 \in 1..Len(s)
           /\ Tail(s) \in Seq(S) /\ Len(Tail(s)) = Len(s) - 1 /\ Len(s) \in Nat \ {0}
           /\ \A i \in 1..Len(Tail(s)) : i + 1 \in 1..Len(s) /\ Tail(s)[i] = s[i + 1]
           /\ \A i \in 1..Len(s) : i = 1 \/ i - 1 \in 1..Len(Tail(s))
    OBVIOUS

LEMMA AppendFacts ==
    ASSUME NEW S, NEW s \in Seq(S), NEW e \in S
    PROVE  /\ Append(s, e) \in Seq(S) /\ Len(Append(s, e)) = Len(s) + 1 /\ Len(s) \in Nat
           /\ \A i \in 1..Len(s) : i \in 1..Len(s) + 1 /\ Append(s, e)[i] = s[i]
           /\ Append(s, e)[Len(s) + 1] = e /\ Len(s) + 1 \in 1..Len(s) + 1
           /\ \A i \in 1..Len(s) + 1 : i = Len(s) + 1 \/ i \in 1..Len(s)
    OBVIOUS

\* A sequence without repetition keeps none when its head is removed, or when
\* an element it does not have is added.
NoRepeats(s) == \A i, j \in 1..Len(s) : i # j => s[i] # s[j]

LEMMA TailNoRepeats ==
    ASSUME NEW S, NEW s \in Seq(S), s # <<>>, NoRepeats(s)
    PROVE  /\ NoRepeats(Tail(s))
           /\ \A i \in 1..Len(Tail(s)) : Tail(s)[i] # Head(s)
<1>1. \A i, j \in 1..Len(Tail(s)) : i # j => i + 1 # j + 1
  BY TailFacts
<1>2. \A i \in 1..Len(Tail(s)) : i + 1 # 1
  BY TailFacts
<1> QED
  BY <1>1, <1>2, TailFacts DEF NoRepeats

LEMMA AppendNoRepeats ==
    ASSUME NEW S, NEW s \in Seq(S), NEW e \in S, NoRepeats(s),
           \A i \in 1..Len(s) : s[i] # e
    PROVE  NoRepeats(Append(s, e))
  BY AppendFacts DEF NoRepeats

----------------------------------------------------------------------------
\* The initial states satisfy the invariant.
LEMMA InitInv == Init => Inv
<1> SUFFICES ASSUME Init PROVE Inv
  OBVIOUS
<1> USE PersistentAssumption DEF Init, PersistentAssumption
<1>1. TypeOK
  <2>1. free \in Seq(Stacks) /\ inbox \in Seq(Tasks)
    BY DEF Stacks
  <2>2. \A S : <<>> \in Seq(S)
    OBVIOUS
  <2> QED
    BY <2>1, <2>2 DEF TypeOK, Holders, CallStates
<1>2. StackInv
  <2>1. Len(free) = N /\ Len(inbox) = 0 /\ \A i \in 1..N : free[i] = i
    BY DEF Stacks
  <2> QED
    BY <2>1 DEF StackInv, InboxQueued, StacksOwned, Stacks
<1>3. CallInv
  <2>1. \A t \in Tasks : Len(chan[t]) = 0
    OBVIOUS
  <2> QED
    BY <2>1 DEF CallInv, HandlesLive, SendersHold, ChannelsHold, OneCurrent, LostOnlyByPanic
<1> QED
  BY <1>1, <1>2, <1>3 DEF Inv

----------------------------------------------------------------------------
\* The stacks.
Seated == {"init", "recv", "run", "exit", "panicked"}

\* A task that keeps its stack, or has none before and after.
LEMMA StacksKept ==
    ASSUME StackInv, UNCHANGED <<inbox, free, stack>>,
           \A t \in Tasks : /\ stage[t] = "queued" => stage'[t] = "queued"
                            /\ stage'[t] \in Seated <=> stage[t] \in Seated,
           inbox \in Seq(Tasks)
    PROVE  StackInv'
<1>1. \A i \in 1..Len(inbox) : inbox[i] \in Tasks
  BY ElementOfSeq
<1>2. InboxQueued'
  BY <1>1 DEF StackInv, InboxQueued
<1>3. StacksOwned'
  BY DEF StackInv, StacksOwned, Seated
<1> QED
  BY <1>2, <1>3 DEF StackInv

LEMMA DispatchStacks ==
    ASSUME TypeOK, StackInv, NEW h \in Holders, NEW t \in Tasks, Dispatch(h, t)
    PROVE  StackInv'
<1>1. /\ inbox \in Seq(Tasks) /\ inbox' = Append(inbox, t) /\ stage[t] = "idle"
      /\ stage' = [stage EXCEPT ![t] = "queued"] /\ free' = free /\ stack' = stack
      /\ \A i \in 1..Len(inbox) : inbox[i] \in Tasks
  BY ElementOfSeq DEF TypeOK, Dispatch
<1>2. /\ \A i \in 1..Len(inbox) : stage[inbox[i]] = "queued" /\ inbox[i] # t
      /\ NoRepeats(inbox)
  BY <1>1 DEF StackInv, InboxQueued, NoRepeats
<1>3. stage'[t] = "queued" /\ \A u \in Tasks : u # t => stage'[u] = stage[u]
  BY <1>1 DEF TypeOK
<1>4. InboxQueued'
  <2>1. NoRepeats(inbox')
    BY <1>1, <1>2, AppendNoRepeats
  <2>2. \A i \in 1..Len(inbox') : stage'[inbox'[i]] = "queued"
    BY <1>1, <1>2, <1>3, AppendFacts
  <2> QED
    BY <2>1, <2>2 DEF InboxQueued, NoRepeats
<1>5. StacksOwned'
  BY <1>1, <1>3 DEF StackInv, StacksOwned
<1> QED
  BY <1>4, <1>5 DEF StackInv

\* The task at the head of the inbox gets the stack at the head of the deque.
LEMMA BeginFacts ==
    ASSUME TypeOK, StackInv, Begin
    PROVE  \E t \in Tasks, s \in {"init", "panicked"} :
              /\ t = Head(inbox) /\ stage[t] = "queued" /\ stack[t] = 0
              /\ stage' = [stage EXCEPT ![t] = s]
              /\ stack' = [stack EXCEPT ![t] = Head(free)]
              /\ asker' \in {asker, [asker EXCEPT ![t] = Nobody]}
<1>1. /\ inbox \in Seq(Tasks) /\ inbox # <<>> /\ Head(inbox) \in Tasks
      /\ stage[Head(inbox)] = "queued"
  BY TailFacts DEF TypeOK, Begin, StackInv, InboxQueued
<1>2. stack[Head(inbox)] = 0
  BY <1>1 DEF StackInv, StacksOwned
<1> QED
  BY <1>1, <1>2 DEF Begin

LEMMA BeginStacks == TypeOK /\ StackInv /\ Begin => StackInv'
<1> SUFFICES ASSUME TypeOK, StackInv, Begin PROVE StackInv'
  OBVIOUS
<1> PICK t \in Tasks, s \in {"init", "panicked"} :
        /\ t = Head(inbox) /\ stage[t] = "queued" /\ stack[t] = 0
        /\ stage' = [stage EXCEPT ![t] = s]
        /\ stack' = [stack EXCEPT ![t] = Head(free)]
  BY BeginFacts
<1>1. /\ inbox \in Seq(Tasks) /\ inbox # <<>> /\ inbox' = Tail(inbox) /\ NoRepeats(inbox)
      /\ free \in Seq(Stacks) /\ free # <<>> /\ free' = Tail(free) /\ NoRepeats(free)
  BY DEF TypeOK, Begin, StackInv, InboxQueued, StacksOwned, NoRepeats
<1>2. /\ stage'[t] = s /\ stack'[t] = Head(free) /\ Head(free) = free[1]
      /\ Head(free) \in 1..N /\ Head(free) # 0
      /\ \A u \in Tasks : u # t => stage'[u] = stage[u] /\ stack'[u] = stack[u]
  <2>1. Head(free) = free[1] /\ Head(free) \in Stacks
    BY <1>1, TailFacts
  <2>2. \A x \in Stacks : x \in 1..N /\ x # 0
    BY PersistentAssumption DEF Stacks, PersistentAssumption
  <2> QED
    BY <2>1, <2>2 DEF TypeOK
<1>3. InboxQueued'
  <2>1. NoRepeats(inbox') /\ \A i \in 1..Len(inbox') : inbox'[i] # t
    BY <1>1, TailNoRepeats
  <2>2. \A i \in 1..Len(inbox') : inbox'[i] \in Tasks /\ stage[inbox'[i]] = "queued"
    BY <1>1, TailFacts, ElementOfSeq DEF StackInv, InboxQueued
  <2> QED
    BY <1>2, <2>1, <2>2 DEF InboxQueued, NoRepeats
<1>4. StacksOwned'
  <2>1. NoRepeats(free') /\ \A i \in 1..Len(free') : free'[i] # Head(free)
    BY <1>1, TailNoRepeats
  <2>2. \A i \in 1..Len(free') : \E j \in 1..Len(free) : free'[i] = free[j]
    BY <1>1, TailFacts
  <2>3. \A u \in Tasks : \A i \in 1..Len(free') : stack'[u] # free'[i]
    BY <1>2, <2>1, <2>2 DEF StackInv, StacksOwned
  <2>4. \A u \in Tasks : stack[u] # Head(free)
    BY <1>1, <1>2, TailFacts DEF StackInv, StacksOwned
  <2>5. \A u, w \in Tasks : u # w /\ stack'[u] # 0 => stack'[u] # stack'[w]
    BY <1>2, <2>4 DEF StackInv, StacksOwned
  <2>6. ASSUME NEW x \in Stacks
        PROVE  (\E u \in Tasks : stack'[u] = x) \/ (\E i \in 1..Len(free') : free'[i] = x)
    <3>1. CASE \E u \in Tasks : stack[u] = x
      <4>1. x # 0
        BY DEF Stacks
      <4> QED
        BY <1>2, <3>1, <4>1
    <3>2. ASSUME NEW i \in 1..Len(free), free[i] = x
          PROVE  (\E u \in Tasks : stack'[u] = x) \/ (\E j \in 1..Len(free') : free'[j] = x)
      <4>1. CASE i = 1
        BY <1>2, <3>2, <4>1
      <4>2. CASE i # 1
        <5>1. i - 1 \in 1..Len(free')
          BY <1>1, <4>2, TailFacts
        <5>2. free'[i - 1] = free[(i - 1) + 1] /\ (i - 1) + 1 = i
          BY <1>1, <5>1, TailFacts
        <5> QED
          BY <3>2, <5>1, <5>2
      <4> QED
        BY <4>1, <4>2
    <3> QED
      BY <3>1, <3>2 DEF StackInv, StacksOwned
  <2>7. \A u \in Tasks : stack'[u] # 0 <=> stage'[u] \in Seated
    BY <1>2 DEF StackInv, StacksOwned, Seated
  <2> QED
    BY <2>1, <2>3, <2>5, <2>6, <2>7 DEF StacksOwned, NoRepeats, Seated
<1> QED
  BY <1>3, <1>4 DEF StackInv

\* A task that ends puts its stack at the back of the deque.
LEMMA FreeStacks ==
    ASSUME TypeOK, StackInv, NEW t \in Tasks, FreeStack(t), inbox' = inbox,
           stage[t] \in Seated
    PROVE  StackInv'
<1>1. /\ free \in Seq(Stacks) /\ NoRepeats(free) /\ free' = Append(free, stack[t])
      /\ stack[t] \in Stacks
      /\ \A i \in 1..Len(inbox) : inbox[i] \in Tasks
  <2>1. stack[t] # 0 /\ stack[t] \in 0..N
    BY DEF TypeOK, StackInv, StacksOwned, Seated
  <2>2. \A i \in 1..Len(inbox) : inbox[i] \in Tasks
    BY ElementOfSeq DEF TypeOK
  <2> QED
    BY <2>1, <2>2, PersistentAssumption
       DEF TypeOK, StackInv, StacksOwned, NoRepeats, FreeStack, Stacks, PersistentAssumption
<1>2. /\ stage'[t] = "ended" /\ stack'[t] = 0 /\ stack[t] # 0
      /\ \A u \in Tasks : u # t => stage'[u] = stage[u] /\ stack'[u] = stack[u]
  BY <1>1 DEF TypeOK, FreeStack, Stacks
<1>3. InboxQueued'
  <2>1. \A i \in 1..Len(inbox) : inbox[i] # t
    BY DEF StackInv, InboxQueued, Seated
  <2> QED
    BY <1>1, <1>2, <2>1 DEF StackInv, InboxQueued
<1>4. StacksOwned'
  <2>1. \A i \in 1..Len(free) : free[i] # stack[t] /\ free[i] # 0
    <3>1. \A i \in 1..Len(free) : free[i] \in Stacks
      BY <1>1, ElementOfSeq
    <3>2. 0 \notin Stacks
      BY PersistentAssumption DEF Stacks, PersistentAssumption
    <3> QED
      BY <3>1, <3>2 DEF StackInv, StacksOwned
  <2>2. NoRepeats(free')
    BY <1>1, <2>1, AppendNoRepeats
  <2>3. \A u \in Tasks : \A i \in 1..Len(free') : stack'[u] # free'[i]
    BY <1>1, <1>2, <2>1, AppendFacts DEF StackInv, StacksOwned
  <2>4. \A u, w \in Tasks : u # w /\ stack'[u] # 0 => stack'[u] # stack'[w]
    BY <1>2 DEF StackInv, StacksOwned
  <2>5. ASSUME NEW x \in Stacks
        PROVE  (\E u \in Tasks : stack'[u] = x) \/ (\E i \in 1..Len(free') : free'[i] = x)
    <3>1. CASE x = stack[t]
      BY <1>1, <3>1, AppendFacts
    <3>2. CASE x # stack[t]
      <4>1. (\E u \in Tasks : u # t /\ stack[u] = x) \/ (\E i \in 1..Len(free) : free[i] = x)
        BY <3>2 DEF StackInv, StacksOwned
      <4> QED
        BY <1>1, <1>2, <4>1, AppendFacts
    <3> QED
      BY <3>1, <3>2
  <2>6. \A u \in Tasks : stack'[u] # 0 <=> stage'[u] \in Seated
    BY <1>2 DEF StackInv, StacksOwned, Seated
  <2> QED
    BY <2>2, <2>3, <2>4, <2>5, <2>6 DEF StacksOwned, NoRepeats, Seated
<1> QED
  BY <1>3, <1>4 DEF StackInv

----------------------------------------------------------------------------
\* The calls.  A step that opens and closes no channel, and runs no call.
LEMMA StagesOnly ==
    ASSUME CallInv, UNCHANGED <<holders, chan, current, call>>,
           \A t \in Tasks :
              \/ stage'[t] = stage[t]
              \/ /\ {stage[t], stage'[t]} \cap {"run"} = {} /\ stage[t] # "panicked"
                 /\ holders[t] = {} /\ chan[t] = <<>>
    PROVE  CallInv'
<1>1. HandlesLive' /\ SendersHold' /\ ChannelsHold'
  BY DEF CallInv, HandlesLive, SendersHold, ChannelsHold
<1>2. OneCurrent'
  BY DEF CallInv, OneCurrent
<1>3. LostOnlyByPanic'
  <2>1. \A k \in Calls : call[k].state \in {"discarded", "closed"} => call[k].to \in Tasks
    BY DEF CallInv, SendersHold
  <2> QED
    BY <2>1 DEF CallInv, LostOnlyByPanic
<1> QED
  BY <1>1, <1>2, <1>3 DEF CallInv

\* A call that is not in a channel becomes something that is not either.
LEMMA CallChanges ==
    ASSUME TypeOK, CallInv, UNCHANGED <<stage, holders, chan, current>>,
           NEW k \in Calls, call[k].state \in {"idle", "sending"},
           NEW r, call' = [call EXCEPT ![k] = r],
           r.state \in {"sending", "closed", "full", "cancelled"}, r.to \in Tasks,
           r.state = "sending" => r.by \in holders[r.to],
           r.state = "closed" => stage[r.to] = "panicked"
    PROVE  CallInv'
<1>1. call'[k] = r /\ \A j \in Calls : j # k => call'[j] = call[j]
  BY DEF TypeOK
<1>2. HandlesLive' /\ SendersHold' /\ LostOnlyByPanic'
  BY <1>1 DEF CallInv, HandlesLive, SendersHold, LostOnlyByPanic
<1>3. ChannelsHold'
  <2>1. \A t \in Tasks : \A i \in 1..Len(chan[t]) : chan[t][i] \in Calls /\ chan[t][i] # k
    BY ElementOfSeq DEF TypeOK, CallInv, ChannelsHold
  <2>2. ASSUME NEW j \in Calls, call'[j].state = "queued" PROVE j # k
    BY <1>1, <2>2
  <2> QED
    BY <1>1, <2>1, <2>2 DEF CallInv, ChannelsHold
<1>4. OneCurrent'
  BY <1>1 DEF CallInv, OneCurrent
<1> QED
  BY <1>2, <1>3, <1>4 DEF CallInv

\* A call is put into the channel of a task that has handles.
LEMMA CallQueued ==
    ASSUME TypeOK, CallInv, UNCHANGED <<stage, holders, current>>,
           NEW k \in Calls, call[k].state \in {"idle", "sending"},
           NEW t \in Tasks, holders[t] # {},
           NEW r, call' = [call EXCEPT ![k] = r], r.state = "queued", r.to = t,
           chan' = [chan EXCEPT ![t] = Append(@, k)]
    PROVE  CallInv'
<1>1. call'[k] = r /\ \A j \in Calls : j # k => call'[j] = call[j]
  BY DEF TypeOK
<1>2. /\ chan[t] \in Seq(Calls) /\ chan'[t] = Append(chan[t], k)
      /\ \A u \in Tasks : u # t => chan'[u] = chan[u]
  BY DEF TypeOK
<1>3. \A u \in Tasks : \A i \in 1..Len(chan[u]) : chan[u][i] \in Calls /\ chan[u][i] # k
  BY ElementOfSeq DEF TypeOK, CallInv, ChannelsHold
<1>4. HandlesLive' /\ SendersHold' /\ LostOnlyByPanic'
  BY <1>1, <1>2 DEF CallInv, HandlesLive, SendersHold, LostOnlyByPanic
<1>5. ChannelsHold'
  <2>1. ASSUME NEW u \in Tasks
        PROVE  /\ \A i \in 1..Len(chan'[u]) :
                     call'[chan'[u][i]].state = "queued" /\ call'[chan'[u][i]].to = u
               /\ NoRepeats(chan'[u])
    <3>1. CASE u # t
      BY <1>1, <1>2, <1>3, <3>1 DEF CallInv, ChannelsHold, NoRepeats
    <3>2. CASE u = t
      <4>1. NoRepeats(chan[t])
        BY DEF CallInv, ChannelsHold, NoRepeats
      <4>2. NoRepeats(chan'[t])
        BY <1>2, <1>3, <4>1, AppendNoRepeats
      <4>3. \A i \in 1..Len(chan'[t]) :
              call'[chan'[t][i]].state = "queued" /\ call'[chan'[t][i]].to = t
        BY <1>1, <1>2, <1>3, AppendFacts DEF CallInv, ChannelsHold
      <4> QED
        BY <3>2, <4>2, <4>3
    <3> QED
      BY <3>1, <3>2
  <2>2. ASSUME NEW j \in Calls, call'[j].state = "queued"
        PROVE  \E i \in 1..Len(chan'[call'[j].to]) : chan'[call'[j].to][i] = j
    <3>1. CASE j = k
      BY <1>1, <1>2, <3>1, AppendFacts
    <3>2. CASE j # k
      <4>1. /\ call[j].state = "queued" /\ call'[j].to = call[j].to /\ call[j].to \in Tasks
            /\ \E i \in 1..Len(chan[call[j].to]) : chan[call[j].to][i] = j
        BY <1>1, <2>2, <3>2 DEF CallInv, ChannelsHold, SendersHold
      <4> QED
        BY <1>2, <4>1, AppendFacts
    <3> QED
      BY <3>1, <3>2
  <2> QED
    BY <2>1, <2>2 DEF ChannelsHold, NoRepeats
<1>6. OneCurrent'
  BY <1>1 DEF CallInv, OneCurrent
<1> QED
  BY <1>4, <1>5, <1>6 DEF CallInv

\* The task takes the call at the head of its channel.
LEMMA ReceiveCalls ==
    ASSUME TypeOK, CallInv, NEW t \in Tasks, Receive(t)
    PROVE  CallInv'
<1> DEFINE k == Head(chan[t])
<1>1. /\ chan[t] \in Seq(Calls) /\ chan[t] # <<>> /\ chan'[t] = Tail(chan[t])
      /\ \A u \in Tasks : u # t => chan'[u] = chan[u]
  BY DEF TypeOK, Receive
<1>2. /\ k \in Calls /\ call[k].state = "queued" /\ call[k].to = t
      /\ NoRepeats(chan[t])
  BY <1>1, TailFacts DEF CallInv, ChannelsHold, NoRepeats
<1>3. /\ call' = [call EXCEPT ![k].state = "running"]
      /\ current' = [current EXCEPT ![t] = k]
      /\ stage[t] = "recv" /\ stage' = [stage EXCEPT ![t] = "run"]
      /\ holders' = holders
  BY DEF Receive
<1> HIDE DEF k
<1>4. /\ call'[k].state = "running" /\ call'[k].to = t /\ call'[k].by = call[k].by
      /\ \A j \in Calls : j # k => call'[j] = call[j]
  BY <1>2, <1>3 DEF TypeOK
<1>5. /\ current'[t] = k /\ stage'[t] = "run"
      /\ \A u \in Tasks : u # t => current'[u] = current[u] /\ stage'[u] = stage[u]
  BY <1>3 DEF TypeOK
<1>6. \A u \in Tasks \ {t} : \A i \in 1..Len(chan[u]) : chan[u][i] \in Calls /\ chan[u][i] # k
  BY <1>2, ElementOfSeq DEF TypeOK, CallInv, ChannelsHold
<1>7. NoRepeats(chan'[t]) /\ \A i \in 1..Len(chan'[t]) : chan'[t][i] # k
  BY <1>1, <1>2, TailNoRepeats DEF k
<1>8. HandlesLive' /\ SendersHold' /\ LostOnlyByPanic'
  <2>1. HandlesLive'
    BY <1>1, <1>3, <1>5 DEF CallInv, HandlesLive, Reachable
  <2>2. SendersHold'
    BY <1>2, <1>3, <1>4 DEF CallInv, SendersHold
  <2>3. LostOnlyByPanic'
    BY <1>2, <1>3, <1>4, <1>5 DEF CallInv, LostOnlyByPanic, SendersHold
  <2> QED
    BY <2>1, <2>2, <2>3
<1>9. ChannelsHold'
  <2>1. ASSUME NEW u \in Tasks
        PROVE  /\ \A i \in 1..Len(chan'[u]) :
                     call'[chan'[u][i]].state = "queued" /\ call'[chan'[u][i]].to = u
               /\ NoRepeats(chan'[u])
    <3>1. CASE u # t
      BY <1>1, <1>4, <1>6, <3>1 DEF CallInv, ChannelsHold, NoRepeats
    <3>2. CASE u = t
      <4>1. \A i \in 1..Len(chan'[t]) : chan'[t][i] \in Calls /\ \E j \in 1..Len(chan[t]) :
              chan'[t][i] = chan[t][j]
        BY <1>1, TailFacts, ElementOfSeq, SMTT(20)
      <4> QED
        BY <1>4, <1>7, <3>2, <4>1, SMTT(20) DEF CallInv, ChannelsHold
    <3> QED
      BY <3>1, <3>2
  <2>2. ASSUME NEW j \in Calls, call'[j].state = "queued"
        PROVE  \E i \in 1..Len(chan'[call'[j].to]) : chan'[call'[j].to][i] = j
    <3>1. /\ j # k /\ call'[j] = call[j] /\ call[j].to \in Tasks
          /\ \E i \in 1..Len(chan[call[j].to]) : chan[call[j].to][i] = j
      BY <1>4, <2>2 DEF CallInv, ChannelsHold, SendersHold
    <3>2. CASE call[j].to # t
      BY <1>1, <3>1, <3>2
    <3>3. CASE call[j].to = t
      <4>1. PICK i \in 1..Len(chan[t]) : chan[t][i] = j
        BY <3>1, <3>3
      <4>2. i # 1
        BY <1>1, <3>1, <4>1, TailFacts DEF k
      <4>3. i - 1 \in 1..Len(chan'[t]) /\ (i - 1) + 1 = i
        BY <1>1, <4>2, TailFacts
      <4>4. chan'[t][i - 1] = j
        BY <1>1, <4>1, <4>3, TailFacts
      <4> QED
        BY <3>1, <3>3, <4>3, <4>4
    <3> QED
      BY <3>2, <3>3
  <2> QED
    BY <2>1, <2>2 DEF ChannelsHold, NoRepeats
<1>10. OneCurrent'
  <2>1. current[t] = NoCall
    BY <1>3 DEF CallInv, OneCurrent
  <2>2. ASSUME NEW j \in Calls, call'[j].state = "running"
        PROVE  current'[call'[j].to] = j
    <3>1. CASE j = k
      BY <1>4, <1>5, <3>1
    <3>2. CASE j # k
      <4>1. call'[j] = call[j] /\ call[j].to \in Tasks /\ current[call[j].to] = j
        BY <1>4, <2>2, <3>2 DEF CallInv, OneCurrent, SendersHold
      <4>2. call[j].to # t
        BY <2>1, <4>1, PersistentAssumption DEF PersistentAssumption
      <4> QED
        BY <1>5, <4>1, <4>2
    <3> QED
      BY <3>1, <3>2
  <2>3. ASSUME NEW u \in Tasks, u # t, stage[u] = "run" PROVE current[u] # k
    BY <1>2, <2>3 DEF CallInv, OneCurrent
  <2>4. ASSUME NEW u \in Tasks
        PROVE  IF stage'[u] = "run"
               THEN /\ current'[u] \in Calls
                    /\ call'[current'[u]].state = "running" /\ call'[current'[u]].to = u
               ELSE current'[u] = NoCall
    <3>1. CASE u = t
      BY <1>2, <1>4, <1>5, <3>1
    <3>2. CASE u # t
      BY <1>4, <1>5, <2>3, <3>2 DEF CallInv, OneCurrent
    <3> QED
      BY <3>1, <3>2
  <2> QED
    BY <2>2, <2>4 DEF OneCurrent
<1> QED
  BY <1>8, <1>9, <1>10 DEF CallInv

LEMMA AnswerCalls ==
    ASSUME TypeOK, CallInv, NEW t \in Tasks, Answer(t)
    PROVE  CallInv'
<1> PICK k : k = current[t]
  OBVIOUS
<1>1. /\ k \in Calls /\ call[k].state = "running" /\ call[k].to = t
      /\ call' = [call EXCEPT ![k].state = "answered"]
      /\ current' = [current EXCEPT ![t] = NoCall]
      /\ stage[t] = "run" /\ stage' = [stage EXCEPT ![t] = "recv"]
      /\ holders' = holders /\ chan' = chan
  BY DEF Answer, CallInv, OneCurrent
<1>2. /\ call'[k].state = "answered" /\ call'[k].to = t /\ call'[k].by = call[k].by
      /\ \A j \in Calls : j # k => call'[j] = call[j]
  BY <1>1 DEF TypeOK
<1>3. /\ current'[t] = NoCall /\ stage'[t] = "recv"
      /\ \A u \in Tasks : u # t => current'[u] = current[u] /\ stage'[u] = stage[u]
  BY <1>1 DEF TypeOK
<1>4. HandlesLive' /\ SendersHold' /\ LostOnlyByPanic'
  <2>1. HandlesLive'
    BY <1>1, <1>3 DEF CallInv, HandlesLive, Reachable
  <2>2. SendersHold'
    BY <1>1, <1>2 DEF CallInv, SendersHold
  <2>3. LostOnlyByPanic'
    BY <1>1, <1>2, <1>3 DEF CallInv, LostOnlyByPanic, SendersHold
  <2> QED
    BY <2>1, <2>2, <2>3
<1>5. ChannelsHold'
  <2>1. \A u \in Tasks : \A i \in 1..Len(chan[u]) : chan[u][i] \in Calls /\ chan[u][i] # k
    BY <1>1, ElementOfSeq DEF TypeOK, CallInv, ChannelsHold
  <2>2. \A j \in Calls : call'[j].state = "queued" => j # k
    BY <1>2
  <2> QED
    BY <1>1, <1>2, <2>1, <2>2 DEF CallInv, ChannelsHold
<1>6. OneCurrent'
  <2>1. ASSUME NEW u \in Tasks, u # t, stage[u] = "run" PROVE current[u] # k
    BY <1>1, <2>1 DEF CallInv, OneCurrent
  <2>2. ASSUME NEW j \in Calls, call'[j].state = "running"
        PROVE  current'[call'[j].to] = j
    <3>1. j # k /\ call'[j] = call[j] /\ call[j].to \in Tasks /\ current[call[j].to] = j
      BY <1>2, <2>2 DEF CallInv, OneCurrent, SendersHold
    <3> QED
      BY <1>3, <3>1
  <2>3. ASSUME NEW u \in Tasks
        PROVE  IF stage'[u] = "run"
               THEN /\ current'[u] \in Calls
                    /\ call'[current'[u]].state = "running" /\ call'[current'[u]].to = u
               ELSE current'[u] = NoCall
    <3>1. CASE u = t
      BY <1>3, <3>1
    <3>2. CASE u # t
      BY <1>2, <1>3, <2>1, <3>2 DEF CallInv, OneCurrent
    <3> QED
      BY <3>1, <3>2
  <2> QED
    BY <2>2, <2>3 DEF OneCurrent
<1> QED
  BY <1>4, <1>5, <1>6 DEF CallInv

\* Handles are given out: to the one who asked, or to somebody else.
LEMMA HandleGiven ==
    ASSUME TypeOK, CallInv, NEW t \in Tasks, NEW hs,
           holders' = [holders EXCEPT ![t] = hs], holders[t] \subseteq hs,
           UNCHANGED <<chan, current, call>>,
           \A u \in Tasks : u # t => stage'[u] = stage[u],
           stage'[t] \in Reachable, stage'[t] # stage[t] => stage[t] = "init" /\ stage'[t] = "recv"
    PROVE  CallInv'
<1>1. holders'[t] = hs /\ \A u \in Tasks : u # t => holders'[u] = holders[u]
  BY DEF TypeOK
<1>2. HandlesLive' /\ SendersHold' /\ ChannelsHold'
  BY <1>1 DEF CallInv, HandlesLive, SendersHold, ChannelsHold
<1>3. OneCurrent'
  BY DEF CallInv, OneCurrent
<1>4. LostOnlyByPanic'
  BY DEF CallInv, LostOnlyByPanic, SendersHold
<1> QED
  BY <1>2, <1>3, <1>4 DEF CallInv

\* Handles are dropped and the tasks of dead panic: every call that is then
\* sent still has its sender's handle.
Gone(hs, dead) == {t \in Tasks : /\ stage[t] = "panicked" \/ t \in dead
                                 /\ Channel[t] = "asyncstd" => hs[t] = {}}

LEMMA SettleFacts ==
    ASSUME TypeOK, NEW hs, NEW dead \in SUBSET Tasks, Settle(hs, dead)
    PROVE  /\ holders' = hs
           /\ \A t \in Tasks : chan'[t] = IF t \in Gone(hs, dead) THEN <<>> ELSE chan[t]
           /\ call' \in [Calls -> [state : CallStates, by : Holders \cup {Nobody},
                                   to : Tasks \cup {Nobody}]]
           /\ \A k \in Calls :
                 /\ call'[k].to = call[k].to /\ call'[k].by = call[k].by
                 /\ call'[k].state =
                      IF \/ call[k].state = "running" /\ call[k].to \in dead
                         \/ call[k].state = "queued" /\ call[k].to \in Gone(hs, dead)
                      THEN "discarded"
                      ELSE IF call[k].state = "sending" /\ call[k].to \in dead THEN "closed"
                      ELSE IF call[k].state = "sending" /\ call[k].by \in dead THEN "cancelled"
                      ELSE call[k].state
<1> DEFINE Fate(k) ==
        IF \/ call[k].state = "running" /\ call[k].to \in dead
           \/ call[k].state = "queued" /\ call[k].to \in Gone(hs, dead)
        THEN "discarded"
        ELSE IF call[k].state = "sending" /\ call[k].to \in dead THEN "closed"
        ELSE IF call[k].state = "sending" /\ call[k].by \in dead THEN "cancelled"
        ELSE call[k].state
<1>1. holders' = hs
  BY DEF Settle
<1>2. \A t \in Tasks : chan'[t] = IF t \in Gone(hs, dead) THEN <<>> ELSE chan[t]
  BY DEF Settle, Gone
<1>3. call' = [k \in Calls |-> [call[k] EXCEPT !.state = Fate(k)]]
  BY DEF Settle, Gone
<1>4. \A k \in Calls : call[k] \in [state : CallStates, by : Holders \cup {Nobody},
                                    to : Tasks \cup {Nobody}]
  BY DEF TypeOK
<1>5. \A k \in Calls : Fate(k) \in CallStates
  BY <1>4 DEF CallStates
<1>6. \A k \in Calls : /\ call'[k] \in [state : CallStates, by : Holders \cup {Nobody},
                                        to : Tasks \cup {Nobody}]
                       /\ call'[k].to = call[k].to /\ call'[k].by = call[k].by
                       /\ call'[k].state = Fate(k)
  <2> HIDE DEF Fate
  <2> QED
    BY <1>3, <1>4, <1>5
<1>7. call' \in [Calls -> [state : CallStates, by : Holders \cup {Nobody},
                           to : Tasks \cup {Nobody}]]
  <2> HIDE DEF Fate
  <2> QED
    BY <1>3, <1>6
<1> QED
  BY <1>1, <1>2, <1>6, <1>7

LEMMA SettleCalls ==
    ASSUME TypeOK, CallInv, NEW hs, NEW dead \in SUBSET Tasks, Settle(hs, dead),
           \A t \in Tasks : hs[t] \subseteq holders[t],
           \A k \in Calls : call[k].state = "sending" =>
              call[k].by \in hs[call[k].to] \/ call[k].to \in dead \/ call[k].by \in dead,
           \A t \in dead : stage'[t] = "panicked" /\ current'[t] = NoCall,
           \A t \in Tasks \ dead :
              /\ current'[t] = current[t]
              /\ stage'[t] # stage[t] => stage[t] \in {"init", "exit"} /\ stage'[t] = "ended"
    PROVE  CallInv'
<1> DEFINE G == Gone(hs, dead)
<1>1. /\ holders' = hs
      /\ \A t \in Tasks : chan'[t] = IF t \in G THEN <<>> ELSE chan[t]
      /\ \A k \in Calls : call'[k].to = call[k].to /\ call'[k].by = call[k].by
  BY SettleFacts
<1>2. /\ \A k \in Calls : call'[k].state \in {"idle", "sending", "queued", "running"} =>
           call'[k].state = call[k].state
      /\ \A k \in Calls : call[k].state = "idle" => call'[k].state = "idle"
      /\ \A k \in Calls : call'[k].state = "sending" =>
           call[k].to \notin dead /\ call[k].by \notin dead
      /\ \A k \in Calls : call'[k].state = "queued" => call[k].to \notin G
      /\ \A k \in Calls : call'[k].state = "running" => call[k].to \notin dead
  BY SettleFacts
<1>3. /\ \A k \in Calls : call[k].state = "queued" /\ call[k].to \notin G =>
           call'[k].state = "queued"
      /\ \A k \in Calls : call[k].state = "running" /\ call[k].to \notin dead =>
           call'[k].state = "running"
      /\ \A k \in Calls : call'[k].state \in {"discarded", "closed"} =>
           call[k].state = call'[k].state \/ call[k].to \in G \/ call[k].to \in dead
  BY SettleFacts
<1>4. \A t \in Tasks : t \in G \/ t \in dead => stage[t] = "panicked" \/ t \in dead
  BY DEF Gone
<1> HIDE DEF G
<1>5. \A k \in Calls : call[k].state # "idle" => call[k].to \in Tasks
  BY DEF CallInv, SendersHold
<1>6. HandlesLive'
  BY <1>1 DEF CallInv, HandlesLive, Reachable
<1>7. SendersHold'
  <2>1. \A k \in Calls : call'[k].state # "idle" => call'[k].to \in Tasks
    BY <1>1, <1>2, <1>5
  <2>2. \A k \in Calls : call'[k].state = "sending" => call'[k].by \in hs[call'[k].to]
    BY <1>1, <1>2
  <2> QED
    BY <1>1, <2>1, <2>2 DEF SendersHold
<1>8. ChannelsHold'
  <2>1. ASSUME NEW t \in Tasks
        PROVE  /\ \A i \in 1..Len(chan'[t]) :
                     call'[chan'[t][i]].state = "queued" /\ call'[chan'[t][i]].to = t
               /\ NoRepeats(chan'[t])
    <3>1. CASE t \in G
      <4>1. chan'[t] = <<>>
        BY <1>1, <3>1
      <4> QED
        BY <4>1 DEF NoRepeats
    <3>2. CASE t \notin G
      <4>1. \A i \in 1..Len(chan[t]) : chan[t][i] \in Calls
        BY ElementOfSeq DEF TypeOK
      <4>2. chan'[t] = chan[t]
        BY <1>1, <3>2
      <4> QED
        BY <1>1, <1>3, <3>2, <4>1, <4>2 DEF CallInv, ChannelsHold, NoRepeats
    <3> QED
      BY <3>1, <3>2
  <2>2. ASSUME NEW k \in Calls, call'[k].state = "queued"
        PROVE  \E i \in 1..Len(chan'[call'[k].to]) : chan'[call'[k].to][i] = k
    <3>1. call[k].state = "queued" /\ call[k].to \notin G /\ call[k].to \in Tasks
      BY <1>2, <1>5, <2>2
    <3> QED
      BY <1>1, <3>1 DEF CallInv, ChannelsHold
  <2> QED
    BY <2>1, <2>2 DEF ChannelsHold, NoRepeats
<1>9. OneCurrent'
  <2>1. ASSUME NEW t \in Tasks
        PROVE  IF stage'[t] = "run"
               THEN /\ current'[t] \in Calls
                    /\ call'[current'[t]].state = "running" /\ call'[current'[t]].to = t
               ELSE current'[t] = NoCall
    <3>1. CASE t \in dead
      BY <3>1
    <3>2. CASE t \notin dead
      BY <1>1, <1>3, <3>2 DEF CallInv, OneCurrent
    <3> QED
      BY <3>1, <3>2
  <2>2. \A k \in Calls : call'[k].state = "running" => current'[call'[k].to] = k
    BY <1>1, <1>2, <1>5 DEF CallInv, OneCurrent
  <2> QED
    BY <2>1, <2>2 DEF OneCurrent
<1>10. LostOnlyByPanic'
  <2>1. ASSUME NEW k \in Calls, call'[k].state \in {"discarded", "closed"}
        PROVE  stage'[call'[k].to] = "panicked"
    <3>1. call[k].to \in Tasks
      BY <1>2, <1>5, <2>1
    <3>2. stage[call[k].to] = "panicked" \/ call[k].to \in dead
      BY <1>3, <1>4, <2>1, <3>1 DEF CallInv, LostOnlyByPanic
    <3> QED
      BY <1>1, <3>1, <3>2
  <2> QED
    BY <2>1 DEF LostOnlyByPanic
<1> QED
  BY <1>6, <1>7, <1>8, <1>9, <1>10 DEF CallInv

\* The types of what a task that is over leaves.
LEMMA SettleTyped ==
    ASSUME TypeOK, NEW hs \in [Tasks -> SUBSET Holders], NEW dead \in SUBSET Tasks,
           Settle(hs, dead)
    PROVE  /\ holders' \in [Tasks -> SUBSET Holders] /\ chan' \in [Tasks -> Seq(Calls)]
           /\ call' \in [Calls -> [state : CallStates, by : Holders \cup {Nobody},
                                   to : Tasks \cup {Nobody}]]
<1>1. <<>> \in Seq(Calls)
  OBVIOUS
<1>2. chan' \in [Tasks -> Seq(Calls)]
  <2>1. chan' = [t \in Tasks |-> IF t \in Gone(hs, dead) THEN <<>> ELSE chan[t]]
    BY DEF Settle, Gone
  <2> QED
    BY <1>1, <2>1 DEF TypeOK
<1> QED
  BY <1>2, SettleFacts

\* Every handle a task owns is dropped with it.
LEMMA OwnedDropped ==
    ASSUME TypeOK, CallInv, NEW t \in Tasks, NEW dead \in {{}, {t}}, DropOwned(t, dead),
           dead = {} => ~Waits(t) /\ stage[t] \in {"init", "exit"},
           stage' = [stage EXCEPT ![t] = IF dead = {} THEN "ended" ELSE "panicked"],
           current' = [current EXCEPT ![t] = IF dead = {} THEN @ ELSE NoCall]
    PROVE  /\ CallInv'
           /\ holders' \in [Tasks -> SUBSET Holders] /\ chan' \in [Tasks -> Seq(Calls)]
           /\ call' \in [Calls -> [state : CallStates, by : Holders \cup {Nobody},
                                   to : Tasks \cup {Nobody}]]
           /\ asker' \in [Tasks -> Holders \cup {Nobody}]
<1> DEFINE hs == [c \in Tasks |-> holders[c] \ {t}]
<1>1. Settle(hs, dead) /\ dead \in SUBSET Tasks
  BY DEF DropOwned
<1>2. hs \in [Tasks -> SUBSET Holders] /\ \A c \in Tasks : hs[c] \subseteq holders[c]
  BY DEF TypeOK
<1>3. \A k \in Calls : call[k].state = "sending" =>
        call[k].by \in hs[call[k].to] \/ call[k].to \in dead \/ call[k].by \in dead
  <2>1. \A k \in Calls : call[k].state = "sending" =>
          call[k].to \in Tasks /\ call[k].by \in holders[call[k].to]
    BY DEF CallInv, SendersHold
  <2>2. dead = {} => \A k \in Calls : call[k].state = "sending" => call[k].by # t
    BY DEF Waits, Sending
  <2> QED
    BY <2>1, <2>2
<1>4. \A u \in dead : stage'[u] = "panicked" /\ current'[u] = NoCall
  BY DEF TypeOK
<1>5. \A u \in Tasks \ dead :
        /\ current'[u] = current[u]
        /\ stage'[u] # stage[u] => stage[u] \in {"init", "exit"} /\ stage'[u] = "ended"
  BY DEF TypeOK
<1> HIDE DEF hs
<1>6. CallInv'
  BY <1>1, <1>2, <1>3, <1>4, <1>5, SettleCalls
<1>7. asker' \in [Tasks -> Holders \cup {Nobody}]
  BY DEF DropOwned, TypeOK
<1> QED
  BY <1>1, <1>2, <1>6, <1>7, SettleTyped

----------------------------------------------------------------------------
\* The steps of a task.
LEMMA TaskInv ==
    ASSUME Inv, NEW t \in Tasks, TaskStep(t) \/ Panics(t)
    PROVE  Inv'
<1> USE DEF Inv
<1>1. CASE InitOk(t)
  <2>1. /\ stage[t] = "init" /\ stage' = [stage EXCEPT ![t] = "recv"]
        /\ holders' = [holders EXCEPT ![t] = {asker[t]} \ {Nobody}]
        /\ asker' = [asker EXCEPT ![t] = Nobody]
        /\ UNCHANGED <<rt, senders, inbox, free, stack, chan, current, call>>
    BY <1>1 DEF InitOk
  <2>2. TypeOK'
    BY <2>1 DEF TypeOK
  <2>3. stage'[t] = "recv" /\ \A u \in Tasks : u # t => stage'[u] = stage[u]
    BY <2>1 DEF TypeOK
  <2>4. StackInv'
    BY <2>1, <2>3, StacksKept DEF TypeOK, Seated
  <2>5. holders[t] = {}
    BY <2>1 DEF CallInv, HandlesLive, Reachable
  <2>6. CallInv'
    BY <2>1, <2>3, <2>5, HandleGiven DEF Reachable
  <2> QED
    BY <2>2, <2>4, <2>6
<1>2. CASE InitErr(t) \/ ExitReturns(t)
  <2>1. /\ stage[t] \in {"init", "exit"} /\ ~Waits(t) /\ DropOwned(t, {}) /\ FreeStack(t)
        /\ UNCHANGED <<rt, senders, inbox, current>>
    BY <1>2 DEF InitErr, ExitReturns
  <2>2. stage' = [stage EXCEPT ![t] = "ended"]
    BY <2>1 DEF FreeStack
  <2>3. /\ CallInv'
        /\ holders' \in [Tasks -> SUBSET Holders] /\ chan' \in [Tasks -> Seq(Calls)]
        /\ call' \in [Calls -> [state : CallStates, by : Holders \cup {Nobody},
                                to : Tasks \cup {Nobody}]]
        /\ asker' \in [Tasks -> Holders \cup {Nobody}]
    <3>1. current' = [current EXCEPT ![t] = current[t]]
      BY <2>1 DEF TypeOK
    <3> QED
      BY <2>1, <2>2, <3>1, OwnedDropped
  <2>4. StackInv'
    BY <2>1, FreeStacks DEF Seated
  <2>5. free' \in Seq(Stacks) /\ stack' \in [Tasks -> 0..N]
    <3>1. stack[t] \in Stacks /\ 0 \in 0..N
      <4>1. stack[t] # 0 /\ stack[t] \in 0..N
        BY <2>1 DEF TypeOK, StackInv, StacksOwned
      <4> QED
        BY <4>1, PersistentAssumption DEF Stacks, PersistentAssumption
    <3> QED
      BY <2>1, <3>1, AppendFacts DEF FreeStack, TypeOK
  <2>6. TypeOK'
    BY <2>1, <2>2, <2>3, <2>5 DEF TypeOK
  <2> QED
    BY <2>3, <2>4, <2>6
<1>3. CASE Receive(t)
  <2>1. /\ stage[t] = "recv" /\ stage' = [stage EXCEPT ![t] = "run"]
        /\ UNCHANGED <<rt, senders, inbox, free, stack, asker, holders>>
    BY <1>3 DEF Receive
  <2>2. TypeOK'
    <3>1. Head(chan[t]) \in Calls /\ Tail(chan[t]) \in Seq(Calls)
      BY <1>3, TailFacts DEF Receive, TypeOK
    <3>2. current' \in [Tasks -> Calls \cup {NoCall}] /\ chan' \in [Tasks -> Seq(Calls)]
      BY <1>3, <3>1 DEF Receive, TypeOK
    <3>3. call' \in [Calls -> [state : CallStates, by : Holders \cup {Nobody},
                               to : Tasks \cup {Nobody}]]
      BY <1>3, <3>1, ZenonT(30) DEF Receive, TypeOK, CallStates
    <3> QED
      BY <2>1, <3>2, <3>3 DEF TypeOK
  <2>3. StackInv'
    BY <2>1, StacksKept DEF TypeOK, Seated
  <2> QED
    BY <1>3, <2>2, <2>3, ReceiveCalls
<1>4. CASE ReceiveClosed(t)
  <2>1. /\ stage[t] = "recv" /\ stage' = [stage EXCEPT ![t] = "exit"]
        /\ holders[t] = {} /\ chan[t] = <<>>
        /\ UNCHANGED <<rt, senders, inbox, free, stack, asker, holders, chan, current, call>>
    BY <1>4 DEF ReceiveClosed
  <2>2. TypeOK'
    BY <2>1 DEF TypeOK
  <2>3. StackInv'
    BY <2>1, StacksKept DEF TypeOK, Seated
  <2>4. CallInv'
    BY <2>1, StagesOnly DEF TypeOK
  <2> QED
    BY <2>2, <2>3, <2>4
<1>5. CASE Answer(t)
  <2>1. /\ stage[t] = "run" /\ stage' = [stage EXCEPT ![t] = "recv"]
        /\ UNCHANGED <<rt, senders, inbox, free, stack, asker, holders, chan>>
    BY <1>5 DEF Answer
  <2>2. TypeOK'
    <3>1. current' \in [Tasks -> Calls \cup {NoCall}]
      BY <1>5 DEF Answer, TypeOK
    <3>2. call' \in [Calls -> [state : CallStates, by : Holders \cup {Nobody},
                               to : Tasks \cup {Nobody}]]
      <4>1. current[t] \in Calls
        BY <2>1 DEF CallInv, OneCurrent
      <4> QED
        BY <1>5, <4>1, ZenonT(30) DEF Answer, TypeOK, CallStates
    <3> QED
      BY <2>1, <3>1, <3>2 DEF TypeOK
  <2>3. StackInv'
    BY <2>1, StacksKept DEF TypeOK, Seated
  <2> QED
    BY <1>5, <2>2, <2>3, AnswerCalls
<1>6. CASE Panics(t)
  <2>1. /\ InUserCode(t) /\ stage' = [stage EXCEPT ![t] = "panicked"]
        /\ current' = [current EXCEPT ![t] = NoCall] /\ DropOwned(t, {t})
        /\ UNCHANGED <<rt, senders, inbox, free, stack>>
    BY <1>6 DEF Panics
  <2>2. /\ CallInv'
        /\ holders' \in [Tasks -> SUBSET Holders] /\ chan' \in [Tasks -> Seq(Calls)]
        /\ call' \in [Calls -> [state : CallStates, by : Holders \cup {Nobody},
                                to : Tasks \cup {Nobody}]]
        /\ asker' \in [Tasks -> Holders \cup {Nobody}]
    <3>1. {t} # {}
      OBVIOUS
    <3> QED
      BY <2>1, <3>1, OwnedDropped
  <2>3. TypeOK'
    BY <2>1, <2>2 DEF TypeOK
  <2>4. StackInv'
    BY <2>1, StacksKept DEF TypeOK, Seated, InUserCode
  <2> QED
    BY <2>2, <2>3, <2>4
<1> QED
  BY <1>1, <1>2, <1>3, <1>4, <1>5, <1>6 DEF TaskStep

\* The steps of the users and of the loop that leave the calls alone.
LEMMA LoopInv ==
    ASSUME Inv,
           \/ Begin \/ Closed \/ Drained
           \/ \E t \in Tasks : DropReply(t)
           \/ \E u \in Users : DropRuntime(u)
           \/ \E h \in Holders, t \in Tasks : Dispatch(h, t)
           \/ UNCHANGED vars
    PROVE  Inv'
<1> USE DEF Inv
<1>1. CASE Begin
  <2> PICK t \in Tasks, s \in {"init", "panicked"} :
          /\ t = Head(inbox) /\ stage[t] = "queued" /\ stack[t] = 0
          /\ stage' = [stage EXCEPT ![t] = s]
          /\ stack' = [stack EXCEPT ![t] = Head(free)]
          /\ asker' \in {asker, [asker EXCEPT ![t] = Nobody]}
    BY <1>1, BeginFacts
  <2>1. /\ inbox # <<>> /\ free # <<>> /\ inbox' = Tail(inbox) /\ free' = Tail(free)
        /\ UNCHANGED <<rt, senders, holders, chan, current, call>>
    BY <1>1 DEF Begin
  <2>2. TypeOK'
    <3>1. inbox' \in Seq(Tasks) /\ free' \in Seq(Stacks) /\ Head(free) \in Stacks
      BY <2>1, TailFacts DEF TypeOK
    <3>2. Stacks \subseteq 0..N
      BY PersistentAssumption DEF Stacks, PersistentAssumption
    <3>3. stack' \in [Tasks -> 0..N]
      BY <3>1, <3>2 DEF TypeOK
    <3> QED
      BY <2>1, <3>1, <3>3 DEF TypeOK
  <2>3. StackInv'
    BY <1>1, BeginStacks
  <2>4. holders[t] = {} /\ chan[t] = <<>>
    BY DEF CallInv, HandlesLive, Reachable
  <2>5. stage'[t] = s /\ \A u \in Tasks : u # t => stage'[u] = stage[u]
    BY DEF TypeOK
  <2>6. CallInv'
    BY <2>1, <2>4, <2>5, StagesOnly
  <2> QED
    BY <2>2, <2>3, <2>6
<1>2. CASE \E h \in Holders, t \in Tasks : Dispatch(h, t)
  <2> PICK h \in Holders, t \in Tasks : Dispatch(h, t)
    BY <1>2
  <2>1. /\ stage[t] = "idle" /\ inbox' = Append(inbox, t)
        /\ stage' = [stage EXCEPT ![t] = "queued"] /\ asker' = [asker EXCEPT ![t] = h]
        /\ UNCHANGED <<rt, senders, free, stack, holders, chan, current, call>>
    BY DEF Dispatch
  <2>2. TypeOK'
    BY <2>1, AppendFacts DEF TypeOK
  <2>3. StackInv'
    BY DispatchStacks
  <2>4. holders[t] = {} /\ chan[t] = <<>>
    BY <2>1 DEF CallInv, HandlesLive, Reachable
  <2>5. stage'[t] = "queued" /\ \A u \in Tasks : u # t => stage'[u] = stage[u]
    BY <2>1 DEF TypeOK
  <2>6. CallInv'
    BY <2>1, <2>4, <2>5, StagesOnly
  <2> QED
    BY <2>2, <2>3, <2>6
<1>3. ASSUME \/ Closed \/ Drained \/ UNCHANGED vars
             \/ \E t \in Tasks : DropReply(t)
             \/ \E u \in Users : DropRuntime(u)
      PROVE  Inv'
  <2>1. UNCHANGED <<inbox, free, stage, stack, holders, chan, current, call>>
    BY <1>3 DEF Closed, Drained, DropReply, DropRuntime, vars
  <2>2. /\ rt' \in {"up", "draining", "down"} /\ senders' \subseteq Users
        /\ asker' \in [Tasks -> Holders \cup {Nobody}]
    BY <1>3 DEF Closed, Drained, DropReply, DropRuntime, vars, TypeOK
  <2>3. TypeOK'
    BY <2>1, <2>2 DEF TypeOK
  <2>4. StackInv'
    BY <2>1, StacksKept DEF TypeOK
  <2>5. CallInv'
    BY <2>1, StagesOnly
  <2> QED
    BY <2>3, <2>4, <2>5
<1> QED
  BY <1>1, <1>2, <1>3

\* The steps of those who own a handle.
LEMMA HandleInv ==
    ASSUME Inv, NEW h \in Holders, NEW t \in Tasks,
           DropHandle(h, t) \/ \E u \in Users : CloneHandle(h, u, t)
    PROVE  Inv'
<1> USE DEF Inv
<1>1. UNCHANGED <<rt, senders, inbox, free, stage, stack, asker, current>> /\ h \in holders[t]
  BY DEF DropHandle, CloneHandle, CanUse
<1>2. StackInv'
  BY <1>1, StacksKept DEF TypeOK
<1>3. CASE DropHandle(h, t)
  <2> DEFINE hs == [holders EXCEPT ![t] = @ \ {h}]
  <2>1. Settle(hs, {}) /\ \A k \in Sending(h) : call[k].to # t
    BY <1>3 DEF DropHandle
  <2>2. /\ hs \in [Tasks -> SUBSET Holders]
        /\ \A u \in Tasks : hs[u] = IF u = t THEN holders[u] \ {h} ELSE holders[u]
    BY DEF TypeOK
  <2> HIDE DEF hs
  <2>3. \A k \in Calls : call[k].state = "sending" => call[k].by \in hs[call[k].to]
    BY <2>1, <2>2 DEF CallInv, SendersHold, Sending
  <2>4. CallInv'
    BY <1>1, <2>1, <2>2, <2>3, SettleCalls
  <2>5. TypeOK'
    BY <1>1, <2>1, <2>2, SettleTyped DEF TypeOK
  <2> QED
    BY <1>2, <2>4, <2>5
<1>4. CASE \E u \in Users : CloneHandle(h, u, t)
  <2> PICK u \in Users : CloneHandle(h, u, t)
    BY <1>4
  <2>1. holders' = [holders EXCEPT ![t] = holders[t] \cup {u}] /\ UNCHANGED <<chan, call>>
    BY DEF CloneHandle
  <2>2. stage[t] \in Reachable
    BY <1>1 DEF CallInv, HandlesLive
  <2>3. CallInv'
    BY <1>1, <2>1, <2>2, HandleGiven
  <2>4. TypeOK'
    BY <1>1, <2>1 DEF TypeOK, Holders
  <2> QED
    BY <1>2, <2>3, <2>4
<1> QED
  BY <1>3, <1>4

\* The steps of a call before the task receives it.
LEMMA CallingInv ==
    ASSUME Inv, NEW k \in Calls,
           \/ \E h \in Holders, t \in Tasks : Call(h, t, k) \/ TryCall(h, t, k)
           \/ Admit(k) \/ Refused(k) \/ Cancel(k)
    PROVE  Inv'
<1> USE DEF Inv
<1>1. UNCHANGED <<rt, senders, inbox, free, stage, stack, asker, holders, current>>
  BY DEF Call, TryCall, Admit, Refused, Cancel
<1>2. StackInv'
  BY <1>1, StacksKept DEF TypeOK
<1>3. call[k] \in [state : CallStates, by : Holders \cup {Nobody}, to : Tasks \cup {Nobody}]
  BY DEF TypeOK
<1>4. ASSUME NEW t \in Tasks, NEW r,
             r \in [state : CallStates, by : Holders \cup {Nobody}, to : Tasks \cup {Nobody}],
             call' = [call EXCEPT ![k] = r],
             chan' = chan \/ chan' = [chan EXCEPT ![t] = Append(@, k)]
      PROVE  TypeOK'
  <2>1. call' \in [Calls -> [state : CallStates, by : Holders \cup {Nobody},
                             to : Tasks \cup {Nobody}]]
    BY <1>4 DEF TypeOK
  <2>2. chan' \in [Tasks -> Seq(Calls)]
    <3>1. Append(chan[t], k) \in Seq(Calls)
      BY AppendFacts DEF TypeOK
    <3> QED
      BY <1>4, <3>1 DEF TypeOK
  <2> QED
    BY <1>1, <2>1, <2>2 DEF TypeOK
<1>5. \A t \in Tasks : holders[t] # {} => Receives(t) \/ stage[t] = "panicked"
  BY DEF CallInv, HandlesLive, Reachable, Receives
<1>6. ASSUME NEW h \in Holders, NEW t \in Tasks, Call(h, t, k) \/ TryCall(h, t, k)
      PROVE  Inv'
  <2>1. /\ h \in holders[t] /\ call[k].state = "idle"
        /\ \E s \in {"sending", "closed", "queued", "full"} :
              /\ call' = [call EXCEPT ![k] = [state |-> s, by |-> h, to |-> t]]
              /\ s = "closed" => ~Receives(t)
              /\ IF s = "queued" THEN chan' = [chan EXCEPT ![t] = Append(@, k)]
                 ELSE chan' = chan
    <3>1. CASE Call(h, t, k)
      BY <3>1 DEF Call, Made, CanUse
    <3>2. CASE TryCall(h, t, k)
      BY <3>2 DEF TryCall, Made, CanUse
    <3> QED
      BY <1>6, <3>1, <3>2
  <2> PICK s \in {"sending", "closed", "queued", "full"} :
              /\ call' = [call EXCEPT ![k] = [state |-> s, by |-> h, to |-> t]]
              /\ s = "closed" => ~Receives(t)
              /\ IF s = "queued" THEN chan' = [chan EXCEPT ![t] = Append(@, k)]
                 ELSE chan' = chan
    BY <2>1
  <2> PICK r : r = [state |-> s, by |-> h, to |-> t]
    OBVIOUS
  <2>2. r.state = s /\ r.by = h /\ r.to = t /\ call' = [call EXCEPT ![k] = r]
    OBVIOUS
  <2>3. r \in [state : CallStates, by : Holders \cup {Nobody}, to : Tasks \cup {Nobody}]
    BY DEF CallStates
  <2>4. CASE s = "queued"
    <3>1. chan' = [chan EXCEPT ![t] = Append(@, k)]
      BY <2>4
    <3>2. CallInv'
      BY <1>1, <2>1, <2>2, <2>4, <3>1, CallQueued
    <3>3. TypeOK'
      BY <1>4, <2>2, <2>3, <3>1
    <3> QED
      BY <1>2, <3>2, <3>3
  <2>5. CASE s # "queued"
    <3>1. chan' = chan
      BY <2>5
    <3>2. /\ r.state \in {"sending", "closed", "full", "cancelled"} /\ r.to \in Tasks
          /\ r.state = "sending" => r.by \in holders[r.to]
          /\ r.state = "closed" => stage[r.to] = "panicked"
      BY <1>5, <2>1, <2>2, <2>5
    <3>3. CallInv'
      BY <1>1, <2>1, <2>2, <3>1, <3>2, CallChanges
    <3>4. TypeOK'
      BY <1>4, <2>2, <2>3, <3>1
    <3> QED
      BY <1>2, <3>3, <3>4
  <2> QED
    BY <2>4, <2>5
<1>7. ASSUME Admit(k) \/ Refused(k) \/ Cancel(k)
      PROVE  Inv'
  <2>1. /\ call[k].state = "sending" /\ call[k].to \in Tasks
        /\ call[k].by \in holders[call[k].to] /\ call[k].by \in Holders
    BY <1>7 DEF Admit, Refused, Cancel, CallInv, SendersHold, TypeOK
  <2> PICK t \in Tasks, h \in Holders : t = call[k].to /\ h = call[k].by
    BY <2>1
  <2>2. \A s : [call EXCEPT ![k].state = s] =
                 [call EXCEPT ![k] = [state |-> s, by |-> h, to |-> t]]
    <3>1. \A s : [call[k] EXCEPT !.state = s] = [state |-> s, by |-> h, to |-> t]
      BY <1>3
    <3> QED
      BY <3>1
  <2>3. ASSUME Admit(k)
        PROVE  Inv'
    <3> PICK r : r = [state |-> "queued", by |-> h, to |-> t]
      OBVIOUS
    <3>1. call' = [call EXCEPT ![k].state = "queued"] /\ chan' = [chan EXCEPT ![t] = Append(@, k)]
      BY <2>3 DEF Admit
    <3>2. call' = [call EXCEPT ![k] = r] /\ r.state = "queued" /\ r.to = t
      BY <2>2, <3>1
    <3>3. r \in [state : CallStates, by : Holders \cup {Nobody}, to : Tasks \cup {Nobody}]
      BY DEF CallStates
    <3>4. TypeOK'
      BY <1>4, <3>1, <3>2, <3>3
    <3>5. CallInv'
      BY <1>1, <2>1, <3>1, <3>2, CallQueued
    <3> QED
      BY <1>2, <3>4, <3>5
  <2>4. ASSUME Refused(k) \/ Cancel(k)
        PROVE  Inv'
    <3>1. \E s \in {"closed", "cancelled"} :
             /\ call' = [call EXCEPT ![k].state = s] /\ chan' = chan
             /\ s = "closed" => ~Receives(t)
      BY <2>4 DEF Refused, Cancel
    <3> PICK s \in {"closed", "cancelled"} :
             /\ call' = [call EXCEPT ![k].state = s] /\ chan' = chan
             /\ s = "closed" => ~Receives(t)
      BY <3>1
    <3> PICK r : r = [state |-> s, by |-> h, to |-> t]
      OBVIOUS
    <3>2. call' = [call EXCEPT ![k] = r] /\ r.state = s /\ r.to = t
      BY <2>2
    <3>3. r \in [state : CallStates, by : Holders \cup {Nobody}, to : Tasks \cup {Nobody}]
      BY DEF CallStates
    <3>4. TypeOK'
      BY <1>4, <3>2, <3>3
    <3>5. s = "closed" => stage[t] = "panicked"
      BY <1>5, <2>1
    <3>6. CallInv'
      BY <1>1, <2>1, <3>2, <3>5, CallChanges, ZenonT(30)
    <3> QED
      BY <1>2, <3>4, <3>6
  <2> QED
    BY <1>7, <2>3, <2>4
<1> QED
  BY <1>6, <1>7

LEMMA InvAlways == Spec => []Inv
<1>1. Inv /\ [Next]_vars => Inv'
  BY TaskInv, LoopInv, HandleInv, CallingInv DEF Next
<1> QED
  BY <1>1, InitInv, PTL DEF Spec

----------------------------------------------------------------------------
\* Every stack has one owner.
LEMMA OneOwner == StackInv => StacksPartition
<1> SUFFICES ASSUME StackInv PROVE StacksPartition
  OBVIOUS
<1>1. ASSUME NEW s \in Stacks
      PROVE  Cardinality({j \in 1..Len(free) : free[j] = s})
               + Cardinality({t \in Tasks : stack[t] = s}) = 1
  <2> DEFINE Places == {j \in 1..Len(free) : free[j] = s}
             Owners == {t \in Tasks : stack[t] = s}
  <2>1. s # 0
    BY PersistentAssumption DEF Stacks, PersistentAssumption
  <2>2. \/ Places = {} /\ \E t \in Tasks : Owners = {t}
        \/ Owners = {} /\ \E i \in 1..Len(free) : Places = {i}
    <3>1. CASE \E t \in Tasks : stack[t] = s
      BY <2>1, <3>1 DEF StackInv, StacksOwned
    <3>2. CASE \E i \in 1..Len(free) : free[i] = s
      BY <3>2 DEF StackInv, StacksOwned
    <3> QED
      BY <3>1, <3>2 DEF StackInv, StacksOwned
  <2> HIDE DEF Places, Owners
  <2>3. Cardinality(Places) + Cardinality(Owners) = 1
    <3>1. Cardinality({}) = 0 /\ \A x : Cardinality({x}) = 1
      BY FS_EmptySet, FS_Singleton
    <3>2. CASE Places = {} /\ \E t \in Tasks : Owners = {t}
      <4>1. Cardinality(Places) = 0 /\ Cardinality(Owners) = 1
        BY Zenon, <3>1, <3>2
      <4> QED
        BY <4>1
    <3>3. CASE Owners = {} /\ \E i \in 1..Len(free) : Places = {i}
      <4>1. Cardinality(Owners) = 0 /\ Cardinality(Places) = 1
        BY Zenon, <3>1, <3>3
      <4> QED
        BY <4>1
    <3> QED
      BY <2>2, <3>2, <3>3
  <2> QED
    BY <2>3 DEF Places, Owners
<1> QED
  BY <1>1 DEF StacksPartition, StackInv, StacksOwned

\* A task that calls exit has no handle, no call and no sender.
LEMMA NoneLeft == CallInv => EndsLast
<1> SUFFICES ASSUME CallInv, NEW t \in Tasks, stage[t] \in {"exit", "ended"}
    PROVE  /\ holders[t] = {} /\ chan[t] = <<>>
           /\ \A k \in Calls : call[k].to = t =>
                call[k].state \notin {"sending", "queued", "running"}
  BY DEF EndsLast
<1>1. holders[t] = {} /\ chan[t] = <<>>
  BY DEF CallInv, HandlesLive, Reachable
<1>2. Len(chan[t]) = 0 /\ current[t] = NoCall
  BY <1>1 DEF CallInv, OneCurrent
<1>3. \A k \in Calls : call[k].to = t => call[k].state # "sending"
  BY <1>1 DEF CallInv, SendersHold
<1>4. \A k \in Calls : call[k].to = t => call[k].state # "queued"
  BY <1>2 DEF CallInv, ChannelsHold
<1>5. \A k \in Calls : call[k].to = t => call[k].state # "running"
  BY <1>2, PersistentAssumption DEF CallInv, OneCurrent, PersistentAssumption
<1> QED
  BY <1>1, <1>3, <1>4, <1>5

\* Whatever the number of tasks, users, calls and stacks: every stack of the
\* thread is free or has one owner and a panicked task keeps its own; a task
\* calls exit after its last handle is dropped and its last call is over
\* (mod.rs:713); and only a panic loses an accepted call or closes a channel
\* under one (envelope.rs, PersistentHandle in runtime/async_rt/mod.rs).
THEOREM TasksAreOK == Spec => []TasksOK
<1>1. Inv => TasksOK
  BY OneOwner, NoneLeft DEF Inv, CallInv, TasksOK
<1> QED
  BY <1>1, InvAlways, PTL

----------------------------------------------------------------------------
\* The refinement of CallService.  What a task owes is what it runs and what
\* its channel holds: the calls that are accepted and made to it.
IsAccepted(k) == call[k].state \in {"queued", "running"}

LEMMA OwedTyped ==
    ASSUME TypeOK, NEW t \in Tasks
    PROVE  /\ Owed(t) \in Seq(Calls)
           /\ current[t] = NoCall => Owed(t) = chan[t]
           /\ current[t] # NoCall => Owed(t) = <<current[t]>> \o chan[t] /\ current[t] \in Calls
  BY DEF TypeOK, Owed

LEMMA OwedAccepted == Inv =>
    \A t \in Tasks, k \in Calls : Service!Owes(Owed(t), k) <=> IsAccepted(k) /\ call[k].to = t
<1> SUFFICES ASSUME Inv, NEW t \in Tasks, NEW k \in Calls
    PROVE  Service!Owes(Owed(t), k) <=> IsAccepted(k) /\ call[k].to = t
  OBVIOUS
<1>1. chan[t] \in Seq(Calls)
  BY DEF Inv, TypeOK
<1>2. (\E i \in 1..Len(chan[t]) : chan[t][i] = k) <=> call[k].state = "queued" /\ call[k].to = t
  BY DEF Inv, CallInv, ChannelsHold
<1>3. current[t] = k <=> call[k].state = "running" /\ call[k].to = t
  BY PersistentAssumption DEF Inv, CallInv, OneCurrent, PersistentAssumption
<1>4. (\E i \in 1..Len(Owed(t)) : Owed(t)[i] = k) <=>
        current[t] = k \/ \E i \in 1..Len(chan[t]) : chan[t][i] = k
  <2>1. CASE current[t] = NoCall
    BY <2>1, OwedTyped, PersistentAssumption DEF Inv, PersistentAssumption
  <2>2. CASE current[t] # NoCall
    <3>1. PICK c \in Calls : c = current[t] /\ Owed(t) = <<c>> \o chan[t]
      BY <2>2, OwedTyped DEF Inv
    <3> PICK s \in Seq(Calls) : s = chan[t]
      BY <1>1
    <3>2. /\ Len(<<c>> \o s) = Len(s) + 1 /\ Len(s) \in Nat
          /\ (<<c>> \o s)[1] = c
          /\ \A i \in 1..Len(s) : i + 1 \in 1..Len(s) + 1 /\ (<<c>> \o s)[i + 1] = s[i]
          /\ \A i \in 1..Len(s) + 1 : i = 1 \/ (i - 1 \in 1..Len(s) /\ (<<c>> \o s)[i] = s[i - 1])
      OBVIOUS
    <3>3. 1 \in 1..Len(s) + 1
      BY <3>2
    <3> QED
      BY <3>1, <3>2, <3>3
  <2> QED
    BY <2>1, <2>2
<1> QED
  BY <1>2, <1>3, <1>4 DEF Service!Owes, IsAccepted

LEMMA OwedAcceptedNext == Inv' =>
    (\A t \in Tasks, k \in Calls : Service!Owes(Owed(t), k) <=> IsAccepted(k) /\ call[k].to = t)'
  BY OwedAccepted, PTL

\* What is left of a sequence: all of it, all but the first, or nothing.
LEMMA SuffixFacts ==
    ASSUME NEW s \in Seq(Calls)
    PROVE  /\ s \in Service!Suffixes(s) /\ <<>> \in Service!Suffixes(s)
           /\ \A c \in Calls : s \in Service!Suffixes(<<c>> \o s)
<1>1. Len(s) \in Nat /\ 1 \in 1..Len(s) + 1 /\ Len(s) + 1 \in 1..Len(s) + 1
  OBVIOUS
<1>2. SubSeq(s, 1, Len(s)) = s /\ SubSeq(s, Len(s) + 1, Len(s)) = <<>>
  OBVIOUS
<1>3. ASSUME NEW c \in Calls
      PROVE  s \in Service!Suffixes(<<c>> \o s)
  <2>1. Len(<<c>> \o s) = Len(s) + 1 /\ 2 \in 1..(Len(s) + 1) + 1
    BY <1>1
  <2>2. SubSeq(<<c>> \o s, 2, Len(s) + 1) = s
    OBVIOUS
  <2> QED
    BY <2>1, <2>2 DEF Service!Suffixes
<1> QED
  BY <1>1, <1>2, <1>3 DEF Service!Suffixes

\* A step that touches neither the calls nor the channels.
LEMMA NothingOwed ==
    ASSUME UNCHANGED <<chan, current, call>>
    PROVE  UNCHANGED <<Debts, Outcomes>>
  BY DEF Debts, Owed, Outcomes, Outcome

LEMMA ModesKept ==
    ASSUME \A t \in Tasks : stage'[t] = stage[t]
                            \/ {stage[t], stage'[t]} \subseteq {"idle", "queued", "init"}
                            \/ {stage[t], stage'[t]} \subseteq {"recv", "run"}
                            \/ {stage[t], stage'[t]} \subseteq {"exit", "ended"}
    PROVE  Modes' = Modes
<1>1. \A t \in Tasks : Mode(t)' = Mode(t)
  BY DEF Mode
<1> QED
  BY <1>1 DEF Modes

LEMMA ModeChanges ==
    ASSUME NEW t \in Tasks, NEW m, Mode(t)' = m,
           \A u \in Tasks : u # t => stage'[u] = stage[u]
    PROVE  Modes' = [Modes EXCEPT ![t] = m]
<1>1. \A u \in Tasks : u # t => Mode(u)' = Mode(u)
  BY DEF Mode
<1> QED
  BY <1>1 DEF Modes

LEMMA OutcomeChanges ==
    ASSUME NEW k \in Calls, NEW m, Outcome(k)' = m,
           \A j \in Calls : j # k => call'[j].state = call[j].state
    PROVE  Outcomes' = [Outcomes EXCEPT ![k] = m]
<1>1. \A j \in Calls : j # k => Outcome(j)' = Outcome(j)
  BY DEF Outcome
<1> QED
  BY <1>1 DEF Outcomes

\* Dropping handles and tasks loses what the dead tasks owe.
LEMMA SettleLoses ==
    ASSUME Inv, Inv', NEW hs, NEW dead \in SUBSET Tasks, Settle(hs, dead),
           NEW gone \in SUBSET Tasks,
           \A t \in Tasks : t \in gone <=> t \in dead \/ stage[t] = "panicked",
           \A t \in Tasks : current'[t] = IF t \in dead THEN NoCall ELSE current[t]
    PROVE  Service!Lose(gone)
<1>1. \A t \in Tasks : chan'[t] = IF t \in Gone(hs, dead) THEN <<>> ELSE chan[t]
  BY SettleFacts DEF Inv
<1>2. \A t \in Gone(hs, dead) : t \in Tasks /\ t \in gone
  BY DEF Gone
<1>3. ASSUME NEW t \in Tasks
      PROVE  IF t \in gone THEN Owed(t)' \in Service!Suffixes(Owed(t)) ELSE Owed(t)' = Owed(t)
  <2>1. /\ chan[t] \in Seq(Calls) /\ Owed(t) \in Seq(Calls)
        /\ current[t] = NoCall => Owed(t) = chan[t]
        /\ current[t] # NoCall => Owed(t) = <<current[t]>> \o chan[t] /\ current[t] \in Calls
    BY OwedTyped DEF Inv, TypeOK
  <2>2. t \in gone => current'[t] = NoCall
    BY DEF Inv, CallInv, OneCurrent
  <2>3. current'[t] = NoCall => Owed(t)' = chan'[t]
    <3>1. chan'[t] \in Seq(Calls)
      BY DEF Inv, TypeOK
    <3> QED
      BY <3>1 DEF Owed
  <2>4. CASE t \notin gone
    BY <1>1, <1>2, <2>4 DEF Owed
  <2>5. CASE t \in gone /\ t \in Gone(hs, dead)
    BY <1>1, <2>1, <2>2, <2>3, <2>5, SuffixFacts
  <2>6. CASE t \in gone /\ t \notin Gone(hs, dead)
    <3>1. Owed(t)' = chan[t]
      BY <1>1, <2>2, <2>3, <2>6
    <3> QED
      BY <2>1, <2>6, <3>1, SuffixFacts
  <2> QED
    BY <2>4, <2>5, <2>6
<1> DEFINE left == [t \in Tasks |-> Owed(t)']
           away == {k \in Calls : call[k].state = "sending" /\ call'[k].state # "sending"}
<1>4. Debts' = left
  BY DEF Debts
<1>5. /\ left \in [Tasks -> UNION {Service!Suffixes(Debts[t]) : t \in Tasks}]
      /\ \A t \in Tasks : IF t \in gone THEN left[t] \in Service!Suffixes(Debts[t])
                                        ELSE left[t] = Debts[t]
  <2>1. \A t \in Tasks : Debts[t] = Owed(t) /\ left[t] = Owed(t)'
    BY DEF Debts
  <2>2. \A t \in Tasks : Owed(t)' \in Service!Suffixes(Owed(t))
    <3>1. \A t \in Tasks : Owed(t) \in Seq(Calls)
      BY OwedTyped DEF Inv
    <3> QED
      BY <1>3, <3>1, SuffixFacts
  <2> QED
    BY <1>3, <2>1, <2>2
<1>6. away \in SUBSET {k \in Calls : Outcomes[k] = "none"}
  BY DEF Outcomes, Outcome
<1>7. ASSUME NEW k \in Calls
      PROVE  Outcome(k)' = IF \E t \in gone : Service!Owes(Debts[t], k) /\ ~Service!Owes(left[t], k)
                           THEN "lost" ELSE IF k \in away THEN "refused" ELSE Outcomes[k]
  <2>1. (\E t \in gone : Service!Owes(Debts[t], k) /\ ~Service!Owes(left[t], k))
          <=> call[k].to \in gone /\ IsAccepted(k) /\ ~IsAccepted(k)'
    <3>1. \A t \in Tasks : Service!Owes(Owed(t), k) <=> IsAccepted(k) /\ call[k].to = t
      BY OwedAccepted
    <3>2. (\A t \in Tasks, j \in Calls :
             Service!Owes(Owed(t), j) <=> IsAccepted(j) /\ call[j].to = t)'
      BY OwedAcceptedNext
    <3>3. \A t \in Tasks : Service!Owes(left[t], k) <=> IsAccepted(k)' /\ call'[k].to = t
      BY <3>2
    <3>4. call'[k].to = call[k].to
      BY SettleFacts DEF Inv
    <3>5. \A t \in Tasks : Debts[t] = Owed(t)
      BY DEF Debts
    <3> HIDE DEF left
    <3> QED
      BY <3>1, <3>3, <3>4, <3>5
  <2>2. call'[k].state =
          IF \/ call[k].state = "running" /\ call[k].to \in dead
             \/ call[k].state = "queued" /\ call[k].to \in Gone(hs, dead)
          THEN "discarded"
          ELSE IF call[k].state = "sending" /\ call[k].to \in dead THEN "closed"
          ELSE IF call[k].state = "sending" /\ call[k].by \in dead THEN "cancelled"
          ELSE call[k].state
    BY SettleFacts DEF Inv
  <2>3. dead \subseteq gone
    OBVIOUS
  <2>4. CASE IsAccepted(k)
    <3>1. IsAccepted(k)' \/ (call'[k].state = "discarded" /\ call[k].to \in gone)
      BY <1>2, <2>2, <2>3, <2>4 DEF IsAccepted
    <3>2. k \notin away
      BY <2>4 DEF IsAccepted
    <3>3. Outcomes[k] = "accepted"
      BY <2>4 DEF Outcomes, Outcome, IsAccepted
    <3> HIDE DEF away
    <3>4. CASE IsAccepted(k)'
      BY <2>1, <3>2, <3>3, <3>4 DEF Outcome, IsAccepted
    <3>5. CASE ~IsAccepted(k)'
      BY <2>1, <2>4, <3>1, <3>5 DEF Outcome, IsAccepted
    <3> QED
      BY <3>4, <3>5
  <2>5. CASE call[k].state = "sending"
    <3>1. ~IsAccepted(k)
      BY <2>5 DEF IsAccepted
    <3>2. call'[k].state \in {"sending", "closed", "cancelled"}
      BY <2>2, <2>5
    <3>3. k \in away <=> call'[k].state # "sending"
      BY <2>5
    <3>4. Outcomes[k] = "none"
      BY <2>5 DEF Outcomes, Outcome
    <3> HIDE DEF away
    <3> QED
      BY <2>1, <3>1, <3>2, <3>3, <3>4 DEF Outcome
  <2>6. CASE ~IsAccepted(k) /\ call[k].state # "sending"
    <3>1. call'[k].state = call[k].state
      BY <2>2, <2>6 DEF IsAccepted
    <3>2. k \notin away
      BY <2>6
    <3>3. Outcomes[k] = Outcome(k)'
      BY <3>1 DEF Outcomes, Outcome
    <3> HIDE DEF away
    <3> QED
      BY <2>1, <2>6, <3>2, <3>3
  <2> QED
    BY <2>4, <2>5, <2>6
<1>8. Outcomes' = [k \in Calls |->
         IF \E t \in gone : Service!Owes(Debts[t], k) /\ ~Service!Owes(left[t], k) THEN "lost"
         ELSE IF k \in away THEN "refused" ELSE Outcomes[k]]
  <2> HIDE DEF left, away
  <2>1. Outcomes' = [k \in Calls |-> Outcome(k)']
    BY DEF Outcomes
  <2> QED
    BY <1>7, <2>1
<1> HIDE DEF left, away
<1> QED
  BY <1>4, <1>5, <1>6, <1>8 DEF Service!Lose

\* The dead tasks of the service are those that panicked.
LEMMA DeadPanicked ==
    ASSUME TypeOK
    PROVE  /\ Service!DeadTasks \in SUBSET Tasks
           /\ \A t \in Tasks : t \in Service!DeadTasks <=> stage[t] = "panicked"
  BY DEF Service!DeadTasks, Modes, Mode, TypeOK

\* The steps of a task implement those of the service.
LEMMA TaskServes ==
    ASSUME Inv, Inv', NEW t \in Tasks, TaskStep(t) \/ Panics(t)
    PROVE  Service!Next \/ UNCHANGED Service!serviceVars
<1>1. CASE InitOk(t)
  <2>1. /\ stage[t] = "init" /\ stage' = [stage EXCEPT ![t] = "recv"]
        /\ UNCHANGED <<chan, current, call>>
    BY <1>1 DEF InitOk
  <2>2. stage'[t] = "recv" /\ \A u \in Tasks : u # t => stage'[u] = stage[u]
    BY <2>1 DEF Inv, TypeOK
  <2>3. Modes[t] = "new" /\ Mode(t)' = "open"
    BY <2>1, <2>2 DEF Modes, Mode
  <2>4. Modes' = [Modes EXCEPT ![t] = "open"] /\ UNCHANGED <<Debts, Outcomes>>
    BY <2>1, <2>2, <2>3, ModeChanges, NothingOwed
  <2> QED
    BY <2>3, <2>4 DEF Service!Next, Service!Open
<1>2. CASE InitErr(t) \/ ExitReturns(t)
  <2>1. /\ stage[t] \in {"init", "exit"} /\ stage' = [stage EXCEPT ![t] = "ended"]
        /\ Settle([c \in Tasks |-> holders[c] \ {t}], {}) /\ current' = current
    BY <1>2 DEF InitErr, ExitReturns, DropOwned, FreeStack
  <2>2. stage'[t] = "ended" /\ \A u \in Tasks : u # t => stage'[u] = stage[u]
    BY <2>1 DEF Inv, TypeOK
  <2>3. Service!Lose(Service!DeadTasks)
    BY <2>1, SettleLoses, DeadPanicked DEF Inv
  <2>4. CASE stage[t] = "init"
    <3>1. Modes[t] = "new" /\ Mode(t)' = "over"
      BY <2>2, <2>4 DEF Modes, Mode
    <3>2. Modes' = [Modes EXCEPT ![t] = "over"]
      BY <2>2, <3>1, ModeChanges
    <3> QED
      BY <2>3, <3>1, <3>2 DEF Service!Next, Service!Abandon
  <2>5. CASE stage[t] = "exit"
    <3>1. Modes' = Modes
      BY <2>2, <2>5, ModesKept
    <3> QED
      BY <2>3, <3>1 DEF Service!Next, Service!LoseLate
  <2> QED
    BY <2>1, <2>4, <2>5
<1>3. CASE Receive(t)
  <2>1. /\ stage[t] = "recv" /\ stage' = [stage EXCEPT ![t] = "run"]
        /\ chan[t] # <<>> /\ chan' = [chan EXCEPT ![t] = Tail(chan[t])]
        /\ current' = [current EXCEPT ![t] = Head(chan[t])]
        /\ call' = [call EXCEPT ![Head(chan[t])].state = "running"]
    BY <1>3 DEF Receive
  <2>2. chan[t] \in Seq(Calls) /\ Head(chan[t]) \in Calls /\ call[Head(chan[t])].state = "queued"
    <3>1. chan[t] \in Seq(Calls)
      BY DEF Inv, TypeOK
    <3>2. Head(chan[t]) = chan[t][1] /\ Head(chan[t]) \in Calls /\ 1 \in 1..Len(chan[t])
      BY <2>1, <3>1, TailFacts
    <3> QED
      BY <3>1, <3>2 DEF Inv, CallInv, ChannelsHold
  <2>3. Modes' = Modes
    BY <2>1, ModesKept DEF Inv, TypeOK
  <2>4. Outcomes' = Outcomes
    <3>1. \A k \in Calls : \/ call'[k].state = call[k].state
                           \/ call[k].state = "queued" /\ call'[k].state = "running"
      BY <2>1, <2>2 DEF Inv, TypeOK
    <3>2. \A k \in Calls : Outcome(k)' = Outcome(k)
      BY <3>1 DEF Outcome
    <3> QED
      BY <3>2 DEF Outcomes
  <2>5. Debts' = Debts
    <3>1. current[t] = NoCall /\ current'[t] = Head(chan[t]) /\ chan'[t] = Tail(chan[t])
      BY <2>1 DEF Inv, TypeOK, CallInv, OneCurrent
    <3>2. Head(chan[t]) # NoCall
      BY <2>2, PersistentAssumption DEF PersistentAssumption
    <3>3. <<Head(chan[t])>> \o Tail(chan[t]) = chan[t] /\ <<>> \o chan[t] = chan[t]
      BY <2>1, <2>2
    <3>4. Owed(t)' = Owed(t)
      BY <3>1, <3>2, <3>3 DEF Owed
    <3>5. \A u \in Tasks : u # t => Owed(u)' = Owed(u)
      BY <2>1 DEF Owed, Inv, TypeOK
    <3> QED
      BY <3>4, <3>5 DEF Debts
  <2> QED
    BY <2>3, <2>4, <2>5 DEF Service!serviceVars
<1>4. CASE ReceiveClosed(t)
  <2>1. /\ stage[t] = "recv" /\ stage' = [stage EXCEPT ![t] = "exit"] /\ chan[t] = <<>>
        /\ UNCHANGED <<chan, current, call>>
    BY <1>4 DEF ReceiveClosed
  <2>2. stage'[t] = "exit" /\ \A u \in Tasks : u # t => stage'[u] = stage[u]
    BY <2>1 DEF Inv, TypeOK
  <2>3. Modes[t] = "open" /\ Mode(t)' = "over"
    BY <2>1, <2>2 DEF Modes, Mode
  <2>4. Modes' = [Modes EXCEPT ![t] = "over"] /\ UNCHANGED <<Debts, Outcomes>>
    BY <2>1, <2>2, <2>3, ModeChanges, NothingOwed
  <2>5. Debts[t] = <<>>
    <3>1. current[t] = NoCall
      BY <2>1 DEF Inv, CallInv, OneCurrent
    <3> QED
      BY <2>1, <3>1, OwedTyped DEF Inv, Debts
  <2> QED
    BY <2>3, <2>4, <2>5 DEF Service!Next, Service!End
<1>5. CASE Answer(t)
  <2>1. PICK k : k = current[t]
    OBVIOUS
  <2>2. /\ stage[t] = "run" /\ stage' = [stage EXCEPT ![t] = "recv"]
        /\ current' = [current EXCEPT ![t] = NoCall] /\ chan' = chan
        /\ call' = [call EXCEPT ![k].state = "answered"]
    BY <1>5, <2>1 DEF Answer
  <2>3. k \in Calls /\ k # NoCall
    BY <2>1, <2>2, PersistentAssumption DEF Inv, CallInv, OneCurrent, PersistentAssumption
  <2>4. Modes' = Modes /\ Modes[t] = "open"
    BY <2>2, ModesKept DEF Inv, TypeOK, Modes, Mode
  <2>5. Outcomes' = [Outcomes EXCEPT ![k] = "answered"]
    <3>1. call'[k].state = "answered" /\ \A j \in Calls : j # k => call'[j] = call[j]
      BY <2>2, <2>3 DEF Inv, TypeOK
    <3>2. Outcome(k)' = "answered"
      BY <3>1 DEF Outcome
    <3> QED
      BY <2>3, <3>1, <3>2, OutcomeChanges
  <2>6. Debts[t] = <<k>> \o chan[t] /\ Debts' = [Debts EXCEPT ![t] = chan[t]]
    <3>1. Owed(t) = <<k>> \o chan[t] /\ chan[t] \in Seq(Calls)
      BY <2>1, <2>3, OwedTyped DEF Inv, TypeOK
    <3>2. Owed(t)' = chan[t]
      <4>1. current'[t] = NoCall /\ chan'[t] = chan[t]
        BY <2>2 DEF Inv, TypeOK
      <4> QED
        BY <3>1, <4>1 DEF Owed
    <3>3. \A u \in Tasks : u # t => Owed(u)' = Owed(u)
      BY <2>2 DEF Owed, Inv, TypeOK
    <3> QED
      BY <3>1, <3>2, <3>3 DEF Debts
  <2>7. Debts[t] # <<>> /\ Head(Debts[t]) = k /\ Tail(Debts[t]) = chan[t]
    <3> PICK s \in Seq(Calls) : s = chan[t]
      BY DEF Inv, TypeOK
    <3>1. <<k>> \o s # <<>> /\ Head(<<k>> \o s) = k /\ Tail(<<k>> \o s) = s
      BY <2>3
    <3> QED
      BY <2>6, <3>1
  <2> QED
    BY <2>4, <2>5, <2>6, <2>7 DEF Service!Next, Service!Answer
<1>6. CASE Panics(t)
  <2>1. /\ InUserCode(t) /\ stage' = [stage EXCEPT ![t] = "panicked"]
        /\ current' = [current EXCEPT ![t] = NoCall]
        /\ Settle([c \in Tasks |-> holders[c] \ {t}], {t})
    BY <1>6 DEF Panics, DropOwned
  <2>2. stage'[t] = "panicked" /\ \A u \in Tasks : u # t => stage'[u] = stage[u]
    BY <2>1 DEF Inv, TypeOK
  <2>3. Service!Lose(Service!DeadTasks \cup {t})
    <3>1. \A u \in Tasks : current'[u] = IF u \in {t} THEN NoCall ELSE current[u]
      BY <2>1 DEF Inv, TypeOK
    <3>2. /\ Service!DeadTasks \cup {t} \in SUBSET Tasks
          /\ \A u \in Tasks :
                u \in Service!DeadTasks \cup {t} <=> u \in {t} \/ stage[u] = "panicked"
      BY DeadPanicked DEF Inv
    <3> QED
      BY <2>1, <3>1, <3>2, SettleLoses
  <2>4. Modes[t] # "dead" /\ Mode(t)' = "dead"
    BY <2>1, <2>2 DEF Modes, Mode, InUserCode
  <2>5. Modes' = [Modes EXCEPT ![t] = "dead"]
    BY <2>2, <2>4, ModeChanges
  <2> QED
    BY <2>3, <2>4, <2>5 DEF Service!Next, Service!Die
<1> QED
  BY <1>1, <1>2, <1>3, <1>4, <1>5, <1>6 DEF TaskStep

\* A task dies that owes nothing, and nothing is lost.
LEMMA NothingLost ==
    ASSUME Inv, UNCHANGED <<Debts, Outcomes>>, NEW gone \in SUBSET Tasks
    PROVE  Service!Lose(gone)
<1>1. \A t \in Tasks : Debts[t] \in Seq(Calls)
  BY OwedTyped DEF Inv, Debts
<1>2. \A t \in Tasks : Debts[t] \in Service!Suffixes(Debts[t])
  BY <1>1, SuffixFacts
<1>3. Debts \in [Tasks -> UNION {Service!Suffixes(Debts[t]) : t \in Tasks}]
  BY <1>2 DEF Debts
<1>4. /\ {} \in SUBSET {k \in Calls : Outcomes[k] = "none"}
      /\ \A t \in Tasks : IF t \in gone THEN Debts[t] \in Service!Suffixes(Debts[t])
                          ELSE Debts[t] = Debts[t]
  BY <1>2
<1>5. Outcomes' = [k \in Calls |->
         IF \E t \in gone : Service!Owes(Debts[t], k) /\ ~Service!Owes(Debts[t], k) THEN "lost"
         ELSE IF k \in {} THEN "refused" ELSE Outcomes[k]]
  BY DEF Outcomes
<1> QED
  BY <1>3, <1>4, <1>5 DEF Service!Lose

\* So do the steps of the loop, of the users and of the calls.
LEMMA LoopServes ==
    ASSUME Inv, Inv',
           \/ Begin \/ Closed \/ Drained
           \/ \E t \in Tasks : DropReply(t)
           \/ \E u \in Users : DropRuntime(u)
           \/ \E h \in Holders, t \in Tasks : Dispatch(h, t)
           \/ \E h \in Holders, t \in Tasks, u \in Users : CloneHandle(h, u, t)
           \/ UNCHANGED vars
    PROVE  Service!Next \/ UNCHANGED Service!serviceVars
<1>1. CASE Begin
  <2> PICK t \in Tasks, s \in {"init", "panicked"} :
          stage[t] = "queued" /\ stage' = [stage EXCEPT ![t] = s]
    BY <1>1, BeginFacts DEF Inv
  <2>1. UNCHANGED <<chan, current, call>>
    BY <1>1 DEF Begin
  <2>2. UNCHANGED <<Debts, Outcomes>>
    BY <2>1, NothingOwed
  <2>3. stage'[t] = s /\ \A u \in Tasks : u # t => stage'[u] = stage[u]
    BY DEF Inv, TypeOK
  <2>4. CASE s = "init"
    <3>1. Modes' = Modes
      BY <2>3, <2>4, ModesKept
    <3> QED
      BY <2>2, <3>1 DEF Service!serviceVars
  <2>5. CASE s = "panicked"
    <3>1. Modes[t] # "dead" /\ Mode(t)' = "dead"
      BY <2>3, <2>5 DEF Modes, Mode
    <3>2. Modes' = [Modes EXCEPT ![t] = "dead"]
      BY <2>3, <3>1, ModeChanges
    <3>3. Service!Lose(Service!DeadTasks \cup {t})
      <4>1. Service!DeadTasks \cup {t} \in SUBSET Tasks
        BY DeadPanicked DEF Inv
      <4> QED
        BY <2>2, <4>1, NothingLost
    <3> QED
      BY <3>1, <3>2, <3>3 DEF Service!Next, Service!Die
  <2> QED
    BY <2>4, <2>5
<1>2. CASE \E h \in Holders, t \in Tasks : Dispatch(h, t)
  <2> PICK h \in Holders, t \in Tasks : Dispatch(h, t)
    BY <1>2
  <2>1. stage[t] = "idle" /\ stage' = [stage EXCEPT ![t] = "queued"]
        /\ UNCHANGED <<chan, current, call>>
    BY DEF Dispatch
  <2>2. Modes' = Modes
    BY <2>1, ModesKept DEF Inv, TypeOK
  <2> QED
    BY <2>1, <2>2, NothingOwed DEF Service!serviceVars
<1>3. ASSUME \/ Closed \/ Drained \/ UNCHANGED vars
             \/ \E t \in Tasks : DropReply(t)
             \/ \E u \in Users : DropRuntime(u)
             \/ \E h \in Holders, t \in Tasks, u \in Users : CloneHandle(h, u, t)
      PROVE  UNCHANGED Service!serviceVars
  <2>1. UNCHANGED <<stage, chan, current, call>>
    BY <1>3 DEF Closed, Drained, DropReply, DropRuntime, CloneHandle, vars
  <2> QED
    BY <2>1, ModesKept, NothingOwed DEF Service!serviceVars
<1> QED
  BY <1>1, <1>2, <1>3

LEMMA CallingServes ==
    ASSUME Inv, Inv', NEW k \in Calls,
           \/ \E h \in Holders, t \in Tasks : Call(h, t, k) \/ TryCall(h, t, k)
           \/ Admit(k) \/ Refused(k) \/ Cancel(k)
    PROVE  Service!Next \/ UNCHANGED Service!serviceVars
<1>1. UNCHANGED <<stage, current, holders>>
  BY DEF Call, TryCall, Admit, Refused, Cancel
<1>2. Modes' = Modes
  BY <1>1, ModesKept
<1>3. call[k].state \in {"idle", "sending"} /\ Outcomes[k] = "none"
  BY DEF Call, TryCall, Made, Admit, Refused, Cancel, Outcomes, Outcome
<1>4. ASSUME call'[k].state \in {"closed", "full", "cancelled"}, chan' = chan,
             \A j \in Calls : j # k => call'[j] = call[j]
      PROVE  Service!Next
  <2>1. Outcome(k)' = "refused"
    BY <1>4 DEF Outcome
  <2>2. Outcomes' = [Outcomes EXCEPT ![k] = "refused"]
    BY <1>4, <2>1, OutcomeChanges
  <2>3. Debts' = Debts
    BY <1>1, <1>4 DEF Debts, Owed
  <2> QED
    BY <1>2, <1>3, <2>2, <2>3 DEF Service!Next, Service!Refuse
<1>5. ASSUME call'[k].state = "queued", \A j \in Calls : j # k => call'[j] = call[j],
             NEW t \in Tasks, stage[t] \in {"recv", "run"},
             chan' = [chan EXCEPT ![t] = Append(@, k)]
      PROVE  Service!Next
  <2>1. Outcome(k)' = "accepted"
    BY <1>5 DEF Outcome
  <2>2. Outcomes' = [Outcomes EXCEPT ![k] = "accepted"]
    BY <1>5, <2>1, OutcomeChanges
  <2>3. Modes[t] = "open"
    BY <1>5 DEF Modes, Mode
  <2>4. Debts' = [Debts EXCEPT ![t] = Append(Debts[t], k)]
    <3>1. chan'[t] = Append(chan[t], k) /\ \A u \in Tasks : u # t => chan'[u] = chan[u]
      BY <1>5 DEF Inv, TypeOK
    <3>2. Owed(t)' = Append(Owed(t), k)
      <4> PICK s \in Seq(Calls) : s = chan[t]
        BY DEF Inv, TypeOK
      <4>1. CASE current[t] = NoCall
        <5>1. <<>> \o s = s /\ <<>> \o Append(s, k) = Append(s, k)
          OBVIOUS
        <5> QED
          BY <1>1, <3>1, <4>1, <5>1 DEF Owed
      <4>2. CASE current[t] # NoCall
        <5>1. current[t] \in Calls
          BY <4>2 DEF Inv, TypeOK
        <5>2. \A c \in Calls : <<c>> \o Append(s, k) = Append(<<c>> \o s, k)
          OBVIOUS
        <5> QED
          BY <1>1, <3>1, <4>2, <5>1, <5>2 DEF Owed
      <4> QED
        BY <4>1, <4>2
    <3>3. \A u \in Tasks : u # t => Owed(u)' = Owed(u)
      BY <1>1, <3>1 DEF Owed
    <3> QED
      BY <3>2, <3>3 DEF Debts
  <2> QED
    BY <1>2, <1>3, <2>2, <2>3, <2>4 DEF Service!Next, Service!Accept
<1>6. \A t \in Tasks : holders[t] # {} /\ Receives(t) => stage[t] \in {"recv", "run"}
  BY DEF Inv, CallInv, HandlesLive, Reachable, Receives
<1>7. ASSUME NEW h \in Holders, NEW t \in Tasks, Call(h, t, k)
      PROVE  UNCHANGED Service!serviceVars
  <2>1. /\ call' = [call EXCEPT ![k] = [state |-> "sending", by |-> h, to |-> t]]
        /\ chan' = chan /\ call[k].state = "idle"
    BY <1>7 DEF Call, Made
  <2>2. /\ call'[k].state = "sending" /\ \A j \in Calls : j # k => call'[j].state = call[j].state
    BY <2>1 DEF Inv, TypeOK
  <2>3. \A j \in Calls : Outcome(j)' = Outcome(j)
    BY <2>1, <2>2 DEF Outcome
  <2>4. Outcomes' = Outcomes /\ Debts' = Debts
    BY <1>1, <2>1, <2>3 DEF Outcomes, Debts, Owed
  <2> QED
    BY <1>2, <2>4 DEF Service!serviceVars
<1>8. ASSUME NEW h \in Holders, NEW t \in Tasks, TryCall(h, t, k)
      PROVE  Service!Next
  <2>1. /\ h \in holders[t]
        /\ \E s \in {"closed", "queued", "full"} :
              /\ call' = [call EXCEPT ![k] = [state |-> s, by |-> h, to |-> t]]
              /\ s = "queued" => Receives(t) /\ chan' = [chan EXCEPT ![t] = Append(@, k)]
              /\ s # "queued" => chan' = chan
    BY <1>8 DEF TryCall, Made, CanUse
  <2>2. PICK s \in {"closed", "queued", "full"} :
           /\ call' = [call EXCEPT ![k] = [state |-> s, by |-> h, to |-> t]]
           /\ s = "queued" => Receives(t) /\ chan' = [chan EXCEPT ![t] = Append(@, k)]
           /\ s # "queued" => chan' = chan
    BY <2>1
  <2>3. call'[k].state = s /\ \A j \in Calls : j # k => call'[j] = call[j]
    BY <2>2 DEF Inv, TypeOK
  <2>4. CASE s = "queued"
    <3>1. stage[t] \in {"recv", "run"}
      BY <1>6, <2>1, <2>2, <2>4
    <3> QED
      BY <1>5, <2>2, <2>3, <2>4, <3>1
  <2>5. CASE s # "queued"
    BY <1>4, <2>2, <2>3, <2>5
  <2> QED
    BY <2>4, <2>5
<1>9. CASE Admit(k)
  <2>1. /\ call[k].state = "sending" /\ call[k].to \in Tasks
        /\ call[k].by \in holders[call[k].to]
    BY <1>9 DEF Admit, Inv, CallInv, SendersHold
  <2> PICK t \in Tasks : t = call[k].to
    BY <2>1
  <2>2. /\ Receives(t) /\ chan' = [chan EXCEPT ![t] = Append(@, k)]
        /\ call' = [call EXCEPT ![k].state = "queued"]
    BY <1>9 DEF Admit
  <2>3. stage[t] \in {"recv", "run"}
    BY <1>6, <2>1, <2>2
  <2>4. call'[k].state = "queued" /\ \A j \in Calls : j # k => call'[j] = call[j]
    BY <2>2 DEF Inv, TypeOK
  <2> QED
    BY <1>5, <2>2, <2>3, <2>4
<1>10. ASSUME Refused(k) \/ Cancel(k)
       PROVE  Service!Next
  <2>1. PICK s \in {"closed", "cancelled"} : call' = [call EXCEPT ![k].state = s]
    BY <1>10 DEF Refused, Cancel
  <2>2. call'[k].state = s /\ \A j \in Calls : j # k => call'[j] = call[j]
    BY <2>1 DEF Inv, TypeOK
  <2>3. chan' = chan
    BY <1>10 DEF Refused, Cancel
  <2> QED
    BY <1>4, <2>2, <2>3
<1> QED
  BY <1>7, <1>8, <1>9, <1>10

\* Whatever the number of tasks, users, calls and stacks, a persistent task
\* keeps the promises of CallService: it answers the calls it accepted one at
\* a time and in order, ends when it owes none, and loses some only when it
\* panics (PersistentHandle::call, runtime/async_rt/mod.rs; envelope.rs).
THEOREM TasksServeCalls == Spec => ServiceSpec
<1>1. Init => Service!Init
  <2> SUFFICES ASSUME Init PROVE Service!Init
    OBVIOUS
  <2>1. \A t \in Tasks : Mode(t) = "new" /\ Owed(t) = <<>>
    BY DEF Init, Mode, Owed
  <2>2. \A k \in Calls : Outcome(k) = "none"
    BY DEF Init, Outcome
  <2> QED
    BY <2>1, <2>2 DEF Service!Init, Modes, Debts, Outcomes
<1>2. Inv /\ Inv' /\ [Next]_vars => [Service!Next]_Service!serviceVars
  <2> SUFFICES ASSUME Inv, Inv', [Next]_vars
      PROVE  Service!Next \/ UNCHANGED Service!serviceVars
    OBVIOUS
  <2>1. ASSUME NEW h \in Holders, NEW t \in Tasks, DropHandle(h, t)
        PROVE  Service!Next
    <3>1. Settle([holders EXCEPT ![t] = @ \ {h}], {}) /\ UNCHANGED <<stage, current>>
      BY <2>1 DEF DropHandle
    <3>2. Service!Lose(Service!DeadTasks)
      BY <3>1, SettleLoses, DeadPanicked DEF Inv
    <3>3. Modes' = Modes
      BY <3>1, ModesKept
    <3> QED
      BY <3>2, <3>3 DEF Service!Next, Service!LoseLate
  <2>2. CASE \E t \in Tasks : TaskStep(t) \/ Panics(t)
    BY <2>2, TaskServes
  <2>3. CASE \/ Begin \/ Closed \/ Drained
             \/ \E t \in Tasks : DropReply(t)
             \/ \E u \in Users : DropRuntime(u)
             \/ \E h \in Holders, t \in Tasks : Dispatch(h, t)
             \/ \E h \in Holders, t \in Tasks, u \in Users : CloneHandle(h, u, t)
             \/ UNCHANGED vars
    BY <2>3, LoopServes
  <2>4. ASSUME NEW k \in Calls,
               \/ \E h \in Holders, t \in Tasks : Call(h, t, k) \/ TryCall(h, t, k)
               \/ Admit(k) \/ Refused(k) \/ Cancel(k)
        PROVE  Service!Next \/ UNCHANGED Service!serviceVars
    BY <2>4, CallingServes
  <2> QED
    BY <2>1, <2>2, <2>3, <2>4 DEF Next
<1> QED
  BY <1>1, <1>2, InvAlways, PTL DEF Spec, ServiceSpec, Service!Spec
=============================================================================
