--------------------------- MODULE PersistentTasks ---------------------------
(***************************************************************************)
(* Persistent tasks on one runtime thread: the envelope that runs such a   *)
(* task (async_util/envelope.rs), the handles its users call it through    *)
(* (PersistentHandle, runtime/async_rt/mod.rs), the channel between them   *)
(* (tokio_rt.rs, async_std_rt.rs), and the stacks the thread's loop gives  *)
(* out and gets back.  A task may own a handle to the runtime and start    *)
(* another task on the same thread, and wait for it.                       *)
(***************************************************************************)
EXTENDS Naturals, Sequences, FiniteSets

CONSTANTS
    Users,      \* threads outside the runtime
    Tasks,      \* the persistent tasks, each of them dispatched at most once
    Nested,     \* the tasks that own a clone of the handle to the runtime
    Calls,      \* the calls, each of them made at most once
    N,          \* the number of async stacks of the thread: start::<N>
    Channel,    \* [Tasks -> the implementation of Channel the task is started with]
    Capacity,   \* [Tasks -> PersistentTask::CHANNEL_CAPACITY]
    MayPanic,   \* the tasks whose methods may panic
    NoCall, Nobody

ASSUME PersistentAssumption ==
    /\ Nested \subseteq Tasks
    /\ N \in Nat
    /\ Channel \in [Tasks -> {"bounded", "unbounded", "asyncstd"}]
    /\ Capacity \in [Tasks -> Nat]
    /\ MayPanic \subseteq Tasks
    /\ NoCall \notin Calls
    /\ Nobody \notin Users \cup Tasks
    /\ Users \cap Tasks = {}

VARIABLES
    rt,          \* the loop of the thread: "up", "draining", "down"
    senders,     \* the users that own a handle to the runtime
    inbox,       \* the tasks dispatched to the thread and not received
    free,        \* the deque free_stacks
    stage,       \* [Tasks -> where the envelope of the task is]
    stack,       \* [Tasks -> the stack the task was given, 0 if none]
    asker,       \* [Tasks -> who waits for the handle]
    holders,     \* [Tasks -> who owns a handle]
    chan,        \* [Tasks -> the calls in the channel]
    current,     \* [Tasks -> the call that is running]
    call         \* [Calls -> [state, by, to]]

vars == <<rt, senders, inbox, free, stage, stack, asker, holders, chan, current, call>>

Stacks == 1..N
Holders == Users \cup Tasks

\* "sending": waits for room; the last five are final.
CallStates == {"idle", "sending", "queued", "running",
               "answered", "discarded", "closed", "full", "cancelled"}

Init ==
    /\ rt = "up"
    /\ senders = Users
    /\ inbox = <<>>
    /\ free = [i \in Stacks |-> i]
    /\ stage = [t \in Tasks |-> "idle"]
    /\ stack = [t \in Tasks |-> 0]
    /\ asker = [t \in Tasks |-> Nobody]
    /\ holders = [t \in Tasks |-> {}]
    /\ chan = [t \in Tasks |-> <<>>]
    /\ current = [t \in Tasks |-> NoCall]
    /\ call = [k \in Calls |-> [state |-> "idle", by |-> Nobody, to |-> Nobody]]

\* The task's own code runs: init, run or exit.
InUserCode(t) == stage[t] \in {"init", "run", "exit"}

Sending(h) == {k \in Calls : call[k].state = "sending" /\ call[k].by = h}

\* Task t waits for a task it has started, or for room in a channel.
Waits(t) ==
    \/ \E c \in Tasks : asker[c] = t
    \/ Sending(t) # {}

\* Who can still dispatch to the thread.  The handle of a task lives as long
\* as the task, which the message owns before the task is received.
Senders == senders \cup
    {t \in Nested : stage[t] \notin {"idle", "ended", "panicked"}}

\* tokio's bounded channel refuses a capacity of zero, and None becomes zero;
\* async-std makes an unbounded channel of None.
HasRoom(t) ==
    \/ Channel[t] = "unbounded"
    \/ Channel[t] = "asyncstd" /\ Capacity[t] = 0
    \/ Len(chan[t]) < Capacity[t]

\* The receiving half lives from the start of the envelope to its end.
Receives(t) == stage[t] \in {"recv", "run", "exit"}

----------------------------------------------------------------------------
\* A user, or a task that runs, sends task t to the thread and waits for the
\* handle.
Dispatch(h, t) ==
    /\ h \in senders \/ (h \in Nested /\ InUserCode(h) /\ ~Waits(h))
    /\ h # t
    /\ stage[t] = "idle"
    /\ stage' = [stage EXCEPT ![t] = "queued"]
    /\ inbox' = Append(inbox, t)
    /\ asker' = [asker EXCEPT ![t] = h]
    /\ UNCHANGED <<rt, senders, free, stack, holders, chan, current, call>>

\* The user drops the receiving half of handle_sender.
DropReply(t) ==
    /\ asker[t] \in Users
    /\ asker' = [asker EXCEPT ![t] = Nobody]
    /\ UNCHANGED <<rt, senders, inbox, free, stage, stack, holders, chan, current, call>>

DropRuntime(u) ==
    /\ u \in senders
    /\ senders' = senders \ {u}
    /\ UNCHANGED <<rt, inbox, free, stage, stack, asker, holders, chan, current, call>>

\* The loop takes a message and a stack, and the envelope is polled: it
\* creates the channel and calls init.  tokio's channel(0) panics, which
\* drops handle_sender and leaks the stack.
Begin ==
    /\ rt = "up"
    /\ inbox # <<>>
    /\ free # <<>>
    /\ LET t == Head(inbox)
           zero == Channel[t] = "bounded" /\ Capacity[t] = 0
       IN  /\ stage' = [stage EXCEPT ![t] = IF zero THEN "panicked" ELSE "init"]
           /\ asker' = IF zero THEN [asker EXCEPT ![t] = Nobody] ELSE asker
           /\ stack' = [stack EXCEPT ![t] = Head(free)]
    /\ inbox' = Tail(inbox)
    /\ free' = Tail(free)
    /\ UNCHANGED <<rt, senders, holders, chan, current, call>>

----------------------------------------------------------------------------
\* Faulty variant: what is queued survives a task that panicked.
SettleKeepsQueue(hs, dead) ==
    LET Fate(k) ==
            LET c == call[k]
            IN  IF c.state = "running" /\ c.to \in dead THEN "discarded"
                ELSE IF c.state = "sending" /\ c.to \in dead THEN "closed"
                ELSE IF c.state = "sending" /\ c.by \in dead THEN "cancelled"
                ELSE c.state
    IN  /\ holders' = hs
        /\ call' = [k \in Calls |-> [call[k] EXCEPT !.state = Fate(k)]]
        /\ UNCHANGED chan

\* The handles and the calls when the handles become hs and the tasks of dead
\* have panicked.  A tokio receiver that is dropped drops what is queued; the
\* queue of async-std lives as long as a handle does.
Settle(hs, dead) ==
    LET gone == {t \in Tasks : /\ stage[t] = "panicked" \/ t \in dead
                               /\ Channel[t] = "asyncstd" => hs[t] = {}}
        Fate(k) ==
            LET c == call[k]
            IN  IF \/ c.state = "running" /\ c.to \in dead
                   \/ c.state = "queued" /\ c.to \in gone THEN "discarded"
                ELSE IF c.state = "sending" /\ c.to \in dead THEN "closed"
                ELSE IF c.state = "sending" /\ c.by \in dead THEN "cancelled"
                ELSE c.state
    IN  /\ holders' = hs
        /\ chan' = [t \in Tasks |-> IF t \in gone THEN <<>> ELSE chan[t]]
        /\ call' = [k \in Calls |-> [call[k] EXCEPT !.state = Fate(k)]]

\* What a task that is over owns is dropped: its handles, and the receiving
\* halves it waits on.
DropOwned(t, dead) ==
    /\ Settle([c \in Tasks |-> holders[c] \ {t}], dead)
    /\ asker' = [c \in Tasks |-> IF c = t \/ asker[c] = t THEN Nobody ELSE asker[c]]

\* Faulty variant: the future ends and keeps its stack.
FreeStackNot(t) ==
    /\ stage' = [stage EXCEPT ![t] = "ended"]
    /\ UNCHANGED <<free, stack>>

\* The spawned future ends: the stack goes back to the deque.
FreeStack(t) ==
    /\ stage' = [stage EXCEPT ![t] = "ended"]
    /\ free' = Append(free, stack[t])
    /\ stack' = [stack EXCEPT ![t] = 0]

\* init returns and the only handle goes to the one who asked; a handle that
\* nobody waits for is dropped.
InitOk(t) ==
    /\ stage[t] = "init"
    /\ ~Waits(t)
    /\ stage' = [stage EXCEPT ![t] = "recv"]
    /\ holders' = [holders EXCEPT ![t] = {asker[t]} \ {Nobody}]
    /\ asker' = [asker EXCEPT ![t] = Nobody]
    /\ UNCHANGED <<rt, senders, inbox, free, stack, chan, current, call>>

InitErr(t) ==
    /\ stage[t] = "init"
    /\ ~Waits(t)
    /\ DropOwned(t, {})
    /\ FreeStack(t)
    /\ UNCHANGED <<rt, senders, inbox, current>>

\* The task panics: its future and all it owns is dropped, but not its stack.
Panics(t) ==
    /\ t \in MayPanic
    /\ InUserCode(t)
    /\ stage' = [stage EXCEPT ![t] = "panicked"]
    /\ current' = [current EXCEPT ![t] = NoCall]
    /\ DropOwned(t, {t})
    /\ UNCHANGED <<rt, senders, inbox, free, stack>>

\* Faulty variant: receives the newest call.
ReceiveNewest(t) ==
    /\ stage[t] = "recv"
    /\ chan[t] # <<>>
    /\ LET k == chan[t][Len(chan[t])]
       IN  /\ current' = [current EXCEPT ![t] = k]
           /\ call' = [call EXCEPT ![k].state = "running"]
    /\ chan' = [chan EXCEPT ![t] = SubSeq(@, 1, Len(@) - 1)]
    /\ stage' = [stage EXCEPT ![t] = "run"]
    /\ UNCHANGED <<rt, senders, inbox, free, stack, asker, holders>>

\* receiver.recv() returns a call.
Receive(t) ==
    /\ stage[t] = "recv"
    /\ chan[t] # <<>>
    /\ LET k == Head(chan[t])
       IN  /\ current' = [current EXCEPT ![t] = k]
           /\ call' = [call EXCEPT ![k].state = "running"]
    /\ chan' = [chan EXCEPT ![t] = Tail(@)]
    /\ stage' = [stage EXCEPT ![t] = "run"]
    /\ UNCHANGED <<rt, senders, inbox, free, stack, asker, holders>>

\* Faulty variant: stops as soon as no handle is left.
ReceiveClosedEarly(t) ==
    /\ stage[t] = "recv"
    /\ holders[t] = {}
    /\ stage' = [stage EXCEPT ![t] = "exit"]
    /\ UNCHANGED <<rt, senders, inbox, free, stack, asker, holders, chan, current, call>>

\* Faulty variant: a receive that fails is tried again.
ReceiveClosedRetries(t) ==
    /\ stage[t] = "recv"
    /\ chan[t] = <<>>
    /\ holders[t] = {}
    /\ UNCHANGED vars

\* No sender and nothing queued: recv() fails, the envelope calls exit.
ReceiveClosed(t) ==
    /\ stage[t] = "recv"
    /\ chan[t] = <<>>
    /\ holders[t] = {}
    /\ stage' = [stage EXCEPT ![t] = "exit"]
    /\ UNCHANGED <<rt, senders, inbox, free, stack, asker, holders, chan, current, call>>

\* run returns, with a result or an error, and the caller gets it.
Answer(t) ==
    /\ stage[t] = "run"
    /\ ~Waits(t)
    /\ call' = [call EXCEPT ![current[t]].state = "answered"]
    /\ current' = [current EXCEPT ![t] = NoCall]
    /\ stage' = [stage EXCEPT ![t] = "recv"]
    /\ UNCHANGED <<rt, senders, inbox, free, stack, asker, holders, chan>>

ExitReturns(t) ==
    /\ stage[t] = "exit"
    /\ ~Waits(t)
    /\ DropOwned(t, {})
    /\ FreeStack(t)
    /\ UNCHANGED <<rt, senders, inbox, current>>

----------------------------------------------------------------------------
\* Who owns a handle and can use it now.
CanUse(h, t) == h \in holders[t] /\ (h \in Tasks => InUserCode(h) /\ ~Waits(h))

CloneHandle(h, u, t) ==
    /\ CanUse(h, t)
    /\ u \in Users \ holders[t]
    /\ holders' = [holders EXCEPT ![t] = @ \cup {u}]
    /\ UNCHANGED <<rt, senders, inbox, free, stage, stack, asker, chan, current, call>>

\* A handle that a call borrows is not dropped.
DropHandle(h, t) ==
    /\ CanUse(h, t)
    /\ \A k \in Sending(h) : call[k].to # t
    /\ Settle([holders EXCEPT ![t] = @ \ {h}], {})
    /\ UNCHANGED <<rt, senders, inbox, free, stage, stack, asker, current>>

Made(h, t, k, to) ==
    /\ CanUse(h, t)
    /\ call[k].state = "idle"
    /\ call' = [call EXCEPT ![k] = [state |-> to, by |-> h, to |-> t]]

\* PersistentHandle::call: the send future waits until there is room.
Call(h, t, k) ==
    /\ Made(h, t, k, "sending")
    /\ UNCHANGED <<rt, senders, inbox, free, stage, stack, asker, holders, chan, current>>

\* Both channels serve waiting senders in no order the task can rely on.
Admit(k) ==
    LET t == call[k].to
    IN  /\ call[k].state = "sending"
        /\ Receives(t)
        /\ HasRoom(t)
        /\ chan' = [chan EXCEPT ![t] = Append(@, k)]
        /\ call' = [call EXCEPT ![k].state = "queued"]
        /\ UNCHANGED <<rt, senders, inbox, free, stage, stack, asker, holders, current>>

\* The task is gone: the send future ends with ChannelClosed.
Refused(k) ==
    /\ call[k].state = "sending"
    /\ ~Receives(call[k].to)
    /\ call' = [call EXCEPT ![k].state = "closed"]
    /\ UNCHANGED <<rt, senders, inbox, free, stage, stack, asker, holders, chan, current>>

\* A user drops the send future.
Cancel(k) ==
    /\ call[k].state = "sending"
    /\ call[k].by \in Users
    /\ call' = [call EXCEPT ![k].state = "cancelled"]
    /\ UNCHANGED <<rt, senders, inbox, free, stage, stack, asker, holders, chan, current>>

TryCall(h, t, k) ==
    /\ Made(h, t, k, IF ~Receives(t) THEN "closed"
                     ELSE IF HasRoom(t) THEN "queued" ELSE "full")
    /\ chan' = IF Receives(t) /\ HasRoom(t) THEN [chan EXCEPT ![t] = Append(@, k)]
               ELSE chan
    /\ UNCHANGED <<rt, senders, inbox, free, stage, stack, asker, holders, current>>

----------------------------------------------------------------------------
\* The loop ends when nobody can send and nothing is left to receive.
Closed ==
    /\ rt = "up"
    /\ free # <<>>
    /\ Senders = {}
    /\ inbox = <<>>
    /\ rt' = "draining"
    /\ UNCHANGED <<senders, inbox, free, stage, stack, asker, holders, chan, current, call>>

Drained ==
    /\ rt = "draining"
    /\ \A t \in Tasks : stack[t] = 0
    /\ rt' = "down"
    /\ UNCHANGED <<senders, inbox, free, stage, stack, asker, holders, chan, current, call>>

TaskStep(t) ==
    \/ InitOk(t) \/ InitErr(t)
    \/ Receive(t) \/ ReceiveClosed(t)
    \/ Answer(t) \/ ExitReturns(t)

Next ==
    \/ Begin \/ Closed \/ Drained
    \/ \E t \in Tasks : TaskStep(t) \/ Panics(t) \/ DropReply(t)
    \/ \E u \in Users : DropRuntime(u)
    \/ \E h \in Holders, t \in Tasks :
          \/ Dispatch(h, t) \/ DropHandle(h, t)
          \/ \E u \in Users : CloneHandle(h, u, t)
          \/ \E k \in Calls : Call(h, t, k) \/ TryCall(h, t, k)
    \/ \E k \in Calls : Admit(k) \/ Refused(k) \/ Cancel(k)

Spec == Init /\ [][Next]_vars

\* The thread's loop runs, the futures it polls make progress when they can,
\* the tasks' own code returns, and a pending send is polled.  Nothing makes a
\* user drop a handle.
FairSpec ==
    /\ Spec
    /\ WF_vars(Begin)
    /\ WF_vars(Closed)
    /\ WF_vars(Drained)
    /\ \A t \in Tasks : WF_vars(TaskStep(t))
    /\ \A k \in Calls : WF_vars(Admit(k) \/ Refused(k))

----------------------------------------------------------------------------
TypeOK ==
    /\ rt \in {"up", "draining", "down"}
    /\ senders \subseteq Users
    /\ inbox \in Seq(Tasks)
    /\ free \in Seq(Stacks)
    /\ stage \in [Tasks -> {"idle", "queued", "init", "recv", "run", "exit",
                            "ended", "panicked"}]
    /\ stack \in [Tasks -> 0..N]
    /\ asker \in [Tasks -> Holders \cup {Nobody}]
    /\ holders \in [Tasks -> SUBSET Holders]
    /\ chan \in [Tasks -> Seq(Calls)]
    /\ current \in [Tasks -> Calls \cup {NoCall}]
    /\ call \in [Calls -> [state : CallStates, by : Holders \cup {Nobody},
                           to : Tasks \cup {Nobody}]]

\* Every stack is free or belongs to one task, and a task that panicked keeps
\* its stack for ever: the loop waits for it, and nobody may use its frames.
StacksPartition ==
    /\ \A i \in Stacks :
          Cardinality({j \in 1..Len(free) : free[j] = i})
            + Cardinality({t \in Tasks : stack[t] = i}) = 1
    /\ \A t \in Tasks :
          stack[t] # 0 <=> stage[t] \in {"init", "recv", "run", "exit", "panicked"}

\* "The PersistentTask is dropped when its final handle has been dropped and
\* all remaining pending calls have completed" (mod.rs:713): a task that calls
\* exit has no handle, no call, and nobody who is still sending one.
EndsLast ==
    \A t \in Tasks :
        stage[t] \in {"exit", "ended"} =>
            /\ holders[t] = {}
            /\ chan[t] = <<>>
            /\ \A k \in Calls : call[k].to = t =>
                  call[k].state \notin {"sending", "queued", "running"}

\* An accepted call is lost, and a call is refused with ChannelClosed, only if
\* the task panicked.
LostOnlyByPanic ==
    \A k \in Calls :
        call[k].state \in {"discarded", "closed"} => stage[call[k].to] = "panicked"

\* The calls of a task, in the order in which it must answer them.
Owed(t) == (IF current[t] = NoCall THEN <<>> ELSE <<current[t]>>) \o chan[t]

Mode(t) ==
    CASE stage[t] \in {"idle", "queued", "init"} -> "new"
      [] stage[t] \in {"recv", "run"} -> "open"
      [] stage[t] \in {"exit", "ended"} -> "over"
      [] stage[t] = "panicked" -> "dead"

Outcome(k) ==
    CASE call[k].state \in {"idle", "sending"} -> "none"
      [] call[k].state \in {"queued", "running"} -> "accepted"
      [] call[k].state = "answered" -> "answered"
      [] call[k].state \in {"closed", "full", "cancelled"} -> "refused"
      [] call[k].state = "discarded" -> "lost"

Modes == [t \in Tasks |-> Mode(t)]
Debts == [t \in Tasks |-> Owed(t)]
Outcomes == [k \in Calls |-> Outcome(k)]

Service == INSTANCE CallService WITH mode <- Modes, owed <- Debts, outcome <- Outcomes

\* A persistent task keeps the promises of CallService.
ServiceSpec == Service!Spec

\* handle_sender is used "after the task's init method has completed"
\* (mod.rs:317): a task whose methods do not panic gets to its init.
InitIsCalled ==
    \A t \in Tasks \ MayPanic : stage[t] # "panicked"

\* A stack that is not coming back unless a user lets go of a handle: its task
\* panicked, or has handles and no call, or waits for another task.
Occupied(t) ==
    \/ stage[t] = "panicked"
    \/ holders[t] # {}
    \/ Waits(t)

\* The thread is full for ever.
Clogged == \A i \in Stacks : \E t \in Tasks : stack[t] = i /\ Occupied(t)

\* A dispatched task is started, and the one who waits for its handle gets it
\* or an error, unless every stack is occupied.  In particular a task may wait
\* for ever for a task that needs the stack it occupies itself.
DispatchedStarts ==
    \A t \in Tasks :
        /\ stage[t] = "queued" ~> (stage[t] # "queued" \/ []Clogged)
        /\ stage[t] = "init" ~> (asker[t] = Nobody \/ [](Waits(t)))

\* Nobody answers call k, and its caller does not hear of it.
Stranded(k) ==
    \E t \in Tasks :
        /\ call[k].to = t
        /\ \/ Waits(t)
           \/ Channel[t] = "asyncstd" /\ stage[t] = "panicked" /\ holders[t] # {}

\* An accepted call is answered or lost, unless the task waits for ever for a
\* task it started; the callers of an async-std channel whose task panicked
\* hear of it when the last handle is dropped.
AcceptedSettles ==
    \A k \in Calls :
        call[k].state \in {"queued", "running"} ~>
            (call[k].state \in {"answered", "discarded"} \/ []Stranded(k))

\* When the last handle is dropped the task ends and gives its stack back.
EndsAfterLastHandle ==
    \A t \in Tasks :
        (stage[t] \in {"recv", "run"} /\ holders[t] = {}) ~>
            (stage[t] = "ended" \/ stage[t] = "panicked" \/ holders[t] # {} \/ [](Waits(t)))

\* When nobody has a handle to the runtime or to a task any more the thread
\* ends, unless a panic leaked a stack or a task waits for itself.
ShutsDown ==
    (senders = {} /\ \A t \in Tasks : holders[t] = {}) ~>
        \/ rt = "down"
        \/ \E t \in Tasks : stage[t] = "panicked" \/ holders[t] # {}
        \/ [](\E t \in Tasks : Waits(t))

\* The stack and the channel of every task: each stack has one owner, a task
\* ends after its last call, and calls are lost by panics only.
TasksOK == TypeOK /\ StacksPartition /\ EndsLast /\ LostOnlyByPanic

\* What ends when the users are done: the tasks, and then the runtime.
WindsDown == EndsAfterLastHandle /\ ShutsDown
=============================================================================
