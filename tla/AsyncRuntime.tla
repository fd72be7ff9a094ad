---------------------------- MODULE AsyncRuntime ----------------------------
(***************************************************************************)
(* The async runtime: the main runtime thread (runtime/async_rt/mod.rs,    *)
(* run_async and run_inner) and the adopted worker threads                 *)
(* (runtime/async_rt/adopted.rs), which take messages from the queues of   *)
(* DispatchQueues and run them.                                            *)
(*                                                                         *)
(* Every thread owns N stacks for async tasks and one for blocking tasks,  *)
(* a deque of the indices of the stacks that are free and an array with    *)
(* the tasks that run.  Async and posted tasks are futures spawned on the  *)
(* thread's local executor: they only make progress at the points where    *)
(* the thread's loop awaits.  A blocking task runs inside the loop.        *)
(***************************************************************************)
EXTENDS DispatchQueues

CONSTANTS
    Main,       \* the main runtime thread
    Workers,    \* the worker threads
    N,          \* the number of async stacks of each thread: start::<N>
    Kind,       \* [Msgs -> the kind of task a message carries]
    MayPanic    \* the messages whose task may panic

ASSUME RuntimeAssumption ==
    /\ Main \notin Workers
    /\ HasWorkers <=> Workers # {}    \* AsyncRuntimeBuilder::has_workers
    /\ N \in Nat
    /\ Kind \in [Msgs -> {"task", "blocking", "posted"}]
    /\ MayPanic \subseteq Msgs
    /\ NoMsg \notin Workers \cup {Main}    \* TaskPool's NoThread

VARIABLES
    pc,        \* [Threads -> where the thread's loop is]
    free,      \* [Threads -> the deque free_stacks]
    running,   \* [Threads -> [Stacks -> the task in running_tasks]]
    leaked,    \* [Threads -> the stacks whose task panicked]
    sync       \* [Threads -> the blocking task the thread executes]

threadVars == <<pc, free, running, leaked, sync>>
vars == <<queueVars, threadVars>>

Threads == Workers \cup {Main}
Stacks == 1..N

\* "start": run_async has not finished initializing Julia; "unborn": a worker
\* that is not spawned yet; "loop": at the head of the receive loop; "recv":
\* awaits recv with a timeout; "park": a worker that awaits recv_worker
\* without one, in a GC-safe state; "sync": executes a blocking task; "drain":
\* waits for the tasks that run; "join": the main thread waits for the
\* workers; "failed", "crashed": returned an error from the initialization,
\* unwound by a panic.
Locations == {"start", "unborn", "loop", "recv", "park", "sync", "drain",
              "join", "exited", "failed", "crashed"}

RecvQueues(t) == IF t = Main THEN MainQueues ELSE WorkerQueues

\* The queue try_recv_main and try_recv_worker look at before any_queue.
OwnQueue(t) == IF t = Main THEN "main" ELSE "worker"

Init ==
    /\ QueueInit
    /\ pc = [t \in Threads |-> IF t = Main THEN "start" ELSE "unborn"]
    /\ free = [t \in Threads |-> [i \in Stacks |-> i]]
    /\ running = [t \in Threads |-> [i \in Stacks |-> NoMsg]]
    /\ leaked = [t \in Threads |-> {}]
    /\ sync = [t \in Threads |-> NoMsg]

Goto(t, loc) == pc' = [pc EXCEPT ![t] = loc]

----------------------------------------------------------------------------
\* Julia has been initialized: run_inner spawns the workers and enters its loop.
Start ==
    /\ pc[Main] = "start"
    /\ pc' = [t \in Threads |-> "loop"]
    /\ UNCHANGED <<queueVars, free, running, leaked, sync>>

\* run_async or run_inner returns an error before the loop: Julia has been
\* initialized before, the image does not exist, set_custom_fns failed.  The
\* handle was already given to the user, and keeps its sender.
FailToStart ==
    /\ pc[Main] = "start"
    /\ Goto(Main, "failed")
    /\ UNCHANGED <<queueVars, free, running, leaked, sync>>

\* Faulty variant: a worker waits without a timeout while tasks run on it.
AwaitParks(t) ==
    /\ pc[t] = "loop"
    /\ Len(free[t]) > 0
    /\ n_senders > 0
    /\ Goto(t, IF t # Main THEN "park" ELSE "recv")
    /\ UNCHANGED <<queueVars, free, running, leaked, sync>>

\* The head of the loop with a sender alive: await a message.  A worker that
\* runs nothing waits without a timeout.
Await(t) ==
    /\ pc[t] = "loop"
    /\ Len(free[t]) > 0
    /\ n_senders > 0
    /\ Goto(t, IF t # Main /\ Len(free[t]) = N THEN "park" ELSE "recv")
    /\ UNCHANGED <<queueVars, free, running, leaked, sync>>

\* What the loop does with message m from queue q.  A blocking task is called
\* on the sync stack; for the other kinds a free stack is taken and a future
\* is spawned that owns it.
Handle(t, q, m) ==
    /\ queue' = [queue EXCEPT ![q] = Tail(@)]
    /\ fate' = [fate EXCEPT ![m] = "running"]
    /\ \/ /\ Kind[m] = "blocking"
          /\ sync' = [sync EXCEPT ![t] = m]
          /\ Goto(t, "sync")
          /\ UNCHANGED <<free, running>>
       \/ /\ Kind[m] # "blocking"
          /\ running' = [running EXCEPT ![t][Head(free[t])] = m]
          /\ free' = [free EXCEPT ![t] = Tail(@)]
          /\ Goto(t, "loop")
          /\ UNCHANGED sync
    /\ UNCHANGED <<capacity, n_senders, holders, sending, leaked>>

\* The race between the two pop futures is won by one of the non-empty queues.
Recv(t, q) ==
    /\ pc[t] \in {"recv", "park"}
    /\ q \in RecvQueues(t)
    /\ queue[q] # <<>>
    /\ Handle(t, q, Head(queue[q]))

\* R::timeout polls the receiving future before it looks at the timer, so it
\* only elapses when there was nothing to receive.
Timeout(t) ==
    /\ pc[t] = "recv"
    /\ \A q \in RecvQueues(t) : queue[q] = <<>>
    /\ Goto(t, "loop")
    /\ UNCHANGED <<queueVars, free, running, leaked, sync>>

\* No sender is left: recv_main and recv_worker try to pop, the thread's own
\* queue first, and report a closed channel when there is nothing to pop.
RecvClosing(t, q) ==
    /\ pc[t] = "loop"
    /\ Len(free[t]) > 0
    /\ n_senders = 0
    /\ q \in RecvQueues(t)
    /\ queue[q] # <<>>
    /\ q = "any" => queue[OwnQueue(t)] = <<>>
    /\ Handle(t, q, Head(queue[q]))

\* Faulty variant: the channel counts as closed as soon as no sender is left.
ChannelClosedEarly(t) ==
    /\ pc[t] = "loop"
    /\ Len(free[t]) > 0
    /\ n_senders = 0
    /\ Goto(t, "drain")
    /\ UNCHANGED <<queueVars, free, running, leaked, sync>>

ChannelClosed(t) ==
    /\ pc[t] = "loop"
    /\ Len(free[t]) > 0
    /\ n_senders = 0
    /\ \A q \in RecvQueues(t) : queue[q] = <<>>
    /\ Goto(t, "drain")
    /\ UNCHANGED <<queueVars, free, running, leaked, sync>>

----------------------------------------------------------------------------
\* A blocking task returns; its result has been sent.
BlockingReturns(t) ==
    /\ pc[t] = "sync"
    /\ fate' = [fate EXCEPT ![sync[t]] = "done"]
    /\ sync' = [sync EXCEPT ![t] = NoMsg]
    /\ Goto(t, "loop")
    /\ UNCHANGED <<queue, capacity, n_senders, holders, sending, free, running, leaked>>

\* The messages of the tasks alive on thread t, blocking or not.
TasksOf(t) == ({running[t][i] : i \in Stacks \ leaked[t]} \cup {sync[t]}) \ {NoMsg}

\* A blocking task panics.  The panic unwinds through the loop and block_on,
\* which drop the tasks spawned on the thread, and ends the thread.
BlockingPanics(t) ==
    /\ pc[t] = "sync"
    /\ sync[t] \in MayPanic
    /\ fate' = [m \in Msgs |-> IF m \in TasksOf(t) THEN "panicked" ELSE fate[m]]
    /\ sync' = [sync EXCEPT ![t] = NoMsg]
    /\ running' = [running EXCEPT ![t] = [i \in Stacks |-> NoMsg]]
    /\ Goto(t, "crashed")
    /\ UNCHANGED <<queue, capacity, n_senders, holders, sending, free, leaked>>

\* The points of the loop where the local executor polls the spawned tasks:
\* the awaits of timeout and yield_now.
AtAwait(t) ==
    \/ pc[t] \in {"recv", "park", "drain"}
    \/ pc[t] = "loop" /\ Len(free[t]) = 0

\* The closure of a posted task has run on a thread of Julia's and has sent
\* the result; the future that posted it still waits to be woken.
PostedAnswers(t, i) ==
    /\ i \notin leaked[t]
    /\ running[t][i] # NoMsg
    /\ Kind[running[t][i]] = "posted"
    /\ fate[running[t][i]] = "running"
    /\ pc[t] # "crashed"
    /\ fate' = [fate EXCEPT ![running[t][i]] = "answered"]
    /\ UNCHANGED <<queue, capacity, n_senders, holders, sending, threadVars>>

\* Faulty variant: the entry in running_tasks is cleared but the stack is not
\* freed.
TaskCompletesKeepsStack(t, i) ==
    LET m == running[t][i]
    IN  /\ AtAwait(t)
        /\ i \notin leaked[t]
        /\ m # NoMsg
        /\ Kind[m] = "posted" => fate[m] = "answered"
        /\ fate' = [fate EXCEPT ![m] = "done"]
        /\ running' = [running EXCEPT ![t][i] = NoMsg]
        /\ UNCHANGED <<queue, capacity, n_senders, holders, sending, pc, free, leaked, sync>>

\* A spawned task completes: its result is sent, then its stack is freed and
\* its entry in running_tasks cleared without an await in between.
TaskCompletes(t, i) ==
    LET m == running[t][i]
    IN  /\ AtAwait(t)
        /\ i \notin leaked[t]
        /\ m # NoMsg
        /\ Kind[m] = "posted" => fate[m] = "answered"
        /\ fate' = [fate EXCEPT ![m] = "done"]
        /\ free' = [free EXCEPT ![t] = Append(@, i)]
        /\ running' = [running EXCEPT ![t][i] = NoMsg]
        /\ UNCHANGED <<queue, capacity, n_senders, holders, sending, pc, leaked, sync>>

\* Faulty variant: a drop guard frees the stack of a task that panics but not
\* its entry in running_tasks.
TaskPanicsFreesStack(t, i) ==
    LET m == running[t][i]
    IN  /\ AtAwait(t)
        /\ i \notin leaked[t]
        /\ m \in MayPanic
        /\ Kind[m] = "task"
        /\ fate' = [fate EXCEPT ![m] = "panicked"]
        /\ free' = [free EXCEPT ![t] = Append(@, i)]
        /\ leaked' = [leaked EXCEPT ![t] = @ \cup {i}]
        /\ UNCHANGED <<queue, capacity, n_senders, holders, sending, pc, running, sync>>

\* A spawned task panics.  The executor catches the panic, but the future is
\* gone: the code that frees the stack never runs.
TaskPanics(t, i) ==
    LET m == running[t][i]
    IN  /\ AtAwait(t)
        /\ i \notin leaked[t]
        /\ m \in MayPanic
        /\ Kind[m] = "task"
        /\ fate' = [fate EXCEPT ![m] = "panicked"]
        /\ leaked' = [leaked EXCEPT ![t] = @ \cup {i}]
        /\ UNCHANGED <<queue, capacity, n_senders, holders, sending, pc, free, running, sync>>

\* Faulty variant: the thread does not wait for the tasks that run.
DrainedEarly(t) ==
    /\ pc[t] = "drain"
    /\ Goto(t, IF t = Main THEN "join" ELSE "exited")
    /\ UNCHANGED <<queueVars, free, running, leaked, sync>>

\* The loop over running_tasks after the receive loop ends.
Drained(t) ==
    /\ pc[t] = "drain"
    /\ \A i \in Stacks : running[t][i] = NoMsg
    /\ Goto(t, IF t = Main THEN "join" ELSE "exited")
    /\ UNCHANGED <<queueVars, free, running, leaked, sync>>

\* Faulty variant: the exit hook runs while workers are still alive.
JoinedEarly ==
    /\ pc[Main] = "join"
    /\ Goto(Main, "exited")
    /\ UNCHANGED <<queueVars, free, running, leaked, sync>>

\* Every worker's thread has finished: run the exit hook and return.
Joined ==
    /\ pc[Main] = "join"
    /\ \A w \in Workers : pc[w] \in {"exited", "crashed"}
    /\ Goto(Main, "exited")
    /\ UNCHANGED <<queueVars, free, running, leaked, sync>>

\* The runtime has ended, one way or the other.
Ended ==
    /\ holders = {}
    /\ pc[Main] \in {"exited", "failed", "crashed"}
    /\ \A w \in Workers : pc[w] \in {"unborn", "exited", "crashed"}
    /\ UNCHANGED vars

----------------------------------------------------------------------------
LoopStep(t) ==
    \/ Await(t) \/ Timeout(t) \/ ChannelClosed(t) \/ Drained(t)
    \/ \E q \in Queues : Recv(t, q) \/ RecvClosing(t, q)

TaskStep(t, i) == PostedAnswers(t, i) \/ TaskCompletes(t, i)

Next ==
    \/ UserStep /\ UNCHANGED threadVars
    \/ Start
    \/ FailToStart
    \/ Joined
    \/ \E t \in Threads :
          \/ LoopStep(t)
          \/ BlockingReturns(t)
          \/ BlockingPanics(t)
          \/ \E i \in Stacks : TaskStep(t, i) \/ TaskPanics(t, i)
    \/ Ended

Spec == Init /\ [][Next]_vars

----------------------------------------------------------------------------
\* The fairness of the code's scheduling: the operating system runs every
\* thread, a loop whose future is ready is polled, tasks return, and a pending
\* push gets its turn: deadqueue's semaphore is a FIFO queue in which a later
\* resize waits as well, so room that comes again and again is enough.  Nothing
\* makes a user send, cancel, resize or drop anything.
Fairness ==
    /\ WF_vars(Start \/ FailToStart)
    /\ WF_vars(Joined)
    /\ \A h \in Holders : SF_vars(Push(h) /\ UNCHANGED threadVars)
    /\ \A t \in Threads :
          /\ WF_vars(LoopStep(t))
          /\ WF_vars(BlockingReturns(t) \/ BlockingPanics(t))
          /\ \A i \in Stacks : WF_vars(TaskStep(t, i) \/ TaskPanics(t, i))

FairSpec == Spec /\ Fairness

----------------------------------------------------------------------------
\* Every variable has its type.
RuntimeTypeOK ==
    /\ QueueTypeOK
    /\ pc \in [Threads -> Locations]
    /\ free \in [Threads -> Seq(Stacks)]
    /\ running \in [Threads -> [Stacks -> Msgs \cup {NoMsg}]]
    /\ leaked \in [Threads -> SUBSET Stacks]
    /\ sync \in [Threads -> Msgs \cup {NoMsg}]

\* A stack is never shared: on a thread that has not been unwound an index is
\* in the deque of free stacks, once, or in use by one task, never both and
\* never neither (so that no slot is lost when tasks complete in any order,
\* and pop_front().unwrap() finds a stack whenever the loop receives).
StackPartition ==
    \A t \in Threads :
        /\ \A i, j \in 1..Len(free[t]) : free[t][i] = free[t][j] => i = j
        /\ pc[t] # "crashed" =>
              {free[t][i] : i \in 1..Len(free[t])}
                  = {i \in Stacks : running[t][i] = NoMsg}
        /\ pc[t] \in {"recv", "park"} => Len(free[t]) > 0

\* A message that is in a queue is there once, in one queue, and is not run
\* yet; a message that runs does so on one thread and one stack only.
OneOwner ==
    /\ \A q, r \in Queues : \A i \in 1..Len(queue[q]), j \in 1..Len(queue[r]) :
          queue[q][i] = queue[r][j] => q = r /\ i = j
    /\ \A q \in Queues : \A i \in 1..Len(queue[q]) : fate[queue[q][i]] = "queued"
    /\ \A t, u \in Threads : \A i, j \in Stacks :
          running[t][i] # NoMsg /\ running[t][i] = running[u][j] => t = u /\ i = j
    /\ \A t, u \in Threads :
          /\ sync[t] # NoMsg /\ sync[t] = sync[u] => t = u
          /\ sync[t] # NoMsg => fate[sync[t]] = "running" /\ Kind[sync[t]] = "blocking"
    /\ \A t \in Threads : \A i \in Stacks :
          running[t][i] # NoMsg =>
             /\ Kind[running[t][i]] # "blocking"
             /\ fate[running[t][i]] \in IF i \in leaked[t] THEN {"panicked"}
                                        ELSE {"running", "answered"}

\* No message disappears: one that counts as queued can be found in a queue,
\* and one that counts as running on a thread.
NoMessageLost ==
    \A m \in Msgs :
        /\ fate[m] = "queued" => \E q \in Queues : m \in InQueue(q)
        /\ fate[m] \in {"running", "answered"} => \E t \in Threads : m \in TasksOf(t)

\* The threads a message may run on.
EligibleThreads(m) ==
    IF Workers = {} \/ Affinity[m] = "main" THEN {Main}
    ELSE IF Affinity[m] = "worker" THEN Workers
    ELSE Threads

\* The promise of dispatch_main and dispatch_worker: a task with an affinity
\* is handled by the main thread or by a worker, wherever it waited and
\* whichever thread won the race for the queue everyone reads.
AffinityRespected ==
    \A t \in Threads : \A m \in TasksOf(t) : t \in EligibleThreads(m)

\* A worker that waits in a GC-safe state runs no Julia code meanwhile: none
\* of its stacks is in use by a task its executor could poll.
ParkedIsIdle ==
    \A t \in Threads :
        pc[t] = "park" => t # Main /\ TasksOf(t) = {} /\ leaked[t] = {}

\* No queue grows beyond its capacity, however it is resized while threads
\* wait to push; shrinking drops nothing.
QueueBounded == \A q \in Queues : Len(queue[q]) <= capacity[q]

\* The channel counts as closed only when no thread has the handle, so that a
\* thread that leaves its loop leaves nothing behind that could still arrive.
ClosedIsFinal ==
    n_senders = 0 => holders = {} /\ \A h \in Holders : sending[h] = NotSending

\* If no thread was unwound, the exit hook of Julia runs when every message
\* that was queued has been handled and every worker has ended.
CleanShutdown ==
    pc[Main] = "exited" /\ (\A t \in Threads : pc[t] # "crashed") =>
        /\ \A t \in Threads : pc[t] = "exited"
        /\ \A m \in Msgs : fate[m] \notin {"sending", "queued", "running", "answered"}

\* The stacks of the threads: whatever order tasks complete and panic in, no
\* index is lost or shared, and every deque holds indices only.
RuntimeOK == RuntimeTypeOK /\ StackPartition

\* The life of the messages: each is in one place, and those that were
\* accepted and not handled yet are in a place.
MessagesAccounted == OneOwner /\ NoMessageLost

\* The channel: bounded however it is resized, and closed for good.
ChannelSound == QueueBounded /\ ClosedIsFinal

\* A message a queue accepted is handled, if the runtime started and tasks
\* return.
QueuedIsHandled ==
    \A m \in Msgs :
        fate[m] = "queued" ~> fate[m] \in {"done", "panicked"} \/ pc[Main] = "failed"

\* A dispatch waits for a queue that was resized to nothing.
WaitsForNothing(m) == \E h \in Holders : sending[h].msg = m /\ capacity[sending[h].queue] = 0

\* A dispatch only stays pending for ever if its queue, from some time on, can
\* hold nothing: otherwise the runtime keeps making room, and a queue that is
\* resized to 0 and grows again serves who waited before.
DispatchResolves ==
    \A m \in Msgs :
        <>[](fate[m] = "sending") => <>[](WaitsForNothing(m) \/ pc[Main] = "failed")

\* "The runtime shuts down when the last handle is dropped and all active
\* tasks have completed" (async_rt/mod.rs).
ShutsDown == holders = {} ~> pc[Main] \in {"exited", "failed"}

\* A worker that is parked while there is nothing for it to receive: without
\* senders nothing will wake it.
Forsaken(w) ==
    pc[w] = "park" /\ \A q \in WorkerQueues : queue[q] = <<>>

\* It does, and ends in order, unless a worker was parked without a message
\* when the last handle was dropped.
ShutsDownUnlessParked ==
    holders = {} ~> \/ pc[Main] \in {"exited", "failed"}
                    \/ \E w \in Workers : Forsaken(w)

\* "If the backing queue is full, the dispatcher is returned to allow
\* retrying" (dispatch.rs): no message is lost by try_dispatch_any,
\* try_dispatch_main or try_dispatch_worker.
TryDispatchReturnsMessage == \A m \in Msgs : fate[m] # "dropped"

----------------------------------------------------------------------------
\* The refinement: the status and the thread of every message.
PoolStatus(f) == CASE f \in {"new", "sending"} -> "idle"
                   [] f = "queued" -> "accepted"
                   [] f \in {"running", "answered"} -> "active"
                   [] f \in {"dropped", "cancelled"} -> "rejected"
                   [] OTHER -> "finished"

PoolThread(m) ==
    IF \E t \in Threads : m \in TasksOf(t) THEN CHOOSE t \in Threads : m \in TasksOf(t)
    ELSE NoMsg

Pool == INSTANCE TaskPool WITH
    Tasks <- Msgs,
    NoThread <- NoMsg,
    Eligible <- [m \in Msgs |-> EligibleThreads(m)],
    Limit <- N + 1,
    status <- [m \in Msgs |-> PoolStatus(fate[m])],
    thread <- [m \in Msgs |-> PoolThread(m)],
    unwound <- {t \in Threads : pc[t] = "crashed"},
    closed <- n_senders = 0,
    stopped <- pc[Main] = "exited"

\* The runtime implements the pool.
PoolSpec == Pool!Spec
=============================================================================
