--------------------------- MODULE DispatchQueues ---------------------------
(***************************************************************************)
(* The queues through which tasks reach the async runtime:                 *)
(* runtime/async_rt/queue.rs, runtime/async_rt/dispatch.rs and             *)
(* async_util/affinity.rs.                                                 *)
(*                                                                         *)
(* A runtime has one queue that only the main runtime thread reads and, if *)
(* it has workers, a queue every thread reads and one only the workers     *)
(* read.  The handle AsyncJulia owns the only Sender; user threads share   *)
(* it (Arc<AsyncJulia>).  The module gives the state of the queues and the *)
(* steps of the threads that send; AsyncRuntime adds the threads that      *)
(* receive.                                                                *)
(*                                                                         *)
(* External: deadqueue's resizable Queue (a bounded FIFO queue whose push  *)
(* waits for room and whose try_push gives the item back when full) and    *)
(* Arc.                                                                    *)
(***************************************************************************)
EXTENDS Naturals, Sequences, FiniteSets

CONSTANTS
    Msgs,         \* the messages that may be dispatched, each of them once
    NoMsg,        \* "no message here"
    Holders,      \* user threads that may hold a share of the handle
    Affinity,     \* [Msgs -> {"any", "main", "worker"}], the type Affinity of a task
    HasWorkers,   \* does the runtime have worker threads?
    Capacity,     \* the channel capacity given to the builder
    Capacities    \* the capacities asked for by resize_queue (bound)

ASSUME QueueAssumption ==
    /\ NoMsg \notin Msgs
    /\ Affinity \in [Msgs -> {"any", "main", "worker"}]
    /\ HasWorkers \in BOOLEAN
    /\ Capacity \in Nat \ {0}      \* NonZeroUsize in the builder
    /\ Capacities \subseteq Nat

VARIABLES
    queue,       \* [Queues -> Seq(Msgs)]
    capacity,    \* [Queues -> Nat]
    n_senders,   \* Queues::n_senders
    holders,     \* the user threads that hold a share of the handle
    sending,     \* [Holders -> the dispatch a thread waits to complete]
    fate         \* [Msgs -> Fates], history: what has become of a message

queueVars == <<queue, capacity, n_senders, holders, sending, fate>>

Queues == {"main", "any", "worker"}
NotSending == [msg |-> NoMsg, queue |-> "main"]

\* "dropped": try_push refused the message and try_send forgot it, telling
\* its caller that it was sent.  "cancelled": the dispatch future was dropped.
\* "answered": a posted task has sent its result but still holds its stack.
Fates == {"new", "sending", "queued", "running", "answered", "done",
          "dropped", "cancelled", "panicked"}

\* Faulty variant: send_worker pushes to the queue everyone reads.
QueueOfShared(target) ==
    IF HasWorkers THEN (IF target = "worker" THEN "any" ELSE target) ELSE "main"

\* The queue a dispatch to target goes to: Sender::send, send_main and
\* send_worker fall back to the main queue if there are no workers.
QueueOf(target) == IF HasWorkers THEN target ELSE "main"

\* The dispatch methods a task has: ToAny, ToMain and ToWorker.
Targets(m) == IF Affinity[m] = "any" THEN Queues ELSE {Affinity[m]}

\* Faulty variant: recv_worker does not read the workers' queue.
WorkerQueuesShared == {"any"}

\* The queues the main thread and the workers read.
MainQueues == IF HasWorkers THEN {"main", "any"} ELSE {"main"}
WorkerQueues == {"worker", "any"}

HasRoom(q) == Len(queue[q]) < capacity[q]

QueueInit ==
    /\ queue = [q \in Queues |-> <<>>]
    /\ capacity = [q \in Queues |-> Capacity]
    /\ n_senders = 1
    /\ \E h \in Holders : holders = {h}
    /\ sending = [h \in Holders |-> NotSending]
    /\ fate = [m \in Msgs |-> "new"]

----------------------------------------------------------------------------
\* dispatch_any, dispatch_main, dispatch_worker: the message is moved into a
\* future that waits for room in the queue.
Dispatch(h, m, target) ==
    /\ h \in holders
    /\ sending[h] = NotSending
    /\ fate[m] = "new"
    /\ target \in Targets(m)
    /\ sending' = [sending EXCEPT ![h] = [msg |-> m, queue |-> QueueOf(target)]]
    /\ fate' = [fate EXCEPT ![m] = "sending"]
    /\ UNCHANGED <<queue, capacity, n_senders, holders>>

\* The push future finds room and resolves.
Push(h) ==
    LET m == sending[h].msg
        q == sending[h].queue
    IN  /\ m # NoMsg
        /\ HasRoom(q)
        /\ queue' = [queue EXCEPT ![q] = Append(@, m)]
        /\ sending' = [sending EXCEPT ![h] = NotSending]
        /\ fate' = [fate EXCEPT ![m] = "queued"]
        /\ UNCHANGED <<capacity, n_senders, holders>>

\* The user drops the dispatch future before it resolves.
CancelDispatch(h) ==
    /\ sending[h].msg # NoMsg
    /\ fate' = [fate EXCEPT ![sending[h].msg] = "cancelled"]
    /\ sending' = [sending EXCEPT ![h] = NotSending]
    /\ UNCHANGED <<queue, capacity, n_senders, holders>>

\* try_dispatch_any, try_dispatch_main, try_dispatch_worker.  Sender::try_send
\* evaluates try_push(item).err()?, which returns None when the push
\* succeeded, and None is also what the method ends with when it failed: the
\* refused item is dropped and the caller gets Ok(()).
TryDispatch(h, m, target) ==
    LET q == QueueOf(target)
    IN  /\ h \in holders
        /\ sending[h] = NotSending
        /\ fate[m] = "new"
        /\ target \in Targets(m)
        /\ \/ /\ HasRoom(q)
              /\ queue' = [queue EXCEPT ![q] = Append(@, m)]
              /\ fate' = [fate EXCEPT ![m] = "queued"]
           \/ /\ ~HasRoom(q)
              /\ fate' = [fate EXCEPT ![m] = "dropped"]
              /\ UNCHANGED queue
        /\ UNCHANGED <<capacity, n_senders, holders, sending>>

ResizeTruncates(q, c) ==
    /\ holders # {}
    /\ q \in IF HasWorkers THEN Queues ELSE {"main"}
    /\ capacity' = [capacity EXCEPT ![q] = c]
    /\ queue' = [queue EXCEPT ![q] = IF Len(@) > c THEN SubSeq(@, 1, c) ELSE @]
    /\ UNCHANGED <<n_senders, holders, sending, fate>>

\* resize_queue, resize_main_queue, resize_worker_queue.  The future does not
\* resolve until the queue fits the new capacity, which may be 0.  Without
\* workers there is only the main queue to resize.
Resize(q, c) ==
    /\ holders # {}
    /\ q \in IF HasWorkers THEN Queues ELSE {"main"}
    /\ c # capacity[q]
    /\ Len(queue[q]) <= c
    /\ capacity' = [capacity EXCEPT ![q] = c]
    /\ UNCHANGED <<queue, n_senders, holders, sending, fate>>

\* A thread gives another one a share of the handle (Arc::clone).
ShareHandle(h, other) ==
    /\ h \in holders
    /\ other \notin holders
    /\ holders' = holders \cup {other}
    /\ UNCHANGED <<queue, capacity, n_senders, sending, fate>>

DropHandleCloses(h) ==
    /\ h \in holders
    /\ sending[h] = NotSending
    /\ holders' = holders \ {h}
    /\ n_senders' = 0
    /\ UNCHANGED <<queue, capacity, sending, fate>>

\* A thread drops its share; the last one to do so drops the Sender.  A
\* pending dispatch borrows the handle, so its thread cannot drop it yet.
DropHandle(h) ==
    /\ h \in holders
    /\ sending[h] = NotSending
    /\ holders' = holders \ {h}
    /\ n_senders' = IF holders' = {} THEN n_senders - 1 ELSE n_senders
    /\ UNCHANGED <<queue, capacity, sending, fate>>

\* What the user threads may do.
UserStep ==
    \/ \E h \in Holders, m \in Msgs, target \in Queues :
          Dispatch(h, m, target) \/ TryDispatch(h, m, target)
    \/ \E h \in Holders : Push(h) \/ CancelDispatch(h) \/ DropHandle(h)
    \/ \E h, other \in Holders : ShareHandle(h, other)
    \/ \E q \in Queues, c \in Capacities : Resize(q, c)

----------------------------------------------------------------------------
\* The messages a queue holds.
InQueue(q) == {queue[q][i] : i \in 1..Len(queue[q])}

QueueTypeOK ==
    /\ queue \in [Queues -> Seq(Msgs)]
    /\ capacity \in [Queues -> Nat]
    /\ n_senders \in {0, 1}
    /\ holders \in SUBSET Holders
    /\ sending \in [Holders -> [msg : Msgs \cup {NoMsg}, queue : Queues]]
    /\ fate \in [Msgs -> Fates]
=============================================================================
