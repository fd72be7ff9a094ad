------------------------- MODULE AsyncRuntimeProofs -------------------------
(***************************************************************************)
(* AsyncRuntime for any number of threads, stacks and messages: types, the *)
(* ownership of stacks, the bound of the queues, what a closed channel     *)
(* means and where tasks with an affinity run.                             *)
(*                                                                         *)
(* Each theorem rests on one part of the invariant Inv.  StackPartition is *)
(* inductive with the types.  That the channel is closed only when nobody  *)
(* can send needs the count of senders to agree with the handles and       *)
(* pending dispatches to hold one.  That tasks run where they may needs    *)
(* the same of every place a message passes through: the dispatch that     *)
(* waits for room and the queues.                                          *)
(***************************************************************************)
EXTENDS AsyncRuntime, SequenceTheorems, FiniteSetTheorems, TLAPS

\* A pending dispatch borrows the handle, and the handle owns the sender.
SendersAgree ==
    /\ n_senders = 0 <=> holders = {}
    /\ \A h \in Holders : sending[h] # NotSending => h \in holders

\* The queues a message may be in.
Allowed(m) == {QueueOf(target) : target \in Targets(m)}

\* A message is sent to and waits in the queues it may be in.
QueueRouted ==
    /\ \A h \in Holders :
          sending[h].msg # NoMsg => sending[h].queue \in Allowed(sending[h].msg)
    /\ \A q \in Queues : \A i \in 1..Len(queue[q]) : q \in Allowed(queue[q][i])

\* A thread only runs messages that may run on it.
ThreadRouted ==
    \A t \in Threads :
        /\ \A i \in Stacks : running[t][i] # NoMsg => t \in EligibleThreads(running[t][i])
        /\ sync[t] # NoMsg => t \in EligibleThreads(sync[t])

\* No worker lives before the main thread has started.
BornTogether == pc[Main] = "start" => \A w \in Workers : pc[w] = "unborn"

\* The part of the invariant about the queues and the threads that send, and
\* the part about the threads that receive.
QueueInv == QueueTypeOK /\ SendersAgree /\ QueueBounded /\ QueueRouted

ThreadInv == RuntimeTypeOK /\ StackPartition /\ ThreadRouted /\ BornTogether

Inv == QueueInv /\ ThreadInv

----------------------------------------------------------------------------
\* A thread only reads queues whose messages it may run.
LEMMA ReadsOnlyEligible ==
    ASSUME NEW t \in Threads, NEW q \in RecvQueues(t), NEW m \in Msgs,
           q \in Allowed(m)
    PROVE  t \in EligibleThreads(m)
    BY QueueAssumption, RuntimeAssumption
       DEF Allowed, QueueOf, Targets, RecvQueues, EligibleThreads, MainQueues,
           WorkerQueues, Threads, Queues

\* Removing the first element.
LEMMA TailFacts ==
    ASSUME NEW S, NEW s \in Seq(S), s # <<>>
    PROVE  /\ Head(s) = s[1]
           /\ Head(s) \in S
           /\ Tail(s) \in Seq(S)
           /\ Len(Tail(s)) = Len(s) - 1
           /\ Len(s) \in Nat \ {0}
           /\ \A i \in 1..Len(Tail(s)) : i + 1 \in 1..Len(s) /\ Tail(s)[i] = s[i + 1]
    OBVIOUS

\* Adding an element at the end.
LEMMA AppendFacts ==
    ASSUME NEW S, NEW s \in Seq(S), NEW e \in S
    PROVE  /\ Append(s, e) \in Seq(S)
           /\ Len(Append(s, e)) = Len(s) + 1
           /\ Len(s) \in Nat
           /\ \A i \in 1..Len(s) : Append(s, e)[i] = s[i]
           /\ Append(s, e)[Len(s) + 1] = e
    OBVIOUS

\* The initial states satisfy the invariant.
LEMMA InitInv == Init => Inv
<1> SUFFICES ASSUME Init PROVE Inv
    OBVIOUS
<1> USE DEF Init, QueueInit
<1>1. RuntimeTypeOK
    <2>1. QueueTypeOK
        BY QueueAssumption, EmptySeq DEF QueueTypeOK, Fates, NotSending, Queues
    <2>2. pc \in [Threads -> Locations]
        BY DEF Locations
    <2>3. free \in [Threads -> Seq(Stacks)]
        BY RuntimeAssumption DEF Stacks
    <2>4. /\ running \in [Threads -> [Stacks -> Msgs \cup {NoMsg}]]
          /\ leaked \in [Threads -> SUBSET Stacks]
          /\ sync \in [Threads -> Msgs \cup {NoMsg}]
        OBVIOUS
    <2> QED
        BY <2>1, <2>2, <2>3, <2>4 DEF RuntimeTypeOK
<1>2. StackPartition
    <2> SUFFICES ASSUME NEW t \in Threads
                 PROVE  /\ \A i, j \in 1..Len(free[t]) : free[t][i] = free[t][j] => i = j
                        /\ {free[t][i] : i \in 1..Len(free[t])}
                              = {i \in Stacks : running[t][i] = NoMsg}
                        /\ pc[t] \notin {"recv", "park"}
        BY DEF StackPartition
    <2>1. free[t] = [i \in Stacks |-> i] /\ Len(free[t]) = N
        BY RuntimeAssumption DEF Stacks
    <2>2. running[t] = [i \in Stacks |-> NoMsg]
        OBVIOUS
    <2> QED
        BY <2>1, <2>2 DEF Stacks
<1>3. SendersAgree
    BY DEF SendersAgree
<1>4. QueueBounded
    BY QueueAssumption DEF QueueBounded
<1>5. QueueRouted /\ ThreadRouted
    BY DEF QueueRouted, ThreadRouted, NotSending
<1>6. BornTogether
    BY RuntimeAssumption DEF BornTogether, Threads
<1> QED
    BY <1>1, <1>2, <1>3, <1>4, <1>5, <1>6 DEF Inv, QueueInv, ThreadInv, RuntimeTypeOK

----------------------------------------------------------------------------
\* The steps of the threads that send.
LEMMA DispatchInv ==
    ASSUME NEW h \in Holders, NEW m \in Msgs, NEW target \in Queues
    PROVE  QueueInv /\ Dispatch(h, m, target) => QueueInv'
<1> SUFFICES ASSUME QueueInv, Dispatch(h, m, target) PROVE QueueInv'
    OBVIOUS
<1> USE DEF QueueInv, Dispatch
<1>1. QueueOf(target) \in Queues /\ QueueOf(target) \in Allowed(m)
    BY DEF QueueOf, Queues, Allowed
<1>2. QueueTypeOK'
    BY <1>1 DEF QueueTypeOK, Fates
<1>3. SendersAgree'
    BY <1>1 DEF SendersAgree, QueueTypeOK
<1>4. QueueBounded'
    BY DEF QueueBounded
<1>5. QueueRouted'
    BY <1>1 DEF QueueRouted, QueueTypeOK
<1> QED
    BY <1>2, <1>3, <1>4, <1>5

\* What adding a message that is allowed in a queue with room keeps.
LEMMA EnqueueInv ==
    ASSUME QueueTypeOK, QueueBounded, NEW q \in Queues, NEW m \in Msgs,
           HasRoom(q), queue' = [queue EXCEPT ![q] = Append(@, m)],
           capacity' = capacity, q \in Allowed(m),
           \A r \in Queues : \A i \in 1..Len(queue[r]) : r \in Allowed(queue[r][i])
    PROVE  /\ queue' \in [Queues -> Seq(Msgs)]
           /\ QueueBounded'
           /\ \A r \in Queues : \A i \in 1..Len(queue'[r]) : r \in Allowed(queue'[r][i])
<1>1. /\ queue[q] \in Seq(Msgs)
      /\ Append(queue[q], m) \in Seq(Msgs)
      /\ Len(Append(queue[q], m)) = Len(queue[q]) + 1
      /\ Len(queue[q]) \in Nat
      /\ capacity[q] \in Nat
      /\ \A i \in 1..Len(queue[q]) : Append(queue[q], m)[i] = queue[q][i]
      /\ Append(queue[q], m)[Len(queue[q]) + 1] = m
    BY AppendFacts DEF QueueTypeOK
<1>2. \A r \in Queues : queue'[r] = IF r = q THEN Append(queue[q], m) ELSE queue[r]
    BY DEF QueueTypeOK
<1>3. queue' \in [Queues -> Seq(Msgs)]
    BY <1>1 DEF QueueTypeOK
<1>4. QueueBounded'
    BY <1>1, <1>2 DEF QueueBounded, HasRoom
<1>5. ASSUME NEW r \in Queues, NEW i \in 1..Len(queue'[r])
      PROVE  r \in Allowed(queue'[r][i])
    <2>1. CASE r # q
        BY <1>2, <2>1
    <2>2. CASE r = q /\ i = Len(queue[q]) + 1
        BY <1>1, <1>2, <2>2
    <2>3. CASE r = q /\ i # Len(queue[q]) + 1
        <3>1. i \in 1..Len(queue[q])
            BY <1>1, <1>2, <2>3
        <3> QED
            BY <1>1, <1>2, <2>3, <3>1
    <2> QED
        BY <2>1, <2>2, <2>3
<1> QED
    BY <1>3, <1>4, <1>5

LEMMA PushInv ==
    ASSUME NEW h \in Holders
    PROVE  QueueInv /\ Push(h) => QueueInv'
<1> SUFFICES ASSUME QueueInv, Push(h) PROVE QueueInv'
    OBVIOUS
<1> USE DEF QueueInv, Push
<1> DEFINE m == sending[h].msg
           q == sending[h].queue
<1>1. m \in Msgs /\ q \in Queues /\ q \in Allowed(m)
    BY DEF QueueTypeOK, QueueRouted
<1>2. /\ queue' \in [Queues -> Seq(Msgs)]
      /\ QueueBounded'
      /\ \A r \in Queues : \A i \in 1..Len(queue'[r]) : r \in Allowed(queue'[r][i])
    BY <1>1, EnqueueInv DEF QueueRouted
<1>3. QueueTypeOK'
    BY <1>2 DEF QueueTypeOK, NotSending, Queues, Fates
<1>4. SendersAgree'
    BY DEF SendersAgree, QueueTypeOK
<1>5. QueueRouted'
    BY <1>2 DEF QueueRouted, QueueTypeOK, NotSending
<1> QED
    BY <1>2, <1>3, <1>4, <1>5

LEMMA CancelInv ==
    ASSUME NEW h \in Holders
    PROVE  QueueInv /\ CancelDispatch(h) => QueueInv'
<1> SUFFICES ASSUME QueueInv, CancelDispatch(h) PROVE QueueInv'
    OBVIOUS
<1> USE DEF QueueInv, CancelDispatch
<1>1. QueueTypeOK'
    BY DEF QueueTypeOK, NotSending, Queues, Fates
<1>2. SendersAgree' /\ QueueBounded' /\ QueueRouted'
    BY DEF SendersAgree, QueueBounded, QueueRouted, QueueTypeOK, NotSending
<1> QED
    BY <1>1, <1>2

LEMMA TryDispatchInv ==
    ASSUME NEW h \in Holders, NEW m \in Msgs, NEW target \in Queues
    PROVE  QueueInv /\ TryDispatch(h, m, target) => QueueInv'
<1> SUFFICES ASSUME QueueInv, TryDispatch(h, m, target) PROVE QueueInv'
    OBVIOUS
<1> USE DEF QueueInv, TryDispatch
<1>1. QueueOf(target) \in Queues /\ QueueOf(target) \in Allowed(m)
    BY DEF QueueOf, Queues, Allowed
<1>2. SendersAgree'
    BY DEF SendersAgree
<1>3. CASE HasRoom(QueueOf(target)) /\ queue' # queue
    <2>1. queue' = [queue EXCEPT ![QueueOf(target)] = Append(@, m)]
        BY <1>3
    <2>2. /\ queue' \in [Queues -> Seq(Msgs)]
          /\ QueueBounded'
          /\ \A r \in Queues : \A i \in 1..Len(queue'[r]) : r \in Allowed(queue'[r][i])
        BY <1>1, <1>3, <2>1, EnqueueInv DEF QueueRouted
    <2>3. QueueTypeOK'
        BY <2>2 DEF QueueTypeOK, Fates
    <2>4. QueueRouted'
        BY <2>2 DEF QueueRouted
    <2> QED
        BY <1>2, <2>2, <2>3, <2>4
<1>4. CASE queue' = queue
    <2>1. QueueTypeOK'
        BY <1>4 DEF QueueTypeOK, Fates
    <2>2. QueueBounded' /\ QueueRouted'
        BY <1>4 DEF QueueBounded, QueueRouted
    <2> QED
        BY <1>2, <2>1, <2>2
<1> QED
    BY <1>3, <1>4

LEMMA ResizeInv ==
    ASSUME NEW q \in Queues, NEW c \in Capacities
    PROVE  QueueInv /\ Resize(q, c) => QueueInv'
<1> SUFFICES ASSUME QueueInv, Resize(q, c) PROVE QueueInv'
    OBVIOUS
<1> USE DEF QueueInv, Resize
<1>1. c \in Nat
    BY QueueAssumption
<1>2. QueueTypeOK'
    BY <1>1 DEF QueueTypeOK
<1>3. QueueBounded'
    BY DEF QueueBounded, QueueTypeOK
<1>4. SendersAgree' /\ QueueRouted'
    BY DEF SendersAgree, QueueRouted
<1> QED
    BY <1>2, <1>3, <1>4

LEMMA ShareInv ==
    ASSUME NEW h \in Holders, NEW other \in Holders
    PROVE  QueueInv /\ ShareHandle(h, other) => QueueInv'
    BY DEF QueueInv, ShareHandle, QueueTypeOK, SendersAgree, QueueBounded, QueueRouted

\* The last share takes the sender with it.
LEMMA DropInv ==
    ASSUME NEW h \in Holders
    PROVE  QueueInv /\ DropHandle(h) => QueueInv'
<1> SUFFICES ASSUME QueueInv, DropHandle(h) PROVE QueueInv'
    OBVIOUS
<1> USE DEF QueueInv, DropHandle
<1>1. n_senders = 1
    BY DEF SendersAgree, QueueTypeOK
<1>2. QueueTypeOK'
    BY <1>1 DEF QueueTypeOK
<1>3. SendersAgree'
    BY <1>1 DEF SendersAgree
<1>4. QueueBounded' /\ QueueRouted'
    BY DEF QueueBounded, QueueRouted
<1> QED
    BY <1>2, <1>3, <1>4

LEMMA UserStepInv == Inv /\ UserStep /\ UNCHANGED threadVars => Inv'
<1> SUFFICES ASSUME Inv, UserStep, UNCHANGED threadVars PROVE Inv'
    OBVIOUS
<1>1. QueueInv'
    BY DispatchInv, TryDispatchInv, PushInv, CancelInv, DropInv, ShareInv, ResizeInv
       DEF Inv, UserStep
<1>2. ThreadInv'
    BY <1>1 DEF Inv, QueueInv, ThreadInv, RuntimeTypeOK, StackPartition, ThreadRouted,
               BornTogether, threadVars
<1> QED
    BY <1>1, <1>2 DEF Inv

----------------------------------------------------------------------------
\* Moving a thread that neither receives afterwards nor crashes.
LEMMA GotoInv ==
    ASSUME Inv, NEW t \in Threads, NEW loc \in Locations \ {"crashed", "start"},
           pc[t] \notin {"crashed", "unborn"},
           loc \in {"recv", "park"} => Len(free[t]) > 0,
           Goto(t, loc), UNCHANGED <<queueVars, free, running, leaked, sync>>
    PROVE  Inv'
<1>1. QueueInv'
    BY DEF Inv, QueueInv, QueueTypeOK, SendersAgree, QueueBounded, QueueRouted, queueVars
<1>2. RuntimeTypeOK'
    BY <1>1 DEF Inv, ThreadInv, QueueInv, RuntimeTypeOK, Goto
<1>3. StackPartition'
    BY DEF Inv, ThreadInv, RuntimeTypeOK, StackPartition, Goto
<1>4. ThreadRouted'
    BY DEF Inv, ThreadInv, ThreadRouted
<1>5. BornTogether'
    BY DEF Inv, ThreadInv, RuntimeTypeOK, BornTogether, Goto, Threads
<1> QED
    BY <1>1, <1>2, <1>3, <1>4, <1>5 DEF Inv, ThreadInv

LEMMA StartInv == Inv /\ Start => Inv'
<1> SUFFICES ASSUME Inv, Start PROVE Inv'
    OBVIOUS
<1>1. QueueInv'
    BY DEF Start, Inv, QueueInv, QueueTypeOK, SendersAgree, QueueBounded, QueueRouted, queueVars
<1>2. RuntimeTypeOK'
    BY <1>1 DEF Start, Inv, ThreadInv, QueueInv, RuntimeTypeOK, Locations
<1>3. StackPartition'
    <2>1. \A t \in Threads : pc[t] # "crashed" /\ pc'[t] = "loop"
        BY DEF Start, Inv, ThreadInv, BornTogether, Threads
    <2> QED
        BY <2>1 DEF Start, Inv, ThreadInv, StackPartition
<1>4. ThreadRouted'
    BY DEF Start, Inv, ThreadInv, ThreadRouted
<1>5. BornTogether'
    BY DEF Start, BornTogether, Threads
<1> QED
    BY <1>1, <1>2, <1>3, <1>4, <1>5 DEF Inv, ThreadInv

\* The steps of a loop that only move the thread.
LEMMA MoveInv ==
    ASSUME NEW t \in Threads
    PROVE  /\ Inv /\ Await(t) => Inv'
           /\ Inv /\ Timeout(t) => Inv'
           /\ Inv /\ ChannelClosed(t) => Inv'
           /\ Inv /\ Drained(t) => Inv'
<1>1. ASSUME Inv, Await(t) PROVE Inv'
    <2> DEFINE loc == IF t # Main /\ Len(free[t]) = N THEN "park" ELSE "recv"
    <2>1. loc \in Locations \ {"crashed", "start"} /\ Goto(t, loc)
        BY <1>1 DEF Await, Locations
    <2>2. pc[t] \notin {"crashed", "unborn"} /\ Len(free[t]) > 0
        BY <1>1 DEF Await
    <2>3. UNCHANGED <<queueVars, free, running, leaked, sync>>
        BY <1>1 DEF Await
    <2> QED
        BY <1>1, <2>1, <2>2, <2>3, GotoInv
<1>2. ASSUME Inv, Timeout(t) PROVE Inv'
    BY <1>2, GotoInv DEF Timeout, Locations
<1>3. ASSUME Inv, ChannelClosed(t) PROVE Inv'
    BY <1>3, GotoInv DEF ChannelClosed, Locations
<1>4. ASSUME Inv, Drained(t) PROVE Inv'
    <2> DEFINE loc == IF t = Main THEN "join" ELSE "exited"
    <2>1. loc \in Locations \ {"crashed", "start", "recv", "park"} /\ Goto(t, loc)
        BY <1>4 DEF Drained, Locations
    <2>2. pc[t] \notin {"crashed", "unborn"}
        BY <1>4 DEF Drained
    <2>3. UNCHANGED <<queueVars, free, running, leaked, sync>>
        BY <1>4 DEF Drained
    <2> QED
        BY <1>4, <2>1, <2>2, <2>3, GotoInv
<1> QED
    BY <1>1, <1>2, <1>3, <1>4

LEMMA MainMoveInv ==
    /\ Inv /\ FailToStart => Inv'
    /\ Inv /\ Joined => Inv'
<1>1. Main \in Threads
    BY DEF Threads
<1>2. ASSUME Inv, FailToStart PROVE Inv'
    BY <1>1, <1>2, GotoInv DEF FailToStart, Locations
<1>3. ASSUME Inv, Joined PROVE Inv'
    BY <1>1, <1>3, GotoInv DEF Joined, Locations
<1> QED
    BY <1>2, <1>3

----------------------------------------------------------------------------
\* Taking a message from a queue.
LEMMA DequeueInv ==
    ASSUME QueueInv, NEW q \in Queues, queue[q] # <<>>,
           queue' = [queue EXCEPT ![q] = Tail(@)],
           fate' \in [Msgs -> Fates],
           UNCHANGED <<capacity, n_senders, holders, sending>>
    PROVE  QueueInv' /\ Head(queue[q]) \in Msgs /\ q \in Allowed(Head(queue[q]))
<1> USE DEF QueueInv
<1>1. /\ queue[q] \in Seq(Msgs)
      /\ Head(queue[q]) = queue[q][1]
      /\ Head(queue[q]) \in Msgs
      /\ Tail(queue[q]) \in Seq(Msgs)
      /\ Len(Tail(queue[q])) = Len(queue[q]) - 1
      /\ Len(queue[q]) \in Nat \ {0}
      /\ \A i \in 1..Len(Tail(queue[q])) :
            i + 1 \in 1..Len(queue[q]) /\ Tail(queue[q])[i] = queue[q][i + 1]
    BY TailFacts DEF QueueTypeOK
<1>2. \A r \in Queues : queue'[r] = IF r = q THEN Tail(queue[q]) ELSE queue[r]
    BY DEF QueueTypeOK
<1>3. QueueTypeOK'
    BY <1>1 DEF QueueTypeOK
<1>4. QueueBounded'
    <2> SUFFICES ASSUME NEW r \in Queues PROVE Len(queue'[r]) <= capacity'[r]
        BY DEF QueueBounded
    <2>1. Len(queue[r]) <= capacity[r] /\ capacity[r] \in Nat /\ capacity' = capacity
        BY DEF QueueBounded, QueueTypeOK
    <2> QED
        BY <1>1, <1>2, <2>1
<1>5. ASSUME NEW r \in Queues, NEW i \in 1..Len(queue'[r])
      PROVE  r \in Allowed(queue'[r][i])
    <2>1. CASE r # q
        BY <1>2, <2>1 DEF QueueRouted
    <2>2. CASE r = q
        <3>1. i \in 1..Len(Tail(queue[q])) /\ queue'[r][i] = queue[q][i + 1]
            BY <1>1, <1>2, <2>2
        <3> QED
            BY <1>1, <2>2, <3>1 DEF QueueRouted
    <2> QED
        BY <2>1, <2>2
<1>6. QueueRouted'
    <2>1. \A h \in Holders : sending'[h].msg # NoMsg =>
             sending'[h].queue \in Allowed(sending'[h].msg)
        BY DEF QueueRouted
    <2> QED
        BY <1>5, <2>1 DEF QueueRouted
<1>7. SendersAgree'
    BY DEF SendersAgree
<1>8. 1 \in 1..Len(queue[q])
    BY <1>1
<1>9. q \in Allowed(Head(queue[q]))
    BY <1>1, <1>8 DEF QueueRouted
<1> QED
    BY <1>1, <1>3, <1>4, <1>6, <1>7, <1>9

----------------------------------------------------------------------------
\* A deque of free stacks: its indices, and that it holds each of them once.
Elements(s) == {s[i] : i \in 1..Len(s)}
NoRepeats(s) == \A i, j \in 1..Len(s) : s[i] = s[j] => i = j

LEMMA PopFront ==
    ASSUME NEW S, NEW s \in Seq(S), s # <<>>, NoRepeats(s)
    PROVE  /\ NoRepeats(Tail(s))
           /\ Elements(Tail(s)) = Elements(s) \ {Head(s)}
           /\ Head(s) \in Elements(s)
<1>1. /\ Head(s) = s[1]
      /\ Len(Tail(s)) = Len(s) - 1
      /\ Len(s) \in Nat \ {0}
      /\ \A i \in 1..Len(Tail(s)) : i + 1 \in 1..Len(s) /\ Tail(s)[i] = s[i + 1]
    BY TailFacts
<1>2. NoRepeats(Tail(s))
    BY <1>1 DEF NoRepeats
<1>3. Elements(Tail(s)) \subseteq Elements(s) \ {Head(s)}
    <2> SUFFICES ASSUME NEW i \in 1..Len(Tail(s))
                 PROVE  Tail(s)[i] \in Elements(s) /\ Tail(s)[i] # Head(s)
        BY DEF Elements
    <2>1. i + 1 \in 1..Len(s) /\ 1 \in 1..Len(s) /\ i + 1 # 1
        BY <1>1
    <2> QED
        BY <1>1, <2>1 DEF Elements, NoRepeats
<1>4. Elements(s) \ {Head(s)} \subseteq Elements(Tail(s))
    <2> SUFFICES ASSUME NEW j \in 1..Len(s), s[j] # Head(s)
                 PROVE  s[j] \in Elements(Tail(s))
        BY DEF Elements
    <2>1. j # 1
        BY <1>1
    <2>2. j - 1 \in 1..Len(Tail(s)) /\ (j - 1) + 1 = j
        BY <1>1, <2>1
    <2> QED
        BY <1>1, <2>2 DEF Elements
<1>5. Head(s) \in Elements(s)
    <2>1. 1 \in 1..Len(s)
        BY <1>1
    <2> QED
        BY <1>1, <2>1 DEF Elements
<1> QED
    BY <1>2, <1>3, <1>4, <1>5

LEMMA PushBack ==
    ASSUME NEW S, NEW s \in Seq(S), NEW e \in S, NoRepeats(s), e \notin Elements(s)
    PROVE  /\ NoRepeats(Append(s, e))
           /\ Elements(Append(s, e)) = Elements(s) \cup {e}
<1>1. /\ Len(Append(s, e)) = Len(s) + 1
      /\ Len(s) \in Nat
      /\ \A i \in 1..Len(s) : Append(s, e)[i] = s[i]
      /\ Append(s, e)[Len(s) + 1] = e
    BY AppendFacts
<1>2. 1..Len(Append(s, e)) = (1..Len(s)) \cup {Len(s) + 1}
    BY <1>1
<1>3. \A i \in 1..Len(s) : s[i] # e
    BY DEF Elements
<1>4. NoRepeats(Append(s, e))
    BY <1>1, <1>2, <1>3 DEF NoRepeats
<1>5. Elements(Append(s, e)) = Elements(s) \cup {e}
    BY <1>1, <1>2 DEF Elements
<1> QED
    BY <1>4, <1>5

\* StackPartition for one thread.
PartitionOf(t) ==
    /\ NoRepeats(free[t])
    /\ pc[t] # "crashed" => Elements(free[t]) = {i \in Stacks : running[t][i] = NoMsg}
    /\ pc[t] \in {"recv", "park"} => Len(free[t]) > 0

LEMMA PartitionByThread == StackPartition <=> \A t \in Threads : PartitionOf(t)
    BY DEF StackPartition, PartitionOf, NoRepeats, Elements

\* What the loop does with a message it received.
LEMMA HandleInv ==
    ASSUME Inv, NEW t \in Threads, NEW q \in RecvQueues(t), queue[q] # <<>>,
           Len(free[t]) > 0, pc[t] \notin {"crashed", "unborn"},
           Handle(t, q, Head(queue[q]))
    PROVE  Inv'
<1> DEFINE m == Head(queue[q])
<1>1. q \in Queues
    BY DEF RecvQueues, MainQueues, WorkerQueues, Queues
<1>2. fate' \in [Msgs -> Fates]
    BY DEF Handle, Inv, QueueInv, QueueTypeOK, Fates
<1>3. QueueInv' /\ m \in Msgs /\ q \in Allowed(m)
    BY <1>1, <1>2, DequeueInv DEF Handle, Inv
<1>4. t \in EligibleThreads(m) /\ m # NoMsg
    BY <1>3, ReadsOnlyEligible, QueueAssumption
<1>5. BornTogether'
    BY DEF Handle, Goto, Inv, ThreadInv, RuntimeTypeOK, BornTogether, Threads
<1>6. CASE Kind[m] = "blocking"
    <2>1. /\ sync' = [sync EXCEPT ![t] = m]
          /\ pc' = [pc EXCEPT ![t] = "sync"]
          /\ UNCHANGED <<free, running, leaked>>
        BY <1>6 DEF Handle, Goto
    <2>2. RuntimeTypeOK'
        BY <1>3, <2>1 DEF Inv, ThreadInv, QueueInv, RuntimeTypeOK, Locations
    <2>3. StackPartition'
        BY <2>1 DEF Inv, ThreadInv, RuntimeTypeOK, StackPartition
    <2>4. ThreadRouted'
        BY <1>4, <2>1 DEF Inv, ThreadInv, RuntimeTypeOK, ThreadRouted, EligibleThreads
    <2> QED
        BY <1>3, <1>5, <2>2, <2>3, <2>4 DEF Inv, ThreadInv
<1>7. CASE Kind[m] # "blocking"
    <2> DEFINE s == Head(free[t])
    <2>1. /\ running' = [running EXCEPT ![t][s] = m]
          /\ free' = [free EXCEPT ![t] = Tail(@)]
          /\ pc' = [pc EXCEPT ![t] = "loop"]
          /\ UNCHANGED <<sync, leaked>>
        BY <1>7 DEF Handle, Goto
    <2>2. free[t] \in Seq(Stacks) /\ free[t] # <<>> /\ NoRepeats(free[t])
        BY PartitionByThread DEF Inv, ThreadInv, RuntimeTypeOK, PartitionOf
    <2>3. /\ NoRepeats(Tail(free[t]))
          /\ Elements(Tail(free[t])) = Elements(free[t]) \ {s}
          /\ s \in Elements(free[t])
        BY <2>2, PopFront
    <2>4. s \in Stacks /\ Tail(free[t]) \in Seq(Stacks)
        BY <2>2, TailFacts
    <2>5. RuntimeTypeOK'
        BY <1>3, <2>1, <2>4 DEF Inv, ThreadInv, QueueInv, RuntimeTypeOK, Locations
    <2>6. \A u \in Threads :
             /\ u # t => running'[u] = running[u] /\ free'[u] = free[u] /\ pc'[u] = pc[u]
             /\ running'[t] = [running[t] EXCEPT ![s] = m]
             /\ free'[t] = Tail(free[t])
             /\ pc'[t] = "loop"
        BY <2>1 DEF Inv, ThreadInv, RuntimeTypeOK
    <2>7. running[t] \in [Stacks -> Msgs \cup {NoMsg}]
        BY DEF Inv, ThreadInv, RuntimeTypeOK
    <2>8. PartitionOf(t)'
        <3>1. Elements(free[t]) = {i \in Stacks : running[t][i] = NoMsg}
            BY PartitionByThread DEF Inv, ThreadInv, PartitionOf
        <3>2. {i \in Stacks : running'[t][i] = NoMsg}
                = {i \in Stacks : running[t][i] = NoMsg} \ {s}
            BY <1>4, <2>4, <2>6, <2>7
        <3>3. free'[t] = Tail(free[t]) /\ pc'[t] = "loop"
            BY <2>6
        <3> QED
            BY <2>3, <3>1, <3>2, <3>3 DEF PartitionOf
    <2>9. ASSUME NEW u \in Threads, u # t PROVE PartitionOf(u)'
        <3>1. PartitionOf(u)
            BY PartitionByThread DEF Inv, ThreadInv
        <3>2. running'[u] = running[u] /\ free'[u] = free[u] /\ pc'[u] = pc[u]
            BY <2>6, <2>9
        <3> QED
            BY <3>1, <3>2 DEF PartitionOf
    <2>10. StackPartition'
        <3>1. \A u \in Threads : PartitionOf(u)'
            BY <2>8, <2>9
        <3> QED
            BY <3>1 DEF StackPartition, PartitionOf, NoRepeats, Elements
    <2>11. ThreadRouted'
        BY <1>4, <2>1, <2>4, <2>7 DEF Inv, ThreadInv, RuntimeTypeOK, ThreadRouted,
                                      EligibleThreads
    <2> QED
        BY <1>3, <1>5, <2>5, <2>10, <2>11 DEF Inv, ThreadInv
<1> QED
    BY <1>6, <1>7

LEMMA ReceiveInv ==
    ASSUME NEW t \in Threads, NEW q \in Queues
    PROVE  /\ Inv /\ Recv(t, q) => Inv'
           /\ Inv /\ RecvClosing(t, q) => Inv'
<1>1. ASSUME Inv, Recv(t, q) PROVE Inv'
    <2>1. q \in RecvQueues(t) /\ queue[q] # <<>> /\ Handle(t, q, Head(queue[q]))
        BY <1>1 DEF Recv
    <2>2. Len(free[t]) > 0 /\ pc[t] \notin {"crashed", "unborn"}
        BY <1>1 DEF Recv, Inv, ThreadInv, StackPartition
    <2> QED
        BY <1>1, <2>1, <2>2, HandleInv
<1>2. ASSUME Inv, RecvClosing(t, q) PROVE Inv'
    BY <1>2, HandleInv DEF RecvClosing
<1> QED
    BY <1>1, <1>2

----------------------------------------------------------------------------
\* The queues do not change when only fates do.
LEMMA FateInv ==
    ASSUME QueueInv, fate' \in [Msgs -> Fates],
           UNCHANGED <<queue, capacity, n_senders, holders, sending>>
    PROVE  QueueInv'
    BY DEF QueueInv, QueueTypeOK, SendersAgree, QueueBounded, QueueRouted

LEMMA BlockingInv ==
    ASSUME NEW t \in Threads
    PROVE  /\ Inv /\ BlockingReturns(t) => Inv'
           /\ Inv /\ BlockingPanics(t) => Inv'
<1>1. ASSUME Inv, BlockingReturns(t) PROVE Inv'
    <2> USE <1>1 DEF BlockingReturns, Goto
    <2>1. QueueInv'
        <3>1. fate' \in [Msgs -> Fates]
            BY DEF Inv, QueueInv, QueueTypeOK, Fates
        <3> QED
            BY <3>1, FateInv DEF Inv
    <2>2. RuntimeTypeOK'
        BY <2>1 DEF Inv, ThreadInv, QueueInv, RuntimeTypeOK, Locations
    <2>3. StackPartition'
        BY DEF Inv, ThreadInv, RuntimeTypeOK, StackPartition
    <2>4. ThreadRouted'
        BY DEF Inv, ThreadInv, RuntimeTypeOK, ThreadRouted, EligibleThreads
    <2>5. BornTogether'
        BY DEF Inv, ThreadInv, RuntimeTypeOK, BornTogether, Threads
    <2> QED
        BY <2>1, <2>2, <2>3, <2>4, <2>5 DEF Inv, ThreadInv
<1>2. ASSUME Inv, BlockingPanics(t) PROVE Inv'
    <2> USE <1>2 DEF BlockingPanics, Goto
    <2>1. QueueInv'
        <3>1. fate' \in [Msgs -> Fates]
            BY DEF Inv, QueueInv, QueueTypeOK, Fates
        <3> QED
            BY <3>1, FateInv DEF Inv
    <2>2. RuntimeTypeOK'
        BY <2>1 DEF Inv, ThreadInv, QueueInv, RuntimeTypeOK, Locations
    <2>3. StackPartition'
        <3> SUFFICES ASSUME NEW u \in Threads PROVE PartitionOf(u)'
            BY DEF StackPartition, PartitionOf, NoRepeats, Elements
        <3>1. PartitionOf(u) /\ free'[u] = free[u]
            BY PartitionByThread DEF Inv, ThreadInv
        <3>2. CASE u = t
            <4>1. pc'[u] = "crashed"
                BY <3>2 DEF Inv, ThreadInv, RuntimeTypeOK
            <4> QED
                BY <3>1, <4>1 DEF PartitionOf, NoRepeats
        <3>3. CASE u # t
            <4>1. pc'[u] = pc[u] /\ running'[u] = running[u]
                BY <3>3 DEF Inv, ThreadInv, RuntimeTypeOK
            <4> QED
                BY <3>1, <4>1 DEF PartitionOf, NoRepeats, Elements
        <3> QED
            BY <3>2, <3>3
    <2>4. ThreadRouted'
        BY DEF Inv, ThreadInv, RuntimeTypeOK, ThreadRouted, EligibleThreads
    <2>5. BornTogether'
        BY DEF Inv, ThreadInv, RuntimeTypeOK, BornTogether, Threads
    <2> QED
        BY <2>1, <2>2, <2>3, <2>4, <2>5 DEF Inv, ThreadInv
<1> QED
    BY <1>1, <1>2

\* A task that answers or panics leaves the stacks of its thread as they are.
LEMMA TaskFateInv ==
    ASSUME NEW t \in Threads, NEW i \in Stacks
    PROVE  /\ Inv /\ PostedAnswers(t, i) => Inv'
           /\ Inv /\ TaskPanics(t, i) => Inv'
<1>1. ASSUME Inv, PostedAnswers(t, i) PROVE Inv'
    <2> USE <1>1 DEF PostedAnswers
    <2>1. QueueInv'
        <3>1. fate' \in [Msgs -> Fates]
            BY DEF Inv, QueueInv, QueueTypeOK, Fates
        <3> QED
            BY <3>1, FateInv DEF Inv
    <2>2. ThreadInv'
        BY <2>1 DEF Inv, ThreadInv, QueueInv, RuntimeTypeOK, StackPartition,
                    ThreadRouted, BornTogether, threadVars
    <2> QED
        BY <2>1, <2>2 DEF Inv
<1>2. ASSUME Inv, TaskPanics(t, i) PROVE Inv'
    <2> USE <1>2 DEF TaskPanics
    <2>1. QueueInv'
        <3>1. fate' \in [Msgs -> Fates]
            BY DEF Inv, QueueInv, QueueTypeOK, Fates
        <3> QED
            BY <3>1, FateInv DEF Inv
    <2>2. RuntimeTypeOK'
        BY <2>1 DEF Inv, ThreadInv, QueueInv, RuntimeTypeOK
    <2>3. StackPartition' /\ ThreadRouted' /\ BornTogether'
        BY DEF Inv, ThreadInv, StackPartition, ThreadRouted, BornTogether
    <2> QED
        BY <2>1, <2>2, <2>3 DEF Inv, ThreadInv
<1> QED
    BY <1>1, <1>2

\* A task that completes gives its stack back.
LEMMA TaskCompletesInv ==
    ASSUME NEW t \in Threads, NEW i \in Stacks
    PROVE  Inv /\ TaskCompletes(t, i) => Inv'
<1> SUFFICES ASSUME Inv, TaskCompletes(t, i) PROVE Inv'
    OBVIOUS
<1>1. /\ running' = [running EXCEPT ![t][i] = NoMsg]
      /\ free' = [free EXCEPT ![t] = Append(@, i)]
      /\ running[t][i] # NoMsg
      /\ pc[t] # "crashed"
      /\ UNCHANGED <<queue, capacity, n_senders, holders, sending, pc, leaked, sync>>
    BY DEF TaskCompletes, AtAwait
<1>2. QueueInv'
    <2>1. fate' \in [Msgs -> Fates]
        BY DEF TaskCompletes, Inv, QueueInv, QueueTypeOK, Fates
    <2> QED
        BY <1>1, <2>1, FateInv DEF Inv
<1>3. /\ free[t] \in Seq(Stacks)
      /\ NoRepeats(free[t])
      /\ Elements(free[t]) = {j \in Stacks : running[t][j] = NoMsg}
      /\ running[t] \in [Stacks -> Msgs \cup {NoMsg}]
    BY <1>1, PartitionByThread DEF Inv, ThreadInv, RuntimeTypeOK, PartitionOf
<1>4. i \notin Elements(free[t])
    BY <1>1, <1>3
<1>5. /\ NoRepeats(Append(free[t], i))
      /\ Elements(Append(free[t], i)) = Elements(free[t]) \cup {i}
      /\ Append(free[t], i) \in Seq(Stacks)
      /\ Len(Append(free[t], i)) > 0
    <2>1. /\ NoRepeats(Append(free[t], i))
          /\ Elements(Append(free[t], i)) = Elements(free[t]) \cup {i}
        BY <1>3, <1>4, PushBack
    <2>2. /\ Append(free[t], i) \in Seq(Stacks)
          /\ Len(Append(free[t], i)) = Len(free[t]) + 1
          /\ Len(free[t]) \in Nat
        BY <1>3, AppendFacts
    <2> QED
        BY <2>1, <2>2
<1>6. RuntimeTypeOK'
    BY <1>1, <1>2, <1>5 DEF Inv, ThreadInv, QueueInv, RuntimeTypeOK
<1>7. /\ running'[t] = [running[t] EXCEPT ![i] = NoMsg]
      /\ free'[t] = Append(free[t], i)
      /\ \A u \in Threads \ {t} : running'[u] = running[u] /\ free'[u] = free[u]
    BY <1>1 DEF Inv, ThreadInv, RuntimeTypeOK
<1>8. PartitionOf(t)'
    <2>1. {j \in Stacks : running'[t][j] = NoMsg}
             = {j \in Stacks : running[t][j] = NoMsg} \cup {i}
        BY <1>3, <1>7
    <2> QED
        BY <1>3, <1>5, <1>7, <2>1 DEF PartitionOf
<1>9. ASSUME NEW u \in Threads \ {t} PROVE PartitionOf(u)'
    <2>1. PartitionOf(u)
        BY PartitionByThread DEF Inv, ThreadInv
    <2>2. running'[u] = running[u] /\ free'[u] = free[u] /\ pc'[u] = pc[u]
        BY <1>1, <1>7
    <2> QED
        BY <2>1, <2>2 DEF PartitionOf
<1>10. StackPartition'
    <2>1. \A u \in Threads : PartitionOf(u)'
        BY <1>8, <1>9
    <2> QED
        BY <2>1 DEF StackPartition, PartitionOf, NoRepeats, Elements
<1>11. ThreadRouted'
    BY <1>1 DEF Inv, ThreadInv, RuntimeTypeOK, ThreadRouted, EligibleThreads
<1>12. BornTogether'
    BY <1>1 DEF Inv, ThreadInv, BornTogether
<1> QED
    BY <1>2, <1>6, <1>10, <1>11, <1>12 DEF Inv, ThreadInv

----------------------------------------------------------------------------
\* Every step preserves the invariant.
LEMMA NextInv == Inv /\ [Next]_vars => Inv'
<1> SUFFICES ASSUME Inv, [Next]_vars PROVE Inv'
    OBVIOUS
<1>1. CASE UserStep /\ UNCHANGED threadVars
    BY <1>1, UserStepInv
<1>2. CASE Start \/ FailToStart \/ Joined
    BY <1>2, StartInv, MainMoveInv
<1>3. CASE \E t \in Threads : LoopStep(t)
    BY <1>3, MoveInv, ReceiveInv DEF LoopStep
<1>4. CASE \E t \in Threads : BlockingReturns(t) \/ BlockingPanics(t)
    BY <1>4, BlockingInv
<1>5. CASE \E t \in Threads : \E i \in Stacks : TaskStep(t, i) \/ TaskPanics(t, i)
    BY <1>5, TaskFateInv, TaskCompletesInv DEF TaskStep
<1>6. CASE UNCHANGED vars
    BY <1>6 DEF vars, queueVars, threadVars, Inv, QueueInv, ThreadInv, QueueTypeOK,
                SendersAgree, QueueBounded, QueueRouted, RuntimeTypeOK,
                StackPartition, ThreadRouted, BornTogether
<1>7. CASE Ended
    BY <1>6, <1>7 DEF Ended
<1> QED
    BY <1>1, <1>2, <1>3, <1>4, <1>5, <1>6, <1>7 DEF Next

LEMMA InvAlways == Spec => []Inv
    BY InitInv, NextInv, PTL DEF Spec

\* Every variable of the runtime has its type in every reachable state.
THEOREM RuntimeTyped == Spec => []RuntimeTypeOK
<1>1. Inv => RuntimeTypeOK
    BY DEF Inv, ThreadInv
<1> QED
    BY <1>1, InvAlways, PTL

\* No stack is shared or lost, for any number of threads, stacks and tasks.
THEOREM StacksPartitioned == Spec => []StackPartition
<1>1. Inv => StackPartition
    BY DEF Inv, ThreadInv
<1> QED
    BY <1>1, InvAlways, PTL

\* A queue never holds more than its capacity, however it is resized.
THEOREM QueuesBounded == Spec => []QueueBounded
<1>1. Inv => QueueBounded
    BY DEF Inv, QueueInv
<1> QED
    BY <1>1, InvAlways, PTL

\* When the channel counts as closed, nobody can or is about to send.
THEOREM ClosedMeansNoSenders == Spec => []ClosedIsFinal
<1>1. Inv => ClosedIsFinal
    BY DEF Inv, QueueInv, SendersAgree, ClosedIsFinal
<1> QED
    BY <1>1, InvAlways, PTL

\* A task runs on a thread its affinity allows.
THEOREM TasksRunWhereTheyMay == Spec => []AffinityRespected
<1>1. Inv => AffinityRespected
    BY DEF Inv, ThreadInv, ThreadRouted, AffinityRespected, TasksOf
<1> QED
    BY <1>1, InvAlways, PTL

\* The stacks of the threads are neither lost nor shared, and the deques hold
\* indices only.
THEOREM RuntimeIsOK == Spec => []RuntimeOK
<1>1. RuntimeTypeOK /\ StackPartition => RuntimeOK
    BY DEF RuntimeOK
<1> QED
    BY <1>1, RuntimeTyped, StacksPartitioned, PTL

\* The channel is bounded however it is resized, and closed for good.
THEOREM ChannelIsSound == Spec => []ChannelSound
<1>1. QueueBounded /\ ClosedIsFinal => ChannelSound
    BY DEF ChannelSound
<1> QED
    BY <1>1, QueuesBounded, ClosedMeansNoSenders, PTL

----------------------------------------------------------------------------
(***************************************************************************)
(* No message of the runtime is lost or handled twice.                     *)
(*                                                                         *)
(* The invariant says of each place a message passes through, a dispatch   *)
(* that waits, a queue, a stack and the blocking task of a thread, that it *)
(* agrees with the message's fate and shares no message with another one.  *)
(* It needs the stacks of Inv: a message that is received must not         *)
(* overwrite a task that runs.                                             *)
(*                                                                         *)
(* From the places follow the two claims about the end, that a thread      *)
(* which waits without a timeout has nothing to run and that a thread      *)
(* which leaves its loop leaves nothing behind, and that the runtime       *)
(* implements TaskPool.                                                    *)
(***************************************************************************)
\* The messages that count as being sent are those of the pending dispatches,
\* each of them once.
SentOnce ==
    /\ \A h \in Holders : sending[h].msg # NoMsg => fate[sending[h].msg] = "sending"
    /\ \A g, h \in Holders :
          sending[g].msg # NoMsg /\ sending[g].msg = sending[h].msg => g = h
    /\ \A m \in Msgs : fate[m] = "sending" => \E h \in Holders : sending[h].msg = m

\* The messages that count as queued are in the queues, each of them once.
QueuedOnce ==
    /\ \A q \in Queues : NoRepeats(queue[q])
    /\ \A q, r \in Queues : q # r => Elements(queue[q]) \cap Elements(queue[r]) = {}
    /\ \A q \in Queues : \A m \in Elements(queue[q]) : fate[m] = "queued"
    /\ \A m \in Msgs : fate[m] = "queued" => \E q \in Queues : m \in Elements(queue[q])

\* The fate of a message on a stack, and of a blocking one.
StackFate(t, i) ==
    running[t][i] # NoMsg =>
        /\ Kind[running[t][i]] # "blocking"
        /\ fate[running[t][i]] \in IF i \in leaked[t] THEN {"panicked"}
                                   ELSE {"running", "answered"}
SyncFate(t) ==
    sync[t] # NoMsg => fate[sync[t]] = "running" /\ Kind[sync[t]] = "blocking"

\* The messages that count as running are on the threads, each of them once.
RunOnce ==
    /\ \A t, u \in Threads : \A i, j \in Stacks :
          running[t][i] # NoMsg /\ running[t][i] = running[u][j] => t = u /\ i = j
    /\ \A t, u \in Threads : sync[t] # NoMsg /\ sync[t] = sync[u] => t = u
    /\ \A t \in Threads : SyncFate(t)
    /\ \A t \in Threads : \A i \in Stacks : StackFate(t, i)
    /\ \A m \in Msgs :
          fate[m] \in {"running", "answered"} => \E t \in Threads : m \in TasksOf(t)

\* A thread has a blocking task only while it executes it, and the stacks of
\* tasks that panicked stay in use.
Occupation ==
    \A t \in Threads :
        /\ pc[t] # "sync" => sync[t] = NoMsg
        /\ pc[t] # "crashed" => \A i \in leaked[t] : running[t][i] # NoMsg

SendInv == SentOnce /\ QueuedOnce

RunInv == RunOnce /\ Occupation

MsgInv == SendInv /\ RunInv

----------------------------------------------------------------------------
\* The invariant is what the property needs, and more.
LEMMA MsgInvImplies == MsgInv => MessagesAccounted
<1> SUFFICES ASSUME MsgInv PROVE OneOwner /\ NoMessageLost
    BY DEF MessagesAccounted
<1>1. ASSUME NEW q \in Queues, NEW r \in Queues,
             NEW i \in 1..Len(queue[q]), NEW j \in 1..Len(queue[r]),
             queue[q][i] = queue[r][j]
      PROVE  q = r /\ i = j
    <2>1. queue[q][i] \in Elements(queue[q]) /\ queue[r][j] \in Elements(queue[r])
        BY DEF Elements
    <2>2. q = r
        BY <1>1, <2>1 DEF MsgInv, SendInv, QueuedOnce
    <2>3. NoRepeats(queue[q])
        BY DEF MsgInv, SendInv, QueuedOnce
    <2> QED
        BY <1>1, <2>2, <2>3 DEF NoRepeats
<1>2. \A q \in Queues : \A i \in 1..Len(queue[q]) : fate[queue[q][i]] = "queued"
    BY DEF MsgInv, SendInv, QueuedOnce, Elements
<1>3. OneOwner
    BY <1>1, <1>2 DEF OneOwner, MsgInv, RunInv, RunOnce, SyncFate, StackFate
<1>4. NoMessageLost
    BY DEF NoMessageLost, MsgInv, SendInv, QueuedOnce, RunInv, RunOnce, InQueue, Elements
<1> QED
    BY <1>3, <1>4

\* Nothing has been sent.
LEMMA InitMsgInv == Init => MsgInv
<1> SUFFICES ASSUME Init PROVE MsgInv
    OBVIOUS
<1> USE DEF Init, QueueInit
<1>1. \A q \in Queues : Elements(queue[q]) = {} /\ NoRepeats(queue[q])
    BY DEF Elements, NoRepeats
<1>2. SendInv
    BY <1>1 DEF SendInv, SentOnce, QueuedOnce, NotSending
<1>3. RunInv
    BY DEF RunInv, RunOnce, Occupation, SyncFate, StackFate
<1> QED
    BY <1>2, <1>3 DEF MsgInv

----------------------------------------------------------------------------
\* A step of a thread that sends only changes messages no thread has, and
\* gives none to a thread.
LEMMA ThreadsUnaware ==
    ASSUME RuntimeTypeOK, RunInv, UNCHANGED threadVars,
           \A m \in Msgs : fate'[m] # fate[m] =>
               /\ fate[m] \notin {"running", "answered", "panicked"}
               /\ fate'[m] \notin {"running", "answered"}
    PROVE  RunInv'
<1>1. UNCHANGED <<pc, running, leaked, sync>>
    BY DEF threadVars
<1>2. ASSUME NEW t \in Threads PROVE SyncFate(t)'
    BY <1>1 DEF RunInv, RunOnce, SyncFate, RuntimeTypeOK
<1>3. ASSUME NEW t \in Threads, NEW i \in Stacks PROVE StackFate(t, i)'
    <2>1. StackFate(t, i) /\ running[t][i] \in Msgs \cup {NoMsg}
        BY DEF RunInv, RunOnce, RuntimeTypeOK
    <2> QED
        BY <1>1, <2>1 DEF StackFate
<1>4. ASSUME NEW m \in Msgs, fate'[m] \in {"running", "answered"}
      PROVE  \E t \in Threads : m \in TasksOf(t)'
    <2>1. PICK t \in Threads : m \in TasksOf(t)
        BY <1>4 DEF RunInv, RunOnce
    <2> QED
        BY <1>1, <2>1 DEF TasksOf
<1>5. RunOnce'
    BY <1>1, <1>2, <1>3, <1>4 DEF RunInv, RunOnce
<1>6. Occupation'
    BY <1>1 DEF RunInv, Occupation
<1> QED
    BY <1>5, <1>6 DEF RunInv

\* A step that neither starts nor ends a dispatch.
LEMMA SentUnaware ==
    ASSUME QueueTypeOK, SentOnce, UNCHANGED sending,
           \A m \in Msgs : fate'[m] = "sending" <=> fate[m] = "sending"
    PROVE  SentOnce'
<1>1. ASSUME NEW h \in Holders, sending[h].msg # NoMsg
      PROVE  fate'[sending[h].msg] = "sending"
    BY <1>1 DEF QueueTypeOK, SentOnce
<1> QED
    BY <1>1 DEF SentOnce

\* A step that neither adds to a queue nor takes from it.
LEMMA QueuedUnaware ==
    ASSUME QueueTypeOK, QueuedOnce, UNCHANGED queue,
           \A m \in Msgs : fate'[m] = "queued" <=> fate[m] = "queued"
    PROVE  QueuedOnce'
<1>1. \A q \in Queues : Elements(queue[q]) \subseteq Msgs
    BY DEF QueueTypeOK, Elements
<1>2. \A q \in Queues : /\ NoRepeats(queue[q])' <=> NoRepeats(queue[q])
                        /\ Elements(queue[q])' = Elements(queue[q])
    BY DEF NoRepeats, Elements
<1> QED
    BY <1>1, <1>2 DEF QueuedOnce

\* A step that leaves the queues and the senders alone.
LEMMA SendersUnaware ==
    ASSUME QueueTypeOK, SendInv, UNCHANGED <<queue, sending>>,
           \A m \in Msgs : fate'[m] # fate[m] =>
               /\ fate[m] \notin {"sending", "queued"}
               /\ fate'[m] \notin {"sending", "queued"}
    PROVE  SendInv'
<1>1. \A m \in Msgs : /\ fate'[m] = "sending" <=> fate[m] = "sending"
                    /\ fate'[m] = "queued" <=> fate[m] = "queued"
    OBVIOUS
<1> QED
    BY <1>1, SentUnaware, QueuedUnaware DEF SendInv

\* A message that is nowhere yet enters a queue.
LEMMA EnqueueOnce ==
    ASSUME QueueTypeOK, QueuedOnce, NEW q \in Queues, NEW m \in Msgs,
           fate[m] # "queued",
           queue' = [queue EXCEPT ![q] = Append(@, m)],
           fate' = [fate EXCEPT ![m] = "queued"]
    PROVE  QueuedOnce'
<1>1. queue[q] \in Seq(Msgs) /\ NoRepeats(queue[q]) /\ m \notin Elements(queue[q])
    BY DEF QueueTypeOK, QueuedOnce
<1>2. /\ NoRepeats(Append(queue[q], m))
      /\ Elements(Append(queue[q], m)) = Elements(queue[q]) \cup {m}
    BY <1>1, PushBack
<1>3. \A r \in Queues : /\ queue'[r] = IF r = q THEN Append(queue[q], m) ELSE queue[r]
                        /\ m \notin Elements(queue[r])
                        /\ Elements(queue[r]) \subseteq Msgs
    BY DEF QueueTypeOK, QueuedOnce, Elements
<1>4. ASSUME NEW r \in Queues
      PROVE  /\ NoRepeats(queue'[r])
             /\ Elements(queue'[r]) = IF r = q THEN Elements(queue[q]) \cup {m}
                                     ELSE Elements(queue[r])
    <2>1. CASE r = q
        <3>1. queue'[r] = Append(queue[q], m)
            BY <1>3, <2>1
        <3> QED
            BY <1>2, <2>1, <3>1
    <2>2. CASE r # q
        <3>1. queue'[r] = queue[r]
            BY <1>3, <2>2
        <3> QED
            BY <2>2, <3>1 DEF QueuedOnce
    <2> QED
        BY <2>1, <2>2
<1>5. \A k \in Msgs : fate'[k] = IF k = m THEN "queued" ELSE fate[k]
    BY DEF QueueTypeOK
<1>6. \A r \in Queues : NoRepeats(queue[r])'
    BY <1>4 DEF NoRepeats
<1>7. \A r \in Queues : Elements(queue[r])' = IF r = q THEN Elements(queue[q]) \cup {m}
                                             ELSE Elements(queue[r])
    BY <1>4 DEF Elements
<1>8. \A r, s \in Queues : r # s => Elements(queue[r])' \cap Elements(queue[s])' = {}
    BY <1>3, <1>7 DEF QueuedOnce
<1>9. \A r \in Queues : \A k \in Elements(queue[r])' : fate'[k] = "queued"
    BY <1>3, <1>5, <1>7 DEF QueuedOnce
<1>10. \A k \in Msgs : fate'[k] = "queued" => \E r \in Queues : k \in Elements(queue[r])'
    BY <1>5, <1>7 DEF QueuedOnce
<1> QED
    BY <1>6, <1>8, <1>9, <1>10 DEF QueuedOnce

\* The oldest message of a queue leaves it.
LEMMA DequeueOnce ==
    ASSUME QueueTypeOK, QueuedOnce, NEW q \in Queues, queue[q] # <<>>,
           queue' = [queue EXCEPT ![q] = Tail(@)],
           fate' = [fate EXCEPT ![Head(queue[q])] = "running"]
    PROVE  QueuedOnce' /\ Head(queue[q]) \in Msgs /\ fate[Head(queue[q])] = "queued"
<1> DEFINE m == Head(queue[q])
<1>1. queue[q] \in Seq(Msgs) /\ NoRepeats(queue[q])
    BY DEF QueueTypeOK, QueuedOnce
<1>2. /\ NoRepeats(Tail(queue[q]))
      /\ Elements(Tail(queue[q])) = Elements(queue[q]) \ {m}
      /\ m \in Elements(queue[q])
    BY <1>1, PopFront
<1>3. m \in Msgs /\ fate[m] = "queued"
    BY <1>1, <1>2, TailFacts DEF QueuedOnce
<1>4. \A r \in Queues : queue'[r] = IF r = q THEN Tail(queue[q]) ELSE queue[r]
    BY DEF QueueTypeOK
<1>5. ASSUME NEW r \in Queues
      PROVE  NoRepeats(queue'[r]) /\ Elements(queue'[r]) = Elements(queue[r]) \ {m}
    <2>1. CASE r = q
        <3>1. queue'[r] = Tail(queue[q])
            BY <1>4, <2>1
        <3> QED
            BY <1>2, <2>1, <3>1
    <2>2. CASE r # q
        <3>1. queue'[r] = queue[r]
            BY <1>4, <2>2
        <3>2. m \notin Elements(queue[r]) /\ NoRepeats(queue[r])
            BY <1>2, <2>2 DEF QueuedOnce
        <3> QED
            BY <3>1, <3>2
    <2> QED
        BY <2>1, <2>2
<1>6. \A k \in Msgs : fate'[k] = IF k = m THEN "running" ELSE fate[k]
    BY DEF QueueTypeOK
<1>7. \A r \in Queues : Elements(queue[r]) \subseteq Msgs
    BY DEF QueueTypeOK, Elements
<1>8. \A r \in Queues : NoRepeats(queue[r])'
    BY <1>5 DEF NoRepeats
<1>9. \A r \in Queues : Elements(queue[r])' = Elements(queue[r]) \ {m}
    BY <1>5 DEF Elements
<1>10. \A r, s \in Queues : r # s => Elements(queue[r])' \cap Elements(queue[s])' = {}
    BY <1>9 DEF QueuedOnce
<1>11. \A r \in Queues : \A k \in Elements(queue[r])' : fate'[k] = "queued"
    BY <1>6, <1>7, <1>9 DEF QueuedOnce
<1>12. \A k \in Msgs : fate'[k] = "queued" => \E r \in Queues : k \in Elements(queue[r])'
    <2> SUFFICES ASSUME NEW k \in Msgs, fate'[k] = "queued"
                 PROVE  \E r \in Queues : k \in Elements(queue[r])'
        OBVIOUS
    <2>1. k # m /\ fate[k] = "queued"
        BY <1>3, <1>6
    <2>2. PICK r \in Queues : k \in Elements(queue[r])
        BY <2>1 DEF QueuedOnce
    <2> QED
        BY <1>9, <2>1, <2>2
<1> QED
    BY <1>3, <1>8, <1>10, <1>11, <1>12 DEF QueuedOnce

----------------------------------------------------------------------------
\* The steps of the threads that send.
LEMMA UserStepMsgInv ==
    Inv /\ MsgInv /\ UserStep /\ UNCHANGED threadVars => MsgInv'
<1> SUFFICES ASSUME Inv, MsgInv, UserStep, UNCHANGED threadVars PROVE MsgInv'
    OBVIOUS
<1>1. QueueTypeOK /\ RuntimeTypeOK /\ SentOnce /\ QueuedOnce /\ RunInv
    BY DEF Inv, QueueInv, ThreadInv, MsgInv, SendInv
<1>2. ASSUME NEW h \in Holders, NEW m \in Msgs, NEW target \in Queues,
             Dispatch(h, m, target)
      PROVE  MsgInv'
    <2> USE <1>2 DEF Dispatch
    <2>1. \A k \in Msgs : fate'[k] = IF k = m THEN "sending" ELSE fate[k]
        BY <1>1 DEF QueueTypeOK
    <2>2. RunInv'
        BY <1>1, <2>1, ThreadsUnaware
    <2>3. /\ sending'[h].msg = m
          /\ \A g \in Holders \ {h} : sending'[g] = sending[g]
        BY <1>1 DEF QueueTypeOK
    <2>4. SentOnce'
        <3>1. sending[h].msg = NoMsg /\ fate[m] = "new" /\ m # NoMsg
            BY QueueAssumption DEF NotSending
        <3>2. ASSUME NEW k \in Msgs, fate'[k] = "sending"
              PROVE  \E g \in Holders : sending'[g].msg = k
            <4>1. CASE k = m
                BY <2>3, <4>1
            <4>2. CASE k # m
                <5>1. PICK g \in Holders : sending[g].msg = k
                    BY <1>1, <2>1, <3>2, <4>2 DEF SentOnce
                <5>2. g # h
                    BY <3>1, <5>1, QueueAssumption
                <5> QED
                    BY <2>3, <5>1, <5>2
            <4> QED
                BY <4>1, <4>2
        <3>3. ASSUME NEW g \in Holders \ {h}, sending[g].msg # NoMsg
              PROVE  sending'[g].msg # m /\ fate'[sending'[g].msg] = "sending"
            BY <1>1, <2>1, <2>3, <3>1, <3>3 DEF SentOnce, QueueTypeOK
        <3>4. \A g \in Holders : sending'[g].msg # NoMsg => fate'[sending'[g].msg] = "sending"
            BY <2>1, <2>3, <3>3
        <3>5. \A f, g \in Holders :
                 sending'[f].msg # NoMsg /\ sending'[f].msg = sending'[g].msg => f = g
            BY <1>1, <2>3, <3>3 DEF SentOnce
        <3> QED
            BY <3>2, <3>4, <3>5 DEF SentOnce
    <2>5. QueuedOnce'
        BY <1>1, <2>1, QueuedUnaware
    <2> QED
        BY <2>2, <2>4, <2>5 DEF MsgInv, SendInv
<1>3. ASSUME NEW h \in Holders, Push(h) PROVE MsgInv'
    <2> USE <1>3 DEF Push
    <2> DEFINE m == sending[h].msg
    <2>1. m \in Msgs /\ sending[h].queue \in Queues /\ fate[m] = "sending"
        BY <1>1 DEF QueueTypeOK, SentOnce
    <2>2. \A k \in Msgs : fate'[k] = IF k = m THEN "queued" ELSE fate[k]
        BY <1>1, <2>1 DEF QueueTypeOK
    <2>3. RunInv'
        BY <1>1, <2>1, <2>2, ThreadsUnaware
    <2>4. /\ sending'[h].msg = NoMsg
          /\ \A g \in Holders \ {h} : sending'[g] = sending[g]
        BY <1>1 DEF QueueTypeOK, NotSending
    <2>5. SentOnce'
        BY <1>1, <2>1, <2>2, <2>4 DEF SentOnce, QueueTypeOK
    <2>6. QueuedOnce'
        BY <1>1, <2>1, EnqueueOnce
    <2> QED
        BY <2>3, <2>5, <2>6 DEF MsgInv, SendInv
<1>4. ASSUME NEW h \in Holders, CancelDispatch(h) PROVE MsgInv'
    <2> USE <1>4 DEF CancelDispatch
    <2> DEFINE m == sending[h].msg
    <2>1. m \in Msgs /\ fate[m] = "sending"
        BY <1>1 DEF QueueTypeOK, SentOnce
    <2>2. \A k \in Msgs : fate'[k] = IF k = m THEN "cancelled" ELSE fate[k]
        BY <1>1, <2>1 DEF QueueTypeOK
    <2>3. RunInv'
        BY <1>1, <2>1, <2>2, ThreadsUnaware
    <2>4. /\ sending'[h].msg = NoMsg
          /\ \A g \in Holders \ {h} : sending'[g] = sending[g]
        BY <1>1 DEF QueueTypeOK, NotSending
    <2>5. SentOnce'
        BY <1>1, <2>1, <2>2, <2>4 DEF SentOnce, QueueTypeOK
    <2>6. QueuedOnce'
        BY <1>1, <2>1, <2>2, QueuedUnaware
    <2> QED
        BY <2>3, <2>5, <2>6 DEF MsgInv, SendInv
<1>5. ASSUME NEW h \in Holders, NEW m \in Msgs, NEW target \in Queues,
             TryDispatch(h, m, target)
      PROVE  MsgInv'
    <2> DEFINE q == QueueOf(target)
    <2>1. q \in Queues /\ fate[m] = "new" /\ sending' = sending
        BY <1>5 DEF TryDispatch, QueueOf, Queues
    <2>2. CASE /\ queue' = [queue EXCEPT ![q] = Append(@, m)]
               /\ fate' = [fate EXCEPT ![m] = "queued"]
        <3>1. \A k \in Msgs : fate'[k] = IF k = m THEN "queued" ELSE fate[k]
            BY <1>1, <2>2 DEF QueueTypeOK
        <3>2. RunInv' /\ SentOnce'
            BY <1>1, <2>1, <3>1, ThreadsUnaware, SentUnaware
        <3>3. QueuedOnce'
            BY <1>1, <2>1, <2>2, EnqueueOnce
        <3> QED
            BY <3>2, <3>3 DEF MsgInv, SendInv
    <2>3. CASE fate' = [fate EXCEPT ![m] = "dropped"] /\ UNCHANGED queue
        <3>1. \A k \in Msgs : fate'[k] = IF k = m THEN "dropped" ELSE fate[k]
            BY <1>1, <2>3 DEF QueueTypeOK
        <3>2. RunInv' /\ SentOnce'
            BY <1>1, <2>1, <3>1, ThreadsUnaware, SentUnaware
        <3>3. QueuedOnce'
            BY <1>1, <2>1, <2>3, <3>1, QueuedUnaware
        <3> QED
            BY <3>2, <3>3 DEF MsgInv, SendInv
    <2> QED
        BY <1>5, <2>2, <2>3 DEF TryDispatch
<1>6. ASSUME UNCHANGED <<queue, sending, fate>> PROVE MsgInv'
    BY <1>1, <1>6, ThreadsUnaware, SendersUnaware DEF MsgInv, SendInv
<1>7. \/ \E h \in Holders : DropHandle(h)
      \/ \E h, other \in Holders : ShareHandle(h, other)
      \/ \E q \in Queues, c \in Capacities : Resize(q, c)
      => UNCHANGED <<queue, sending, fate>>
    BY DEF DropHandle, ShareHandle, Resize
<1> QED
    BY <1>2, <1>3, <1>4, <1>5, <1>6, <1>7 DEF UserStep

----------------------------------------------------------------------------
\* A step that only moves threads, none of them away from a blocking task or
\* back from a panic.
LEMMA MoveMsgInv ==
    ASSUME Inv, MsgInv, UNCHANGED <<queue, sending, fate, running, leaked, sync>>,
           \A t \in Threads : /\ pc[t] = "sync" => pc'[t] = "sync"
                              /\ pc[t] = "crashed" => pc'[t] = "crashed"
    PROVE  MsgInv'
<1>1. SendInv'
    BY SendersUnaware DEF MsgInv, Inv, QueueInv
<1>2. RunOnce'
    BY DEF MsgInv, RunInv, RunOnce, SyncFate, StackFate, TasksOf
<1>3. Occupation'
    <2> SUFFICES ASSUME NEW t \in Threads
                 PROVE  /\ pc'[t] # "sync" => sync[t] = NoMsg
                        /\ pc'[t] # "crashed" => \A i \in leaked[t] : running[t][i] # NoMsg
        BY DEF Occupation
    <2>1. /\ pc[t] # "sync" => sync[t] = NoMsg
          /\ pc[t] # "crashed" => \A i \in leaked[t] : running[t][i] # NoMsg
        BY DEF MsgInv, RunInv, Occupation
    <2> QED
        BY <2>1
<1> QED
    BY <1>1, <1>2, <1>3 DEF MsgInv, RunInv

\* The steps that only move a thread.
LEMMA MovesMsgInv ==
    ASSUME Inv, MsgInv, NEW t \in Threads,
           \/ Start \/ FailToStart \/ Joined
           \/ Await(t) \/ Timeout(t) \/ ChannelClosed(t) \/ Drained(t)
    PROVE  MsgInv'
<1>1. pc \in [Threads -> Locations] /\ Main \in Threads
    BY DEF Inv, ThreadInv, RuntimeTypeOK, Threads
<1>2. UNCHANGED <<queue, sending, fate, running, leaked, sync>>
    BY DEF Start, FailToStart, Joined, Await, Timeout, ChannelClosed, Drained, queueVars
<1>3. CASE Start
    <2>1. \A u \in Threads : pc[u] \notin {"sync", "crashed"}
        BY <1>3 DEF Start, Inv, ThreadInv, BornTogether, Threads
    <2> QED
        BY <1>2, <2>1, MoveMsgInv
<1>4. CASE ~Start
    <2>1. \E u \in Threads, loc \in Locations :
             pc[u] \notin {"sync", "crashed"} /\ pc' = [pc EXCEPT ![u] = loc]
        BY <1>1, <1>4 DEF FailToStart, Joined, Await, Timeout, ChannelClosed, Drained, Goto,
                         Locations
    <2>2. \A u \in Threads : /\ pc[u] = "sync" => pc'[u] = "sync"
                             /\ pc[u] = "crashed" => pc'[u] = "crashed"
        BY <1>1, <2>1
    <2> QED
        BY <1>2, <2>2, MoveMsgInv
<1> QED
    BY <1>3, <1>4

----------------------------------------------------------------------------
\* A message that is received is on no thread yet, and takes a place there in
\* which no message is.
LEMMA HandleMsgInv ==
    ASSUME Inv, MsgInv, NEW t \in Threads, NEW q \in RecvQueues(t), queue[q] # <<>>,
           Len(free[t]) > 0, pc[t] \notin {"crashed", "sync"},
           Handle(t, q, Head(queue[q]))
    PROVE  MsgInv'
<1> DEFINE m == Head(queue[q])
<1>1. QueueTypeOK /\ RuntimeTypeOK /\ SentOnce /\ QueuedOnce /\ RunOnce /\ Occupation
    BY DEF Inv, QueueInv, ThreadInv, MsgInv, SendInv, RunInv
<1>2. q \in Queues
    BY DEF RecvQueues, MainQueues, WorkerQueues, Queues
<1>3. /\ queue' = [queue EXCEPT ![q] = Tail(@)]
      /\ fate' = [fate EXCEPT ![m] = "running"]
      /\ UNCHANGED <<sending, leaked>>
    BY DEF Handle
<1>4. QueuedOnce' /\ m \in Msgs /\ fate[m] = "queued"
    BY <1>1, <1>2, <1>3, DequeueOnce
<1>5. \A k \in Msgs : fate'[k] = IF k = m THEN "running" ELSE fate[k]
    BY <1>1, <1>3 DEF QueueTypeOK
<1>6. SentOnce'
    BY <1>1, <1>3, <1>4, <1>5 DEF SentOnce, QueueTypeOK
<1>7. m # NoMsg
    BY <1>4, QueueAssumption
<1>8. /\ \A u \in Threads : sync[u] # m
      /\ \A u \in Threads : \A i \in Stacks : running[u][i] # m
    BY <1>1, <1>4, <1>7 DEF RunOnce, SyncFate, StackFate
<1>9. CASE Kind[m] = "blocking"
    <2>1. /\ sync' = [sync EXCEPT ![t] = m]
          /\ pc' = [pc EXCEPT ![t] = "sync"]
          /\ UNCHANGED running
        BY <1>9 DEF Handle, Goto
    <2>2. /\ sync[t] = NoMsg
          /\ \A u \in Threads : sync'[u] = IF u = t THEN m ELSE sync[u]
        BY <1>1, <2>1 DEF Occupation, RuntimeTypeOK
    <2>3. \A u \in Threads : TasksOf(u)' = IF u = t THEN TasksOf(u) \cup {m} ELSE TasksOf(u)
        BY <1>3, <1>7, <2>1, <2>2 DEF TasksOf
    <2>4. \A u \in Threads : SyncFate(u)'
        <3> SUFFICES ASSUME NEW u \in Threads, sync'[u] # NoMsg
                     PROVE  fate'[sync'[u]] = "running" /\ Kind[sync'[u]] = "blocking"
            BY DEF SyncFate
        <3>1. CASE u = t
            BY <1>4, <1>5, <1>9, <2>2, <3>1
        <3>2. CASE u # t
            <4>1. sync'[u] = sync[u] /\ SyncFate(u) /\ sync[u] \in Msgs
                BY <1>1, <2>2, <3>2 DEF RunOnce, RuntimeTypeOK
            <4> QED
                BY <1>5, <1>8, <4>1 DEF SyncFate
        <3> QED
            BY <3>1, <3>2
    <2>5. \A u \in Threads : \A i \in Stacks : StackFate(u, i)'
        BY <1>1, <1>3, <1>5, <1>8, <2>1 DEF RunOnce, StackFate, RuntimeTypeOK
    <2>6. \A k \in Msgs :
             fate'[k] \in {"running", "answered"} => \E u \in Threads : k \in TasksOf(u)'
        BY <1>1, <1>5, <2>3 DEF RunOnce
    <2>7. RunOnce'
        BY <1>1, <1>8, <2>1, <2>2, <2>4, <2>5, <2>6 DEF RunOnce
    <2>8. Occupation'
        BY <1>1, <1>3, <2>1, <2>2 DEF Occupation, RuntimeTypeOK
    <2> QED
        BY <1>4, <1>6, <2>7, <2>8 DEF MsgInv, SendInv, RunInv
<1>10. CASE Kind[m] # "blocking"
    <2> DEFINE s == Head(free[t])
    <2>1. /\ running' = [running EXCEPT ![t][s] = m]
          /\ pc' = [pc EXCEPT ![t] = "loop"]
          /\ UNCHANGED sync
        BY <1>10 DEF Handle, Goto
    <2>2. s \in Stacks /\ running[t][s] = NoMsg
        <3>1. /\ free[t] \in Seq(Stacks) /\ free[t] # <<>> /\ NoRepeats(free[t])
              /\ Elements(free[t]) = {i \in Stacks : running[t][i] = NoMsg}
            BY <1>1, PartitionByThread DEF Inv, ThreadInv, RuntimeTypeOK, PartitionOf
        <3> QED
            BY <3>1, PopFront
    <2>3. s \notin leaked[t]
        BY <1>1, <2>2 DEF Occupation
    <2>4. \A u \in Threads : \A i \in Stacks :
             running'[u][i] = IF u = t /\ i = s THEN m ELSE running[u][i]
        BY <1>1, <2>1, <2>2 DEF RuntimeTypeOK
    <2>5. \A u \in Threads : TasksOf(u)' = IF u = t THEN TasksOf(u) \cup {m} ELSE TasksOf(u)
        BY <1>3, <1>7, <2>1, <2>2, <2>3, <2>4 DEF TasksOf
    <2>6. \A u \in Threads : SyncFate(u)'
        <3> SUFFICES ASSUME NEW u \in Threads, sync'[u] # NoMsg
                     PROVE  fate'[sync'[u]] = "running" /\ Kind[sync'[u]] = "blocking"
            BY DEF SyncFate
        <3>1. sync'[u] = sync[u] /\ SyncFate(u) /\ sync[u] \in Msgs
            BY <1>1, <2>1 DEF RunOnce, RuntimeTypeOK
        <3> QED
            BY <1>5, <1>8, <3>1 DEF SyncFate
    <2>7. \A u \in Threads : \A i \in Stacks : StackFate(u, i)'
        <3> SUFFICES ASSUME NEW u \in Threads, NEW i \in Stacks PROVE StackFate(u, i)'
            OBVIOUS
        <3>1. CASE u = t /\ i = s
            <4>1. running'[u][i] = m /\ i \notin leaked'[u] /\ fate'[m] = "running"
                BY <1>3, <1>4, <1>5, <2>3, <2>4, <3>1
            <4> QED
                BY <1>10, <4>1 DEF StackFate
        <3>2. CASE ~(u = t /\ i = s)
            <4>1. /\ running'[u][i] = running[u][i]
                  /\ running[u][i] \in Msgs \cup {NoMsg}
                  /\ StackFate(u, i)
                BY <1>1, <2>4, <3>2 DEF RunOnce, RuntimeTypeOK
            <4> QED
                BY <1>3, <1>5, <1>8, <4>1 DEF StackFate
        <3> QED
            BY <3>1, <3>2
    <2>8. \A k \in Msgs :
             fate'[k] \in {"running", "answered"} => \E u \in Threads : k \in TasksOf(u)'
        BY <1>1, <1>5, <2>5 DEF RunOnce
    <2>9. RunOnce'
        BY <1>1, <1>8, <2>1, <2>4, <2>6, <2>7, <2>8 DEF RunOnce
    <2>10. Occupation'
        BY <1>1, <1>3, <1>7, <2>1, <2>4 DEF Occupation, RuntimeTypeOK
    <2> QED
        BY <1>4, <1>6, <2>9, <2>10 DEF MsgInv, SendInv, RunInv
<1> QED
    BY <1>9, <1>10

\* Both ways to receive a message.
LEMMA ReceiveMsgInv ==
    ASSUME Inv, MsgInv, NEW t \in Threads, NEW q \in Queues,
           Recv(t, q) \/ RecvClosing(t, q)
    PROVE  MsgInv'
<1>1. q \in RecvQueues(t) /\ queue[q] # <<>> /\ Handle(t, q, Head(queue[q]))
    BY DEF Recv, RecvClosing
<1>2. Len(free[t]) > 0 /\ pc[t] \notin {"crashed", "sync"}
    BY DEF Recv, RecvClosing, Inv, ThreadInv, StackPartition
<1> QED
    BY <1>1, <1>2, HandleMsgInv

----------------------------------------------------------------------------
\* What runs on a thread counts as running, and runs on no other thread.
LEMMA TasksAlive ==
    ASSUME RuntimeTypeOK, RunOnce
    PROVE  /\ \A t \in Threads : \A m \in TasksOf(t) :
                 m \in Msgs /\ fate[m] \in {"running", "answered"}
           /\ \A t, u \in Threads : t # u => TasksOf(t) \cap TasksOf(u) = {}
           /\ \A t, u \in Threads : \A i \in Stacks : sync[t] # NoMsg => running[u][i] # sync[t]
<1>1. ASSUME NEW t \in Threads, NEW u \in Threads, NEW i \in Stacks, sync[t] # NoMsg
      PROVE  running[u][i] # sync[t]
    BY <1>1 DEF RunOnce, SyncFate, StackFate
<1>2. ASSUME NEW t \in Threads, NEW m \in TasksOf(t)
      PROVE  m \in Msgs /\ fate[m] \in {"running", "answered"}
    <2>1. CASE m = sync[t]
        BY <1>2, <2>1 DEF RunOnce, SyncFate, TasksOf, RuntimeTypeOK
    <2>2. CASE m # sync[t]
        <3>1. PICK i \in Stacks \ leaked[t] : m = running[t][i] /\ m # NoMsg
            BY <1>2, <2>2 DEF TasksOf
        <3> QED
            BY <3>1 DEF RunOnce, StackFate, RuntimeTypeOK
    <2> QED
        BY <2>1, <2>2
<1>3. ASSUME NEW t \in Threads, NEW u \in Threads, t # u
      PROVE  TasksOf(t) \cap TasksOf(u) = {}
    BY <1>1, <1>3 DEF TasksOf, RunOnce
<1> QED
    BY <1>1, <1>2, <1>3

\* When tasks only leave their places, it is enough to look at their fates.
LEMMA Retire ==
    ASSUME RunOnce,
           \A u \in Threads : sync'[u] \in {sync[u], NoMsg},
           \A u \in Threads : \A j \in Stacks : running'[u][j] \in {running[u][j], NoMsg},
           \A u \in Threads : SyncFate(u)',
           \A u \in Threads : \A j \in Stacks : StackFate(u, j)',
           \A m \in Msgs : fate'[m] \in {"running", "answered"} =>
               /\ fate[m] \in {"running", "answered"}
               /\ \A u \in Threads : m \in TasksOf(u) => m \in TasksOf(u)'
    PROVE  RunOnce'
<1>1. \A t, u \in Threads : \A i, j \in Stacks :
          running'[t][i] # NoMsg /\ running'[t][i] = running'[u][j] => t = u /\ i = j
    BY DEF RunOnce
<1>2. \A t, u \in Threads : sync'[t] # NoMsg /\ sync'[t] = sync'[u] => t = u
    BY DEF RunOnce
<1>3. \A m \in Msgs :
          fate'[m] \in {"running", "answered"} => \E t \in Threads : m \in TasksOf(t)'
    BY DEF RunOnce
<1> QED
    BY <1>1, <1>2, <1>3 DEF RunOnce

\* The blocking task of a thread is done.
LEMMA BlockingReturnsMsgInv ==
    ASSUME Inv, MsgInv, NEW t \in Threads, BlockingReturns(t)
    PROVE  MsgInv'
<1> DEFINE m == sync[t]
<1>1. QueueTypeOK /\ RuntimeTypeOK /\ SendInv /\ RunOnce /\ Occupation
    BY DEF Inv, QueueInv, ThreadInv, MsgInv, RunInv
<1>2. /\ pc' = [pc EXCEPT ![t] = "loop"]
      /\ sync' = [sync EXCEPT ![t] = NoMsg]
      /\ fate' = [fate EXCEPT ![m] = "done"]
      /\ UNCHANGED <<queue, sending, running, leaked>>
      /\ pc[t] = "sync"
    BY DEF BlockingReturns, Goto
<1>3. \A k \in Msgs : fate'[k] = IF k = m THEN "done" ELSE fate[k]
    BY <1>1, <1>2 DEF QueueTypeOK
<1>4. \A u \in Threads : sync'[u] = IF u = t THEN NoMsg ELSE sync[u]
    BY <1>1, <1>2 DEF RuntimeTypeOK
<1>5. m # NoMsg => fate[m] = "running"
    BY <1>1 DEF RunOnce, SyncFate
<1>6. SendInv'
    BY <1>1, <1>2, <1>3, <1>5, SendersUnaware, QueueAssumption
<1>7. ASSUME NEW u \in Threads PROVE SyncFate(u)'
    <2>1. CASE u = t
        BY <1>4, <2>1 DEF SyncFate
    <2>2. CASE u # t
        <3>1. sync'[u] = sync[u] /\ SyncFate(u) /\ (sync[u] # NoMsg => sync[u] # m)
            BY <1>1, <1>4, <2>2 DEF RunOnce
        <3> QED
            BY <1>1, <1>3, <3>1 DEF SyncFate, RuntimeTypeOK
    <2> QED
        BY <2>1, <2>2
<1>8. ASSUME NEW u \in Threads, NEW i \in Stacks PROVE StackFate(u, i)'
    <2>1. StackFate(u, i) /\ running[u][i] \in Msgs \cup {NoMsg}
        BY <1>1 DEF RunOnce, RuntimeTypeOK
    <2>2. running[u][i] # NoMsg => running[u][i] # m
        BY <1>1, TasksAlive
    <2> QED
        BY <1>2, <1>3, <2>1, <2>2 DEF StackFate
<1>9. ASSUME NEW k \in Msgs, fate'[k] \in {"running", "answered"}, NEW u \in Threads,
             k \in TasksOf(u)
      PROVE  k \in TasksOf(u)'
    <2>1. k # m
        BY <1>3, <1>9
    <2> QED
        BY <1>2, <1>4, <1>9, <2>1 DEF TasksOf
<1>10. RunOnce'
    <2>1. \A k \in Msgs : fate'[k] \in {"running", "answered"} =>
              fate[k] \in {"running", "answered"}
        BY <1>3
    <2> QED
        BY <1>1, <1>2, <1>4, <1>7, <1>8, <1>9, <2>1, Retire
<1>11. Occupation'
    BY <1>1, <1>2, <1>4 DEF Occupation, RuntimeTypeOK
<1> QED
    BY <1>6, <1>10, <1>11 DEF MsgInv, RunInv

\* The panic takes every task of the thread with it, and none of another one.
LEMMA BlockingPanicsMsgInv ==
    ASSUME Inv, MsgInv, NEW t \in Threads, BlockingPanics(t)
    PROVE  MsgInv'
<1>1. QueueTypeOK /\ RuntimeTypeOK /\ SendInv /\ RunOnce /\ Occupation
    BY DEF Inv, QueueInv, ThreadInv, MsgInv, RunInv
<1>2. /\ pc' = [pc EXCEPT ![t] = "crashed"]
      /\ sync' = [sync EXCEPT ![t] = NoMsg]
      /\ running' = [running EXCEPT ![t] = [i \in Stacks |-> NoMsg]]
      /\ fate' = [m \in Msgs |-> IF m \in TasksOf(t) THEN "panicked" ELSE fate[m]]
      /\ UNCHANGED <<queue, sending, leaked>>
    BY DEF BlockingPanics, Goto
<1>3. \A k \in Msgs : fate'[k] = IF k \in TasksOf(t) THEN "panicked" ELSE fate[k]
    BY <1>2
<1>4. /\ \A u \in Threads : sync'[u] = IF u = t THEN NoMsg ELSE sync[u]
      /\ \A u \in Threads : \A i \in Stacks :
            running'[u][i] = IF u = t THEN NoMsg ELSE running[u][i]
    BY <1>1, <1>2 DEF RuntimeTypeOK
<1>5. SendInv'
    BY <1>1, <1>2, <1>3, TasksAlive, SendersUnaware
<1>6. ASSUME NEW u \in Threads PROVE SyncFate(u)'
    <2>1. CASE u = t
        BY <1>4, <2>1 DEF SyncFate
    <2>2. CASE u # t /\ sync[u] # NoMsg
        <3>1. sync'[u] = sync[u] /\ SyncFate(u) /\ sync[u] \in Msgs
            BY <1>1, <1>4, <2>2 DEF RunOnce, RuntimeTypeOK
        <3>2. sync[u] \notin TasksOf(t)
            BY <1>1, <2>2, TasksAlive DEF TasksOf
        <3> QED
            BY <1>3, <3>1, <3>2 DEF SyncFate
    <2>3. CASE u # t /\ sync[u] = NoMsg
        BY <1>4, <2>3 DEF SyncFate
    <2> QED
        BY <2>1, <2>2, <2>3
<1>7. ASSUME NEW u \in Threads, NEW i \in Stacks PROVE StackFate(u, i)'
    <2>1. CASE u = t \/ running[u][i] = NoMsg
        <3>1. running'[u][i] = NoMsg
            BY <1>4, <2>1
        <3> QED
            BY <3>1 DEF StackFate
    <2>2. CASE u # t /\ running[u][i] # NoMsg
        <3>1. running'[u][i] = running[u][i] /\ StackFate(u, i) /\ running[u][i] \in Msgs
            BY <1>1, <1>4, <2>2 DEF RunOnce, RuntimeTypeOK
        <3>2. CASE i \in leaked[u]
            <4>1. running[u][i] \notin TasksOf(t)
                BY <1>1, <2>2, <3>1, <3>2, TasksAlive DEF StackFate
            <4> QED
                BY <1>2, <1>3, <3>1, <4>1 DEF StackFate
        <3>3. CASE i \notin leaked[u]
            <4>1. running[u][i] \in TasksOf(u)
                BY <2>2, <3>3 DEF TasksOf
            <4>2. running[u][i] \notin TasksOf(t)
                BY <1>1, <2>2, <4>1, TasksAlive
            <4> QED
                BY <1>2, <1>3, <3>1, <4>2 DEF StackFate
        <3> QED
            BY <3>2, <3>3
    <2> QED
        BY <2>1, <2>2
<1>8. ASSUME NEW k \in Msgs, fate'[k] \in {"running", "answered"}, NEW u \in Threads,
             k \in TasksOf(u)
      PROVE  k \in TasksOf(u)'
    <2>1. u # t
        BY <1>3, <1>8
    <2> QED
        BY <1>2, <1>4, <1>8, <2>1 DEF TasksOf
<1>9. RunOnce'
    <2>1. \A k \in Msgs : fate'[k] \in {"running", "answered"} =>
              fate[k] \in {"running", "answered"}
        BY <1>3
    <2> QED
        BY <1>1, <1>4, <1>6, <1>7, <1>8, <2>1, Retire
<1>10. Occupation'
    <2> SUFFICES ASSUME NEW u \in Threads
                 PROVE  /\ pc'[u] # "sync" => sync'[u] = NoMsg
                        /\ pc'[u] # "crashed" => \A i \in leaked'[u] : running'[u][i] # NoMsg
        BY DEF Occupation
    <2>1. CASE u = t
        BY <1>1, <1>2, <1>4, <2>1 DEF RuntimeTypeOK
    <2>2. CASE u # t
        <3>1. pc'[u] = pc[u] /\ leaked'[u] = leaked[u] /\ running'[u] = running[u]
            BY <1>1, <1>2, <2>2 DEF RuntimeTypeOK
        <3> QED
            BY <1>1, <1>4, <2>2, <3>1 DEF Occupation
    <2> QED
        BY <2>1, <2>2
<1> QED
    BY <1>5, <1>9, <1>10 DEF MsgInv, RunInv

\* A task on a stack answers, completes or panics.
LEMMA TaskMsgInv ==
    ASSUME Inv, MsgInv, NEW t \in Threads, NEW i \in Stacks,
           PostedAnswers(t, i) \/ TaskCompletes(t, i) \/ TaskPanics(t, i)
    PROVE  MsgInv'
<1> DEFINE m == running[t][i]
<1>1. QueueTypeOK /\ RuntimeTypeOK /\ SendInv /\ RunOnce /\ Occupation
    BY DEF Inv, QueueInv, ThreadInv, MsgInv, RunInv
<1>2. /\ i \notin leaked[t] /\ m # NoMsg /\ m \in Msgs
      /\ UNCHANGED <<queue, sending, pc, sync>>
    BY <1>1, QueueAssumption, RuntimeAssumption
       DEF PostedAnswers, TaskCompletes, TaskPanics, threadVars, RuntimeTypeOK
<1>3. fate[m] \in {"running", "answered"} /\ Kind[m] # "blocking"
    BY <1>1, <1>2 DEF RunOnce, StackFate
<1>4. PICK f \in {"answered", "done", "panicked"} :
         /\ fate' = [fate EXCEPT ![m] = f]
         /\ \/ f = "answered" /\ UNCHANGED <<running, leaked>>
            \/ f = "done" /\ running' = [running EXCEPT ![t][i] = NoMsg] /\ UNCHANGED leaked
            \/ f = "panicked" /\ leaked' = [leaked EXCEPT ![t] = @ \cup {i}] /\ UNCHANGED running
    BY DEF PostedAnswers, TaskCompletes, TaskPanics, threadVars
<1>5. \A k \in Msgs : fate'[k] = IF k = m THEN f ELSE fate[k]
    BY <1>1, <1>4 DEF QueueTypeOK
<1>6. \A u \in Threads : \A j \in Stacks :
         /\ running'[u][j] = IF u = t /\ i = j /\ f = "done" THEN NoMsg ELSE running[u][j]
         /\ j \in leaked'[u] <=> j \in leaked[u] \/ (u = t /\ i = j /\ f = "panicked")
    BY <1>1, <1>4 DEF RuntimeTypeOK
<1>7. SendInv'
    BY <1>1, <1>2, <1>3, <1>5, SendersUnaware
<1>8. ASSUME NEW u \in Threads PROVE SyncFate(u)'
    <2>1. sync'[u] = sync[u] /\ SyncFate(u) /\ sync[u] \in Msgs \cup {NoMsg}
        BY <1>1, <1>2 DEF RunOnce, RuntimeTypeOK
    <2> QED
        BY <1>3, <1>5, <2>1 DEF SyncFate
<1>9. ASSUME NEW u \in Threads, NEW j \in Stacks PROVE StackFate(u, j)'
    <2>1. CASE u = t /\ j = i
        <3>1. running'[u][j] = IF f = "done" THEN NoMsg ELSE m
            BY <1>6, <2>1
        <3>2. j \in leaked'[u] <=> f = "panicked"
            BY <1>2, <1>6, <2>1
        <3> QED
            BY <1>2, <1>3, <1>5, <3>1, <3>2 DEF StackFate
    <2>2. CASE ~(u = t /\ j = i)
        <3>1. /\ running'[u][j] = running[u][j]
              /\ j \in leaked'[u] <=> j \in leaked[u]
              /\ running[u][j] # m
              /\ running[u][j] \in Msgs \cup {NoMsg}
              /\ StackFate(u, j)
            BY <1>1, <1>2, <1>6, <2>2 DEF RunOnce, RuntimeTypeOK
        <3> QED
            BY <1>5, <3>1 DEF StackFate
    <2> QED
        BY <2>1, <2>2
<1>10. ASSUME NEW k \in Msgs, fate'[k] \in {"running", "answered"}, NEW u \in Threads,
              k \in TasksOf(u)
       PROVE  k \in TasksOf(u)'
    <2>1. CASE k = sync[u]
        BY <1>2, <1>10, <2>1 DEF TasksOf
    <2>2. CASE k # sync[u]
        <3>1. PICK j \in Stacks \ leaked[u] : k = running[u][j] /\ k # NoMsg
            BY <1>10, <2>2 DEF TasksOf
        <3>2. j \notin leaked'[u] /\ running'[u][j] = k
            BY <1>5, <1>6, <1>10, <3>1
        <3> QED
            BY <3>1, <3>2 DEF TasksOf
    <2> QED
        BY <2>1, <2>2
<1>11. RunOnce'
    <2>1. \A k \in Msgs : fate'[k] \in {"running", "answered"} =>
              fate[k] \in {"running", "answered"}
        BY <1>3, <1>5
    <2> QED
        BY <1>1, <1>2, <1>6, <1>8, <1>9, <1>10, <2>1, Retire
<1>12. Occupation'
    <2> SUFFICES ASSUME NEW u \in Threads
                 PROVE  /\ pc[u] # "sync" => sync[u] = NoMsg
                        /\ pc[u] # "crashed" => \A j \in leaked'[u] : running'[u][j] # NoMsg
        BY <1>2 DEF Occupation
    <2>1. leaked'[u] \subseteq Stacks
        <3>1. leaked \in [Threads -> SUBSET Stacks] /\ leaked[u] \subseteq Stacks
            BY <1>1 DEF RuntimeTypeOK
        <3>2. leaked'[u] \in {leaked[u], leaked[t] \cup {i}}
            BY <1>4, <3>1
        <3>3. leaked[t] \subseteq Stacks
            BY <1>1 DEF RuntimeTypeOK
        <3> QED
            BY <3>1, <3>2, <3>3
    <2>2. ASSUME pc[u] # "crashed", NEW j \in leaked'[u] PROVE running'[u][j] # NoMsg
        <3>1. CASE j \in leaked[u]
            <4>1. running[u][j] # NoMsg /\ ~(u = t /\ j = i)
                BY <1>1, <1>2, <2>2, <3>1 DEF Occupation
            <4> QED
                BY <1>6, <2>1, <4>1
        <3>2. CASE j \notin leaked[u]
            <4>1. u = t /\ j = i /\ f = "panicked"
                BY <1>6, <2>1, <2>2, <3>2
            <4> QED
                BY <1>2, <1>6, <4>1
        <3> QED
            BY <3>1, <3>2
    <2> QED
        BY <1>1, <2>2 DEF Occupation
<1> QED
    BY <1>7, <1>11, <1>12 DEF MsgInv, RunInv

----------------------------------------------------------------------------
\* Every step preserves the invariant.
LEMMA NextMsgInv == Inv /\ MsgInv /\ [Next]_vars => MsgInv'
<1> SUFFICES ASSUME Inv, MsgInv, [Next]_vars PROVE MsgInv'
    OBVIOUS
<1>1. CASE UserStep /\ UNCHANGED threadVars
    BY <1>1, UserStepMsgInv
<1>2. CASE Start \/ FailToStart \/ Joined
    <2>1. Main \in Threads
        BY DEF Threads
    <2> QED
        BY <1>2, <2>1, MovesMsgInv
<1>3. CASE \E t \in Threads : LoopStep(t)
    BY <1>3, MovesMsgInv, ReceiveMsgInv DEF LoopStep
<1>4. CASE \E t \in Threads : BlockingReturns(t) \/ BlockingPanics(t)
    BY <1>4, BlockingReturnsMsgInv, BlockingPanicsMsgInv
<1>5. CASE \E t \in Threads : \E i \in Stacks : TaskStep(t, i) \/ TaskPanics(t, i)
    BY <1>5, TaskMsgInv DEF TaskStep
<1>6. CASE UNCHANGED vars
    BY <1>6, MoveMsgInv DEF vars, queueVars, threadVars
<1>7. CASE Ended
    BY <1>6, <1>7 DEF Ended
<1> QED
    BY <1>1, <1>2, <1>3, <1>4, <1>5, <1>6, <1>7 DEF Next

----------------------------------------------------------------------------
\* Nothing runs on a worker that is parked.
ParkedIdle ==
    \A t \in Threads : pc[t] = "park" => t # Main /\ \A i \in Stacks : running[t][i] = NoMsg

\* A thread leaves its loop when nothing can arrive, ends when nothing runs on
\* it, unless a panic ends both, and the main thread ends last.
LeavesLast ==
    /\ \A t \in Threads : pc[t] \in {"drain", "join", "exited"} =>
          n_senders = 0 /\ \A q \in RecvQueues(t) : queue[q] = <<>>
    /\ \A t \in Threads : pc[t] \in {"join", "exited", "crashed"} =>
          \A i \in Stacks : running[t][i] = NoMsg
    /\ pc[Main] = "exited" => \A w \in Workers : pc[w] \in {"exited", "crashed"}

ExitInv == ParkedIdle /\ LeavesLast

\* A deque with N indices and no repetition has all of them.
LEMMA FullDeque ==
    ASSUME NEW s \in Seq(Stacks), NoRepeats(s), Len(s) = N
    PROVE  Elements(s) = Stacks
<1>1. N \in Nat
    BY RuntimeAssumption
<1>2. IsFiniteSet(Stacks)
    BY <1>1, FS_Interval DEF Stacks
<1>3. s \in [Stacks -> Stacks]
    BY <1>1 DEF Stacks
<1>4. s \in Injection(Stacks, Stacks)
    BY <1>3 DEF Injection, IsInjective, NoRepeats, Stacks
<1>5. s \in Surjection(Stacks, Stacks)
    BY <1>2, <1>4, FS_Injection
<1> QED
    BY <1>3, <1>5 DEF Surjection, Elements, Stacks

\* When the channel is closed the users are done.
LEMMA ClosedForUsers ==
    ASSUME Inv, UserStep
    PROVE  n_senders # 0
<1> SUFFICES ASSUME n_senders = 0 PROVE FALSE
    OBVIOUS
<1>1. holders = {} /\ \A h \in Holders : sending[h] = NotSending
    BY DEF Inv, QueueInv, SendersAgree
<1> QED
    BY <1>1 DEF UserStep, Dispatch, TryDispatch, Push, CancelDispatch, DropHandle,
                ShareHandle, Resize, NotSending

\* A step of thread t that does not end there, and takes tasks from its stacks
\* at most, or does not park there and gives it one.
LEMMA ThreadExitInv ==
    ASSUME Inv, ExitInv, NEW t \in Threads,
           pc' = [pc EXCEPT ![t] = pc'[t]],
           \A u \in Threads \ {t} : running'[u] = running[u],
           n_senders' = n_senders,
           \A q \in Queues : queue[q] = <<>> => queue'[q] = <<>>,
           pc'[t] = "park" => t # Main /\ \A i \in Stacks : running'[t][i] = NoMsg,
           pc'[t] \in {"drain", "join", "exited"} =>
               n_senders = 0 /\ \A q \in RecvQueues(t) : queue[q] = <<>>,
           pc'[t] \in {"join", "exited", "crashed"} => \A i \in Stacks : running'[t][i] = NoMsg,
           pc[t] \in {"exited", "crashed"} => pc'[t] = pc[t],
           t = Main /\ pc'[t] = "exited" => \A w \in Workers : pc[w] \in {"exited", "crashed"}
    PROVE  ExitInv'
<1>1. \A u \in Threads : u # t => pc'[u] = pc[u]
    BY DEF Inv, ThreadInv, RuntimeTypeOK
<1>2. \A u \in Threads : RecvQueues(u) \subseteq Queues
    BY DEF RecvQueues, MainQueues, WorkerQueues, Queues
<1>3. ParkedIdle'
    BY <1>1 DEF ExitInv, ParkedIdle
<1>4. ASSUME NEW u \in Threads, pc'[u] \in {"drain", "join", "exited"}
      PROVE  n_senders = 0 /\ \A q \in RecvQueues(u) : queue'[q] = <<>>
    <2>1. n_senders = 0 /\ \A q \in RecvQueues(u) : queue[q] = <<>>
        BY <1>1, <1>4 DEF ExitInv, LeavesLast
    <2> QED
        BY <1>2, <2>1
<1>5. ASSUME NEW u \in Threads, pc'[u] \in {"join", "exited", "crashed"}
      PROVE  \A i \in Stacks : running'[u][i] = NoMsg
    BY <1>1, <1>5 DEF ExitInv, LeavesLast
<1>6. ASSUME pc'[Main] = "exited", NEW w \in Workers PROVE pc'[w] \in {"exited", "crashed"}
    <2>1. pc[w] \in {"exited", "crashed"}
        BY <1>1, <1>6 DEF ExitInv, LeavesLast, Threads
    <2> QED
        BY <1>1, <2>1 DEF Threads
<1>7. LeavesLast'
    <2>1. \A u \in Threads : RecvQueues(u)' = RecvQueues(u)
        BY DEF RecvQueues, MainQueues, WorkerQueues
    <2> QED
        BY <1>4, <1>5, <1>6, <2>1 DEF LeavesLast
<1> QED
    BY <1>3, <1>7 DEF ExitInv

\* Nothing has started.
LEMMA InitExitInv == Init => ExitInv
    BY RuntimeAssumption DEF Init, ExitInv, ParkedIdle, LeavesLast, Threads

\* The steps of a thread's loop.
LEMMA LoopExitInv ==
    ASSUME Inv, MsgInv, ExitInv, NEW t \in Threads, LoopStep(t)
    PROVE  ExitInv'
<1>1. pc \in [Threads -> Locations] /\ running \in [Threads -> [Stacks -> Msgs \cup {NoMsg}]]
    BY DEF Inv, ThreadInv, RuntimeTypeOK
<1>2. CASE Await(t)
    <2>1. /\ pc' = [pc EXCEPT ![t] = IF t # Main /\ Len(free[t]) = N THEN "park" ELSE "recv"]
          /\ pc[t] = "loop"
          /\ UNCHANGED <<queue, n_senders, running>>
        BY <1>2 DEF Await, Goto, queueVars
    <2>2. ASSUME pc'[t] = "park" PROVE t # Main /\ \A i \in Stacks : running[t][i] = NoMsg
        <3>1. t # Main /\ Len(free[t]) = N
            BY <1>1, <2>1, <2>2
        <3>2. /\ free[t] \in Seq(Stacks) /\ NoRepeats(free[t])
              /\ Elements(free[t]) = {i \in Stacks : running[t][i] = NoMsg}
            BY <2>1, PartitionByThread DEF Inv, ThreadInv, RuntimeTypeOK, PartitionOf
        <3> QED
            BY <3>1, <3>2, FullDeque
    <2>3. pc'[t] \in {"park", "recv"} /\ pc' = [pc EXCEPT ![t] = pc'[t]]
        BY <1>1, <2>1
    <2> QED
        BY <2>1, <2>2, <2>3, ThreadExitInv
<1>3. CASE Timeout(t)
    <2>1. /\ pc'[t] = "loop" /\ pc' = [pc EXCEPT ![t] = pc'[t]]
          /\ pc[t] = "recv"
          /\ UNCHANGED <<queue, n_senders, running>>
        BY <1>1, <1>3 DEF Timeout, Goto, queueVars
    <2> QED
        BY <2>1, ThreadExitInv
<1>4. CASE ChannelClosed(t)
    <2>1. /\ pc'[t] = "drain" /\ pc' = [pc EXCEPT ![t] = pc'[t]]
          /\ pc[t] = "loop"
          /\ n_senders = 0 /\ \A q \in RecvQueues(t) : queue[q] = <<>>
          /\ UNCHANGED <<queue, n_senders, running>>
        BY <1>1, <1>4 DEF ChannelClosed, Goto, queueVars
    <2> QED
        BY <2>1, ThreadExitInv
<1>5. CASE Drained(t)
    <2>1. /\ pc'[t] = IF t = Main THEN "join" ELSE "exited"
          /\ pc' = [pc EXCEPT ![t] = pc'[t]]
          /\ pc[t] = "drain"
          /\ \A i \in Stacks : running[t][i] = NoMsg
          /\ UNCHANGED <<queue, n_senders, running>>
        BY <1>1, <1>5 DEF Drained, Goto, queueVars
    <2>2. n_senders = 0 /\ \A q \in RecvQueues(t) : queue[q] = <<>>
        BY <2>1 DEF ExitInv, LeavesLast
    <2> QED
        BY <2>1, <2>2, ThreadExitInv
<1>6. CASE \E q \in Queues : Recv(t, q) \/ RecvClosing(t, q)
    <2>1. PICK q \in Queues : Recv(t, q) \/ RecvClosing(t, q)
        BY <1>6
    <2>2. queue[q] # <<>> /\ Handle(t, q, Head(queue[q])) /\ pc[t] \in {"loop", "recv", "park"}
        BY <2>1 DEF Recv, RecvClosing
    <2>3. pc'[t] \in {"sync", "loop"} /\ pc' = [pc EXCEPT ![t] = pc'[t]]
        BY <1>1, <2>2 DEF Handle, Goto
    <2>4. n_senders' = n_senders /\ \A u \in Threads \ {t} : running'[u] = running[u]
        BY <1>1, <2>2 DEF Handle
    <2>5. \A r \in Queues : queue[r] = <<>> => queue'[r] = <<>>
        BY <2>2 DEF Handle, Inv, QueueInv, QueueTypeOK
    <2> QED
        BY <2>2, <2>3, <2>4, <2>5, ThreadExitInv
<1> QED
    BY <1>2, <1>3, <1>4, <1>5, <1>6 DEF LoopStep

\* The steps of the tasks.
LEMMA TaskExitInv ==
    ASSUME Inv, ExitInv, NEW t \in Threads,
           \/ BlockingReturns(t) \/ BlockingPanics(t)
           \/ \E i \in Stacks : TaskStep(t, i) \/ TaskPanics(t, i)
    PROVE  ExitInv'
<1>1. pc \in [Threads -> Locations] /\ running \in [Threads -> [Stacks -> Msgs \cup {NoMsg}]]
    BY DEF Inv, ThreadInv, RuntimeTypeOK
<1>2. CASE BlockingReturns(t) \/ BlockingPanics(t)
    <2>1. /\ pc'[t] \in {"loop", "crashed"} /\ pc' = [pc EXCEPT ![t] = pc'[t]]
          /\ pc[t] = "sync"
          /\ pc'[t] = "crashed" => \A i \in Stacks : running'[t][i] = NoMsg
          /\ \A u \in Threads \ {t} : running'[u] = running[u]
          /\ UNCHANGED <<queue, n_senders>>
        BY <1>1, <1>2 DEF BlockingReturns, BlockingPanics, Goto
    <2> QED
        BY <2>1, ThreadExitInv
<1>3. CASE \E i \in Stacks : TaskStep(t, i) \/ TaskPanics(t, i)
    <2>1. PICK i \in Stacks : TaskStep(t, i) \/ TaskPanics(t, i)
        BY <1>3
    <2>2. /\ UNCHANGED <<queue, n_senders, pc>>
          /\ running' \in {running, [running EXCEPT ![t][i] = NoMsg]}
        BY <2>1 DEF TaskStep, PostedAnswers, TaskCompletes, TaskPanics, threadVars
    <2>3. \A u \in Threads \ {t} : running'[u] = running[u]
        BY <1>1, <2>2
    <2>4. \A j \in Stacks : running[t][j] = NoMsg => running'[t][j] = NoMsg
        BY <1>1, <2>2
    <2>5. pc' = [pc EXCEPT ![t] = pc'[t]]
        BY <1>1, <2>2
    <2> QED
        BY <2>2, <2>3, <2>4, <2>5, ThreadExitInv DEF ExitInv, ParkedIdle, LeavesLast
<1> QED
    BY <1>2, <1>3

\* Every step preserves it.
LEMMA NextExitInv == Inv /\ MsgInv /\ ExitInv /\ [Next]_vars => ExitInv'
<1> SUFFICES ASSUME Inv, MsgInv, ExitInv, [Next]_vars PROVE ExitInv'
    OBVIOUS
<1>1. pc \in [Threads -> Locations] /\ Main \in Threads
    BY DEF Inv, ThreadInv, RuntimeTypeOK, Threads
<1>2. CASE UserStep /\ UNCHANGED threadVars
    <2>1. \A t \in Threads : pc[t] \notin {"drain", "join", "exited"}
        BY <1>2, ClosedForUsers DEF ExitInv, LeavesLast
    <2>2. UNCHANGED <<pc, running>>
        BY <1>2 DEF threadVars
    <2> QED
        BY <1>1, <2>1, <2>2 DEF ExitInv, LeavesLast, ParkedIdle
<1>3. CASE Start
    <2>1. \A t \in Threads : pc'[t] = "loop"
        BY <1>3 DEF Start
    <2> QED
        BY <1>1, <2>1 DEF ExitInv, LeavesLast, ParkedIdle
<1>4. CASE FailToStart
    <2>1. /\ pc'[Main] = "failed" /\ pc' = [pc EXCEPT ![Main] = pc'[Main]]
          /\ pc[Main] = "start"
          /\ UNCHANGED <<queue, n_senders, running>>
        BY <1>1, <1>4 DEF FailToStart, Goto, queueVars
    <2> QED
        BY <1>1, <2>1, ThreadExitInv
<1>5. CASE Joined
    <2>1. /\ pc'[Main] = "exited" /\ pc' = [pc EXCEPT ![Main] = pc'[Main]]
          /\ pc[Main] = "join"
          /\ \A w \in Workers : pc[w] \in {"exited", "crashed"}
          /\ UNCHANGED <<queue, n_senders, running>>
        BY <1>1, <1>5 DEF Joined, Goto, queueVars
    <2>2. /\ n_senders = 0 /\ \A q \in RecvQueues(Main) : queue[q] = <<>>
          /\ \A i \in Stacks : running[Main][i] = NoMsg
        BY <1>1, <2>1 DEF ExitInv, LeavesLast
    <2> QED
        BY <1>1, <2>1, <2>2, ThreadExitInv
<1>6. CASE \E t \in Threads : LoopStep(t)
    BY <1>6, LoopExitInv
<1>7. CASE \E t \in Threads :
              \/ BlockingReturns(t) \/ BlockingPanics(t)
              \/ \E i \in Stacks : TaskStep(t, i) \/ TaskPanics(t, i)
    BY <1>7, TaskExitInv
<1>8. CASE UNCHANGED vars
    BY <1>8 DEF vars, queueVars, threadVars, ExitInv, ParkedIdle, LeavesLast,
                RecvQueues, MainQueues, WorkerQueues
<1>9. CASE Ended
    BY <1>8, <1>9 DEF Ended
<1> QED
    BY <1>2, <1>3, <1>4, <1>5, <1>6, <1>7, <1>8, <1>9 DEF Next

----------------------------------------------------------------------------
\* The three invariants together.
LEMMA AllInv == Spec => [](Inv /\ MsgInv /\ ExitInv)
<1>1. Init => Inv /\ MsgInv /\ ExitInv
    BY InitInv, InitMsgInv, InitExitInv
<1>2. Inv /\ MsgInv /\ ExitInv /\ [Next]_vars => (Inv /\ MsgInv /\ ExitInv)'
    BY NextInv, NextMsgInv, NextExitInv
<1> QED
    BY <1>1, <1>2, PTL DEF Spec

\* However dispatches wait, fill queues and are cancelled, and tasks complete
\* and panic: a message is in one place, and one that was accepted is in one
\* until it is done.
THEOREM MessagesAreAccounted == Spec => []MessagesAccounted
<1>1. Inv /\ MsgInv /\ [Next]_vars => MsgInv'
    BY NextMsgInv
<1>2. Spec => []MsgInv
    BY InitMsgInv, InvAlways, <1>1, PTL DEF Spec
<1> QED
    BY <1>2, MsgInvImplies, PTL

\* A worker that waits in a GC-safe state has nothing to poll, however tasks
\* completed and panicked on it before.
THEOREM ParkedAreIdle == Spec => []ParkedIsIdle
<1>1. Inv /\ MsgInv /\ ExitInv => ParkedIsIdle
    <2> SUFFICES ASSUME Inv, MsgInv, ExitInv, NEW t \in Threads, pc[t] = "park"
                 PROVE  t # Main /\ TasksOf(t) = {} /\ leaked[t] = {}
        BY DEF ParkedIsIdle
    <2>1. t # Main /\ \A i \in Stacks : running[t][i] = NoMsg
        BY DEF ExitInv, ParkedIdle
    <2>2. sync[t] = NoMsg /\ \A i \in leaked[t] : running[t][i] # NoMsg
        BY DEF MsgInv, RunInv, Occupation
    <2>3. leaked[t] \subseteq Stacks
        BY DEF Inv, ThreadInv, RuntimeTypeOK
    <2>4. TasksOf(t) = {}
        BY <2>1, <2>2 DEF TasksOf
    <2> QED
        BY <2>1, <2>2, <2>3, <2>4
<1> QED
    BY <1>1, AllInv, PTL

\* Unless a thread was unwound, the runtime ends when everything that was sent
\* has been handled and every worker has ended.
THEOREM ShutdownIsClean == Spec => []CleanShutdown
<1>1. Inv /\ MsgInv /\ ExitInv => CleanShutdown
    <2> SUFFICES ASSUME Inv, MsgInv, ExitInv, pc[Main] = "exited",
                        \A t \in Threads : pc[t] # "crashed"
                 PROVE  /\ \A t \in Threads : pc[t] = "exited"
                        /\ \A m \in Msgs :
                              fate[m] \notin {"sending", "queued", "running", "answered"}
        BY DEF CleanShutdown
    <2>1. \A t \in Threads : pc[t] = "exited"
        BY DEF ExitInv, LeavesLast, Threads
    <2>2. n_senders = 0 /\ \A t \in Threads : \A q \in RecvQueues(t) : queue[q] = <<>>
        BY <2>1 DEF ExitInv, LeavesLast, Threads
    <2>3. \A t \in Threads : TasksOf(t) = {}
        <3>1. \A t \in Threads : sync[t] = NoMsg /\ \A i \in Stacks : running[t][i] = NoMsg
            BY <2>1 DEF ExitInv, LeavesLast, MsgInv, RunInv, Occupation
        <3> QED
            BY <3>1 DEF TasksOf
    <2>4. \A q \in Queues : Elements(queue[q]) = {}
        <3> SUFFICES ASSUME NEW q \in Queues, NEW m \in Elements(queue[q]) PROVE FALSE
            OBVIOUS
        <3>1. PICK i \in 1..Len(queue[q]) : queue[q][i] = m
            BY DEF Elements
        <3>2. q \in Allowed(queue[q][i])
            BY DEF Inv, QueueInv, QueueRouted
        <3>3. \E t \in Threads : q \in RecvQueues(t)
            BY <3>2, RuntimeAssumption
               DEF Allowed, QueueOf, RecvQueues, MainQueues, WorkerQueues, Queues, Threads
        <3>4. queue[q] = <<>>
            BY <2>2, <3>3
        <3> QED
            BY <3>4
    <2>5. ASSUME NEW m \in Msgs PROVE fate[m] # "sending"
        <3>1. \A h \in Holders : sending[h].msg = NoMsg
            BY <2>2 DEF Inv, QueueInv, SendersAgree, NotSending
        <3> QED
            BY <3>1, QueueAssumption DEF MsgInv, SendInv, SentOnce
    <2>6. ASSUME NEW m \in Msgs PROVE fate[m] \notin {"queued", "running", "answered"}
        BY <2>3, <2>4 DEF MsgInv, SendInv, QueuedOnce, RunInv, RunOnce
    <2> QED
        BY <2>1, <2>5, <2>6
<1> QED
    BY <1>1, AllInv, PTL

----------------------------------------------------------------------------
\* The refinement of TaskPool: the thread it gives a task is the one that has
\* it, and no choice.
PlacesAgree ==
    \A m \in Msgs :
        /\ \A t \in Threads : m \in TasksOf(t) <=> PoolThread(m) = t
        /\ (\A t \in Threads : m \notin TasksOf(t)) => PoolThread(m) = NoMsg

\* The places of the messages decide which thread the pool gives a task.
LEMMA OnThread == Inv /\ MsgInv => PlacesAgree
<1> SUFFICES ASSUME Inv, MsgInv, NEW m \in Msgs
             PROVE  /\ \A t \in Threads : m \in TasksOf(t) <=> PoolThread(m) = t
                    /\ (\A t \in Threads : m \notin TasksOf(t)) => PoolThread(m) = NoMsg
    BY DEF PlacesAgree
<1>1. RuntimeTypeOK /\ RunOnce
    BY DEF Inv, ThreadInv, MsgInv, RunInv
<1>2. CASE \E t \in Threads : m \in TasksOf(t)
    <2>1. PoolThread(m) \in Threads /\ m \in TasksOf(PoolThread(m))
        BY <1>2 DEF PoolThread
    <2> QED
        BY <1>1, <1>2, <2>1, TasksAlive
<1>3. CASE \A t \in Threads : m \notin TasksOf(t)
    BY <1>3, RuntimeAssumption DEF PoolThread, Threads
<1> QED
    BY <1>2, <1>3

\* The tasks of a thread, in both models.
LEMMA SameTasks ==
    ASSUME Inv, MsgInv, NEW t \in Threads
    PROVE  Pool!ActiveOn(t) = TasksOf(t)
<1>1. TasksOf(t) \subseteq Msgs
    BY TasksAlive DEF Inv, ThreadInv, MsgInv, RunInv
<1>2. \A m \in Msgs : m \in TasksOf(t) <=> PoolThread(m) = t
    BY OnThread DEF PlacesAgree
<1> QED
    BY <1>1, <1>2 DEF Pool!ActiveOn

\* Without a blocking task, a thread has at most one task for every stack.
LEMMA FewTasks ==
    ASSUME NEW t \in Threads, sync[t] = NoMsg
    PROVE  Cardinality(TasksOf(t)) < N + 1
<1> DEFINE S == {i \in Stacks \ leaked[t] : running[t][i] # NoMsg}
           f == [i \in S |-> running[t][i]]
<1>1. N \in Nat /\ IsFiniteSet(Stacks) /\ Cardinality(Stacks) = N
    BY RuntimeAssumption, FS_Interval DEF Stacks
<1>2. IsFiniteSet(S) /\ Cardinality(S) <= N
    BY <1>1, FS_Subset
<1>3. f \in Surjection(S, TasksOf(t))
    BY DEF Surjection, TasksOf
<1>4. IsFiniteSet(TasksOf(t)) /\ Cardinality(TasksOf(t)) <= Cardinality(S)
    <2> HIDE DEF f, S
    <2> QED
        BY <1>2, <1>3, FS_Surjection
<1>5. Cardinality(S) \in Nat /\ Cardinality(TasksOf(t)) \in Nat
    BY <1>2, <1>4, FS_CardinalityType
<1> QED
    BY <1>1, <1>2, <1>4, <1>5

\* What the pool sees of the runtime as a whole does not change.
PoolKept ==
    /\ \A t \in Threads : pc'[t] = "crashed" <=> pc[t] = "crashed"
    /\ n_senders' = 0 <=> n_senders = 0
    /\ pc'[Main] = "exited" <=> pc[Main] = "exited"

\* What changes neither the status of a task nor its place is nothing to the pool.
LEMMA PoolStutters ==
    ASSUME PoolKept,
           \A m \in Msgs : PoolStatus(fate'[m]) = PoolStatus(fate[m]),
           \A m \in Msgs : PoolThread(m)' = PoolThread(m)
    PROVE  UNCHANGED Pool!poolVars
<1>1. [m \in Msgs |-> PoolStatus(fate[m])]' = [m \in Msgs |-> PoolStatus(fate[m])]
    BY DEF PoolStatus
<1>2. [m \in Msgs |-> PoolThread(m)]' = [m \in Msgs |-> PoolThread(m)]
    OBVIOUS
<1>3. {t \in Threads : pc[t] = "crashed"}' = {t \in Threads : pc[t] = "crashed"}
    BY DEF PoolKept
<1> QED
    BY <1>1, <1>2, <1>3 DEF Pool!poolVars, PoolKept

\* A task on no thread is submitted or refused.
LEMMA PoolSubmits ==
    ASSUME PoolKept, n_senders # 0, NEW m \in Msgs, NEW a \in {"accepted", "rejected"},
           PoolStatus(fate[m]) = "idle",
           \A k \in Msgs : PoolStatus(fate'[k]) = IF k = m THEN a ELSE PoolStatus(fate[k]),
           \A k \in Msgs : PoolThread(k)' = PoolThread(k)
    PROVE  Pool!Next
<1>1. [k \in Msgs |-> PoolStatus(fate[k])]'
         = [[k \in Msgs |-> PoolStatus(fate[k])] EXCEPT ![m] = a]
    BY DEF PoolStatus
<1>2. [k \in Msgs |-> PoolThread(k)]' = [k \in Msgs |-> PoolThread(k)]
    OBVIOUS
<1>3. {t \in Threads : pc[t] = "crashed"}' = {t \in Threads : pc[t] = "crashed"}
    BY DEF PoolKept
<1>4. Pool!Submit(m)
    BY <1>1, <1>2, <1>3 DEF Pool!Submit, PoolKept
<1> QED
    BY <1>4 DEF Pool!Next

\* The cardinality the pool's module speaks of is the one of this module.
LEMMA SameCardinality ==
    ASSUME NEW S
    PROVE  Pool!Cardinality(S) = Cardinality(S)
BY DEF Cardinality, Pool!Cardinality

\* A task that was accepted begins.
LEMMA PoolBegins ==
    ASSUME PoolKept, NEW m \in Msgs, NEW t \in EligibleThreads(m), t \in Threads,
           pc[t] # "crashed",
           Cardinality(Pool!ActiveOn(t)) < N + 1,
           PoolStatus(fate[m]) = "accepted",
           \A k \in Msgs : PoolStatus(fate'[k]) = IF k = m THEN "active"
                                                   ELSE PoolStatus(fate[k]),
           \A k \in Msgs : PoolThread(k)' = IF k = m THEN t ELSE PoolThread(k)
    PROVE  Pool!Next
<1>1. [k \in Msgs |-> PoolStatus(fate[k])]'
         = [[k \in Msgs |-> PoolStatus(fate[k])] EXCEPT ![m] = "active"]
    BY DEF PoolStatus
<1>2. [k \in Msgs |-> PoolThread(k)]' = [[k \in Msgs |-> PoolThread(k)] EXCEPT ![m] = t]
    OBVIOUS
<1>3. {u \in Threads : pc[u] = "crashed"}' = {u \in Threads : pc[u] = "crashed"}
    BY DEF PoolKept
<1>4. t \in [k \in Msgs |-> EligibleThreads(k)][m] \ {u \in Threads : pc[u] = "crashed"}
    OBVIOUS
<1>5. [k \in Msgs |-> PoolStatus(fate[k])][m] = "accepted"
    OBVIOUS
<1>6. Pool!Cardinality(Pool!ActiveOn(t)) < N + 1
    BY SameCardinality
<1>7. Pool!Begin(m, t)
    BY <1>1, <1>2, <1>3, <1>4, <1>5, <1>6 DEF Pool!Begin, PoolKept
<1> QED
    BY <1>7 DEF Pool!Next

\* A task leaves its thread.
LEMMA PoolFinishes ==
    ASSUME PoolKept, PlacesAgree, PlacesAgree', NEW m \in Msgs,
           PoolStatus(fate[m]) = "active",
           \A k \in Msgs : PoolStatus(fate'[k]) = IF k = m THEN "finished"
                                                   ELSE PoolStatus(fate[k]),
           \A u \in Threads : \A k \in Msgs : k \in TasksOf(u)' <=> k \in TasksOf(u) /\ k # m
    PROVE  Pool!Next
<1>1. [k \in Msgs |-> PoolStatus(fate[k])]'
         = [[k \in Msgs |-> PoolStatus(fate[k])] EXCEPT ![m] = "finished"]
    BY DEF PoolStatus
<1>2. \A k \in Msgs : PoolThread(k)' = IF k = m THEN NoMsg ELSE PoolThread(k)
    <2> SUFFICES ASSUME NEW k \in Msgs
                 PROVE  PoolThread(k)' = IF k = m THEN NoMsg ELSE PoolThread(k)
        OBVIOUS
    <2>1. CASE \A u \in Threads : k \notin TasksOf(u)'
        BY <2>1 DEF PlacesAgree
    <2>2. CASE \E u \in Threads : k \in TasksOf(u)'
        BY <2>2 DEF PlacesAgree
    <2> QED
        BY <2>1, <2>2
<1>3. [k \in Msgs |-> PoolThread(k)]' = [[k \in Msgs |-> PoolThread(k)] EXCEPT ![m] = NoMsg]
    BY <1>2
<1>4. {t \in Threads : pc[t] = "crashed"}' = {t \in Threads : pc[t] = "crashed"}
    BY DEF PoolKept
<1>5. Pool!Finish(m)
    BY <1>1, <1>3, <1>4 DEF Pool!Finish, PoolKept
<1> QED
    BY <1>5 DEF Pool!Next

\* The initial states are those of the pool.
LEMMA InitPool == Init => Pool!Init
<1> SUFFICES ASSUME Init PROVE Pool!Init
    OBVIOUS
<1>1. [m \in Msgs |-> PoolStatus(fate[m])] = [m \in Msgs |-> "idle"]
    BY DEF Init, QueueInit, PoolStatus
<1>2. [m \in Msgs |-> PoolThread(m)] = [m \in Msgs |-> NoMsg]
    <2>1. \A t \in Threads : TasksOf(t) = {}
        BY DEF Init, TasksOf
    <2> QED
        BY <2>1 DEF PoolThread
<1>3. {t \in Threads : pc[t] = "crashed"} = {}
    BY DEF Init
<1>4. n_senders # 0 /\ pc[Main] # "exited"
    BY DEF Init, QueueInit, Threads
<1> QED
    BY <1>1, <1>2, <1>3, <1>4 DEF Pool!Init

\* The pool sees a message on the thread whose stacks or blocking task hold it.
LEMMA PoolThreadKept ==
    ASSUME running' = running, leaked' = leaked, sync' = sync
    PROVE  \A m \in Msgs : PoolThread(m)' = PoolThread(m)
<1>1. \A t \in Threads : TasksOf(t)' = TasksOf(t)
    BY DEF TasksOf
<1>2. TAKE m \in Msgs
<1> QED
    BY <1>1 DEF PoolThread

\* The steps of the users.
LEMMA UserPool ==
    ASSUME Inv, MsgInv, UserStep, UNCHANGED threadVars
    PROVE  Pool!Next \/ UNCHANGED Pool!poolVars
<1>1. QueueTypeOK /\ SentOnce /\ n_senders # 0
    BY ClosedForUsers DEF Inv, QueueInv, MsgInv, SendInv
<1>2. \A m \in Msgs : PoolThread(m)' = PoolThread(m)
    BY PoolThreadKept DEF threadVars
<1>3. UNCHANGED pc
    BY DEF threadVars
<1>4. ASSUME NEW h \in Holders, NEW m \in Msgs, NEW target \in Queues, Dispatch(h, m, target)
      PROVE  UNCHANGED Pool!poolVars
    <2>1. /\ n_senders' = n_senders
          /\ fate[m] = "new"
          /\ \A k \in Msgs : fate'[k] = IF k = m THEN "sending" ELSE fate[k]
        BY <1>1, <1>4 DEF Dispatch, QueueTypeOK
    <2> QED
        BY <1>2, <1>3, <2>1, PoolStutters DEF PoolKept, PoolStatus
<1>5. ASSUME NEW h \in Holders, Push(h) \/ CancelDispatch(h) PROVE Pool!Next
    <2> DEFINE m == sending[h].msg
    <2>1. m \in Msgs /\ fate[m] = "sending" /\ n_senders' = n_senders
        BY <1>1, <1>5 DEF Push, CancelDispatch, QueueTypeOK, SentOnce
    <2>2. PICK f \in {"queued", "cancelled"} :
             \A k \in Msgs : fate'[k] = IF k = m THEN f ELSE fate[k]
        BY <1>1, <1>5, <2>1 DEF Push, CancelDispatch, QueueTypeOK
    <2>3. /\ PoolStatus(fate[m]) = "idle"
          /\ PoolStatus(f) \in {"accepted", "rejected"}
          /\ \A k \in Msgs : PoolStatus(fate'[k]) = IF k = m THEN PoolStatus(f)
                                                     ELSE PoolStatus(fate[k])
        BY <2>1, <2>2 DEF PoolStatus
    <2> QED
        BY <1>1, <1>2, <1>3, <2>1, <2>3, PoolSubmits DEF PoolKept
<1>6. ASSUME NEW h \in Holders, NEW m \in Msgs, NEW target \in Queues,
             TryDispatch(h, m, target)
      PROVE  Pool!Next
    <2>1. fate[m] = "new" /\ n_senders' = n_senders
        BY <1>6 DEF TryDispatch
    <2>2. PICK f \in {"queued", "dropped"} :
             \A k \in Msgs : fate'[k] = IF k = m THEN f ELSE fate[k]
        BY <1>1, <1>6 DEF TryDispatch, QueueTypeOK
    <2>3. /\ PoolStatus(fate[m]) = "idle"
          /\ PoolStatus(f) \in {"accepted", "rejected"}
          /\ \A k \in Msgs : PoolStatus(fate'[k]) = IF k = m THEN PoolStatus(f)
                                                     ELSE PoolStatus(fate[k])
        BY <2>1, <2>2 DEF PoolStatus
    <2> QED
        BY <1>1, <1>2, <1>3, <2>1, <2>3, PoolSubmits DEF PoolKept
<1>7. ASSUME UNCHANGED <<fate, n_senders>> PROVE UNCHANGED Pool!poolVars
    BY <1>2, <1>3, <1>7, PoolStutters DEF PoolKept
<1>8. ASSUME NEW h \in Holders, DropHandle(h)
      PROVE  Pool!Next \/ UNCHANGED Pool!poolVars
    <2>1. CASE n_senders' = n_senders
        BY <1>7, <1>8, <2>1 DEF DropHandle
    <2>2. CASE n_senders' # n_senders
        <3>1. n_senders' = 0 /\ UNCHANGED fate
            BY <1>1, <1>8, <2>2 DEF DropHandle, QueueTypeOK
        <3>2. /\ [k \in Msgs |-> PoolStatus(fate[k])]' = [k \in Msgs |-> PoolStatus(fate[k])]
              /\ [k \in Msgs |-> PoolThread(k)]' = [k \in Msgs |-> PoolThread(k)]
              /\ {t \in Threads : pc[t] = "crashed"}' = {t \in Threads : pc[t] = "crashed"}
            BY <1>2, <1>3, <3>1 DEF PoolStatus
        <3>3. Pool!Close
            BY <1>1, <1>3, <3>1, <3>2 DEF Pool!Close
        <3> QED
            BY <3>3 DEF Pool!Next
    <2> QED
        BY <2>1, <2>2
<1>9. \/ \E h, other \in Holders : ShareHandle(h, other)
      \/ \E q \in Queues, c \in Capacities : Resize(q, c)
      => UNCHANGED <<fate, n_senders>>
    BY DEF ShareHandle, Resize
<1> QED
    BY <1>4, <1>5, <1>6, <1>7, <1>8, <1>9 DEF UserStep

\* The steps that only move a thread are nothing to the pool, but the last one.
LEMMA MovePool ==
    ASSUME Inv, MsgInv, NEW t \in Threads,
           \/ Start \/ FailToStart
           \/ Await(t) \/ Timeout(t) \/ ChannelClosed(t) \/ Drained(t)
    PROVE  UNCHANGED Pool!poolVars
<1>1. pc \in [Threads -> Locations] /\ Main \in Threads
    BY DEF Inv, ThreadInv, RuntimeTypeOK, Threads
<1>2. UNCHANGED <<fate, n_senders, running, leaked, sync>>
    BY DEF Start, FailToStart, Await, Timeout, ChannelClosed, Drained, queueVars
<1>3. \A m \in Msgs : PoolThread(m)' = PoolThread(m)
    BY <1>2, PoolThreadKept
<1>4. CASE Start
    <2>1. \A u \in Threads : pc[u] \notin {"exited", "crashed"} /\ pc'[u] = "loop"
        BY <1>4 DEF Start, Inv, ThreadInv, BornTogether, Threads
    <2> QED
        BY <1>1, <1>2, <1>3, <2>1, PoolStutters DEF PoolKept
<1>5. CASE ~Start
    <2>1. PICK u \in Threads, loc \in Locations :
             /\ pc[u] \notin {"exited", "crashed"}
             /\ loc # "crashed" /\ (u = Main => loc # "exited")
             /\ pc' = [pc EXCEPT ![u] = loc]
        BY <1>1, <1>5 DEF FailToStart, Await, Timeout, ChannelClosed, Drained, Goto, Locations
    <2>2. PoolKept
        BY <1>1, <1>2, <2>1 DEF PoolKept
    <2> QED
        BY <1>2, <1>3, <2>2, PoolStutters
<1> QED
    BY <1>4, <1>5

\* The runtime ends, and leaves at most what a thread that was unwound leaves.
LEMMA JoinedPool ==
    ASSUME Inv, MsgInv, ExitInv, Joined
    PROVE  Pool!Next
<1>1. pc \in [Threads -> Locations] /\ Main \in Threads
    BY DEF Inv, ThreadInv, RuntimeTypeOK, Threads
<1>2. /\ pc[Main] = "join" /\ pc' = [pc EXCEPT ![Main] = "exited"]
      /\ \A w \in Workers : pc[w] \in {"exited", "crashed"}
      /\ UNCHANGED <<fate, n_senders, running, leaked, sync>>
    BY DEF Joined, Goto, queueVars
<1>3. n_senders = 0
    BY <1>1, <1>2 DEF ExitInv, LeavesLast
<1>4. \A t \in Threads : TasksOf(t) = {}
    <2>1. \A t \in Threads : pc[t] \in {"join", "exited", "crashed"}
        BY <1>2 DEF Threads
    <2>2. \A t \in Threads : sync[t] = NoMsg /\ \A i \in Stacks : running[t][i] = NoMsg
        BY <2>1 DEF ExitInv, LeavesLast, MsgInv, RunInv, Occupation
    <2> QED
        BY <2>2 DEF TasksOf
<1>5. ASSUME NEW m \in Msgs, PoolStatus(fate[m]) \in {"accepted", "active"}
      PROVE  /\ PoolStatus(fate[m]) = "accepted"
             /\ EligibleThreads(m) \cap {t \in Threads : pc[t] = "crashed"} # {}
    <2>1. fate[m] = "queued"
        <3>1. fate[m] \in {"queued", "running", "answered"}
            BY <1>5 DEF PoolStatus
        <3> QED
            BY <1>4, <3>1 DEF MsgInv, RunInv, RunOnce
    <2>2. PICK q \in Queues : m \in Elements(queue[q])
        BY <2>1 DEF MsgInv, SendInv, QueuedOnce
    <2>3. q \in Allowed(m) /\ queue[q] # <<>>
        BY <2>2 DEF Inv, QueueInv, QueueRouted, Elements
    <2>4. PICK t \in Threads : q \in RecvQueues(t)
        BY <2>3, RuntimeAssumption
           DEF Allowed, QueueOf, RecvQueues, MainQueues, WorkerQueues, Queues, Threads
    <2>5. t \in EligibleThreads(m)
        BY <2>3, <2>4, ReadsOnlyEligible
    <2>6. pc[t] = "crashed"
        BY <1>2, <2>3, <2>4 DEF ExitInv, LeavesLast, Threads
    <2> QED
        BY <2>1, <2>5, <2>6 DEF PoolStatus
<1>6. /\ [k \in Msgs |-> PoolStatus(fate[k])]' = [k \in Msgs |-> PoolStatus(fate[k])]
      /\ [k \in Msgs |-> PoolThread(k)]' = [k \in Msgs |-> PoolThread(k)]
      /\ {t \in Threads : pc[t] = "crashed"}' = {t \in Threads : pc[t] = "crashed"}
      /\ pc'[Main] = "exited"
    <2>1. \A m \in Msgs : PoolThread(m)' = PoolThread(m)
        BY <1>2, PoolThreadKept
    <2>2. \A t \in Threads : pc'[t] = "crashed" <=> pc[t] = "crashed"
        BY <1>1, <1>2
    <2> QED
        BY <1>1, <1>2, <2>1, <2>2 DEF PoolStatus
<1>7. Pool!Stop
    BY <1>2, <1>3, <1>5, <1>6 DEF Pool!Stop
<1> QED
    BY <1>7 DEF Pool!Next

\* A message that is received is a task that begins.
LEMMA HandlePool ==
    ASSUME Inv, MsgInv, PlacesAgree', NEW t \in Threads, NEW q \in RecvQueues(t),
           queue[q] # <<>>, Len(free[t]) > 0,
           pc[t] \notin {"crashed", "sync", "exited"},
           Handle(t, q, Head(queue[q]))
    PROVE  Pool!Next
<1> DEFINE m == Head(queue[q])
<1>1. QueueTypeOK /\ RuntimeTypeOK /\ QueuedOnce /\ RunOnce /\ Occupation /\ PlacesAgree
    BY OnThread DEF Inv, QueueInv, ThreadInv, MsgInv, SendInv, RunInv
<1>2. q \in Queues
    BY DEF RecvQueues, MainQueues, WorkerQueues, Queues
<1>3. /\ queue' = [queue EXCEPT ![q] = Tail(@)]
      /\ fate' = [fate EXCEPT ![m] = "running"]
      /\ n_senders' = n_senders /\ leaked' = leaked
    BY DEF Handle
<1>4. m \in Msgs /\ fate[m] = "queued" /\ m # NoMsg
    BY <1>1, <1>2, <1>3, DequeueOnce, QueueAssumption
<1>5. t \in EligibleThreads(m)
    <2>1. q \in Allowed(m)
        <3>1. m \in Elements(queue[q])
            BY <1>1, <1>2, PopFront DEF QueueTypeOK, QueuedOnce
        <3> QED
            BY <1>2, <3>1 DEF Elements, Inv, QueueInv, QueueRouted
    <2> QED
        BY <1>4, <2>1, ReadsOnlyEligible
<1>6. PoolKept
    <2>1. pc' = [pc EXCEPT ![t] = "sync"] \/ pc' = [pc EXCEPT ![t] = "loop"]
        BY DEF Handle, Goto
    <2>2. \A u \in Threads : pc'[u] = pc[u] \/ (u = t /\ pc'[u] \in {"sync", "loop"})
        BY <1>1, <2>1 DEF RuntimeTypeOK
    <2> QED
        BY <1>3, <2>2 DEF PoolKept, Threads
<1>7. sync[t] = NoMsg
    BY <1>1 DEF Occupation
<1>8. \A u \in Threads : TasksOf(u)' = IF u = t THEN TasksOf(u) \cup {m} ELSE TasksOf(u)
    <2>1. CASE Kind[m] = "blocking"
        <3>1. running' = running /\ sync' = [sync EXCEPT ![t] = m]
            BY <2>1 DEF Handle
        <3>2. \A u \in Threads : sync'[u] = IF u = t THEN m ELSE sync[u]
            BY <1>1, <3>1 DEF RuntimeTypeOK
        <3> QED
            BY <1>3, <1>4, <1>7, <3>1, <3>2 DEF TasksOf
    <2>2. CASE Kind[m] # "blocking"
        <3> DEFINE s == Head(free[t])
        <3>1. sync' = sync /\ running' = [running EXCEPT ![t][s] = m]
            BY <2>2 DEF Handle
        <3>2. s \in Stacks /\ running[t][s] = NoMsg
            <4>1. /\ free[t] \in Seq(Stacks) /\ free[t] # <<>> /\ NoRepeats(free[t])
                  /\ Elements(free[t]) = {i \in Stacks : running[t][i] = NoMsg}
                BY <1>1, PartitionByThread DEF Inv, ThreadInv, RuntimeTypeOK, PartitionOf
            <4> QED
                BY <4>1, PopFront
        <3>3. s \notin leaked[t]
            BY <1>1, <3>2 DEF Occupation
        <3>4. \A u \in Threads : \A i \in Stacks :
                 running'[u][i] = IF u = t /\ i = s THEN m ELSE running[u][i]
            BY <1>1, <3>1, <3>2 DEF RuntimeTypeOK
        <3> QED
            BY <1>3, <1>4, <3>1, <3>2, <3>3, <3>4 DEF TasksOf
    <2> QED
        BY <2>1, <2>2
<1>9. \A k \in Msgs : PoolThread(k)' = IF k = m THEN t ELSE PoolThread(k)
    <2> SUFFICES ASSUME NEW k \in Msgs
                 PROVE  PoolThread(k)' = IF k = m THEN t ELSE PoolThread(k)
        OBVIOUS
    <2>1. CASE \A u \in Threads : k \notin TasksOf(u)'
        BY <1>1, <1>8, <2>1 DEF PlacesAgree
    <2>2. CASE \E u \in Threads : k \in TasksOf(u)'
        BY <1>1, <1>8, <2>2 DEF PlacesAgree
    <2> QED
        BY <2>1, <2>2
<1>10. \A k \in Msgs :
          PoolStatus(fate'[k]) = IF k = m THEN "active" ELSE PoolStatus(fate[k])
    BY <1>1, <1>3, <1>4 DEF QueueTypeOK, PoolStatus
<1>11. Cardinality(Pool!ActiveOn(t)) < N + 1
    BY <1>1, <1>7, SameTasks, FewTasks
<1>12. PoolStatus(fate[m]) = "accepted"
    BY <1>4 DEF PoolStatus
<1> HIDE DEF m
<1> QED
    BY <1>4, <1>5, <1>6, <1>9, <1>10, <1>11, <1>12, PoolBegins

\* A task on a stack answers, which the pool does not see, completes or panics.
LEMMA StackTaskPool ==
    ASSUME Inv, MsgInv, PlacesAgree', NEW t \in Threads, NEW i \in Stacks,
           PostedAnswers(t, i) \/ TaskCompletes(t, i) \/ TaskPanics(t, i)
    PROVE  Pool!Next \/ UNCHANGED Pool!poolVars
<1> DEFINE m == running[t][i]
<1>1. QueueTypeOK /\ RuntimeTypeOK /\ RunOnce /\ PlacesAgree
    BY OnThread DEF Inv, QueueInv, ThreadInv, MsgInv, RunInv
<1>2. /\ i \notin leaked[t] /\ m # NoMsg /\ m \in Msgs
      /\ UNCHANGED <<n_senders, pc, sync>>
    BY <1>1, QueueAssumption, RuntimeAssumption
       DEF PostedAnswers, TaskCompletes, TaskPanics, threadVars, RuntimeTypeOK
<1>3. PoolStatus(fate[m]) = "active" /\ Kind[m] # "blocking"
    BY <1>1, <1>2 DEF RunOnce, StackFate, PoolStatus
<1>4. PoolKept
    BY <1>2 DEF PoolKept
<1>5. CASE PostedAnswers(t, i)
    <2>1. UNCHANGED <<running, leaked>> /\ fate' = [fate EXCEPT ![m] = "answered"]
        BY <1>5 DEF PostedAnswers, threadVars
    <2>2. \A k \in Msgs : PoolStatus(fate'[k]) = PoolStatus(fate[k])
        BY <1>1, <1>3, <2>1 DEF QueueTypeOK, PoolStatus
    <2>3. \A k \in Msgs : PoolThread(k)' = PoolThread(k)
        BY <1>2, <2>1, PoolThreadKept
    <2> QED
        BY <1>4, <2>2, <2>3, PoolStutters
<1>6. CASE TaskCompletes(t, i) \/ TaskPanics(t, i)
    <2>1. PICK f \in {"done", "panicked"} :
             /\ fate' = [fate EXCEPT ![m] = f]
             /\ \/ running' = [running EXCEPT ![t][i] = NoMsg] /\ UNCHANGED leaked
                \/ leaked' = [leaked EXCEPT ![t] = @ \cup {i}] /\ UNCHANGED running
        BY <1>6 DEF TaskCompletes, TaskPanics
    <2>2. \A k \in Msgs : PoolStatus(fate'[k]) = IF k = m THEN "finished"
                                                  ELSE PoolStatus(fate[k])
        BY <1>1, <2>1 DEF QueueTypeOK, PoolStatus
    <2>3. \A u \in Threads : \A j \in Stacks :
             j \notin leaked'[u] /\ running'[u][j] # NoMsg
                <=> j \notin leaked[u] /\ running[u][j] # NoMsg /\ ~(u = t /\ j = i)
        BY <1>1, <1>2, <2>1 DEF RuntimeTypeOK
    <2>4. \A u \in Threads : \A j \in Stacks :
             running'[u][j] = running[u][j] \/ (u = t /\ j = i)
        BY <1>1, <2>1 DEF RuntimeTypeOK
    <2>5. \A u \in Threads : sync[u] # m
        BY <1>1, <1>2, TasksAlive
    <2>6. \A u \in Threads : \A j \in Stacks : running[u][j] = m => u = t /\ j = i
        BY <1>1, <1>2 DEF RunOnce
    <2>7. ASSUME NEW u \in Threads, NEW k \in Msgs
          PROVE  k \in TasksOf(u)' <=> k \in TasksOf(u) /\ k # m
        <3>1. k # NoMsg
            BY QueueAssumption
        <3>2. k \in TasksOf(u) <=> k = sync[u] \/ \E j \in Stacks \ leaked[u] : k = running[u][j]
            BY <3>1 DEF TasksOf
        <3>3. k \in TasksOf(u)' <=>
                 k = sync[u] \/ \E j \in Stacks \ leaked'[u] : k = running'[u][j]
            BY <1>2, <3>1 DEF TasksOf
        <3> QED
            BY <2>3, <2>4, <2>5, <2>6, <3>1, <3>2, <3>3
    <2> QED
        BY <1>1, <1>2, <1>3, <1>4, <2>2, <2>7, PoolFinishes
<1> QED
    BY <1>5, <1>6

\* A blocking task returns.
LEMMA BlockingReturnsPool ==
    ASSUME Inv, MsgInv, PlacesAgree', NEW t \in Threads, BlockingReturns(t)
    PROVE  Pool!Next \/ UNCHANGED Pool!poolVars
<1> DEFINE m == sync[t]
<1>1. QueueTypeOK /\ RuntimeTypeOK /\ RunOnce /\ PlacesAgree
    BY OnThread DEF Inv, QueueInv, ThreadInv, MsgInv, RunInv
<1>2. /\ pc[t] = "sync" /\ pc' = [pc EXCEPT ![t] = "loop"]
      /\ sync' = [sync EXCEPT ![t] = NoMsg]
      /\ fate' = [fate EXCEPT ![m] = "done"]
      /\ UNCHANGED <<n_senders, running, leaked>>
    BY DEF BlockingReturns, Goto
<1>3. PoolKept
    BY <1>1, <1>2 DEF PoolKept, RuntimeTypeOK
<1>4. \A u \in Threads : sync'[u] = IF u = t THEN NoMsg ELSE sync[u]
    BY <1>1, <1>2 DEF RuntimeTypeOK
<1>5. CASE m = NoMsg
    <2>1. \A k \in Msgs : fate'[k] = fate[k]
        BY <1>1, <1>2, <1>5, QueueAssumption DEF QueueTypeOK
    <2>2. sync' = sync
        BY <1>1, <1>2, <1>5 DEF RuntimeTypeOK
    <2>3. \A k \in Msgs : PoolThread(k)' = PoolThread(k)
        BY <1>2, <2>2, PoolThreadKept
    <2> QED
        BY <1>3, <2>1, <2>3, PoolStutters
<1>6. CASE m # NoMsg
    <2>1. m \in Msgs /\ PoolStatus(fate[m]) = "active"
        BY <1>1, <1>6 DEF RuntimeTypeOK, RunOnce, SyncFate, PoolStatus
    <2>2. \A k \in Msgs : PoolStatus(fate'[k]) = IF k = m THEN "finished"
                                                  ELSE PoolStatus(fate[k])
        BY <1>1, <1>2 DEF QueueTypeOK, PoolStatus
    <2>3. \A u \in Threads : \A j \in Stacks : running[u][j] # m
        BY <1>1, <1>6, TasksAlive
    <2>4. \A u \in Threads : sync[u] = m => u = t
        BY <1>1, <1>6 DEF RunOnce
    <2>5. \A u \in Threads : \A k \in Msgs : k \in TasksOf(u)' <=> k \in TasksOf(u) /\ k # m
        BY <1>2, <1>4, <2>1, <2>3, <2>4, QueueAssumption DEF TasksOf
    <2> QED
        BY <1>1, <1>3, <2>1, <2>2, <2>5, PoolFinishes
<1> QED
    BY <1>5, <1>6

\* A blocking task unwinds its thread.
LEMMA BlockingPanicsPool ==
    ASSUME Inv, MsgInv, PlacesAgree', NEW t \in Threads, BlockingPanics(t)
    PROVE  Pool!Next
<1>1. QueueTypeOK /\ RuntimeTypeOK /\ RunOnce /\ PlacesAgree
    BY OnThread DEF Inv, QueueInv, ThreadInv, MsgInv, RunInv
<1>2. /\ pc[t] = "sync" /\ pc' = [pc EXCEPT ![t] = "crashed"]
      /\ sync[t] \in MayPanic
      /\ sync' = [sync EXCEPT ![t] = NoMsg]
      /\ running' = [running EXCEPT ![t] = [i \in Stacks |-> NoMsg]]
      /\ fate' = [m \in Msgs |-> IF m \in TasksOf(t) THEN "panicked" ELSE fate[m]]
      /\ UNCHANGED <<n_senders, leaked>>
    BY DEF BlockingPanics, Goto
<1>3. Pool!ActiveOn(t) = TasksOf(t) /\ sync[t] \in TasksOf(t)
    BY <1>2, SameTasks, RuntimeAssumption, QueueAssumption DEF TasksOf
<1>4. \A u \in Threads : TasksOf(u)' = IF u = t THEN {} ELSE TasksOf(u)
    <2>1. \A u \in Threads : sync'[u] = IF u = t THEN NoMsg ELSE sync[u]
        BY <1>1, <1>2 DEF RuntimeTypeOK
    <2>2. \A u \in Threads : running'[u] = IF u = t THEN [i \in Stacks |-> NoMsg] ELSE running[u]
        BY <1>1, <1>2 DEF RuntimeTypeOK
    <2> QED
        BY <1>2, <2>1, <2>2 DEF TasksOf
<1>5. \A k \in Msgs : PoolThread(k)' = IF k \in TasksOf(t) THEN NoMsg ELSE PoolThread(k)
    <2> SUFFICES ASSUME NEW k \in Msgs
                 PROVE  PoolThread(k)' = IF k \in TasksOf(t) THEN NoMsg ELSE PoolThread(k)
        OBVIOUS
    <2>1. CASE \A u \in Threads : k \notin TasksOf(u)'
        BY <1>1, <1>4, <2>1 DEF PlacesAgree
    <2>2. CASE \E u \in Threads : k \in TasksOf(u)'
        BY <1>1, <1>4, <2>2, TasksAlive DEF PlacesAgree
    <2> QED
        BY <2>1, <2>2
<1>6. [k \in Msgs |-> PoolThread(k)]'
         = [k \in Msgs |-> IF k \in TasksOf(t) THEN NoMsg ELSE [j \in Msgs |-> PoolThread(j)][k]]
    BY <1>5
<1>7. [k \in Msgs |-> PoolStatus(fate[k])]'
         = [k \in Msgs |-> IF k \in TasksOf(t) THEN "finished"
                           ELSE [j \in Msgs |-> PoolStatus(fate[j])][k]]
    BY <1>2 DEF PoolStatus
<1>8. {u \in Threads : pc[u] = "crashed"}' = {u \in Threads : pc[u] = "crashed"} \cup {t}
    BY <1>1, <1>2 DEF RuntimeTypeOK
<1>9. pc'[Main] = "exited" <=> pc[Main] = "exited"
    BY <1>1, <1>2 DEF RuntimeTypeOK, Threads
<1>10. Pool!Unwind(t)
    BY <1>2, <1>3, <1>6, <1>7, <1>8, <1>9 DEF Pool!Unwind
<1> QED
    BY <1>10 DEF Pool!Next

\* Every step of the runtime is one of the pool, or nothing to it.
LEMMA NextPool ==
    Inv /\ MsgInv /\ ExitInv /\ PlacesAgree' /\ [Next]_vars => [Pool!Next]_(Pool!poolVars)
<1> SUFFICES ASSUME Inv, MsgInv, ExitInv, PlacesAgree', [Next]_vars
             PROVE  Pool!Next \/ UNCHANGED Pool!poolVars
    OBVIOUS
<1>1. Main \in Threads
    BY DEF Threads
<1>2. CASE UserStep /\ UNCHANGED threadVars
    BY <1>2, UserPool
<1>3. CASE Start \/ FailToStart \/ Joined
    BY <1>1, <1>3, MovePool, JoinedPool
<1>4. CASE \E t \in Threads : LoopStep(t)
    <2>1. PICK t \in Threads : LoopStep(t)
        BY <1>4
    <2>2. CASE \E q \in Queues : Recv(t, q) \/ RecvClosing(t, q)
        <3>1. PICK q \in Queues : Recv(t, q) \/ RecvClosing(t, q)
            BY <2>2
        <3>2. q \in RecvQueues(t) /\ queue[q] # <<>> /\ Handle(t, q, Head(queue[q]))
            BY <3>1 DEF Recv, RecvClosing
        <3>3. Len(free[t]) > 0 /\ pc[t] \notin {"crashed", "sync", "exited"}
            BY <3>1 DEF Recv, RecvClosing, Inv, ThreadInv, StackPartition
        <3> QED
            BY <3>2, <3>3, HandlePool
    <2> QED
        BY <2>1, <2>2, MovePool DEF LoopStep
<1>5. CASE \E t \in Threads : BlockingReturns(t) \/ BlockingPanics(t)
    BY <1>5, BlockingReturnsPool, BlockingPanicsPool
<1>6. CASE \E t \in Threads : \E i \in Stacks : TaskStep(t, i) \/ TaskPanics(t, i)
    BY <1>6, StackTaskPool DEF TaskStep
<1>7. CASE UNCHANGED vars
    <2>1. UNCHANGED <<fate, n_senders, pc, running, leaked, sync>>
        BY <1>7 DEF vars, queueVars, threadVars
    <2>2. \A m \in Msgs : PoolThread(m)' = PoolThread(m)
        BY <2>1, PoolThreadKept
    <2> QED
        BY <2>1, <2>2, PoolStutters DEF PoolKept
<1>8. CASE Ended
    BY <1>7, <1>8 DEF Ended
<1> QED
    BY <1>2, <1>3, <1>4, <1>5, <1>6, <1>7, <1>8 DEF Next

\* The runtime keeps the promises of TaskPool: a task that was accepted runs
\* once, on a thread it may run on, and the pool ends last.
THEOREM RuntimeIsPool == Spec => PoolSpec
<1>1. Init => Pool!Init
    BY InitPool
<1>2. Inv /\ MsgInv /\ ExitInv => PlacesAgree
    BY OnThread
<1>3. Inv /\ MsgInv /\ ExitInv /\ PlacesAgree' /\ [Next]_vars => [Pool!Next]_(Pool!poolVars)
    BY NextPool
<1> QED
    BY <1>1, <1>2, <1>3, AllInv, PTL DEF Spec, PoolSpec, Pool!Spec
=============================================================================
