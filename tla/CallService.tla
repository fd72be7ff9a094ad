----------------------------- MODULE CallService -----------------------------
(***************************************************************************)
(* What a persistent task promises to those who hold a handle to it, with- *)
(* out stacks, channels or handles: it answers the calls it accepted one   *)
(* at a time, in the order in which it accepted them, and it only ends     *)
(* when it owes no answer.  A task that dies takes the calls it has not    *)
(* answered with it, and only then is a call lost.  PersistentTasks imple- *)
(* ments it (PersistentTasks!ServiceSpec).                                 *)
(***************************************************************************)
EXTENDS Naturals, Sequences

CONSTANTS
    Tasks,      \* the persistent tasks
    Calls       \* the calls, each of them made at most once

VARIABLES
    mode,       \* [Tasks -> {"new", "open", "over", "dead"}]
    owed,       \* [Tasks -> the calls accepted and not answered, in order]
    outcome     \* [Calls -> {"none", "accepted", "answered", "refused", "lost"}]

serviceVars == <<mode, owed, outcome>>

Init ==
    /\ mode = [t \in Tasks |-> "new"]
    /\ owed = [t \in Tasks |-> <<>>]
    /\ outcome = [k \in Calls |-> "none"]

Open(t) ==
    /\ mode[t] = "new"
    /\ mode' = [mode EXCEPT ![t] = "open"]
    /\ UNCHANGED <<owed, outcome>>

Accept(t, k) ==
    /\ mode[t] = "open"
    /\ outcome[k] = "none"
    /\ owed' = [owed EXCEPT ![t] = Append(@, k)]
    /\ outcome' = [outcome EXCEPT ![k] = "accepted"]
    /\ UNCHANGED mode

\* A call that is not accepted: no room, the caller gave up, nobody receives.
Refuse(k) ==
    /\ outcome[k] = "none"
    /\ outcome' = [outcome EXCEPT ![k] = "refused"]
    /\ UNCHANGED <<mode, owed>>

Answer(t) ==
    /\ mode[t] = "open"
    /\ owed[t] # <<>>
    /\ outcome' = [outcome EXCEPT ![Head(owed[t])] = "answered"]
    /\ owed' = [owed EXCEPT ![t] = Tail(@)]
    /\ UNCHANGED mode

End(t) ==
    /\ mode[t] = "open"
    /\ owed[t] = <<>>
    /\ mode' = [mode EXCEPT ![t] = "over"]
    /\ UNCHANGED <<owed, outcome>>

\* What may be left of what a task owes when it loses the oldest of it.
Suffixes(s) == {SubSeq(s, i, Len(s)) : i \in 1..Len(s) + 1}

Owes(s, k) == \E i \in 1..Len(s) : s[i] = k

\* Dead tasks lose what they owe, at once or later, the oldest first; calls
\* that wait to be accepted by them, or that they make themselves, are refused.
Lose(dead) ==
    \E left \in [Tasks -> UNION {Suffixes(owed[t]) : t \in Tasks}],
       away \in SUBSET {k \in Calls : outcome[k] = "none"} :
        /\ \A t \in Tasks : IF t \in dead THEN left[t] \in Suffixes(owed[t])
                                         ELSE left[t] = owed[t]
        /\ owed' = left
        /\ outcome' = [k \in Calls |->
              IF \E t \in dead : Owes(owed[t], k) /\ ~Owes(left[t], k) THEN "lost"
              ELSE IF k \in away THEN "refused" ELSE outcome[k]]

DeadTasks == {t \in Tasks : mode[t] = "dead"}

\* The task could not be started.  It may have been the last to hold on to
\* what a dead task owes.
Abandon(t) ==
    /\ mode[t] = "new"
    /\ mode' = [mode EXCEPT ![t] = "over"]
    /\ Lose(DeadTasks)

Die(t) ==
    /\ mode[t] # "dead"
    /\ mode' = [mode EXCEPT ![t] = "dead"]
    /\ Lose(DeadTasks \cup {t})

LoseLate ==
    /\ Lose(DeadTasks)
    /\ UNCHANGED mode

Next ==
    \/ \E t \in Tasks : Open(t) \/ Answer(t) \/ End(t) \/ Abandon(t) \/ Die(t)
    \/ \E t \in Tasks, k \in Calls : Accept(t, k)
    \/ \E k \in Calls : Refuse(k)
    \/ LoseLate

Spec == Init /\ [][Next]_serviceVars
=============================================================================
