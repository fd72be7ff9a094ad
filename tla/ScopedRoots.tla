----------------------------- MODULE ScopedRoots -----------------------------
(***************************************************************************)
(* What frames promise, without a stack, offsets or a write barrier:       *)
(* frames nest, each of them has its own roots, closing a frame forgets    *)
(* its roots and nothing else, and data is never freed while a root of an  *)
(* open frame refers to it.  RootStack implements it.                      *)
(***************************************************************************)
EXTENDS Naturals, Sequences, SequencesExt

CONSTANTS
    Values,     \* the addresses data is allocated at
    Null        \* an unused root

VARIABLES
    frames,     \* Seq(Seq(Values \cup {Null})), the open frames, outermost first
    live        \* the values that are allocated

rootVars == <<frames, live>>

Init ==
    /\ frames = <<>>
    /\ live = {}

Open ==
    /\ frames' = Append(frames, <<>>)
    /\ UNCHANGED live

\* The innermost frame is closed.
Close ==
    /\ frames # <<>>
    /\ frames' = Front(frames)
    /\ UNCHANGED live

\* A panic closes every frame.
CloseAll ==
    /\ frames' = <<>>
    /\ UNCHANGED live

\* Root a new or an existing value in the innermost frame.
AddRoot(v) ==
    /\ frames # <<>>
    /\ frames' = [frames EXCEPT ![Len(frames)] = Append(@, v)]
    /\ live' = live \cup {v}

\* Reserve a root in the innermost frame, to be set later.
AddSlot ==
    /\ frames # <<>>
    /\ frames' = [frames EXCEPT ![Len(frames)] = Append(@, Null)]
    /\ UNCHANGED live

\* Set a root, in any frame.
SetRoot(k, i, v) ==
    /\ frames' = [frames EXCEPT ![k][i] = v]
    /\ live' = live \cup {v}

Rooted == (UNION {ToSet(frames[k]) : k \in 1..Len(frames)}) \ {Null}

\* A collection frees some of the values that no open frame roots.
Collect ==
    /\ live' \in SUBSET live
    /\ Rooted \subseteq live'
    /\ UNCHANGED frames

Next ==
    \/ Open \/ Close \/ CloseAll \/ AddSlot \/ Collect
    \/ \E v \in Values :
          \/ AddRoot(v)
          \/ \E k \in 1..Len(frames) : \E i \in 1..Len(frames[k]) : SetRoot(k, i, v)

Spec == Init /\ [][Next]_rootVars
=============================================================================
