-------------------------- MODULE RootStackProofs --------------------------
(***************************************************************************)
(* RootStack for every set of values, every size and every depth: no       *)
(* reference dangles but those a task's state rooted in init's frame late. *)
(*                                                                         *)
(* NoDangling is not inductive.  It follows from two facts that hold in    *)
(* different parts of the code: a reference is backed by a slot of its own *)
(* frame that nothing else can write (RefsRooted), and what a slot holds   *)
(* survives every collection (BarrierKept).  Both need the order of the    *)
(* frames' offsets and what the modes of a persistent task say about them. *)
(***************************************************************************)
EXTENDS RootStack, SequenceTheorems, TLAPS

\* The offsets of the open frames are ordered and within the stack.
OffsetsSorted ==
    /\ \A k \in 1..Depth : offsets[k] <= Len(slots)
    /\ \A j, k \in 1..Depth : j <= k => offsets[j] <= offsets[k]
    /\ Depth = 0 => slots = <<>>
    /\ Depth > 0 => offsets[1] = 0

\* Which frames a persistent task has in each of its modes.
ModeAgrees ==
    /\ mode \in {"idle", "done"} => Depth = 1 /\ kept <= Len(slots)
    /\ mode = "idle" => kept = Len(slots)
    /\ mode \in {"call", "exit"} => Depth >= 2 /\ offsets[2] = kept

\* x has a slot above the offset of its own frame and below those of the
\* frames that are nested in it.
Placed(x) ==
    /\ x.level \in 1..Depth
    /\ offsets[x.level] < x.slot
    /\ x.slot <= Len(slots)
    /\ \A k \in 1..Depth : x.level < k => x.slot <= offsets[k]
    /\ mode \in {"idle", "done"} => x.slot <= kept

AllPlaced == (\A r \in refs : Placed(r)) /\ (\A o \in tokens : Placed(o))

\* The contents of the slots that references and tokens own.
SlotsOwned ==
    /\ \A r \in refs : slots[r.slot] = r.val
    /\ \A o \in tokens, r \in refs : r.slot = o.slot => r.temporary
    /\ \A o, p \in tokens : o.slot = p.slot => o = p

\* The inductive invariant.
Inv ==
    /\ TypeOK
    /\ OffsetsSorted
    /\ ModeAgrees
    /\ AllPlaced
    /\ SlotsOwned
    /\ BarrierKept

USE DEF Depth

----------------------------------------------------------------------------
\* What popping roots leaves.
LEMMA TruncateFacts ==
    ASSUME NEW S, NEW s \in Seq(S), NEW n \in Nat
    PROVE  /\ Truncate(s, n) \in Seq(S)
           /\ n <= Len(s) => Len(Truncate(s, n)) = n
           /\ Len(Truncate(s, n)) <= Len(s)
           /\ \A i \in 1..Len(Truncate(s, n)) : Truncate(s, n)[i] = s[i]
    BY DEF Truncate

\* The initial state satisfies the invariant.
LEMMA InitInv == Init => Inv
<1> SUFFICES ASSUME Init PROVE Inv
    OBVIOUS
<1> USE DEF Init
<1>1. TypeOK
    <2>1. slots \in Seq(Values \cup {Null}) /\ offsets \in Seq(Nat)
        BY EmptySeq
    <2>2. tokens \subseteq [slot : Nat, level : Nat, kind : {"output", "reusable"}]
        OBVIOUS
    <2>3. refs \subseteq [val : Values, slot : Nat, level : Nat, temporary : BOOLEAN]
        OBVIOUS
    <2> QED
        BY <2>1, <2>2, <2>3 DEF TypeOK
<1>2. OffsetsSorted /\ ModeAgrees
    BY DEF OffsetsSorted, ModeAgrees
<1>3. AllPlaced /\ SlotsOwned
    BY DEF AllPlaced, SlotsOwned
<1>4. BarrierKept
    BY DEF BarrierKept, Roots
<1> QED
    BY <1>1, <1>2, <1>3, <1>4 DEF Inv

\* Storing a value keeps the types of what the collector knows, and the
\* barrier for every stack that holds v and what it held before.
LEMMA StoreFacts ==
    ASSUME TypeOK, BarrierKept, NEW v \in Values, Store(v)
    PROVE  /\ heap' \subseteq Values
           /\ young' \subseteq heap'
           /\ remembered' \in BOOLEAN
           /\ stackOld' \in BOOLEAN
           /\ Roots \cup {v} \subseteq heap'
           /\ stackOld' /\ ~remembered' => (Roots \cup {v}) \cap young' = {}
<1> USE DEF Store, TypeOK, BarrierKept
<1>1. heap' \subseteq Values /\ young' \subseteq heap'
    BY DEF Fresh
<1>2. remembered' \in BOOLEAN /\ stackOld' \in BOOLEAN
    OBVIOUS
<1>3. Roots \cup {v} \subseteq heap'
    OBVIOUS
<1>4. ASSUME stackOld', ~remembered' PROVE (Roots \cup {v}) \cap young' = {}
    <2>1. stackOld /\ ~remembered /\ v \notin young'
        BY <1>4
    <2>2. Roots \cap young = {} /\ Roots \subseteq heap
        BY <2>1
    <2>3. young' \subseteq young
        BY <2>1 DEF Fresh
    <2> QED
        BY <2>1, <2>2, <2>3
<1> QED
    BY <1>1, <1>2, <1>3, <1>4

\* What references and tokens name is a slot of the stack.
LEMMA SlotOnStack ==
    ASSUME Inv, NEW x \in refs \cup tokens
    PROVE  x.slot \in 1..Len(slots) /\ Placed(x)
<1>1. x.slot \in Nat /\ Len(slots) \in Nat /\ offsets \in Seq(Nat)
    BY DEF Inv, TypeOK
<1>2. Placed(x) /\ x.level \in 1..Len(offsets)
    BY DEF Inv, AllPlaced, Placed
<1>3. offsets[x.level] \in Nat
    BY <1>1, <1>2, ElementOfSeq
<1> QED
    BY <1>1, <1>2, <1>3 DEF Placed

\* A new root at the end of the stack does not move what was there.
LEMMA GrowFacts ==
    ASSUME TypeOK, NEW x \in Values \cup {Null}, slots' = Append(slots, x)
    PROVE  /\ slots' \in Seq(Values \cup {Null})
           /\ Len(slots') = Len(slots) + 1
           /\ \A i \in 1..Len(slots) : slots'[i] = slots[i]
           /\ slots'[Len(slots) + 1] = x
           /\ Roots' = (Roots \cup {x}) \ {Null}
<1> USE DEF TypeOK
<1>1. slots' \in Seq(Values \cup {Null}) /\ Len(slots') = Len(slots) + 1
    OBVIOUS
<1>2. (\A i \in 1..Len(slots) : slots'[i] = slots[i]) /\ slots'[Len(slots) + 1] = x
    OBVIOUS
<1>3. Len(slots) \in Nat
    OBVIOUS
<1>4. Roots' = (Roots \cup {x}) \ {Null}
    BY <1>1, <1>2, <1>3 DEF Roots
<1> QED
    BY <1>1, <1>2, <1>4

----------------------------------------------------------------------------
\* Steps that open a frame.
LEMMA BaseInv == Inv /\ Base => Inv'
<1> SUFFICES ASSUME Inv, Base PROVE Inv'
    OBVIOUS
<1> USE DEF Inv, Base
<1>1. offsets' = <<0>> /\ slots = <<>> /\ mode = "scope"
    BY DEF OffsetsSorted, ModeAgrees, TypeOK
<1>2. refs = {} /\ tokens = {}
    BY DEF AllPlaced, Placed
<1>3. TypeOK'
    BY <1>1 DEF TypeOK, gcVars
<1>4. OffsetsSorted' /\ ModeAgrees'
    BY <1>1 DEF OffsetsSorted, ModeAgrees
<1>5. AllPlaced' /\ SlotsOwned'
    BY <1>2 DEF AllPlaced, SlotsOwned
<1>6. BarrierKept'
    BY DEF BarrierKept, Roots, gcVars
<1> QED
    BY <1>3, <1>4, <1>5, <1>6

LEMMA NestInv == Inv /\ Nest => Inv'
<1> SUFFICES ASSUME Inv, Nest PROVE Inv'
    OBVIOUS
<1> USE DEF Inv, Nest, Runs
<1>1. /\ offsets \in Seq(Nat)
      /\ slots \in Seq(Values \cup {Null})
      /\ Len(slots) \in Nat
      /\ Len(offsets) \in Nat
    BY DEF TypeOK
<1>2. /\ offsets' \in Seq(Nat)
      /\ Len(offsets') = Len(offsets) + 1
      /\ \A k \in 1..Len(offsets) : offsets'[k] = offsets[k]
      /\ offsets'[Len(offsets) + 1] = Len(slots)
    BY <1>1
<1>3. TypeOK'
    BY <1>2 DEF TypeOK, gcVars
<1>4. OffsetsSorted' /\ ModeAgrees'
    BY <1>1, <1>2 DEF OffsetsSorted, ModeAgrees
<1>5. AllPlaced'
    BY <1>1, <1>2 DEF AllPlaced, Placed
<1>6. SlotsOwned' /\ BarrierKept'
    BY DEF SlotsOwned, BarrierKept, Roots, gcVars
<1> QED
    BY <1>3, <1>4, <1>5, <1>6

----------------------------------------------------------------------------
\* Steps that close frames.  The roots that stay do not move.
LEMMA ShrinkFacts ==
    ASSUME TypeOK, NEW n \in Nat, n <= Len(slots), slots' = Truncate(slots, n)
    PROVE  /\ slots' \in Seq(Values \cup {Null})
           /\ Len(slots') = n
           /\ \A i \in 1..n : slots'[i] = slots[i]
           /\ Roots' \subseteq Roots
<1>1. /\ slots' \in Seq(Values \cup {Null})
      /\ Len(slots') = n
      /\ \A i \in 1..n : slots'[i] = slots[i]
    BY TruncateFacts DEF TypeOK
<1>2. Roots' \subseteq Roots
    BY <1>1 DEF Roots, TypeOK
<1> QED
    BY <1>1, <1>2

\* The same for the offsets of the frames.
LEMMA CloseFacts ==
    ASSUME offsets \in Seq(Nat), NEW k \in Nat, k < Depth,
           offsets' = SubSeq(offsets, 1, k)
    PROVE  /\ offsets' \in Seq(Nat)
           /\ Len(offsets') = k
           /\ \A i \in 1..k : offsets'[i] = offsets[i]
<1>1. offsets' = Truncate(offsets, k)
    BY DEF Truncate
<1>2. Len(offsets) \in Nat /\ k <= Len(offsets)
    OBVIOUS
<1>3. /\ Truncate(offsets, k) \in Seq(Nat)
      /\ Len(Truncate(offsets, k)) = k
      /\ \A i \in 1..Len(Truncate(offsets, k)) : Truncate(offsets, k)[i] = offsets[i]
    BY <1>2, TruncateFacts
<1> QED
    BY <1>1, <1>3

LEMMA LeaveScopeInv == Inv /\ LeaveScope => Inv'
<1> SUFFICES ASSUME Inv, LeaveScope PROVE Inv'
    OBVIOUS
<1> USE DEF Inv, LeaveScope
<1> DEFINE d == Len(offsets)
<1>1. /\ offsets \in Seq(Nat)
      /\ Len(slots) \in Nat
      /\ d \in Nat
      /\ d >= 1
      /\ \A k \in 1..d : offsets[k] \in Nat
      /\ offsets[d] <= Len(slots)
    BY ElementOfSeq DEF TypeOK, OffsetsSorted
<1>2. /\ slots' \in Seq(Values \cup {Null})
      /\ Len(slots') = offsets[d]
      /\ \A i \in 1..offsets[d] : slots'[i] = slots[i]
      /\ Roots' \subseteq Roots
    BY <1>1, ShrinkFacts
<1>3. /\ offsets' \in Seq(Nat)
      /\ Len(offsets') = d - 1
      /\ \A k \in 1..(d - 1) : offsets'[k] = offsets[k]
    <2>1. d - 1 \in Nat /\ d - 1 < Len(offsets)
        BY <1>1
    <2> QED
        BY <1>1, <2>1, CloseFacts
<1>4. TypeOK'
    BY <1>2, <1>3 DEF TypeOK, UpTo, gcVars
<1>5. OffsetsSorted'
    <2>1. ASSUME NEW k \in 1..(d - 1) PROVE offsets'[k] <= Len(slots')
        <3>1. k \in 1..d /\ d \in 1..d /\ k <= d
            BY <1>1
        <3> QED
            BY <1>2, <1>3, <3>1 DEF OffsetsSorted
    <2>2. d = 1 => slots' = <<>>
        BY <1>1, <1>2 DEF OffsetsSorted
    <2>3. ASSUME NEW j \in 1..(d - 1), NEW k \in 1..(d - 1), j <= k
          PROVE  offsets'[j] <= offsets'[k]
        <3>1. j \in 1..d /\ k \in 1..d
            BY <1>1
        <3> QED
            BY <1>3, <2>3, <3>1 DEF OffsetsSorted
    <2>4. d - 1 > 0 => offsets'[1] = 0
        BY <1>1, <1>3 DEF OffsetsSorted
    <2>5. d - 1 = 0 => slots' = <<>>
        BY <1>1, <2>2
    <2> QED
        BY <1>3, <2>1, <2>3, <2>4, <2>5 DEF OffsetsSorted
<1>6. ModeAgrees'
    BY <1>1, <1>2, <1>3 DEF ModeAgrees, TypeOK
<1>7. ASSUME NEW x \in refs \cup tokens, x.level <= d - 1
      PROVE  Placed(x)' /\ slots'[x.slot] = slots[x.slot]
    <2>1. x.level \in Nat /\ x.slot \in Nat /\ Placed(x)
        BY DEF TypeOK, AllPlaced
    <2>2. x.level \in 1..d /\ d \in 1..d /\ x.level < d
        BY <1>1, <1>7, <2>1 DEF Placed
    <2>3. x.slot <= offsets[d] /\ x.slot >= 1
        BY <1>1, <2>1, <2>2 DEF Placed
    <2>4. mode' \in {"idle", "done"} => FALSE
        BY <1>1, <1>7, <2>1 DEF Placed, ModeAgrees, TypeOK
    <2>5. slots'[x.slot] = slots[x.slot]
        BY <1>1, <1>2, <2>1, <2>2, <2>3
    <2>6. x.level \in 1..(d - 1) /\ offsets'[x.level] < x.slot /\ x.slot <= Len(slots')
        BY <1>1, <1>2, <1>3, <2>1, <2>2, <2>3, SMTT(20) DEF Placed
    <2>7. ASSUME NEW k \in 1..(d - 1), x.level < k
          PROVE  x.slot <= offsets'[k]
        <3>1. k \in 1..d
            BY <1>1
        <3> QED
            BY <1>3, <2>1, <2>7, <3>1 DEF Placed
    <2> QED
        BY <1>3, <2>4, <2>5, <2>6, <2>7 DEF Placed
<1>8. AllPlaced'
    BY <1>7 DEF AllPlaced, UpTo
<1>9. SlotsOwned'
    BY <1>7 DEF SlotsOwned, UpTo
<1>10. BarrierKept'
    BY <1>2 DEF BarrierKept, gcVars
<1> QED
    BY <1>4, <1>5, <1>6, <1>8, <1>9, <1>10

LEMMA UnwindInv == Inv /\ Unwind => Inv'
<1> SUFFICES ASSUME Inv, Unwind PROVE Inv'
    OBVIOUS
<1> USE DEF Inv, Unwind
<1>1. 0 \in Nat /\ 0 <= Len(slots) /\ slots' = Truncate(slots, 0)
    BY DEF OffsetsSorted, TypeOK
<1>2. /\ slots' \in Seq(Values \cup {Null})
      /\ Len(slots') = 0
      /\ Roots' \subseteq Roots
    BY <1>1, ShrinkFacts
<1>3. slots' = <<>> /\ offsets' = <<>>
    BY <1>2
<1>4. TypeOK'
    <2>1. offsets' \in Seq(Nat)
        BY <1>3, EmptySeq
    <2> QED
        BY <1>2, <2>1 DEF TypeOK, gcVars
<1>5. OffsetsSorted' /\ ModeAgrees'
    BY <1>3 DEF OffsetsSorted, ModeAgrees
<1>6. AllPlaced' /\ SlotsOwned'
    BY DEF AllPlaced, SlotsOwned
<1>7. BarrierKept'
    BY <1>2 DEF BarrierKept, gcVars
<1> QED
    BY <1>4, <1>5, <1>6, <1>7

----------------------------------------------------------------------------
\* The steps of a persistent task.
LEMMA InitReturnsInv == Inv /\ InitReturns => Inv'
<1> SUFFICES ASSUME Inv, InitReturns PROVE Inv'
    OBVIOUS
<1> USE DEF Inv, InitReturns
<1>1. TypeOK'
    BY DEF TypeOK, gcVars
<1>2. OffsetsSorted' /\ ModeAgrees'
    <2>1. OffsetsSorted'
        BY DEF OffsetsSorted
    <2>2. ModeAgrees'
        BY DEF ModeAgrees, TypeOK
    <2> QED
        BY <2>1, <2>2
<1>3. AllPlaced'
    BY DEF AllPlaced, Placed
<1>4. SlotsOwned' /\ BarrierKept'
    BY DEF SlotsOwned, BarrierKept, Roots, gcVars
<1> QED
    BY <1>1, <1>2, <1>3, <1>4

\* A frame is opened above the others.
LEMMA OpenFacts ==
    ASSUME NEW s \in Seq(Nat), NEW n \in Nat
    PROVE  /\ Append(s, n) \in Seq(Nat)
           /\ Len(Append(s, n)) = Len(s) + 1
           /\ \A i \in 1..Len(s) : Append(s, n)[i] = s[i]
           /\ Append(s, n)[Len(s) + 1] = n
    OBVIOUS

\* Between two calls every reference and token is in init's frame, where
\* reconstruct pops nothing.
LEMMA ReconstructInv ==
    ASSUME NEW next \in {"call", "exit"}
    PROVE  Inv /\ Reconstruct(next) => Inv'
<1> SUFFICES ASSUME Inv, Reconstruct(next) PROVE Inv'
    OBVIOUS
<1> USE DEF Inv, Reconstruct
<1>1. /\ offsets \in Seq(Nat)
      /\ Len(offsets) = 1
      /\ offsets[1] = 0
      /\ kept \in Nat
      /\ kept <= Len(slots)
      /\ Len(slots) \in Nat
    BY DEF TypeOK, OffsetsSorted, ModeAgrees
<1>2. /\ slots' \in Seq(Values \cup {Null})
      /\ Len(slots') = kept
      /\ \A i \in 1..kept : slots'[i] = slots[i]
      /\ Roots' \subseteq Roots
    BY <1>1, ShrinkFacts
<1>3. /\ offsets' \in Seq(Nat)
      /\ Len(offsets') = 2
      /\ offsets'[1] = 0
      /\ offsets'[2] = kept
    <2>1. offsets' = Append(offsets, kept)
        OBVIOUS
    <2>2. /\ Append(offsets, kept) \in Seq(Nat)
          /\ Len(Append(offsets, kept)) = Len(offsets) + 1
          /\ \A i \in 1..Len(offsets) : Append(offsets, kept)[i] = offsets[i]
          /\ Append(offsets, kept)[Len(offsets) + 1] = kept
        BY <1>1, OpenFacts
    <2>3. 1 \in 1..Len(offsets) /\ Len(offsets) + 1 = 2
        BY <1>1
    <2> QED
        BY <1>1, <2>1, <2>2, <2>3
<1>4. TypeOK'
    BY <1>2, <1>3 DEF TypeOK, gcVars
<1>5. OffsetsSorted' /\ ModeAgrees'
    BY <1>1, <1>2, <1>3 DEF OffsetsSorted, ModeAgrees
<1>6. ASSUME NEW x \in refs \cup tokens
      PROVE  Placed(x)' /\ slots'[x.slot] = slots[x.slot]
    <2>1. x.level = 1 /\ x.slot \in 1..kept
        BY <1>1 DEF TypeOK, AllPlaced, Placed
    <2> QED
        BY <1>1, <1>2, <1>3, <2>1 DEF Placed
<1>7. AllPlaced' /\ SlotsOwned'
    BY <1>6 DEF AllPlaced, SlotsOwned
<1>8. BarrierKept'
    BY <1>2 DEF BarrierKept, gcVars
<1> QED
    BY <1>4, <1>5, <1>7, <1>8

\* What remains after a call was in init's frame before it.
LEMMA CallReturnsInv == Inv /\ CallReturns => Inv'
<1> SUFFICES ASSUME Inv, CallReturns PROVE Inv'
    OBVIOUS
<1> USE DEF Inv, CallReturns
<1>1. /\ offsets \in Seq(Nat)
      /\ Len(offsets) = 2
      /\ offsets[1] = 0
      /\ offsets[2] = kept
      /\ kept \in Nat
      /\ kept <= Len(slots)
      /\ Len(slots) \in Nat
    BY DEF TypeOK, OffsetsSorted, ModeAgrees
<1>2. /\ offsets' \in Seq(Nat)
      /\ Len(offsets') = 1
      /\ offsets'[1] = 0
    <2>1. 1 \in Nat /\ 1 < Depth
        BY <1>1
    <2> QED
        BY <1>1, <2>1, CloseFacts
<1>3. /\ slots' \in Seq(Values \cup {Null})
      /\ Len(slots') = kept
      /\ \A i \in 1..kept : slots'[i] = slots[i]
      /\ Roots' \subseteq Roots
    BY <1>1, ShrinkFacts
<1>4. TypeOK'
    BY <1>2, <1>3 DEF TypeOK, UpTo, gcVars
<1>5. OffsetsSorted' /\ ModeAgrees'
    BY <1>1, <1>2, <1>3 DEF OffsetsSorted, ModeAgrees
<1>6. ASSUME NEW x \in refs \cup tokens, x.level <= 1
      PROVE  Placed(x)' /\ slots'[x.slot] = slots[x.slot]
    <2>1. x.level = 1 /\ x.slot \in 1..kept
        BY <1>1, <1>6 DEF TypeOK, AllPlaced, Placed
    <2> QED
        BY <1>1, <1>2, <1>3, <2>1 DEF Placed
<1>7. AllPlaced' /\ SlotsOwned'
    BY <1>6 DEF AllPlaced, SlotsOwned, UpTo
<1>8. BarrierKept'
    BY <1>3 DEF BarrierKept, gcVars
<1> QED
    BY <1>4, <1>5, <1>7, <1>8

LEMMA ExitReturnsInv == Inv /\ ExitReturns => Inv'
<1> SUFFICES ASSUME Inv, ExitReturns PROVE Inv'
    OBVIOUS
<1> USE DEF Inv, ExitReturns
<1>1. /\ offsets \in Seq(Nat)
      /\ Len(offsets) = 2
      /\ offsets[1] = 0
      /\ offsets[2] = kept
      /\ kept <= Len(slots)
    BY DEF TypeOK, OffsetsSorted, ModeAgrees
<1>2. /\ offsets' \in Seq(Nat)
      /\ Len(offsets') = 1
      /\ offsets'[1] = 0
    <2>1. 1 \in Nat /\ 1 < Depth
        BY <1>1
    <2> QED
        BY <1>1, <2>1, CloseFacts
<1>3. TypeOK'
    BY <1>2 DEF TypeOK, gcVars
<1>4. OffsetsSorted' /\ ModeAgrees'
    BY <1>1, <1>2 DEF OffsetsSorted, ModeAgrees, TypeOK
<1>5. AllPlaced' /\ SlotsOwned'
    BY DEF AllPlaced, SlotsOwned
<1>6. BarrierKept'
    BY DEF BarrierKept, Roots, gcVars
<1> QED
    BY <1>3, <1>4, <1>5, <1>6

----------------------------------------------------------------------------
\* Steps that root data.
LEMMA RootInv ==
    ASSUME NEW v \in Values
    PROVE  Inv /\ Root(v) => Inv'
<1> SUFFICES ASSUME Inv, Root(v) PROVE Inv'
    OBVIOUS
<1> USE DEF Inv, Root, Runs
<1> PICK r : r = [val |-> v, slot |-> Len(slots) + 1, level |-> Len(offsets),
                  temporary |-> FALSE]
    OBVIOUS
<1>1. /\ Len(slots) \in Nat
      /\ Len(offsets) \in Nat
      /\ Len(offsets) > 0
      /\ refs' = refs \cup {r}
      /\ mode \notin {"idle", "done"}
    BY DEF TypeOK
<1>2. /\ slots' \in Seq(Values \cup {Null})
      /\ Len(slots') = Len(slots) + 1
      /\ \A i \in 1..Len(slots) : slots'[i] = slots[i]
      /\ slots'[Len(slots) + 1] = v
      /\ Roots' = (Roots \cup {v}) \ {Null}
    BY GrowFacts
<1>3. TypeOK'
    <2>1. r \in [val : Values, slot : Nat, level : Nat, temporary : BOOLEAN]
        BY <1>1
    <2> QED
        BY <1>1, <1>2, <2>1, StoreFacts DEF TypeOK
<1>4. OffsetsSorted' /\ ModeAgrees'
    BY <1>1, <1>2 DEF OffsetsSorted, ModeAgrees, TypeOK
<1>5. ASSUME NEW x \in refs \cup tokens
      PROVE  /\ Placed(x)'
             /\ slots'[x.slot] = slots[x.slot]
             /\ x.slot # Len(slots) + 1
    <2>1. x.slot \in 1..Len(slots) /\ Placed(x)
        BY SlotOnStack
    <2> QED
        BY <1>1, <1>2, <2>1 DEF Placed
<1>6. Placed(r)' /\ slots'[r.slot] = r.val
    <2>1. offsets[Len(offsets)] <= Len(slots) /\ offsets[Len(offsets)] \in Nat
        BY <1>1, ElementOfSeq DEF OffsetsSorted, TypeOK
    <2> QED
        BY <1>1, <1>2, <2>1 DEF Placed
<1>7. AllPlaced'
    BY <1>1, <1>5, <1>6 DEF AllPlaced
<1>8. SlotsOwned'
    <2>1. ASSUME NEW q \in refs' PROVE slots'[q.slot] = q.val
        BY <1>1, <1>5, <1>6 DEF SlotsOwned
    <2>2. ASSUME NEW o \in tokens', NEW q \in refs', q.slot = o.slot
          PROVE  q.temporary
        <3>1. o \in tokens /\ o.slot # r.slot
            BY <1>5
        <3> QED
            BY <1>1, <2>2, <3>1 DEF SlotsOwned
    <2>3. \A o, p \in tokens' : o.slot = p.slot => o = p
        BY DEF SlotsOwned
    <2> QED
        BY <2>1, <2>2, <2>3 DEF SlotsOwned
<1>9. BarrierKept'
    BY <1>2, StoreFacts DEF BarrierKept
<1> QED
    BY <1>3, <1>4, <1>7, <1>8, <1>9

\* The references of the frames stay where they are when the state of a task
\* roots data.
LEMMA RootInKeptFrameInv ==
    ASSUME NEW v \in Values
    PROVE  Inv /\ RootInKeptFrame(v) => Inv'
<1> SUFFICES ASSUME Inv, RootInKeptFrame(v) PROVE Inv'
    OBVIOUS
<1> USE DEF Inv, RootInKeptFrame
<1>1. Len(slots) \in Nat /\ Len(offsets) \in Nat /\ mode \notin {"idle", "done"}
    BY DEF TypeOK
<1>2. /\ slots' \in Seq(Values \cup {Null})
      /\ Len(slots') = Len(slots) + 1
      /\ \A i \in 1..Len(slots) : slots'[i] = slots[i]
      /\ Roots' = (Roots \cup {v}) \ {Null}
    BY GrowFacts
<1>3. TypeOK'
    BY <1>1, <1>2, StoreFacts DEF TypeOK
<1>4. OffsetsSorted' /\ ModeAgrees'
    BY <1>1, <1>2 DEF OffsetsSorted, ModeAgrees, TypeOK
<1>5. ASSUME NEW x \in refs \cup tokens
      PROVE  Placed(x)' /\ slots'[x.slot] = slots[x.slot]
    <2>1. x.slot \in 1..Len(slots) /\ Placed(x)
        BY SlotOnStack
    <2> QED
        BY <1>1, <1>2, <2>1 DEF Placed
<1>6. AllPlaced' /\ SlotsOwned'
    BY <1>5 DEF AllPlaced, SlotsOwned
<1>7. BarrierKept'
    BY <1>2, StoreFacts DEF BarrierKept
<1> QED
    BY <1>3, <1>4, <1>6, <1>7

LEMMA ReserveInv ==
    ASSUME NEW kind \in {"output", "reusable"}
    PROVE  Inv /\ Reserve(kind) => Inv'
<1> SUFFICES ASSUME Inv, Reserve(kind) PROVE Inv'
    OBVIOUS
<1> USE DEF Inv, Reserve, Runs
<1> PICK o : o = [slot |-> Len(slots) + 1, level |-> Len(offsets), kind |-> kind]
    OBVIOUS
<1>1. /\ Len(slots) \in Nat
      /\ Len(offsets) \in Nat
      /\ Len(offsets) > 0
      /\ tokens' = tokens \cup {o}
      /\ mode \notin {"idle", "done"}
    BY DEF TypeOK
<1>2. /\ slots' \in Seq(Values \cup {Null})
      /\ Len(slots') = Len(slots) + 1
      /\ \A i \in 1..Len(slots) : slots'[i] = slots[i]
      /\ Roots' = (Roots \cup {Null}) \ {Null}
    BY GrowFacts
<1>3. TypeOK'
    <2>1. o \in [slot : Nat, level : Nat, kind : {"output", "reusable"}]
        BY <1>1
    <2> QED
        BY <1>1, <1>2, <2>1 DEF TypeOK, gcVars
<1>4. OffsetsSorted' /\ ModeAgrees'
    BY <1>1, <1>2 DEF OffsetsSorted, ModeAgrees, TypeOK
<1>5. ASSUME NEW x \in refs \cup tokens
      PROVE  /\ Placed(x)'
             /\ slots'[x.slot] = slots[x.slot]
             /\ x.slot # o.slot
    <2>1. x.slot \in 1..Len(slots) /\ Placed(x)
        BY SlotOnStack
    <2> QED
        BY <1>1, <1>2, <2>1 DEF Placed
<1>6. Placed(o)'
    <2>1. offsets[Len(offsets)] <= Len(slots) /\ offsets[Len(offsets)] \in Nat
        BY <1>1, ElementOfSeq DEF OffsetsSorted, TypeOK
    <2> QED
        BY <1>1, <1>2, <2>1 DEF Placed
<1>7. AllPlaced'
    BY <1>1, <1>5, <1>6 DEF AllPlaced
<1>8. SlotsOwned'
    <2>1. \A r \in refs' : slots'[r.slot] = r.val
        BY <1>5 DEF SlotsOwned
    <2>2. \A p \in tokens', r \in refs' : r.slot = p.slot => r.temporary
        BY <1>1, <1>5 DEF SlotsOwned
    <2>3. \A p, q \in tokens' : p.slot = q.slot => p = q
        BY <1>1, <1>5 DEF SlotsOwned
    <2> QED
        BY <2>1, <2>2, <2>3 DEF SlotsOwned
<1>9. BarrierKept'
    BY <1>2 DEF BarrierKept, Roots, gcVars
<1> QED
    BY <1>3, <1>4, <1>7, <1>8, <1>9

\* Setting the slot of a token moves no other root.
LEMMA SetRootFacts ==
    ASSUME Inv, NEW o \in tokens, NEW v \in Values, SetRoot(o, v)
    PROVE  /\ slots' \in Seq(Values \cup {Null})
           /\ Len(slots') = Len(slots)
           /\ slots'[o.slot] = v
           /\ \A i \in 1..Len(slots) : i # o.slot => slots'[i] = slots[i]
           /\ Roots' \subseteq Roots \cup {v}
<1>1. /\ slots \in Seq(Values \cup {Null})
      /\ o.slot \in 1..Len(slots)
      /\ slots' = [slots EXCEPT ![o.slot] = v]
    <2>1. o.slot \in Nat /\ o.level \in 1..Len(offsets) /\ offsets \in Seq(Nat)
        BY DEF Inv, TypeOK, AllPlaced, Placed
    <2>2. offsets[o.level] \in Nat
        BY <2>1, ElementOfSeq
    <2>3. offsets[o.level] < o.slot /\ o.slot <= Len(slots)
        BY DEF Inv, AllPlaced, Placed
    <2> QED
        BY <2>1, <2>2, <2>3 DEF Inv, TypeOK, SetRoot
<1>2. /\ slots' \in Seq(Values \cup {Null})
      /\ Len(slots') = Len(slots)
      /\ slots'[o.slot] = v
      /\ \A i \in 1..Len(slots) : i # o.slot => slots'[i] = slots[i]
    BY <1>1
<1>3. Roots' \subseteq Roots \cup {v}
    BY <1>1, <1>2 DEF Roots
<1> QED
    BY <1>2, <1>3

\* A reference that survives the use of a token is not in its slot.
LEMMA SetRootInv ==
    ASSUME Inv, NEW o \in tokens, NEW v \in Values, SetRoot(o, v),
           NEW r, r.val = v, r.slot = o.slot, r.level = o.level,
           r \in [val : Values, slot : Nat, level : Nat, temporary : BOOLEAN],
           refs' = BorrowEnded(o) \cup {r},
           tokens' \subseteq tokens,
           o \in tokens' => r.temporary
    PROVE  Inv'
<1> USE DEF SetRoot
<1>1. /\ slots' \in Seq(Values \cup {Null})
      /\ Len(slots') = Len(slots)
      /\ slots'[o.slot] = v
      /\ \A i \in 1..Len(slots) : i # o.slot => slots'[i] = slots[i]
      /\ Roots' \subseteq Roots \cup {v}
    BY SetRootFacts
<1>2. BorrowEnded(o) \subseteq refs
    BY DEF BorrowEnded
<1>3. TypeOK'
    BY <1>1, <1>2, StoreFacts DEF Inv, TypeOK
<1>4. OffsetsSorted' /\ ModeAgrees'
    <2>1. slots = <<>> => slots' = <<>>
        BY <1>1 DEF Inv, TypeOK
    <2>2. OffsetsSorted'
        BY <1>1, <2>1 DEF Inv, OffsetsSorted
    <2>3. ModeAgrees'
        BY <1>1 DEF Inv, ModeAgrees
    <2> QED
        BY <2>2, <2>3
<1>5. \A x \in refs \cup tokens : Placed(x)'
    BY <1>1 DEF Inv, AllPlaced, Placed
<1>6. Placed(r)'
    BY <1>1 DEF Inv, AllPlaced, Placed
<1>7. AllPlaced'
    BY <1>2, <1>5, <1>6 DEF AllPlaced
<1>8. ASSUME NEW q \in BorrowEnded(o)
      PROVE  q.slot # o.slot /\ slots'[q.slot] = q.val
    <2>1. q \in refs /\ ~(q.temporary /\ q.slot = o.slot)
        BY DEF BorrowEnded
    <2>2. q.slot # o.slot
        BY <2>1 DEF Inv, SlotsOwned
    <2>3. q.slot \in 1..Len(slots)
        <3>1. q.slot \in Nat /\ q.level \in 1..Len(offsets) /\ offsets \in Seq(Nat)
            BY <2>1 DEF Inv, TypeOK, AllPlaced, Placed
        <3>2. offsets[q.level] \in Nat
            BY <3>1, ElementOfSeq
        <3> QED
            BY <2>1, <3>1, <3>2 DEF Inv, AllPlaced, Placed
    <2> QED
        BY <1>1, <2>1, <2>2, <2>3 DEF Inv, SlotsOwned
<1>9. SlotsOwned'
    <2>1. \A q \in refs' : slots'[q.slot] = q.val
        BY <1>1, <1>8
    <2>2. ASSUME NEW p \in tokens', NEW q \in refs', q.slot = p.slot
          PROVE  q.temporary
        <3>1. CASE q = r
            BY <2>2, <3>1 DEF Inv, SlotsOwned
        <3>2. CASE q # r
            BY <1>2, <2>2, <3>2 DEF Inv, SlotsOwned
        <3> QED
            BY <3>1, <3>2
    <2>3. \A p, q \in tokens' : p.slot = q.slot => p = q
        BY DEF Inv, SlotsOwned
    <2> QED
        BY <2>1, <2>2, <2>3 DEF SlotsOwned
<1>10. BarrierKept'
    BY <1>1, StoreFacts DEF Inv, BarrierKept
<1> QED
    BY <1>3, <1>4, <1>7, <1>9, <1>10 DEF Inv

LEMMA ConsumeInv ==
    ASSUME NEW o \in tokens, NEW v \in Values
    PROVE  Inv /\ Consume(o, v) => Inv'
<1> SUFFICES ASSUME Inv, Consume(o, v) PROVE Inv'
    OBVIOUS
<1> PICK r : r = [val |-> v, slot |-> o.slot, level |-> o.level, temporary |-> FALSE]
    OBVIOUS
<1>1. r \in [val : Values, slot : Nat, level : Nat, temporary : BOOLEAN]
    BY DEF Inv, TypeOK
<1>2. refs' = BorrowEnded(o) \cup {r} /\ tokens' = tokens \ {o} /\ SetRoot(o, v)
    BY DEF Consume
<1> QED
    BY <1>1, <1>2, SetRootInv

LEMMA TemporaryInv ==
    ASSUME NEW o \in tokens, NEW v \in Values
    PROVE  Inv /\ Temporary(o, v) => Inv'
<1> SUFFICES ASSUME Inv, Temporary(o, v) PROVE Inv'
    OBVIOUS
<1> PICK r : r = [val |-> v, slot |-> o.slot, level |-> o.level, temporary |-> TRUE]
    OBVIOUS
<1>1. r \in [val : Values, slot : Nat, level : Nat, temporary : BOOLEAN]
    BY DEF Inv, TypeOK
<1>2. refs' = BorrowEnded(o) \cup {r} /\ tokens' = tokens /\ SetRoot(o, v)
    BY DEF Temporary
<1> QED
    BY <1>1, <1>2, SetRootInv

----------------------------------------------------------------------------
\* A collection keeps every root: a full one marks the stack, and a quick one
\* that skips it frees young data only, which the stack does not refer to.
LEMMA CollectInv ==
    ASSUME NEW full \in BOOLEAN
    PROVE  Inv /\ Collect(full) => Inv'
<1> SUFFICES ASSUME Inv, Collect(full) PROVE Inv'
    OBVIOUS
<1> USE DEF Inv, Collect, frameVars
<1>1. Roots \subseteq heap'
    BY DEF BarrierKept
<1>2. Roots' = Roots /\ young' = {}
    BY DEF Roots
<1>3. heap' \subseteq heap
    BY DEF BarrierKept
<1>4. TypeOK'
    BY <1>3 DEF TypeOK
<1>5. OffsetsSorted' /\ ModeAgrees'
    <2>1. OffsetsSorted'
        BY DEF OffsetsSorted
    <2>2. ModeAgrees'
        BY DEF ModeAgrees
    <2> QED
        BY <2>1, <2>2
<1>6. AllPlaced' /\ SlotsOwned'
    BY DEF AllPlaced, Placed, SlotsOwned
<1>7. BarrierKept'
    BY <1>1, <1>2 DEF BarrierKept
<1> QED
    BY <1>4, <1>5, <1>6, <1>7

----------------------------------------------------------------------------
\* Every step preserves the invariant.
LEMMA NextInv ==
    Inv /\ [Next]_vars => Inv'
<1> SUFFICES ASSUME Inv, [Next]_vars PROVE Inv'
    OBVIOUS
<1>1. CASE Base
    BY <1>1, BaseInv
<1>2. CASE Nest
    BY <1>2, NestInv
<1>3. CASE LeaveScope
    BY <1>3, LeaveScopeInv
<1>4. CASE Unwind
    BY <1>4, UnwindInv
<1>5. CASE InitReturns
    BY <1>5, InitReturnsInv
<1>6. CASE CallReturns
    BY <1>6, CallReturnsInv
<1>7. CASE ExitReturns
    BY <1>7, ExitReturnsInv
<1>8. CASE \E next \in {"call", "exit"} : Reconstruct(next)
    BY <1>8, ReconstructInv
<1>9. CASE \E kind \in {"output", "reusable"} : Reserve(kind)
    BY <1>9, ReserveInv
<1>10. CASE \E v \in Values : Root(v)
    BY <1>10, RootInv
<1>11. CASE \E v \in Values : RootInKeptFrame(v)
    BY <1>11, RootInKeptFrameInv
<1>12. CASE \E v \in Values, o \in tokens : Consume(o, v)
    BY <1>12, ConsumeInv
<1>13. CASE \E v \in Values, o \in tokens : Temporary(o, v)
    BY <1>13, TemporaryInv
<1>14. CASE \E full \in BOOLEAN : Collect(full)
    BY <1>14, CollectInv
<1>15. CASE UNCHANGED vars
    BY <1>15 DEF Inv, TypeOK, OffsetsSorted, ModeAgrees, AllPlaced, Placed,
                 SlotsOwned, BarrierKept, Roots, vars, frameVars, gcVars
<1> QED
    BY <1>1, <1>2, <1>3, <1>4, <1>5, <1>6, <1>7, <1>8, <1>9, <1>10, <1>11,
       <1>12, <1>13, <1>14, <1>15 DEF Next

LEMMA InvAlways == Spec => []Inv
    BY InitInv, NextInv, PTL DEF Spec

\* What the invariant says of references, frames and the collector.
LEMMA InvImplies == Inv => TypeOK /\ RefsRooted /\ FramesNested /\ NoDangling
<1> SUFFICES ASSUME Inv PROVE TypeOK /\ RefsRooted /\ FramesNested /\ NoDangling
    OBVIOUS
<1>1. TypeOK
    BY DEF Inv
<1>2. /\ offsets \in Seq(Nat)
      /\ Len(offsets) \in Nat
      /\ Len(slots) \in Nat
      /\ \A k \in 1..Len(offsets) : offsets[k] \in Nat
      /\ kept \in Nat
    BY <1>1, ElementOfSeq DEF TypeOK
<1>3. ASSUME NEW x \in refs \cup tokens PROVE InItsFrame(x) /\ x.slot \in 1..Len(slots)
    <2>1. Placed(x) /\ x.slot \in Nat /\ x.level \in 1..Len(offsets)
        BY <1>1 DEF TypeOK, Inv, AllPlaced, Placed
    <2>2. x.slot <= End(x.level)
        <3>1. CASE x.level < Len(offsets)
            <4>1. x.level + 1 \in 1..Len(offsets) /\ x.level < x.level + 1
                BY <1>2, <2>1, <3>1
            <4> QED
                BY <2>1, <3>1, <4>1 DEF Placed, End
        <3>2. CASE ~(x.level < Len(offsets))
            BY <2>1, <3>2 DEF Placed, End
        <3> QED
            BY <3>1, <3>2
    <2>3. End(x.level) \in Nat
        BY <1>2, <2>1 DEF End
    <2>4. offsets[x.level] \in Nat /\ offsets[x.level] < x.slot /\ x.slot <= Len(slots)
        BY <1>2, <2>1 DEF Placed
    <2> QED
        BY <1>2, <2>1, <2>2, <2>3, <2>4 DEF InItsFrame
<1>4. RefsRooted
    BY <1>3 DEF RefsRooted, Inv, SlotsOwned
<1>5. FramesNested
    <2>1. ASSUME NEW k \in 1..Len(offsets) PROVE offsets[k] <= End(k)
        <3>1. CASE k < Len(offsets)
            <4>1. k + 1 \in 1..Len(offsets) /\ k <= k + 1
                BY <1>2, <3>1
            <4> QED
                BY <3>1, <4>1 DEF End, Inv, OffsetsSorted
        <3>2. CASE ~(k < Len(offsets)) /\ mode \in {"idle", "done"}
            BY <1>2, <3>2 DEF End, Inv, OffsetsSorted, ModeAgrees
        <3>3. CASE ~(k < Len(offsets)) /\ mode \notin {"idle", "done"}
            BY <1>2, <3>3 DEF End, Inv, OffsetsSorted
        <3> QED
            BY <3>1, <3>2, <3>3
    <2> QED
        BY <2>1 DEF FramesNested, Inv, OffsetsSorted
<1>6. NoDangling
    <2>1. ASSUME NEW r \in refs PROVE r.val \in heap
        <3>1. r.val \in Values /\ slots[r.slot] = r.val /\ r.slot \in 1..Len(slots)
            BY <1>1, <1>3 DEF TypeOK, Inv, SlotsOwned
        <3>2. r.val \in Roots
            BY <3>1, RootStackAssumption DEF Roots
        <3> QED
            BY <3>2 DEF Inv, BarrierKept
    <2> QED
        BY <2>1 DEF NoDangling
<1> QED
    BY <1>1, <1>4, <1>5, <1>6

\* Every variable of the stack has its type in every reachable state.
THEOREM RootStackTyped == Spec => []TypeOK
    BY InvAlways, InvImplies, PTL

\* Frames stay nested and a base frame always starts on an empty stack, so the
\* debug assertion of GcFrame::base cannot fail.
THEOREM FramesStayNested == Spec => []FramesNested
    BY InvAlways, InvImplies, PTL

\* Every reference is backed by a slot of its frame that no token can write.
THEOREM ReferencesRooted == Spec => []RefsRooted
    BY InvAlways, InvImplies, PTL

\* The write barrier is never missed: a quick collection may skip the stack.
THEOREM BarrierAlwaysKept == Spec => []BarrierKept
<1>1. Inv => BarrierKept
    BY DEF Inv
<1> QED
    BY <1>1, InvAlways, PTL

\* No reference that Rust code can use refers to freed data.
THEOREM NothingDangles == Spec => []NoDangling
    BY InvAlways, InvImplies, PTL

\* The flat stack is a stack of nested frames.
THEOREM StackIsOK == Spec => []StackOK
<1>1. TypeOK /\ FramesNested => StackOK
    BY DEF StackOK
<1> QED
    BY <1>1, RootStackTyped, FramesStayNested, PTL

\* What a user can reach is rooted in its frame, and was not freed.
THEOREM ReferencesStayLive == Spec => []ReferencesLive
<1>1. RefsRooted /\ NoDangling => ReferencesLive
    BY DEF ReferencesLive
<1> QED
    BY <1>1, ReferencesRooted, NothingDangles, PTL

----------------------------------------------------------------------------
\* What is between two offsets of a sequence.
LEMMA SliceFacts ==
    ASSUME NEW S, NEW s \in Seq(S), NEW a \in Nat, NEW b \in Nat, a <= b, b <= Len(s)
    PROVE  /\ SubSeq(s, a + 1, b) \in Seq(S)
           /\ Len(SubSeq(s, a + 1, b)) = b - a
           /\ \A i \in 1..b - a : SubSeq(s, a + 1, b)[i] = s[a + i]
    OBVIOUS

\* The refinement of ScopedRoots.  A frame is the slots between two offsets.
Sliced(k) ==
    /\ offsets[k] \in Nat /\ End(k) \in Nat /\ Len(slots) \in Nat
    /\ offsets[k] <= End(k) /\ End(k) <= Len(slots)
    /\ Frame(k) \in Seq(Values \cup {Null})
    /\ Len(Frame(k)) = End(k) - offsets[k]
    /\ \A i \in 1..Len(Frame(k)) : Frame(k)[i] = slots[offsets[k] + i]

LEMMA FrameFacts == Inv => \A k \in 1..Depth : Sliced(k)
<1> SUFFICES ASSUME Inv, NEW k \in 1..Depth PROVE Sliced(k)
    OBVIOUS
<1>1. /\ offsets \in Seq(Nat) /\ slots \in Seq(Values \cup {Null})
      /\ Len(offsets) \in Nat /\ Len(slots) \in Nat /\ offsets[k] \in Nat /\ kept \in Nat
    BY ElementOfSeq DEF Inv, TypeOK
<1>2. End(k) \in Nat /\ End(k) <= Len(slots)
    <2>1. CASE k < Len(offsets)
        <3>1. k + 1 \in 1..Len(offsets)
            BY <1>1, <2>1
        <3> QED
            BY <1>1, <2>1, <3>1, ElementOfSeq DEF End, Inv, OffsetsSorted
    <2>2. CASE ~(k < Len(offsets))
        BY <1>1, <2>2 DEF End, Inv, ModeAgrees
    <2> QED
        BY <2>1, <2>2
<1>3. offsets[k] <= End(k)
    BY InvImplies DEF FramesNested
<1>5. /\ Frame(k) \in Seq(Values \cup {Null})
      /\ Len(Frame(k)) = End(k) - offsets[k]
      /\ \A i \in 1..End(k) - offsets[k] : Frame(k)[i] = slots[offsets[k] + i]
    <2> DEFINE a == offsets[k]  b == End(k)
    <2>1. a \in Nat /\ b \in Nat /\ a <= b /\ b <= Len(slots)
        BY <1>1, <1>2, <1>3
    <2>2. Frame(k) = SubSeq(slots, a + 1, b)
        BY DEF Frame
    <2> HIDE DEF a, b
    <2>3. /\ Frame(k) \in Seq(Values \cup {Null})
          /\ Len(Frame(k)) = b - a
          /\ \A i \in 1..b - a : Frame(k)[i] = slots[a + i]
        BY <1>1, <2>1, <2>2, SliceFacts, SMTT(20)
    <2> QED
        BY <2>3 DEF a, b
<1> QED
    BY <1>1, <1>2, <1>3, <1>5 DEF Sliced

LEMMA FrameFactsNext == Inv' => \A k \in 1..Depth' : Sliced(k)'
<1>1. (Inv => \A k \in 1..Depth : Sliced(k))'
    BY FrameFacts, PTL
<1> QED
    BY <1>1

\* A frame whose bounds and slots do not change is the same frame.
LEMMA SameFrame ==
    ASSUME Inv, Inv', NEW k \in 1..Depth, k \in 1..Depth',
           offsets'[k] = offsets[k], End(k)' = End(k),
           \A i \in 1..End(k) : offsets[k] < i => slots'[i] = slots[i]
    PROVE  Frame(k)' = Frame(k)
<1>1. Sliced(k) /\ Sliced(k)'
    BY FrameFacts, FrameFactsNext
<1>2. ASSUME NEW i \in 1..Len(Frame(k))
      PROVE  slots'[offsets[k] + i] = slots[offsets[k] + i]
    <2>1. offsets[k] + i \in 1..End(k) /\ offsets[k] < offsets[k] + i
        BY <1>1 DEF Sliced
    <2> QED
        BY <2>1
<1> QED
    BY <1>1, <1>2, SeqEqual, SMTT(20) DEF Sliced

\* A frame that has no slots.
LEMMA EmptyFrame ==
    ASSUME Inv', NEW k \in 1..Depth', End(k)' = offsets'[k]
    PROVE  Frame(k)' = <<>>
<1>1. Sliced(k)'
    BY FrameFactsNext
<1> QED
    BY <1>1, EmptySeq DEF Sliced

\* The frames as ScopedRoots sees them.
Frames == [k \in 1..Depth |-> Frame(k)]

LEMMA FramesTyped ==
    /\ Inv => Depth \in Nat /\ Frames \in [1..Depth -> Seq(Values \cup {Null})]
    /\ Inv' => Depth' \in Nat /\ Frames' \in [1..Depth' -> Seq(Values \cup {Null})]
<1>1. Inv => Depth \in Nat /\ Frames \in [1..Depth -> Seq(Values \cup {Null})]
    BY FrameFacts DEF Sliced, Inv, TypeOK, Frames
<1>2. (Inv => Depth \in Nat /\ Frames \in [1..Depth -> Seq(Values \cup {Null})])'
    BY <1>1, PTL
<1> QED
    BY <1>1, <1>2

\* A function on 1..n is a sequence, and how it grows and shrinks.
LEMMA FunSeq ==
    ASSUME NEW S, NEW n \in Nat, NEW f \in [1..n -> S]
    PROVE  f \in Seq(S) /\ Len(f) = n
    OBVIOUS

LEMMA FunGrows ==
    ASSUME NEW S, NEW n \in Nat, NEW f \in [1..n -> S], NEW g \in [1..n + 1 -> S],
           \A k \in 1..n : g[k] = f[k]
    PROVE  g = Append(f, g[n + 1])
<1>1. f \in Seq(S) /\ Len(f) = n /\ g \in Seq(S) /\ Len(g) = n + 1
    BY FunSeq
<1> QED
    BY <1>1, AppendProperties, SeqEqual

LEMMA FunShrinks ==
    ASSUME NEW S, NEW n \in Nat \ {0}, NEW f \in [1..n -> S], NEW g \in [1..n - 1 -> S],
           \A k \in 1..n - 1 : g[k] = f[k]
    PROVE  g = SubSeq(f, 1, Len(f) - 1) /\ f # <<>>
<1>1. f \in Seq(S) /\ Len(f) = n /\ g \in Seq(S) /\ Len(g) = n - 1
    BY FunSeq
<1>2. /\ SubSeq(f, 1, n - 1) \in Seq(S) /\ Len(SubSeq(f, 1, n - 1)) = n - 1
      /\ \A i \in 1..n - 1 : SubSeq(f, 1, n - 1)[i] = f[i]
    BY <1>1
<1> QED
    BY <1>1, <1>2, SeqEqual

LEMMA GrownSeq ==
    ASSUME NEW S, NEW s \in Seq(S), NEW t \in Seq(S), NEW e, Len(t) = Len(s) + 1,
           t[Len(s) + 1] = e, \A i \in 1..Len(s) : t[i] = s[i]
    PROVE  t = Append(s, e)
<1>1. e \in S
    <2>1. Len(s) + 1 \in 1..Len(t)
        OBVIOUS
    <2> QED
        BY <2>1, ElementOfSeq
<1>2. /\ Append(s, e) \in Seq(S) /\ Len(Append(s, e)) = Len(s) + 1
      /\ \A i \in 1..Len(s) + 1 : Append(s, e)[i] = IF i = Len(s) + 1 THEN e ELSE s[i]
    BY <1>1
<1>3. \A i \in 1..Len(t) : t[i] = Append(s, e)[i]
    BY <1>2
<1> QED
    BY <1>2, <1>3, SeqEqual

\* How the frames change when one is opened, closed or grows.
LEMMA Opens ==
    ASSUME Inv, Inv', Depth' = Depth + 1, heap' = heap,
           \A k \in 1..Depth : Frame(k)' = Frame(k),
           NEW d \in Nat, d = Depth + 1, Frame(d)' = <<>>
    PROVE  Scoped!Next
<1>1. Frames' = Append(Frames, Frames'[Depth + 1])
    <2>1. \A k \in 1..Depth : Frames'[k] = Frames[k]
        BY FramesTyped DEF Frames
    <2> QED
        BY <2>1, FramesTyped, FunGrows
<1>2. Frames'[Depth + 1] = <<>>
    <2>1. Depth \in Nat
        BY FramesTyped
    <2> QED
        BY <2>1 DEF Frames
<1>3. Scoped!Open
    BY <1>1, <1>2 DEF Scoped!Open, Frames
<1> QED
    BY <1>3 DEF Scoped!Next

LEMMA Closes ==
    ASSUME Inv, Inv', Depth # 0, Depth' = Depth - 1, heap' = heap,
           \A k \in 1..Depth - 1 : Frame(k)' = Frame(k)
    PROVE  Scoped!Next
<1>1. Frames' = SubSeq(Frames, 1, Len(Frames) - 1) /\ Frames # <<>>
    <2>1. \A k \in 1..Depth - 1 : Frames'[k] = Frames[k]
        BY FramesTyped DEF Frames
    <2>2. Depth \in Nat \ {0}
        BY FramesTyped
    <2> QED
        BY <2>1, <2>2, FramesTyped, FunShrinks
<1>2. Scoped!Close
    BY <1>1 DEF Scoped!Close, Scoped!Front, Frames
<1> QED
    BY <1>2 DEF Scoped!Next

LEMMA Grows ==
    ASSUME Inv, Inv', Depth # 0, Depth' = Depth, NEW v \in Values \cup {Null},
           heap' = IF v = Null THEN heap ELSE heap \cup {v},
           \A k \in 1..Depth - 1 : Frame(k)' = Frame(k),
           NEW d \in Nat, d = Depth, Frame(d)' = Append(Frame(d), v)
    PROVE  Scoped!Next
<1>1. Len(Frames) = Depth /\ Depth \in Nat /\ Frames # <<>>
    BY FramesTyped, FunSeq
<1>2. Frames' = [Frames EXCEPT ![d] = Append(@, v)]
    <2>1. \A k \in 1..Depth : Frame(k)' = IF k = d THEN Append(Frame(d), v) ELSE Frame(k)
        BY <1>1
    <2>2. Frames[d] = Frame(d)
        BY <1>1 DEF Frames
    <2> QED
        BY <2>1, <2>2 DEF Frames
<1>3. v = Null => Scoped!AddSlot
    BY <1>1, <1>2 DEF Scoped!AddSlot, Frames
<1>4. v # Null => Scoped!AddRoot(v)
    BY <1>1, <1>2 DEF Scoped!AddRoot, Frames
<1> QED
    BY <1>3, <1>4 DEF Scoped!Next

LEMMA Sets ==
    ASSUME Inv, Inv', Depth' = Depth, NEW v \in Values, heap' = heap \cup {v},
           NEW j \in 1..Depth, NEW i \in 1..Len(Frame(j)),
           \A k \in 1..Depth : k # j => Frame(k)' = Frame(k),
           Frame(j)' = [Frame(j) EXCEPT ![i] = v]
    PROVE  Scoped!Next
<1>1. Len(Frames) = Depth /\ Depth \in Nat /\ Frames[j] = Frame(j)
    BY FramesTyped, FunSeq DEF Frames
<1>2. Frames' = [Frames EXCEPT ![j][i] = v]
    BY <1>1, FramesTyped DEF Frames
<1>3. Scoped!SetRoot(j, i, v)
    BY <1>2 DEF Scoped!SetRoot, Frames
<1> QED
    BY <1>1, <1>3 DEF Scoped!Next, Frames

LEMMA Stutters ==
    ASSUME Depth' = Depth, heap' = heap, \A k \in 1..Depth : Frame(k)' = Frame(k)
    PROVE  UNCHANGED Scoped!rootVars
BY DEF Scoped!rootVars

----------------------------------------------------------------------------
\* What the invariant says of the offsets, as far as frames are concerned.
LEMMA Offsets ==
    ASSUME Inv
    PROVE  /\ offsets \in Seq(Nat) /\ Len(offsets) \in Nat /\ Len(slots) \in Nat /\ kept \in Nat
           /\ slots \in Seq(Values \cup {Null})
           /\ \A k \in 1..Len(offsets) : offsets[k] \in Nat /\ offsets[k] <= Len(slots)
BY ElementOfSeq DEF Inv, TypeOK, OffsetsSorted

\* The steps that open a frame.
LEMMA BaseOpens == Inv /\ Inv' /\ Base => Scoped!Next
<1> SUFFICES ASSUME Inv, Inv', Base PROVE Scoped!Next
    OBVIOUS
<1>1. Len(offsets) = 0 /\ Len(offsets') = 1 /\ offsets'[1] = 0 /\ slots' = slots /\ mode' = mode
    BY DEF Base
<1>2. Len(slots) = 0 /\ mode \notin {"idle", "done"}
    BY <1>1 DEF Inv, OffsetsSorted, ModeAgrees
<1>3. Frame(1)' = <<>>
    BY <1>1, <1>2, EmptyFrame DEF End
<1> QED
    BY <1>1, <1>3, Opens DEF Base, gcVars

LEMMA NestOpens == Inv /\ Inv' /\ Nest => Scoped!Next
<1> SUFFICES ASSUME Inv, Inv', Nest PROVE Scoped!Next
    OBVIOUS
<1> DEFINE d == Len(offsets)
<1>1. /\ Len(offsets') = d + 1 /\ offsets'[d + 1] = Len(slots)
      /\ \A k \in 1..d : offsets'[k] = offsets[k]
      /\ slots' = slots /\ mode' = mode /\ d \in Nat /\ Len(slots) \in Nat
      /\ mode \notin {"idle", "done"}
    BY Offsets DEF Nest, Runs
<1>2. ASSUME NEW k \in 1..d PROVE Frame(k)' = Frame(k)
    <2>1. k \in 1..Len(offsets') /\ offsets'[k] = offsets[k]
        BY <1>1
    <2>2. End(k)' = End(k)
        <3>1. CASE k < d
            <4>1. k + 1 \in 1..d
                BY <1>1, <3>1
            <4> QED
                BY <1>1, <3>1, <4>1 DEF End
        <3>2. CASE k = d
            BY <1>1, <3>2 DEF End
        <3> QED
            BY <1>1, <3>1, <3>2
    <2> QED
        BY <1>1, <2>1, <2>2, SameFrame
<1>3. ASSUME NEW k \in Nat, k = d + 1 PROVE Frame(k)' = <<>>
    BY <1>1, <1>3, EmptyFrame DEF End
<1> QED
    BY <1>1, <1>2, <1>3, Opens DEF Nest, gcVars

LEMMA ReconstructOpens ==
    ASSUME Inv, Inv', NEW next \in {"call", "exit"}, Reconstruct(next)
    PROVE  Scoped!Next
<1>1. /\ Len(offsets) = 1 /\ kept \in Nat /\ kept <= Len(slots) /\ offsets \in Seq(Nat)
      /\ slots' = Truncate(slots, kept) /\ kept' = kept
      /\ mode = "idle" /\ mode' \notin {"idle", "done"}
    BY Offsets DEF Reconstruct, Inv, ModeAgrees
<1>2. Len(offsets') = 2 /\ offsets'[2] = kept /\ offsets'[1] = offsets[1]
    <2>1. offsets' = Append(offsets, kept)
        BY DEF Reconstruct
    <2> QED
        <3>1. /\ Len(Append(offsets, kept)) = Len(offsets) + 1
              /\ \A i \in 1..Len(offsets) : Append(offsets, kept)[i] = offsets[i]
              /\ Append(offsets, kept)[Len(offsets) + 1] = kept
            BY <1>1, OpenFacts
        <3>2. 1 \in 1..Len(offsets) /\ Len(offsets) + 1 = 2
            BY <1>1
        <3> QED
            BY <1>1, <2>1, <3>1, <3>2
<1>3. Len(slots') = kept /\ \A i \in 1..kept : slots'[i] = slots[i]
    BY <1>1, ShrinkFacts DEF Inv
<1>4. End(1) = kept /\ End(1)' = kept
    BY <1>1, <1>2 DEF End, Inv, ModeAgrees
<1>5. Frame(1)' = Frame(1)
    BY <1>1, <1>2, <1>3, <1>4, SameFrame
<1>6. Frame(2)' = <<>>
    <2>1. End(2)' = kept
        BY <1>1, <1>2, <1>3 DEF End
    <2> QED
        BY <1>2, <2>1, EmptyFrame
<1>7. \A k \in 1..Len(offsets) : Frame(k)' = Frame(k)
    BY <1>1, <1>5
<1>8. heap' = heap
    BY DEF Reconstruct, gcVars
<1> QED
    BY <1>1, <1>2, <1>6, <1>7, <1>8, Opens

\* The steps that close one.
LEMMA LeaveScopeCloses == Inv /\ Inv' /\ LeaveScope => Scoped!Next
<1> SUFFICES ASSUME Inv, Inv', LeaveScope PROVE Scoped!Next
    OBVIOUS
<1> DEFINE d == Len(offsets)
<1>1. /\ offsets \in Seq(Nat) /\ Len(slots) \in Nat /\ d \in Nat \ {0}
      /\ \A k \in 1..d : offsets[k] \in Nat /\ offsets[k] <= Len(slots)
    BY Offsets DEF LeaveScope
<1>2. Len(offsets') = d - 1 /\ \A k \in 1..d - 1 : offsets'[k] = offsets[k]
    <2>1. d - 1 \in Nat /\ d - 1 < Len(offsets) /\ offsets' = SubSeq(offsets, 1, d - 1)
        BY <1>1 DEF LeaveScope
    <2> QED
        BY <1>1, <2>1, CloseFacts
<1>3. Len(slots') = offsets[d] /\ \A i \in 1..offsets[d] : slots'[i] = slots[i]
    BY <1>1, ShrinkFacts DEF LeaveScope, Inv
<1>4. ASSUME NEW k \in 1..d - 1 PROVE Frame(k)' = Frame(k)
    <2>1. /\ k \in 1..d /\ k \in 1..Len(offsets') /\ offsets'[k] = offsets[k]
          /\ k < d /\ k + 1 \in 1..d /\ offsets[k + 1] <= offsets[d]
        BY <1>1, <1>2, SMTT(20) DEF Inv, OffsetsSorted
    <2>2. mode \notin {"idle", "done"} /\ mode' = mode
        BY <1>1, <2>1 DEF LeaveScope, Inv, ModeAgrees
    <2>3. End(k) = offsets[k + 1]
        BY <2>1 DEF End
    <2>4. End(k)' = offsets[k + 1]
        <3>1. CASE k = d - 1
            BY <1>1, <1>2, <1>3, <2>2, <3>1 DEF End
        <3>2. CASE k # d - 1
            <4>1. k + 1 \in 1..d - 1 /\ k < d - 1
                BY <1>1, <3>2
            <4> QED
                BY <1>2, <4>1 DEF End
        <3> QED
            BY <3>1, <3>2
    <2> QED
        BY <1>1, <1>3, <2>1, <2>3, <2>4, SameFrame
<1> QED
    BY <1>1, <1>2, <1>4, Closes DEF LeaveScope, gcVars

LEMMA CallReturnsCloses == Inv /\ Inv' /\ (CallReturns \/ ExitReturns) => Scoped!Next
<1> SUFFICES ASSUME Inv, Inv', CallReturns \/ ExitReturns PROVE Scoped!Next
    OBVIOUS
<1>1. /\ Len(offsets) = 2 /\ offsets[2] = kept /\ offsets \in Seq(Nat) /\ kept \in Nat
      /\ kept <= Len(slots) /\ kept' = kept /\ heap' = heap
    BY Offsets DEF CallReturns, ExitReturns, Inv, ModeAgrees, OffsetsSorted, gcVars
<1>2. Len(offsets') = 1 /\ offsets'[1] = offsets[1]
    BY <1>1, CloseFacts DEF CallReturns, ExitReturns
<1>3. End(1) = kept
    BY <1>1 DEF End
<1>4. End(1)' = kept /\ \A i \in 1..kept : slots'[i] = slots[i]
    <2>1. CASE CallReturns
        <3>1. Len(slots') = kept /\ \A i \in 1..kept : slots'[i] = slots[i]
            BY <1>1, <2>1, ShrinkFacts DEF CallReturns, Inv
        <3> QED
            BY <1>2, <2>1, <3>1 DEF CallReturns, End
    <2>2. CASE ExitReturns
        BY <1>1, <1>2, <2>2 DEF ExitReturns, End
    <2> QED
        BY <2>1, <2>2
<1>5. Frame(1)' = Frame(1)
    BY <1>1, <1>2, <1>3, <1>4, SameFrame
<1> QED
    BY <1>1, <1>2, <1>5, Closes

LEMMA UnwindCloses == Unwind => Scoped!Next
<1> SUFFICES ASSUME Unwind PROVE Scoped!CloseAll
    BY DEF Scoped!Next
<1>1. Len(offsets') = 0 /\ heap' = heap
    BY DEF Unwind, gcVars
<1> QED
    BY <1>1 DEF Scoped!CloseAll

\* Init's frame keeps what it has when init returns.
LEMMA InitReturnsStutters == Inv /\ Inv' /\ InitReturns => UNCHANGED Scoped!rootVars
<1> SUFFICES ASSUME Inv, Inv', InitReturns PROVE UNCHANGED Scoped!rootVars
    OBVIOUS
<1>1. /\ Len(offsets) = 1 /\ offsets' = offsets /\ slots' = slots /\ heap' = heap
      /\ mode = "scope" /\ mode' = "idle" /\ kept' = Len(slots)
    BY DEF InitReturns, gcVars
<1>2. End(1) = Len(slots)
    BY <1>1 DEF End
<1>3. End(1)' = Len(slots)
    <2>1. mode' # "done"
        BY <1>1
    <2> QED
        BY <1>1, <2>1 DEF End
<1>4. Frame(1)' = Frame(1)
    <2>1. Len(offsets') = 1 /\ offsets'[1] = offsets[1] /\ End(1)' = End(1)
        BY <1>1, <1>2, <1>3
    <2>2. \A i \in 1..End(1) : offsets[1] < i => slots'[i] = slots[i]
        BY <1>1
    <2> QED
        BY <1>1, <2>1, <2>2, SameFrame
<1>5. \A k \in 1..Len(offsets) : Frame(k)' = Frame(k)
    BY <1>1, <1>4
<1> QED
    BY <1>1, <1>5, Stutters

\* A root is added at the end of the stack, where the innermost frame ends.
LEMMA RootGrows ==
    ASSUME Inv, Inv', Runs, NEW v \in Values \cup {Null}, slots' = Append(slots, v),
           UNCHANGED <<offsets, mode, kept>>,
           heap' = IF v = Null THEN heap ELSE heap \cup {v}
    PROVE  Scoped!Next
<1> DEFINE d == Len(offsets)
<1>1. /\ offsets \in Seq(Nat) /\ Len(slots) \in Nat /\ d \in Nat \ {0}
      /\ \A k \in 1..d : offsets[k] \in Nat /\ offsets[k] <= Len(slots)
      /\ mode \notin {"idle", "done"}
    BY Offsets DEF Runs
<1>2. /\ Len(slots') = Len(slots) + 1 /\ slots'[Len(slots) + 1] = v
      /\ \A i \in 1..Len(slots) : slots'[i] = slots[i]
    BY GrowFacts DEF Inv
<1>3. ASSUME NEW k \in 1..d - 1 PROVE Frame(k)' = Frame(k)
    <2>1. k \in 1..d /\ k < d /\ k + 1 \in 1..d
        BY <1>1
    <2>2. End(k) = offsets[k + 1] /\ End(k)' = offsets[k + 1]
        BY <2>1 DEF End
    <2> QED
        BY <1>1, <1>2, <2>1, <2>2, SameFrame
<1>4. ASSUME NEW k \in Nat, k = d PROVE Frame(k)' = Append(Frame(k), v)
    <2>1. k \in 1..d /\ End(k) = Len(slots) /\ End(k)' = Len(slots) + 1
        BY <1>1, <1>2, <1>4 DEF End
    <2>2. Sliced(k) /\ Sliced(k)'
        BY <2>1, FrameFacts, FrameFactsNext
    <2>3. /\ offsets'[k] = offsets[k] /\ offsets[k] \in Nat /\ offsets[k] <= Len(slots)
          /\ Frame(k) \in Seq(Values \cup {Null}) /\ Frame(k)' \in Seq(Values \cup {Null})
          /\ Len(Frame(k)) = Len(slots) - offsets[k]
          /\ Len(Frame(k)') = Len(slots) + 1 - offsets[k]
        BY <2>1, <2>2 DEF Sliced
    <2>4. Len(Frame(k)') = Len(Frame(k)) + 1 /\ Len(Frame(k)) \in Nat
        BY <1>1, <2>3
    <2>5. Frame(k)'[Len(Frame(k)) + 1] = v
        <3>1. Len(Frame(k)) + 1 \in 1..Len(Frame(k)')
            BY <2>4
        <3>2. offsets'[k] + (Len(Frame(k)) + 1) = Len(slots) + 1
            BY <1>1, <2>3, SMTT(20)
        <3> QED
            BY <1>2, <2>2, <3>1, <3>2 DEF Sliced
    <2>6. ASSUME NEW i \in 1..Len(Frame(k)) PROVE Frame(k)'[i] = Frame(k)[i]
        <3>1. i \in 1..Len(Frame(k)')
            BY <2>4
        <3>2. offsets[k] + i \in 1..Len(slots)
            <4>1. /\ i \in Nat /\ offsets[k] \in Nat /\ Len(slots) \in Nat
                  /\ 1 <= i /\ i <= Len(Frame(k)) /\ Len(Frame(k)) = Len(slots) - offsets[k]
                BY <1>1, <2>3, <2>4
            <4> QED
                BY <4>1
        <3> QED
            BY <1>2, <2>2, <2>3, <3>1, <3>2 DEF Sliced
    <2> QED
        BY <2>3, <2>4, <2>5, <2>6, GrownSeq, SMTT(20)
<1> QED
    BY <1>1, <1>3, <1>4, Grows

LEMMA RootScoped ==
    ASSUME Inv, Inv', NEW v \in Values, Root(v) \/ RootInKeptFrame(v)
    PROVE  Scoped!Next
<1>1. /\ Runs /\ slots' = Append(slots, v) /\ UNCHANGED <<offsets, mode, kept>>
      /\ heap' = heap \cup {v} /\ v # Null
    BY RootStackAssumption DEF Root, RootInKeptFrame, Store, Runs, Inv, ModeAgrees
<1> QED
    BY <1>1, RootGrows

LEMMA ReserveScoped ==
    ASSUME Inv, Inv', NEW kind \in {"output", "reusable"}, Reserve(kind)
    PROVE  Scoped!Next
<1>1. /\ Runs /\ slots' = Append(slots, Null) /\ UNCHANGED <<offsets, mode, kept>>
      /\ heap' = heap
    BY DEF Reserve, gcVars
<1> QED
    BY <1>1, RootGrows

\* The slot of a token is in the frame it was reserved in, and in no other.
LEMMA SetRootSets ==
    ASSUME Inv, Inv', NEW o \in tokens, NEW v \in Values, SetRoot(o, v)
    PROVE  Scoped!Next
<1> DEFINE j == o.level
           i == o.slot - offsets[o.level]
<1>1. /\ offsets' = offsets /\ mode' = mode /\ kept' = kept /\ heap' = heap \cup {v}
      /\ Len(slots') = Len(slots) /\ slots'[o.slot] = v
      /\ \A k \in 1..Len(slots) : k # o.slot => slots'[k] = slots[k]
    BY SetRootFacts DEF SetRoot, Store
<1>2. /\ j \in 1..Len(offsets) /\ o.slot \in Nat
      /\ offsets[j] + 1 <= o.slot /\ o.slot <= End(j)
      /\ \A k \in 1..Len(offsets) : j < k => o.slot <= offsets[k]
    <2>1. InItsFrame(o) /\ Placed(o) /\ o.slot \in Nat
        BY InvImplies DEF RefsRooted, TypeOK, Inv, AllPlaced
    <2>2. offsets[j] \in Nat /\ End(j) \in Nat
        BY <2>1, FrameFacts DEF Sliced, InItsFrame
    <2> QED
        BY <2>1, <2>2 DEF InItsFrame, Placed
<1>3. \A k \in 1..Len(offsets) : Sliced(k) /\ Sliced(k)' /\ End(k)' = End(k)
    <2>1. \A k \in 1..Len(offsets) : End(k)' = End(k)
        BY <1>1 DEF End
    <2> QED
        BY <1>1, <2>1, FrameFacts, FrameFactsNext
<1>4. ASSUME NEW k \in 1..Len(offsets), k # j PROVE Frame(k)' = Frame(k)
    <2>1. /\ Len(offsets) \in Nat /\ Len(slots) \in Nat
          /\ offsets[k] \in Nat /\ End(k) \in Nat /\ End(k) <= Len(slots)
        BY <1>3, Offsets DEF Sliced
    <2>2. ASSUME NEW n \in 1..End(k), offsets[k] < n PROVE n # o.slot
        <3>1. CASE j < k
            BY <1>2, <2>1, <2>2, <3>1
        <3>2. CASE k < j
            <4>1. k + 1 \in 1..Len(offsets) /\ k + 1 <= j /\ k < Len(offsets)
                BY <1>2, <2>1, <3>2
            <4>2. End(k) = offsets[k + 1] /\ offsets[k + 1] <= offsets[j]
                BY <1>2, <4>1 DEF End, Inv, OffsetsSorted
            <4>3. offsets[j] \in Nat
                BY <1>2, Offsets
            <4> QED
                BY <1>2, <2>1, <4>2, <4>3, SMTT(20)
        <3> QED
            BY <1>2, <1>4, <2>1, <3>1, <3>2
    <2>3. \A n \in 1..End(k) : offsets[k] < n => slots'[n] = slots[n]
        BY <1>1, <2>1, <2>2
    <2> QED
        BY <1>1, <1>3, <2>3, SameFrame
<1>5. i \in 1..Len(Frame(j))
    <2>1. /\ offsets[j] \in Nat /\ End(j) \in Nat /\ o.slot \in Nat
          /\ offsets[j] + 1 <= o.slot /\ o.slot <= End(j)
          /\ Len(Frame(j)) = End(j) - offsets[j]
        BY <1>2, <1>3 DEF Sliced
    <2> QED
        BY <2>1
<1>6. Frame(j)' = [Frame(j) EXCEPT ![i] = v]
    <2>1. /\ Sliced(j) /\ offsets[j] \in Nat /\ Len(Frame(j)') = Len(Frame(j))
          /\ Frame(j) \in Seq(Values \cup {Null}) /\ Frame(j)' \in Seq(Values \cup {Null})
        BY <1>1, <1>2, <1>3 DEF Sliced
    <2>2. ASSUME NEW n \in 1..Len(Frame(j))
          PROVE  Frame(j)'[n] = IF n = i THEN v ELSE Frame(j)[n]
        <3>1. /\ Frame(j)'[n] = slots'[offsets[j] + n] /\ Frame(j)[n] = slots[offsets[j] + n]
            BY <1>1, <1>2, <1>3, <2>1 DEF Sliced
        <3>2. offsets[j] + n \in 1..Len(slots) /\ (n # i => offsets[j] + n # o.slot)
              /\ (n = i => offsets[j] + n = o.slot)
            BY <1>2, <2>1, SMTT(20) DEF Sliced
        <3> QED
            BY <1>1, <3>1, <3>2
    <2> HIDE DEF i, j
    <2> DEFINE t == [Frame(j) EXCEPT ![i] = v]
    <2>3. /\ t \in Seq(Values \cup {Null}) /\ Len(t) = Len(Frame(j))
          /\ \A n \in 1..Len(Frame(j)) : t[n] = IF n = i THEN v ELSE Frame(j)[n]
        BY <1>5, <2>1
    <2> HIDE DEF t
    <2>4. Frame(j)' = t
        BY <2>1, <2>2, <2>3, SeqEqual
    <2> QED
        BY <2>4 DEF t
<1> HIDE DEF i, j
<1>7. j \in 1..Len(offsets)
    BY <1>2
<1> QED
    BY <1>1, <1>4, <1>5, <1>6, <1>7, Sets

\* What a collection leaves is what the frames root, and more: the roots of
\* frames are roots of the stack.
LEMMA CollectScoped ==
    ASSUME Inv, Inv', NEW full \in BOOLEAN, Collect(full)
    PROVE  Scoped!Next
<1>1. /\ UNCHANGED <<slots, offsets, mode, kept>>
      /\ Roots \subseteq heap' /\ heap' \subseteq heap
    BY DEF Inv, BarrierKept, Collect, frameVars
<1>2. Frames' = Frames
    <2>1. \A k \in 1..Len(offsets) : Frame(k)' = Frame(k)
        BY <1>1 DEF Frame, End
    <2> QED
        BY <1>1, <2>1 DEF Frames
<1>3. ASSUME NEW k \in 1..Len(Frames), NEW n \in 1..Len(Frames[k]), Frames[k][n] # Null
      PROVE  Frames[k][n] \in Roots
    <2>1. k \in 1..Len(offsets) /\ Frames[k] = Frame(k)
        BY FramesTyped, FunSeq DEF Frames
    <2>2. Sliced(k) /\ n \in 1..Len(Frame(k))
        BY <2>1, FrameFacts
    <2>3. /\ offsets[k] \in Nat /\ End(k) \in Nat /\ Len(slots) \in Nat
          /\ End(k) <= Len(slots) /\ Len(Frame(k)) = End(k) - offsets[k]
          /\ n \in Nat /\ 1 <= n /\ n <= Len(Frame(k))
          /\ Frame(k)[n] = slots[offsets[k] + n]
        BY <2>2 DEF Sliced
    <2>4. offsets[k] + n \in 1..Len(slots)
        BY <2>3, SMTT(20)
    <2> QED
        BY <1>3, <2>1, <2>3, <2>4 DEF Roots
<1>4. Scoped!Rooted \subseteq heap'
    <2>1. \A x \in Scoped!Rooted : \E k \in 1..Len(Frames) : \E n \in 1..Len(Frames[k]) :
            x = Frames[k][n] /\ x # Null
        <3>1. \A k \in 1..Len(Frames) : DOMAIN Frames[k] = 1..Len(Frames[k])
            BY FramesTyped, FunSeq DEF Frames
        <3>2. \A x \in Scoped!Rooted : \E k \in 1..Len(Frames) :
                x # Null /\ x \in {Frames[k][n] : n \in DOMAIN Frames[k]}
            BY Zenon DEF Scoped!Rooted, Scoped!ToSet, Frames
        <3> QED
            BY <3>1, <3>2
    <2> QED
        BY <1>1, <1>3, <2>1
<1>5. Scoped!Collect
    BY <1>1, <1>2, <1>4 DEF Scoped!Collect, Frames
<1> QED
    BY <1>5 DEF Scoped!Next

LEMMA NextScoped == Inv /\ Inv' /\ [Next]_vars => [Scoped!Next]_(Scoped!rootVars)
<1> SUFFICES ASSUME Inv, Inv', [Next]_vars PROVE Scoped!Next \/ UNCHANGED Scoped!rootVars
    OBVIOUS
<1>1. CASE Base \/ Nest
    BY <1>1, BaseOpens, NestOpens
<1>2. CASE LeaveScope \/ Unwind
    BY <1>2, LeaveScopeCloses, UnwindCloses
<1>3. CASE InitReturns
    BY <1>3, InitReturnsStutters
<1>4. CASE CallReturns \/ ExitReturns
    BY <1>4, CallReturnsCloses
<1>5. CASE \E next \in {"call", "exit"} : Reconstruct(next)
    BY <1>5, ReconstructOpens
<1>6. CASE \E kind \in {"output", "reusable"} : Reserve(kind)
    BY <1>6, ReserveScoped
<1>7. CASE \E v \in Values : Root(v) \/ RootInKeptFrame(v)
    BY <1>7, RootScoped
<1>8. CASE \E v \in Values, o \in tokens : Consume(o, v) \/ Temporary(o, v)
    BY <1>8, SetRootSets DEF Consume, Temporary
<1>9. CASE \E full \in BOOLEAN : Collect(full)
    BY <1>9, CollectScoped
<1>10. CASE UNCHANGED vars
    <2>1. UNCHANGED <<slots, offsets, mode, kept, heap>>
        BY <1>10 DEF vars, frameVars, gcVars
    <2>2. \A k \in 1..Len(offsets) : Frame(k)' = Frame(k)
        BY <2>1 DEF Frame, End
    <2> QED
        BY <2>1, <2>2, Stutters
<1> QED
    BY <1>1, <1>2, <1>3, <1>4, <1>5, <1>6, <1>7, <1>8, <1>9, <1>10 DEF Next

\* The stack implements frames that own their roots.
THEOREM StackImplementsFrames == Spec => ScopedSpec
<1>1. Init => Scoped!Init
    BY DEF Init, Scoped!Init
<1> QED
    BY <1>1, InvAlways, NextScoped, PTL DEF Spec, ScopedSpec, Scoped!Spec
=============================================================================
