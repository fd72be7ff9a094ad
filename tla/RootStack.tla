----------------------------- MODULE RootStack -----------------------------
(***************************************************************************)
(* One Stack of GC roots with the dynamic frames, outputs and reusable     *)
(* slots that use it: memory/context/stack.rs, memory/target/frame.rs,     *)
(* memory/target/output.rs, memory/target/reusable_slot.rs, the targets of *)
(* memory/target/mod.rs and, for the frames of a persistent task,          *)
(* async_util/envelope.rs.                                                 *)
(*                                                                         *)
(* A Stack is one flat vector of roots; a frame is only an offset into it, *)
(* the size of the stack when the frame was created.  The Stack itself is  *)
(* a foreign object managed by Julia, so the garbage collector, which is   *)
(* generational, may treat it as old and skip it unless a write barrier    *)
(* put it in the remembered set.                                           *)
(*                                                                         *)
(* refs is what Rust code may still use.  Its guards are the borrow        *)
(* checker's: a reference lives as long as the frame it names, a temporary *)
(* one until its output is used again, and only the innermost frame can be *)
(* used to root data or reserve slots.                                     *)
(***************************************************************************)
EXTENDS Naturals, Sequences, FiniteSets

CONSTANTS
    Values,           \* the addresses Julia allocates data at
    Null,             \* the null pointer
    MaxSize,          \* bound on the size of the stack
    MaxDepth          \* bound on the number of nested frames

ASSUME RootStackAssumption ==
    /\ Null \notin Values
    /\ MaxSize \in Nat
    /\ MaxDepth \in Nat

VARIABLES
    slots,       \* Seq(Values \cup {Null}), the roots
    offsets,     \* Seq(Nat), the offsets of the open frames, outermost first
    mode,        \* "scope", or what a persistent task does: "idle", "call", "exit", "done"
    kept,        \* the offset a persistent task gives every call
    tokens,      \* the outputs and reusable slots that can still be used
    refs,        \* the references Rust code can still use
    stateRefs,   \* what the state of a task rooted in init's frame later on
    heap,        \* the values that are allocated
    young,       \* the values allocated since the last collection
    stackOld,    \* the Stack object has survived a collection
    remembered   \* the Stack object is in the remembered set

frameVars == <<slots, offsets, mode, kept, tokens, refs, stateRefs>>
gcVars == <<heap, young, stackOld, remembered>>
vars == <<frameVars, gcVars>>

Depth == Len(offsets)

\* Stack::pop_roots (Vec::truncate).
Truncate(s, n) == IF n < Len(s) THEN SubSeq(s, 1, n) ELSE s

\* What the borrow checker leaves when only the frames 1..k stay open.
UpTo(k, S) == {x \in S : x.level <= k}

\* Some Rust code runs that has the innermost frame.  Between its calls nobody
\* has the frame of a persistent task: it was moved into init, and the state
\* is only handed out to run and exit.
Runs == Depth > 0 /\ mode \in {"scope", "call", "exit"}

\* Data to root: something new, or something Rust code still refers to.
Fresh(v) == v \notin heap
Rootable(v) == Fresh(v) \/ v \in stateRefs \/ \E r \in refs : r.val = v

Init ==
    /\ slots = <<>>
    /\ offsets = <<>>
    /\ mode = "scope"
    /\ kept = 0
    /\ tokens = {}
    /\ refs = {}
    /\ stateRefs = {}
    /\ heap = {}
    /\ young = {}
    /\ stackOld = FALSE
    /\ remembered = FALSE

\* Faulty variant: no write barrier.
StoreWithoutBarrier(v) ==
    /\ Rootable(v)
    /\ heap' = heap \cup {v}
    /\ young' = IF Fresh(v) THEN young \cup {v} ELSE young
    /\ UNCHANGED <<remembered, stackOld>>

\* Allocate v if it is new, and store it in the stack: jl_gc_wb remembers an
\* old stack that now refers to young data.
Store(v) ==
    /\ Rootable(v)
    /\ heap' = heap \cup {v}
    /\ young' = IF Fresh(v) THEN young \cup {v} ELSE young
    /\ remembered' = (remembered \/ (stackOld /\ v \in young'))
    /\ UNCHANGED stackOld

----------------------------------------------------------------------------
\* GcFrame::base and AsyncGcFrame::base: the frame starts at offset 0,
\* whatever the size of the stack.
Base ==
    /\ Depth = 0
    /\ offsets' = <<0>>
    /\ UNCHANGED <<slots, mode, kept, tokens, refs, stateRefs, gcVars>>

\* GcFrame::nest, called by scope and async_scope.
Nest ==
    /\ Runs
    /\ Depth < MaxDepth
    /\ offsets' = Append(offsets, Len(slots))
    /\ UNCHANGED <<slots, mode, kept, tokens, refs, stateRefs, gcVars>>

\* The owner of the innermost frame is dropped at the end of its scope.  How the
\* frames of a persistent task's calls end is CallReturns and ExitReturns.
LeaveScope ==
    /\ mode # "idle"
    /\ Depth > (IF mode \in {"call", "exit"} THEN 2 ELSE 0)
    /\ slots' = Truncate(slots, offsets[Depth])
    /\ offsets' = SubSeq(offsets, 1, Depth - 1)
    /\ mode' = IF Depth = 1 THEN "scope" ELSE mode
    /\ tokens' = UpTo(Depth - 1, tokens)
    /\ refs' = UpTo(Depth - 1, refs)
    /\ UNCHANGED <<kept, stateRefs, gcVars>>

\* Faulty variant: the owner of a frame has no destructor.
UnwindKeepsRoots ==
    /\ Depth > 0
    /\ offsets' = <<>>
    /\ mode' = "scope"
    /\ tokens' = {}
    /\ refs' = {}
    /\ stateRefs' = {}
    /\ UNCHANGED <<slots, kept, gcVars>>

\* A panic, or the executor dropping a task's future: every owner is dropped.
Unwind ==
    /\ Depth > 0
    /\ slots' = Truncate(slots, offsets[1])
    /\ offsets' = <<>>
    /\ mode' = "scope"
    /\ tokens' = {}
    /\ refs' = {}
    /\ stateRefs' = {}
    /\ UNCHANGED <<kept, gcVars>>

\* GcFrame::root, reached by using the innermost frame as a target.
Root(v) ==
    /\ Runs
    /\ Len(slots) < MaxSize
    /\ Store(v)
    /\ slots' = Append(slots, v)
    /\ refs' = refs \cup {[val |-> v, slot |-> Len(slots) + 1, level |-> Depth,
                           temporary |-> FALSE]}
    /\ UNCHANGED <<offsets, mode, kept, tokens, stateRefs>>

\* GcFrame::output and GcFrame::reusable_slot.
Reserve(kind) ==
    /\ Runs
    /\ Len(slots) < MaxSize
    /\ slots' = Append(slots, Null)
    /\ tokens' = tokens \cup {[slot |-> Len(slots) + 1, level |-> Depth, kind |-> kind]}
    /\ UNCHANGED <<offsets, mode, kept, refs, stateRefs, gcVars>>

\* Stack::set_root for a token: what was returned for a borrow of the token
\* before can no longer be used.
SetRoot(o, v) ==
    /\ Runs
    /\ Store(v)
    /\ slots' = [slots EXCEPT ![o.slot] = v]
    /\ UNCHANGED <<offsets, mode, kept, stateRefs>>

BorrowEnded(o) == {r \in refs : ~(r.temporary /\ r.slot = o.slot)}

\* Faulty variant: consume takes &mut self, so that the token can be used again.
ConsumeByRef(o, v) ==
    /\ SetRoot(o, v)
    /\ refs' = BorrowEnded(o) \cup
                 {[val |-> v, slot |-> o.slot, level |-> o.level, temporary |-> FALSE]}
    /\ UNCHANGED tokens

\* Output::consume and ReusableSlot::consume: the result lives as long as the
\* frame the token was reserved in.
Consume(o, v) ==
    /\ SetRoot(o, v)
    /\ tokens' = tokens \ {o}
    /\ refs' = BorrowEnded(o) \cup
                 {[val |-> v, slot |-> o.slot, level |-> o.level, temporary |-> FALSE]}

\* Output::temporary: the result lives as long as the borrow of the output.
\* ReusableSlot::temporary: the result is a Ref nobody may rely on once the
\* slot is used again; until then it is as good as the output's.
Temporary(o, v) ==
    /\ SetRoot(o, v)
    /\ refs' = BorrowEnded(o) \cup
                 {[val |-> v, slot |-> o.slot, level |-> o.level, temporary |-> TRUE]}
    /\ UNCHANGED tokens

----------------------------------------------------------------------------
\* A persistent task: init has returned, its frame stays open and every call
\* will start at the current size of the stack.
InitReturns ==
    /\ mode = "scope"
    /\ Depth = 1
    /\ mode' = "idle"
    /\ kept' = Len(slots)
    /\ UNCHANGED <<slots, offsets, tokens, refs, stateRefs, gcVars>>

\* GcFrameOwner::reconstruct: pop whatever is above init's frame and create a
\* frame for the next call, or for exit when the last handle is gone.  exit gets
\* this frame, which has no owner; for a call, call_run at once nests a frame
\* with an owner in it, at the same offset, and nobody uses the outer one.
Reconstruct(next) ==
    /\ mode = "idle"
    /\ mode' = next
    /\ slots' = Truncate(slots, kept)
    /\ offsets' = Append(offsets, kept)
    /\ UNCHANGED <<kept, tokens, refs, stateRefs, gcVars>>

\* Faulty variant: run gets the reconstructed frame itself, which has no owner.
CallReturnsKeepsRoots ==
    /\ mode = "call"
    /\ Depth = 2
    /\ mode' = "idle"
    /\ offsets' = SubSeq(offsets, 1, 1)
    /\ tokens' = UpTo(1, tokens)
    /\ refs' = UpTo(1, refs)
    /\ UNCHANGED <<slots, kept, stateRefs, gcVars>>

\* run returns, and call_run drops the owner of the frame it nested for it.  With
\* the roots of the call go those that run added to init's frame.
CallReturns ==
    /\ mode = "call"
    /\ Depth = 2
    /\ mode' = "idle"
    /\ slots' = Truncate(slots, offsets[2])
    /\ offsets' = SubSeq(offsets, 1, 1)
    /\ tokens' = UpTo(1, tokens)
    /\ refs' = UpTo(1, refs)
    /\ UNCHANGED <<kept, stateRefs, gcVars>>

\* exit returns and the state is dropped.  What exit rooted stays on the stack
\* for the owner of init's frame, which is dropped next.
ExitReturns ==
    /\ mode = "exit"
    /\ Depth = 2
    /\ mode' = "done"
    /\ offsets' = SubSeq(offsets, 1, 1)
    /\ tokens' = {}
    /\ refs' = {}
    /\ stateRefs' = {}
    /\ UNCHANGED <<slots, kept, gcVars>>

\* The state of a persistent task may hold init's frame itself (State<'frame>
\* has no bounds): run roots data in it, for the state to keep, while the frame
\* of the call is open.
RootInKeptFrame(v) ==
    /\ mode \in {"call", "exit"}
    /\ Len(slots) < MaxSize
    /\ Store(v)
    /\ slots' = Append(slots, v)
    /\ stateRefs' = stateRefs \cup {v}
    /\ UNCHANGED <<offsets, mode, kept, tokens, refs>>

----------------------------------------------------------------------------
\* External: Julia's collector, while the thread is at a safepoint.  A full
\* collection marks the Stack; a quick one only does if the Stack is young or
\* remembered, and frees no old value.  ForeignType::mark of Stack marks every
\* root.  What survives is old.
Roots == {slots[i] : i \in 1..Len(slots)} \ {Null}

Collect(full) ==
    LET marked == IF full \/ ~stackOld \/ remembered THEN Roots ELSE {}
    IN  /\ heap' = IF full THEN marked ELSE (heap \ young) \cup marked
        /\ young' = {}
        /\ stackOld' = TRUE
        /\ remembered' = FALSE
        /\ UNCHANGED frameVars

Next ==
    \/ Base \/ Nest \/ LeaveScope \/ Unwind
    \/ InitReturns \/ CallReturns \/ ExitReturns
    \/ \E next \in {"call", "exit"} : Reconstruct(next)
    \/ \E kind \in {"output", "reusable"} : Reserve(kind)
    \/ \E v \in Values :
          \/ Root(v)
          \/ RootInKeptFrame(v)
          \/ \E o \in tokens : Consume(o, v) \/ Temporary(o, v)
    \/ \E full \in BOOLEAN : Collect(full)

Spec == Init /\ [][Next]_vars

----------------------------------------------------------------------------
TypeOK ==
    /\ slots \in Seq(Values \cup {Null})
    /\ offsets \in Seq(Nat)
    /\ mode \in {"scope", "idle", "call", "exit", "done"}
    /\ kept \in Nat
    /\ tokens \subseteq [slot : Nat, level : Nat, kind : {"output", "reusable"}]
    /\ refs \subseteq [val : Values, slot : Nat, level : Nat, temporary : BOOLEAN]
    /\ stateRefs \subseteq Values
    /\ heap \subseteq Values
    /\ young \subseteq heap
    /\ stackOld \in BOOLEAN
    /\ remembered \in BOOLEAN

\* Every reference Rust code can still use refers to allocated data, whatever
\* was rooted, which scopes ended, panicked or were reconstructed, and whatever
\* kind of collection ran in between, except for what the state of a task
\* rooted in init's frame after init.
NoDangling == \A r \in refs : r.val \in heap

\* Where the roots of frame k end.  What exit left is in no frame.
End(k) == IF k < Depth THEN offsets[k + 1]
          ELSE IF mode = "done" THEN kept
          ELSE Len(slots)

\* x is in the part of the stack that belongs to the frame it names.
InItsFrame(x) == x.level \in 1..Depth /\ x.slot \in (offsets[x.level] + 1)..End(x.level)

\* A reference is backed by a slot of the frame it lives as long as, and no
\* output or reusable slot can overwrite that slot while the reference lives;
\* two outputs never share a slot.
RefsRooted ==
    /\ \A x \in refs \cup tokens : InItsFrame(x)
    /\ \A r \in refs : slots[r.slot] = r.val
    /\ \A o \in tokens, r \in refs : r.slot = o.slot => r.temporary
    /\ \A o, p \in tokens : o.slot = p.slot => o = p

\* Frames are nested, and a base frame is only created on an empty stack (the
\* debug assertion of GcFrame::base), also after a panic or after a persistent
\* task whose exit left roots behind: no task starts with the roots of another.
FramesNested ==
    /\ \A k \in 1..Depth : offsets[k] <= End(k)
    /\ Depth = 0 => slots = <<>>
    /\ Depth > 0 => offsets[1] = 0

\* What a slot holds is allocated, so that marking the stack never meets freed
\* data; and when a quick collection may skip the stack, no slot holds young
\* data.
BarrierKept ==
    /\ Roots \subseteq heap
    /\ stackOld /\ ~remembered => Roots \cap young = {}

\* The roots of frame k.
Frame(k) == SubSeq(slots, offsets[k] + 1, End(k))

Scoped == INSTANCE ScopedRoots WITH
    frames <- [k \in 1..Depth |-> Frame(k)],
    live <- heap

ScopedSpec == Scoped!Spec

\* "The frame is not dropped until the task itself is dropped. This means that
\* State can contain arbitrary Julia data rooted in this frame": what is rooted
\* in init's frame stays allocated between and during the calls of run.
StateStaysAllocated ==
    /\ \A r \in refs : r.level = 1 => r.val \in heap
    /\ stateRefs \subseteq heap

\* The flat stack is a stack of frames, which nest: an unwound scope or call
\* leaves nothing behind.
StackOK == TypeOK /\ FramesNested

\* What a user can still reach is rooted where it says, and was not freed.
ReferencesLive == RefsRooted /\ NoDangling
=============================================================================
