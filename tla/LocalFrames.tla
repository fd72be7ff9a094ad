----------------------------- MODULE LocalFrames -----------------------------
(***************************************************************************)
(* The frames on the native stack of a thread and the chain through which  *)
(* the GC finds them: the StackFrame pinned by Julia, CCall and the async  *)
(* runtime (memory/stack_frame.rs), the frames of local scopes             *)
(* (memory/target), the try-blocks of catch_exceptions (catch) and the     *)
(* catch_unwind of users and executors.  A frame ends when its function    *)
(* returns, when a panic unwinds it, or when an exception jumps over it.   *)
(***************************************************************************)
EXTENDS Naturals, Sequences, FiniteSets

CONSTANTS
    MaxDepth   \* the deepest nesting of calls

ASSUME DepthAssumption == MaxDepth \in Nat \ {0}

VARIABLES
    stack,     \* the calls in progress, the innermost last; a frame is known by its depth
    head,      \* gcstack: the frame at which the chain starts, or 0
    panicking, \* a panic unwinds the calls
    scar       \* the outermost call that runs although a panic left a local scope
               \* above it on the chain, or 0 (no variable of the code)

vars == <<stack, head, panicking, scar>>

\* "pinned": a StackFrame; "local": a local scope; "try": a try-block;
\* "guard": catch_unwind.  The first two put a frame on the chain.
Kinds == {"pinned", "local", "try", "guard"}
Framed == {"pinned", "local"}

\* link: what the call found as the head of the chain, the field prev of a
\* frame and what JL_TRY saves.
Calls == [kind : Kinds, link : 0..MaxDepth]

Depth == Len(stack)
Top == stack[Depth]
Popped == SubSeq(stack, 1, Depth - 1)

Init ==
    /\ stack = <<>>
    /\ head = 0
    /\ panicking = FALSE
    /\ scar = 0

\* Everything above depth d is right again.
Healed(d) == IF scar >= d THEN 0 ELSE scar

\* Call d goes on with a chain that was not restored.
Scarred(d) == IF scar = 0 \/ scar > d THEN d ELSE scar

Push(kind, h) ==
    /\ ~panicking
    /\ Depth < MaxDepth
    /\ stack' = Append(stack, [kind |-> kind, link |-> head])
    /\ head' = h
    /\ UNCHANGED <<panicking, scar>>

----------------------------------------------------------------------------
\* PinnedFrame::new
Pin == Push("pinned", Depth + 1)

\* local_scope, with_local_scope and those of CCall
LocalScope == stack # <<>> /\ Push("local", Depth + 1)

\* catch_exceptions, and every checked call: JL_TRY
Try == stack # <<>> /\ Push("try", head)

\* catch_unwind, around a closure of the user or a task of the executor
Guard == stack # <<>> /\ Push("guard", head)

\* The drop of PinnedFrame, when the call returns or is unwound.  Outside the
\* outermost one no panic goes on: it ends the thread or is caught.
Unpin ==
    /\ stack # <<>> /\ Top.kind = "pinned"
    /\ head' = Top.link
    /\ stack' = Popped
    /\ panicking' = (panicking /\ Depth > 1)
    /\ scar' = Healed(Depth)

\* Faulty variant: the scope returns early, with an error, before it pops.
LocalReturnsEarly ==
    /\ stack # <<>> /\ Top.kind = "local"
    /\ ~panicking
    /\ head' \in {head, Top.link}
    /\ stack' = Popped
    /\ scar' = Healed(Depth)
    /\ UNCHANGED panicking

\* The closure returns: the frame is popped, whatever the closure left on the
\* chain.
LocalReturns ==
    /\ stack # <<>> /\ Top.kind = "local"
    /\ ~panicking
    /\ head' = Top.link
    /\ stack' = Popped
    /\ scar' = Healed(Depth)
    /\ UNCHANGED panicking

\* The closure returns, or panics: the trampoline catches the panic, JL_TRY is
\* left and restores the chain, and then the panic is resumed.
TryEnds ==
    /\ stack # <<>> /\ Top.kind = "try"
    /\ head' = Top.link
    /\ stack' = Popped
    /\ scar' = Healed(Depth)
    /\ UNCHANGED panicking

\* catch_unwind returns, with the panic if there was one.
GuardEnds ==
    /\ stack # <<>> /\ Top.kind = "guard"
    /\ stack' = Popped
    /\ panicking' = FALSE
    /\ scar' = IF scar = Depth THEN Depth - 1 ELSE scar
    /\ UNCHANGED head

----------------------------------------------------------------------------
Panic ==
    /\ stack # <<>> /\ ~panicking
    /\ panicking' = TRUE
    /\ UNCHANGED <<stack, head, scar>>

\* A local scope is popped by the code after the closure, which a panic skips.
LocalUnwound ==
    /\ stack # <<>> /\ Top.kind = "local"
    /\ panicking
    /\ stack' = Popped
    /\ scar' = Scarred(Depth - 1)
    /\ UNCHANGED <<head, panicking>>

\* Faulty variant: the handler's frame is linked to the chain as it was when
\* the exception was thrown.
ThrowUnrestored(c) ==
    /\ ~panicking
    /\ c \in 1..Depth /\ stack[c].kind = "try"
    /\ \A d \in c + 1..Depth : stack[d].kind = "local"
    /\ stack' = Append(SubSeq(stack, 1, c - 1), [kind |-> "local", link |-> head])
    /\ head' = c
    /\ scar' = Healed(c)
    /\ UNCHANGED panicking

\* Julia throws: the innermost try-block c restores the chain and its handler
\* runs in a local scope that roots the exception.  "Only local scopes may be
\* created in the try-block": there are no pending drops.
Throw(c) ==
    /\ ~panicking
    /\ c \in 1..Depth /\ stack[c].kind = "try"
    /\ \A d \in c + 1..Depth : stack[d].kind = "local"
    /\ stack' = Append(SubSeq(stack, 1, c - 1), [kind |-> "local", link |-> stack[c].link])
    /\ head' = c
    /\ scar' = Healed(c)
    /\ UNCHANGED panicking

Next ==
    \/ Pin \/ LocalScope \/ Try \/ Guard
    \/ Unpin \/ LocalReturns \/ TryEnds \/ GuardEnds
    \/ Panic \/ LocalUnwound
    \/ \E c \in 1..MaxDepth : Throw(c)

Spec == Init /\ [][Next]_vars

----------------------------------------------------------------------------
FramesTypeOK ==
    /\ stack \in Seq(Calls)
    /\ Depth <= MaxDepth
    /\ head \in 0..(IF scar = 0 THEN Depth ELSE MaxDepth)
    /\ panicking \in BOOLEAN
    /\ scar \in 0..Depth

\* e is the innermost frame outside depth d.
IsFrameBelow(e, d) ==
    /\ e < d
    /\ e # 0 => stack[e].kind \in Framed
    /\ \A i \in e + 1..d - 1 : stack[i].kind \notin Framed

\* The chain starts at the innermost frame, and every frame and every
\* try-block is linked to the one around it, up to the place where a panic
\* left a local scope behind; whatever happens above a pinned frame, a local
\* scope or a try-block that is below that place, the chain is right again
\* when it ends.
LinksAreProper ==
    /\ scar = 0 => IsFrameBelow(head, Depth + 1)
    /\ \A d \in 1..Depth :
          stack[d].kind # "guard" /\ (scar = 0 \/ d <= scar) => IsFrameBelow(stack[d].link, d)

\* The GC, which starts at the head and follows the link of every frame, finds nothing
\* that is not in S.
Followed(S) ==
    /\ head # 0 => head \in S
    /\ \A d \in S : d <= Depth /\ stack[d].link # 0 => stack[d].link \in S

\* What the GC finds when it walks the chain: the least set that is followed.
OnChain == {d \in 1..MaxDepth : \A S \in SUBSET (1..MaxDepth) : Followed(S) => d \in S}

\* All scopes that have not ended, and no others, are roots of the GC.
ScopesAreRoots ==
    scar = 0 => OnChain = {d \in 1..Depth : stack[d].kind \in Framed}

\* "When the scope ends these roots are removed from the set of roots"
\* (memory/target/frame.rs): no frame on the chain belongs to a scope that
\* has ended.
EndedScopesAreGone == OnChain \subseteq {d \in 1..Depth : stack[d].kind \in Framed}

\* The chain the GC walks, link by link.
FramesOK == FramesTypeOK /\ LinksAreProper
=============================================================================
