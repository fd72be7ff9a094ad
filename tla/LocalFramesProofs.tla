-------------------------- MODULE LocalFramesProofs --------------------------
(***************************************************************************)
(* For every depth of nesting: the chain of frames is right up to the      *)
(* place where a panic left a local scope behind.                          *)
(***************************************************************************)
EXTENDS LocalFrames, SequenceTheorems, WellFoundedInduction, TLAPS

\* IsFrameBelow for any sequence of calls.
Below(s, e, d) ==
    /\ e < d
    /\ e # 0 => s[e].kind \in Framed
    /\ \A i \in e + 1..d - 1 : s[i].kind \notin Framed

\* LinksAreProper for any sequence of calls.
Proper(s, h, c) ==
    /\ c = 0 => Below(s, h, Len(s) + 1)
    /\ \A d \in 1..Len(s) :
          s[d].kind # "guard" /\ (c = 0 \/ d <= c) => Below(s, s[d].link, d)

Typed(s, h, c) ==
    /\ s \in Seq(Calls)
    /\ Len(s) <= MaxDepth
    /\ h \in 0..MaxDepth
    /\ c = 0 => h \in 0..Len(s)
    /\ c \in 0..Len(s)

\* The outermost call has pinned its frame.
Based(s) == Len(s) > 0 => s[1].kind = "pinned"

LEMMA ProperIsLinks == LinksAreProper <=> Proper(stack, head, scar)
  BY DEF LinksAreProper, Proper, IsFrameBelow, Below, Depth

LEMMA TypedIsType == FramesTypeOK <=> Typed(stack, head, scar) /\ panicking \in BOOLEAN
  BY DepthAssumption DEF FramesTypeOK, Typed, Depth

\* The calls of a prefix do not change.
LEMMA Prefix ==
    ASSUME NEW s \in Seq(Calls), NEW n \in 0..Len(s)
    PROVE  /\ SubSeq(s, 1, n) \in Seq(Calls)
           /\ Len(SubSeq(s, 1, n)) = n
           /\ \A i \in 1..n : SubSeq(s, 1, n)[i] = s[i]
  <1>1. Len(s) \in Nat /\ \A i \in 1..Len(s) : s[i] \in Calls
    BY LenProperties, ElementOfSeq
  <1>2. \A i \in 1..n : s[i] \in Calls
    BY <1>1
  <1> QED
    BY <1>1, <1>2, SubSeqProperties

\* The innermost call ends and the chain is what the call had found.
LEMMA RestoreKeeps ==
    ASSUME NEW s, NEW h, NEW c, Typed(s, h, c), Proper(s, h, c),
           NEW n \in 1..Len(s), s[n].kind # "guard",
           NEW e, e = (IF c >= n THEN 0 ELSE c)
    PROVE  /\ Typed(SubSeq(s, 1, n - 1), s[n].link, e)
           /\ Proper(SubSeq(s, 1, n - 1), s[n].link, e)
  <1> DEFINE t == SubSeq(s, 1, n - 1)
  <1>1. /\ s \in Seq(Calls) /\ Len(s) \in Nat /\ c \in 0..Len(s) /\ Len(s) <= MaxDepth
        /\ \A i \in 1..Len(s) : s[i] \in Calls
    BY LenProperties, ElementOfSeq DEF Typed
  <1>2. t \in Seq(Calls) /\ Len(t) = n - 1 /\ \A i \in 1..n - 1 : t[i] = s[i]
    BY <1>1, Prefix, n - 1 \in 0..Len(s)
  <1>3. \A i \in 1..Len(s) : s[i].link \in 0..MaxDepth
    BY <1>1 DEF Calls
  <1>4. e = 0 => Below(s, s[n].link, n)
    BY <1>1 DEF Proper
  <1>5. ASSUME NEW d \in 1..n - 1, s[d].kind # "guard", e = 0 \/ d <= e
        PROVE  Below(s, s[d].link, d)
    BY <1>1, <1>5 DEF Proper
  <1>6. ASSUME NEW d \in 1..n, NEW f \in Nat, Below(s, f, d)
        PROVE  Below(t, f, d)
    BY <1>1, <1>2, <1>6 DEF Below
  <1>7. e = 0 => s[n].link \in 0..n - 1
    BY <1>1, <1>3, <1>4, DepthAssumption DEF Below
  <1>8. Typed(t, s[n].link, e)
    <2>1. e \in 0..n - 1 /\ n - 1 <= MaxDepth /\ s[n].link \in 0..MaxDepth
      BY <1>1, <1>3, DepthAssumption
    <2> QED
      BY <1>2, <1>7, <2>1 DEF Typed
  <1>9. e = 0 => Below(t, s[n].link, Len(t) + 1)
    BY <1>1, <1>2, <1>4, <1>6, <1>7
  <1>10. \A d \in 1..Len(t) :
            t[d].kind # "guard" /\ (e = 0 \/ d <= e) => Below(t, t[d].link, d)
    BY <1>1, <1>2, <1>3, <1>5, <1>6, DepthAssumption
  <1> QED
    BY <1>8, <1>9, <1>10 DEF Proper

\* The innermost call ends and leaves the chain as it is: it is right only if
\* the call had put nothing on it.
LEMMA LeaveKeeps ==
    ASSUME NEW s, NEW h, NEW c, Typed(s, h, c), Proper(s, h, c), s # <<>>,
           NEW e \in 0..Len(s) - 1,
           e = 0 => c = 0 /\ s[Len(s)].kind \notin Framed,
           c # 0 => e <= c
    PROVE  /\ Typed(SubSeq(s, 1, Len(s) - 1), h, e)
           /\ Proper(SubSeq(s, 1, Len(s) - 1), h, e)
  <1> DEFINE n == Len(s)
             t == SubSeq(s, 1, n - 1)
  <1>1. /\ s \in Seq(Calls) /\ n \in Nat \ {0} /\ c \in 0..n /\ n <= MaxDepth
        /\ h \in 0..MaxDepth
        /\ \A i \in 1..n : s[i] \in Calls
    BY LenProperties, ElementOfSeq, EmptySeq DEF Typed
  <1>2. t \in Seq(Calls) /\ Len(t) = n - 1 /\ \A i \in 1..n - 1 : t[i] = s[i]
    BY <1>1, Prefix, n - 1 \in 0..Len(s)
  <1>3. e = 0 => h \in 0..n - 1 /\ Below(s, h, n)
    <2> SUFFICES ASSUME e = 0 PROVE h \in 0..n - 1 /\ Below(s, h, n)
      OBVIOUS
    <2>1. Below(s, h, n + 1) /\ h \in 0..n /\ s[n].kind \notin Framed
      BY DEF Proper, Typed
    <2> QED
      BY <2>1, <1>1 DEF Below
  <1>4. ASSUME NEW d \in 1..n - 1, s[d].kind # "guard", e = 0 \/ d <= e
        PROVE  Below(s, s[d].link, d) /\ s[d].link \in Nat
    <2>1. c = 0 \/ d <= c
      BY <1>1, <1>4
    <2>2. s[d].link \in 0..MaxDepth
      BY <1>1 DEF Calls
    <2> QED
      BY <1>1, <1>4, <2>1, <2>2, DepthAssumption DEF Proper
  <1>5. ASSUME NEW d \in 1..n, NEW f \in Nat, Below(s, f, d)
        PROVE  Below(t, f, d)
    BY <1>1, <1>2, <1>5 DEF Below
  <1>6. Typed(t, h, e)
    <2>1. n - 1 <= MaxDepth
      BY <1>1, DepthAssumption
    <2> QED
      BY <1>1, <1>2, <1>3, <2>1 DEF Typed
  <1>7. e = 0 => Below(t, h, Len(t) + 1)
    BY <1>1, <1>2, <1>3, <1>5
  <1>8. \A d \in 1..Len(t) :
            t[d].kind # "guard" /\ (e = 0 \/ d <= e) => Below(t, t[d].link, d)
    BY <1>1, <1>2, <1>4, <1>5
  <1> QED
    BY <1>6, <1>7, <1>8 DEF Proper

\* A call starts: its link is the head, and if it has a frame the chain
\* starts there.
LEMMA PushKeeps ==
    ASSUME NEW s, NEW h, NEW c, Typed(s, h, c), Proper(s, h, c), Len(s) < MaxDepth,
           NEW kind \in Kinds, NEW g,
           g = (IF kind \in Framed THEN Len(s) + 1 ELSE h)
    PROVE  LET t == Append(s, [kind |-> kind, link |-> h])
           IN  Typed(t, g, c) /\ Proper(t, g, c)
  <1> DEFINE n == Len(s)
             x == [kind |-> kind, link |-> h]
             t == Append(s, x)
  <1>1. /\ s \in Seq(Calls) /\ n \in Nat /\ c \in 0..n /\ h \in 0..MaxDepth
        /\ \A i \in 1..n : s[i] \in Calls
    BY LenProperties, ElementOfSeq DEF Typed
  <1>2. x \in Calls
    BY <1>1 DEF Calls
  <1>3. /\ t \in Seq(Calls) /\ Len(t) = n + 1 /\ t[n + 1] = x
        /\ \A i \in 1..n : t[i] = s[i]
    BY <1>1, <1>2, AppendProperties
  <1>4. c = 0 => h \in 0..n /\ Below(s, h, n + 1)
    BY DEF Proper, Typed
  <1>5. ASSUME NEW d \in 1..n + 1, NEW f \in Nat, Below(s, f, d)
        PROVE  Below(t, f, d)
    BY <1>1, <1>3, <1>5 DEF Below
  <1>6. Typed(t, g, c)
    BY <1>1, <1>3, <1>4, DepthAssumption DEF Typed
  <1>7. c = 0 => Below(t, h, n + 1)
    BY <1>1, <1>4, <1>5
  <1>8. c = 0 => Below(t, g, Len(t) + 1)
    <2> SUFFICES ASSUME c = 0 PROVE Below(t, g, n + 2)
      BY <1>1, <1>3
    <2>1. Below(t, h, n + 1) /\ h \in 0..n
      BY <1>4, <1>7
    <2>2. t[n + 1].kind = kind
      BY <1>3
    <2>3. CASE kind \in Framed
      BY <1>1, <2>2, <2>3 DEF Below
    <2>4. CASE kind \notin Framed
      <3>1. g = h
        BY <2>4
      <3>2. \A i \in h + 1..n + 1 : t[i].kind \notin Framed
        BY <1>1, <2>1, <2>2, <2>4 DEF Below
      <3> QED
        BY <1>1, <2>1, <3>1, <3>2 DEF Below
    <2> QED
      BY <2>3, <2>4
  <1>9. ASSUME NEW d \in 1..Len(t), t[d].kind # "guard", c = 0 \/ d <= c
        PROVE  Below(t, t[d].link, d)
    <2>1. CASE d = n + 1
      BY <1>1, <1>3, <1>7, <1>9, <2>1
    <2>2. CASE d # n + 1
      <3>1. d \in 1..n /\ t[d] = s[d]
        BY <1>1, <1>3, <2>2
      <3>2. Below(s, s[d].link, d)
        BY <1>9, <3>1 DEF Proper
      <3>3. s[d].link \in Nat
        BY <1>1, <3>1, DepthAssumption DEF Calls
      <3> QED
        BY <1>1, <1>5, <3>1, <3>2, <3>3
    <2> QED
      BY <2>1, <2>2
  <1> QED
    BY <1>6, <1>8, <1>9 DEF Proper

LEMMA PrefixBased ==
    ASSUME NEW s \in Seq(Calls), Based(s), NEW n \in 0..Len(s)
    PROVE  Based(SubSeq(s, 1, n))
  BY Prefix, LenProperties DEF Based

LEMMA AppendBased ==
    ASSUME NEW s \in Seq(Calls), Based(s), NEW x \in Calls,
           s = <<>> => x.kind = "pinned"
    PROVE  Based(Append(s, x))
  BY AppendProperties, LenProperties, EmptySeq DEF Based

Inv ==
    /\ Typed(stack, head, scar)
    /\ Proper(stack, head, scar)
    /\ Based(stack)
    /\ panicking \in BOOLEAN

LEMMA InitInv == Init => Inv
  <1> SUFFICES ASSUME Init PROVE Inv
    OBVIOUS
  <1>1. stack = <<>> /\ Len(stack) = 0 /\ stack \in Seq(Calls)
    BY EmptySeq DEF Init
  <1>2. head = 0 /\ scar = 0 /\ panicking = FALSE
    BY DEF Init
  <1>3. Typed(stack, head, scar)
    BY <1>1, <1>2, DepthAssumption DEF Typed
  <1>4. Below(stack, 0, 1)
    BY DEF Below
  <1>5. Proper(stack, head, scar)
    BY <1>1, <1>2, <1>4 DEF Proper
  <1>6. Based(stack)
    BY <1>1 DEF Based
  <1> QED
    BY <1>2, <1>3, <1>5, <1>6 DEF Inv

LEMMA StepInv == Inv /\ [Next]_vars => Inv'
  <1> SUFFICES ASSUME Inv, [Next]_vars PROVE Inv'
    OBVIOUS
  <1>1. /\ stack \in Seq(Calls) /\ Depth \in Nat /\ scar \in 0..Depth /\ Depth <= MaxDepth
        /\ \A i \in 1..Depth : stack[i] \in Calls
    BY LenProperties, ElementOfSeq DEF Inv, Typed, Depth
  <1>2. stack # <<>> => Depth \in 1..Depth
    BY <1>1, EmptySeq DEF Depth
  <1>3. ASSUME NEW kind \in Kinds, NEW g, Push(kind, g),
               g = IF kind \in Framed THEN Depth + 1 ELSE head,
               stack = <<>> => kind = "pinned"
        PROVE  Inv'
    <2>1. Typed(stack, head, scar)' /\ Proper(stack, head, scar)'
      BY <1>1, <1>3, PushKeeps DEF Push, Inv, Depth
    <2>2. [kind |-> kind, link |-> head] \in Calls
      BY DEF Inv, Typed, Calls
    <2>3. Based(stack)'
      BY <1>1, <1>3, <2>2, AppendBased DEF Push, Inv
    <2> QED
      BY <1>3, <2>1, <2>3 DEF Push, Inv
  <1>4. ASSUME stack # <<>>, stack' = Popped PROVE Based(stack)'
    BY <1>1, <1>2, <1>4, PrefixBased, Depth - 1 \in 0..Depth DEF Popped, Inv, Depth
  <1>5. ASSUME stack # <<>>, Top.kind # "guard", head' = Top.link, stack' = Popped,
               scar' = Healed(Depth), panicking' \in BOOLEAN
        PROVE  Inv'
    BY <1>1, <1>2, <1>4, <1>5, RestoreKeeps DEF Top, Popped, Healed, Inv, Depth
  <1>6. ASSUME stack # <<>>, Top.kind # "pinned" PROVE Depth > 1
    BY <1>1, <1>2, <1>6 DEF Inv, Based, Top, Depth
  <1>7. CASE Pin
    BY <1>1, <1>3, <1>7 DEF Pin, Kinds, Framed
  <1>8. CASE LocalScope
    BY <1>1, <1>3, <1>8 DEF LocalScope, Kinds, Framed
  <1>9. CASE Try
    BY <1>1, <1>3, <1>9 DEF Try, Kinds, Framed
  <1>10. CASE Guard
    BY <1>1, <1>3, <1>10 DEF Guard, Kinds, Framed
  <1>11. CASE Unpin
    BY <1>1, <1>5, <1>11 DEF Unpin, Inv
  <1>12. CASE LocalReturns
    BY <1>1, <1>5, <1>12 DEF LocalReturns, Inv
  <1>13. CASE TryEnds
    BY <1>1, <1>5, <1>13 DEF TryEnds, Inv
  <1>14. CASE GuardEnds
    <2>1. /\ stack # <<>> /\ stack[Len(stack)].kind \notin Framed
          /\ stack' = SubSeq(stack, 1, Len(stack) - 1)
      BY <1>14 DEF GuardEnds, Top, Popped, Depth, Framed
    <2>2. Depth > 1
      BY <1>6, <1>14 DEF GuardEnds
    <2>3. /\ scar' \in 0..Len(stack) - 1
          /\ scar # 0 => scar' <= scar
          /\ scar' = 0 => scar = 0
      BY <1>1, <1>14, <2>2 DEF GuardEnds, Depth
    <2>4. Typed(stack, head, scar)' /\ Proper(stack, head, scar)'
      BY <1>14, <2>1, <2>3, LeaveKeeps DEF GuardEnds, Inv
    <2> QED
      BY <1>4, <1>14, <2>4 DEF GuardEnds, Inv
  <1>15. CASE Panic
    BY <1>15 DEF Panic, Inv
  <1>16. CASE LocalUnwound
    <2>1. stack # <<>> /\ stack' = SubSeq(stack, 1, Len(stack) - 1) /\ Depth > 1
      BY <1>6, <1>16 DEF LocalUnwound, Popped, Depth
    <2>2. /\ scar' \in 1..Len(stack) - 1
          /\ scar # 0 => scar' <= scar
      BY <1>1, <1>16, <2>1 DEF LocalUnwound, Scarred, Depth
    <2>3. Typed(stack, head, scar)' /\ Proper(stack, head, scar)'
      BY <1>1, <1>16, <2>1, <2>2, LeaveKeeps DEF LocalUnwound, Inv
    <2> QED
      BY <1>4, <1>16, <2>3 DEF LocalUnwound, Inv
  <1>17. ASSUME NEW c \in 1..MaxDepth, Throw(c) PROVE Inv'
    <2> DEFINE s == SubSeq(stack, 1, c - 1)
    <2>1. /\ c \in 1..Len(stack) /\ stack[c].kind = "try" /\ scar' = Healed(c) /\ head' = c
          /\ stack' = Append(s, [kind |-> "local", link |-> stack[c].link])
      BY <1>17 DEF Throw, Depth
    <2>2. Typed(s, stack[c].link, scar') /\ Proper(s, stack[c].link, scar')
      BY <2>1, RestoreKeeps DEF Healed, Inv
    <2>3. Len(s) = c - 1 /\ s \in Seq(Calls)
      BY <1>1, <2>1, Prefix, c - 1 \in 0..Len(stack) DEF Depth
    <2>4. Len(s) < MaxDepth /\ c = Len(s) + 1
      BY <1>1, <2>1, <2>3, DepthAssumption DEF Depth
    <2>5. Typed(stack, head, scar)' /\ Proper(stack, head, scar)'
      BY <2>1, <2>2, <2>4, PushKeeps DEF Kinds, Framed
    <2>6. Based(s) /\ s # <<>>
      <3>1. c # 1
        BY <1>1, <2>1 DEF Inv, Based, Depth
      <3>2. s # <<>>
        BY <1>1, <2>1, <2>3, <3>1, EmptySeq, SMTT(20)
      <3>3. c - 1 \in 0..Len(stack)
        BY <1>1, <2>1 DEF Depth
      <3>4. Based(s)
        BY <1>1, <3>3, PrefixBased DEF Inv
      <3> QED
        BY <3>2, <3>4
    <2>7. [kind |-> "local", link |-> stack[c].link] \in Calls
      BY <2>2 DEF Typed, Calls, Kinds
    <2>8. Based(stack)'
      BY <2>1, <2>3, <2>6, <2>7, AppendBased
    <2> QED
      BY <1>17, <2>5, <2>8 DEF Throw, Inv
  <1>18. CASE UNCHANGED vars
    BY <1>18 DEF vars, Inv
  <1> QED
    BY <1>7, <1>8, <1>9, <1>10, <1>11, <1>12, <1>13, <1>14, <1>15, <1>16, <1>17, <1>18 DEF Next

LEMMA SpecInv == Spec => []Inv
  BY InitInv, StepInv, PTL DEF Spec

\* Every variable has its type; while the chain is right it starts at a call
\* in progress.
THEOREM FramesTyped == Spec => []FramesTypeOK
  <1>1. Inv => FramesTypeOK
    BY TypedIsType DEF Inv
  <1> QED
    BY <1>1, SpecInv, PTL

\* However deep calls nest, return, panic and throw: every frame and every
\* try-block is linked to the innermost scope around it, up to the place
\* where a panic that was caught left a local scope on the chain.
THEOREM LinksProper == Spec => []LinksAreProper
  <1>1. Inv => LinksAreProper
    BY ProperIsLinks DEF Inv
  <1> QED
    BY <1>1, SpecInv, PTL

\* The chain the GC walks is well formed, link by link.
THEOREM FramesAreOK == Spec => []FramesOK
<1>1. FramesTypeOK /\ LinksAreProper => FramesOK
    BY DEF FramesOK
<1> QED
    BY <1>1, FramesTyped, LinksProper, PTL

-----------------------------------------------------------------------------
Smaller == {ss \in Nat \X Nat : ss[1] < ss[2]}

LEMMA SmallerIsWellFounded == IsWellFoundedOn(Smaller, Nat)
  <1>1. Smaller = OpToRel(<, Nat)
    BY DEF Smaller, OpToRel
  <1> QED
    BY <1>1, NatLessThanWellFounded, Zenon

\* A set of depths has a lowest and a highest one.
LEMMA Lowest ==
    ASSUME NEW S \in SUBSET Nat, S # {}
    PROVE  \E d \in S : \A e \in S : d <= e
  <1>1. PICK d \in S : \A e \in S : <<e, d>> \notin Smaller
    BY SmallerIsWellFounded, WFMin
  <1>2. \A e \in S : <<e, d>> \in Nat \X Nat /\ <<e, d>>[1] = e /\ <<e, d>>[2] = d
    OBVIOUS
  <1>3. \A e \in S : ~(e < d)
    BY <1>1, <1>2 DEF Smaller
  <1> QED
    BY <1>3

LEMMA Highest ==
    ASSUME NEW n \in Nat, NEW S \in SUBSET (0..n), S # {}
    PROVE  \E d \in S : \A e \in S : e <= d
  <1> DEFINE T == {n - d : d \in S}
  <1>1. T \in SUBSET Nat /\ T # {}
    OBVIOUS
  <1>2. PICK t \in T : \A u \in T : t <= u
    BY <1>1, Lowest
  <1>3. PICK d \in S : t = n - d
    OBVIOUS
  <1>4. \A e \in S : n - d <= n - e
    BY <1>2, <1>3
  <1> QED
    BY <1>4

\* The frames of the scopes that have not ended.
Frames == {d \in 1..Depth : stack[d].kind \in Framed}

LEMMA InvFacts ==
    ASSUME Inv, scar = 0
    PROVE  /\ Depth \in Nat /\ Depth <= MaxDepth /\ head \in Nat
           /\ Below(stack, head, Depth + 1)
           /\ \A d \in Frames : stack[d].link \in Nat /\ Below(stack, stack[d].link, d)
  <1>1. stack \in Seq(Calls) /\ Depth \in Nat /\ Depth <= MaxDepth /\ head \in 0..Depth
    BY LenProperties DEF Inv, Typed, Depth
  <1>2. \A d \in Frames : stack[d] \in Calls
    BY <1>1, ElementOfSeq DEF Frames, Depth
  <1>3. \A d \in Frames : stack[d].link \in Nat /\ stack[d].kind # "guard"
    BY <1>2, DepthAssumption DEF Calls, Frames, Framed
  <1>4. \A d \in Frames : Below(stack, stack[d].link, d)
    BY <1>3 DEF Inv, Proper, Frames, Depth
  <1> QED
    BY <1>1, <1>3, <1>4 DEF Inv, Proper, Depth

\* The walk does not leave the frames ...
LEMMA FramesAreFollowed ==
    ASSUME Inv, scar = 0
    PROVE  Followed(Frames)
  <1>1. head # 0 => head \in Frames
    BY InvFacts DEF Below, Frames
  <1>2. ASSUME NEW d \in Frames, stack[d].link # 0
        PROVE  stack[d].link \in Frames
    BY <1>2, InvFacts DEF Below, Frames
  <1> QED
    BY <1>1, <1>2 DEF Followed

\* ... and misses none: of the frames it missed the innermost would have to be the link of
\* the frame above it, or the head.
LEMMA NoFrameIsMissed ==
    ASSUME Inv, scar = 0, NEW S, Followed(S)
    PROVE  Frames \subseteq S
  <1> DEFINE Missed == Frames \ S
  <1> SUFFICES ASSUME Missed # {} PROVE FALSE
    OBVIOUS
  <1>1. Depth \in Nat /\ Missed \in SUBSET (0..Depth)
    BY InvFacts DEF Frames
  <1>2. PICK d \in Missed : \A e \in Missed : e <= d
    BY <1>1, Highest
  <1> DEFINE Above == {e \in Frames : e > d}
  <1>3. d \in 1..Depth /\ stack[d].kind \in Framed /\ d \notin S
    BY DEF Frames
  <1>4. ASSUME NEW f \in Nat, NEW e \in Nat, Below(stack, f, e), d < e, e <= Depth + 1,
               \A x \in Above : e <= x
        PROVE  f = d
    <2>1. ~(f < d)
      BY <1>1, <1>3, <1>4 DEF Below
    <2>2. f # 0 /\ f < e /\ stack[f].kind \in Framed
      BY <1>3, <1>4, <2>1 DEF Below
    <2>3. f > d => f \in Above
      BY <1>1, <1>4, <2>2 DEF Frames
    <2> QED
      BY <1>3, <1>4, <2>1, <2>2, <2>3
  <1>5. CASE Above = {}
    <2>1. head = d
      BY <1>1, <1>3, <1>4, <1>5, InvFacts
    <2> QED
      BY <1>3, <2>1 DEF Followed
  <1>6. CASE Above # {}
    <2>1. Above \in SUBSET Nat
      BY DEF Frames
    <2>2. PICK e \in Above : \A x \in Above : e <= x
      BY <1>6, <2>1, Lowest
    <2>3. e \in Frames /\ e > d /\ e \in 1..Depth
      BY DEF Frames
    <2>4. stack[e].link = d
      BY <1>1, <1>3, <1>4, <2>2, <2>3, InvFacts
    <2>5. e \in S
      BY <1>2, <1>3, <2>3
    <2> QED
      BY <1>3, <2>3, <2>4, <2>5 DEF Followed
  <1> QED
    BY <1>5, <1>6

\* While no panic left a scope behind, the GC finds the frames of all scopes that have not
\* ended, whatever they returned from, unwound or jumped over, and no other frame.
THEOREM ScopesStayRoots == Spec => []ScopesAreRoots
  <1>1. Inv => ScopesAreRoots
    <2> SUFFICES ASSUME Inv, scar = 0 PROVE OnChain = Frames
      BY DEF ScopesAreRoots, Frames
    <2>1. Frames \in SUBSET (1..MaxDepth)
      BY InvFacts, DepthAssumption DEF Frames
    <2>2. OnChain \subseteq Frames
      BY <2>1, FramesAreFollowed DEF OnChain
    <2>3. Frames \subseteq OnChain
      BY <2>1, NoFrameIsMissed DEF OnChain
    <2> QED
      BY <2>2, <2>3
  <1> QED
    BY <1>1, SpecInv, PTL
=============================================================================
