-------------------------- MODULE MenuDecoderProofs --------------------------
(***************************************************************************)
(* Proofs about MenuDecoder for every menu collection and every size of    *)
(* the call stack.                                                         *)
(***************************************************************************)
EXTENDS MenuDecoder, SequenceTheorems, WellFoundedInduction, TLAPS

\* Frames whose conditions and references are taken from R.
Frames(R) == [id : MenuIds, condition : R, next : Nat \ {0}, refs : R]
StackInv == document \in Documents /\ \E R : stack \in Seq(Frames(R))

\* On a collection with ranks the calls below a frame use up what the rank of its menu
\* leaves of the stack.
DepthInv ==
  \A rank \in Ranks : Descends(rank) =>
    \A i \in DOMAIN stack : rank[stack[i].id] + i <= StackLimit

\* What is inductive about the stack and the stages alone.
IInv == TypeOK /\ StackInv /\ DepthInv /\ LayeredMenusFit

---------------------------------------------------------------------------
(* Frames and children. *)

LEMMA FramesGrow ==
  ASSUME NEW R, NEW frames \in Seq(Frames(R)), NEW X
  PROVE  frames \in Seq(Frames(R \cup {X}))
<1>1. Frames(R) \subseteq Frames(R \cup {X})
  BY DEF Frames
<1> QED BY <1>1, SeqMonotonic

\* Advance: the innermost frame looks at its next child.
LEMMA AdvanceFrame ==
  ASSUME NEW R, NEW frames \in Seq(Frames(R)), frames # <<>>
  PROVE  /\ Advance(frames) \in Seq(Frames(R))
         /\ Len(Advance(frames)) = Len(frames)
         /\ \A i \in 1..Len(frames) :
              /\ Advance(frames)[i].id = frames[i].id
              /\ Advance(frames)[i].condition = frames[i].condition
              /\ Advance(frames)[i].refs = frames[i].refs
              /\ Advance(frames)[i].next =
                   IF i = Len(frames) THEN frames[i].next + 1 ELSE frames[i].next
<1> DEFINE frame == [frames[Len(frames)] EXCEPT !.next = @ + 1]
<1>1. Len(frames) \in Nat \ {0}
  BY EmptySeq
<1>2. frames[Len(frames)] \in Frames(R)
  BY <1>1, ElementOfSeq
<1>3. /\ frame \in Frames(R) /\ frame.id = frames[Len(frames)].id
      /\ frame.condition = frames[Len(frames)].condition
      /\ frame.refs = frames[Len(frames)].refs
      /\ frame.next = frames[Len(frames)].next + 1
  BY <1>2 DEF Frames
<1>4. Advance(frames) = [frames EXCEPT ![Len(frames)] = frame]
  BY DEF Advance
<1> QED BY <1>1, <1>3, <1>4, ExceptSeq

\* emplaceBack: the innermost frame gets one more reference.
LEMMA EmplaceFrame ==
  ASSUME NEW R, NEW frames \in Seq(Frames(R)), frames # <<>>, NEW ref
  PROVE  /\ \E T : emplaceBack(frames, ref) \in Seq(Frames(T))
         /\ Len(emplaceBack(frames, ref)) = Len(frames)
         /\ \A i \in 1..Len(frames) :
              /\ emplaceBack(frames, ref)[i].id = frames[i].id
              /\ emplaceBack(frames, ref)[i].condition = frames[i].condition
              /\ emplaceBack(frames, ref)[i].next = frames[i].next
              /\ emplaceBack(frames, ref)[i].refs =
                   IF i = Len(frames) THEN Append(frames[i].refs, ref) ELSE frames[i].refs
<1> DEFINE refs == Append(frames[Len(frames)].refs, ref)
           frame == [frames[Len(frames)] EXCEPT !.refs = refs]
           T == R \cup {refs}
<1>1. Len(frames) \in Nat \ {0}
  BY EmptySeq
<1>2. frames \in Seq(Frames(T)) /\ frames[Len(frames)] \in Frames(T)
  <2> HIDE DEF refs
  <2>1. frames \in Seq(Frames(T))
    BY FramesGrow
  <2> QED BY <1>1, <2>1, ElementOfSeq
<1>3. /\ frame \in Frames(T) /\ frame.id = frames[Len(frames)].id
      /\ frame.condition = frames[Len(frames)].condition
      /\ frame.next = frames[Len(frames)].next /\ frame.refs = refs
  <2> HIDE DEF refs
  <2>1. refs \in T
    OBVIOUS
  <2> QED BY <1>2, <2>1 DEF Frames
<1>4. emplaceBack(frames, ref) = [frames EXCEPT ![Len(frames)] = frame]
  BY DEF emplaceBack
<1>5. refs = Append(frames[Len(frames)].refs, ref)
  OBVIOUS
<1> HIDE DEF frame, T, refs
<1>6. /\ emplaceBack(frames, ref) \in Seq(Frames(T)) /\ Len(emplaceBack(frames, ref)) = Len(frames)
      /\ \A i \in 1..Len(frames) :
           emplaceBack(frames, ref)[i] = IF i = Len(frames) THEN frame ELSE frames[i]
  BY <1>1, <1>2, <1>3, <1>4, ExceptSeq
<1> QED BY <1>3, <1>5, <1>6

LEMMA LookupsAreNoMenuRefs ==
  ASSUME NEW child \in Lookup \cup MenuRef, isMenuRef(child)
  PROVE  child \in MenuRef /\ child.menu \in MenuIds
BY DEF isMenuRef, Lookup, MenuRef

\* What InLoop looks at.
LEMMA ChildType ==
  ASSUME TypeOK, StackInv, InLoop
  PROVE  /\ stack # <<>> /\ Top \in 1..StackLimit
         /\ Frame.id \in MenuIds /\ Children # None
         /\ Frame.next \in DOMAIN Children
         /\ Child \in Lookup \cup MenuRef
<1>1. PICK R : stack \in Seq(Frames(R))
  BY DEF StackInv
<1>2. stack # <<>> /\ Top \in 1..StackLimit
  BY <1>1, EmptySeq, StackLimitAssumption DEF TypeOK, InLoop, Top
<1>3. DOMAIN stack = 1..Len(stack)
  BY <1>1, LenProperties
<1>4. Frame.id \in MenuIds /\ Children # None
  BY <1>2, <1>3 DEF TypeOK, Frame, Top, Children
<1>5. document \in Document
  BY DocumentsAssumption DEF StackInv
<1>6. Children \in Seq(Lookup \cup MenuRef)
  BY <1>4, <1>5 DEF Document, Children
<1>7. Frame.next \in DOMAIN Children
  BY DEF InLoop
<1>8. Child \in Lookup \cup MenuRef
  BY <1>6, <1>7, LenProperties, ElementOfSeq DEF Child
<1> QED BY <1>2, <1>4, <1>7, <1>8

\* A MenuRef is an edge from the menu of the innermost frame.
LEMMA ChildEdge ==
  ASSUME TypeOK, StackInv, InLoop, isMenuRef(Child)
  PROVE  Child.menu \in MenuIds /\ Edge(Frame.id, Child.menu)
BY ChildType, LookupsAreNoMenuRefs DEF Edge, Child, Children

---------------------------------------------------------------------------
(* Steps and the stack. *)

\* What TypeOK says of the stack.
FramesOK ==
  /\ Len(stack) <= StackLimit
  /\ \A i \in DOMAIN stack :
       /\ stack[i].id \in MenuIds /\ document.collection[stack[i].id] # None
       /\ stack[i].next \in Nat \ {0}

LEMMA DocumentFixed ==
  ASSUME document' = document, NEW rank
  PROVE  Descends(rank)' <=> Descends(rank)
BY DEF Descends, Edge

\* Frames may be dropped, and those that stay may advance.
LEMMA StackShrinks ==
  ASSUME TypeOK, StackInv, DepthInv, document' = document,
         NEW T, stack' \in Seq(Frames(T)), Len(stack') <= Len(stack),
         \A i \in 1..Len(stack') : stack'[i].id = stack[i].id
  PROVE  FramesOK' /\ StackInv' /\ DepthInv'
<1>1. PICK R : stack \in Seq(Frames(R))
  BY DEF StackInv
<1>2. /\ DOMAIN stack = 1..Len(stack) /\ Len(stack) \in Nat
      /\ DOMAIN stack' = 1..Len(stack') /\ Len(stack') \in Nat
  BY <1>1, LenProperties
<1>3. FramesOK'
  <2>1. Len(stack') <= StackLimit
    BY <1>2, StackLimitAssumption DEF TypeOK
  <2>2. ASSUME NEW i \in 1..Len(stack')
        PROVE  /\ stack'[i].id \in MenuIds /\ document'.collection[stack'[i].id] # None
               /\ stack'[i].next \in Nat \ {0}
    <3>1. stack'[i] \in Frames(T)
      BY ElementOfSeq
    <3>2. i \in DOMAIN stack /\ stack'[i].id = stack[i].id
      BY <1>2
    <3> QED BY <3>1, <3>2 DEF TypeOK, Frames
  <2> QED BY <1>2, <2>1, <2>2 DEF FramesOK
<1>4. DepthInv'
  <2> SUFFICES ASSUME NEW rank \in Ranks, Descends(rank), NEW i \in 1..Len(stack')
               PROVE  rank[stack'[i].id] + i <= StackLimit
    BY <1>2, DocumentFixed DEF DepthInv, Ranks
  <2>1. i \in DOMAIN stack /\ stack'[i].id = stack[i].id
    BY <1>2
  <2> QED BY <2>1 DEF DepthInv
<1> QED BY <1>3, <1>4 DEF StackInv

\* A call goes on top of frames that stay, for a menu with a rank low enough.
LEMMA StackGrows ==
  ASSUME TypeOK, StackInv, DepthInv,
         NEW R, NEW below \in Seq(Frames(R)), NEW id \in MenuIds, NEW condition,
         Len(below) = Len(stack), \A i \in 1..Len(below) : below[i].id = stack[i].id,
         \A rank \in Ranks : Descends(rank) => rank[id] + Len(below) + 1 <= StackLimit,
         Call(id, condition, below)
  PROVE  FramesOK' /\ StackInv' /\ DepthInv'
<1> DEFINE T == (R \cup {condition}) \cup {<<>>}
           frame == [id |-> id, condition |-> condition, next |-> 1, refs |-> <<>>]
<1>1. PICK Q : stack \in Seq(Frames(Q))
  BY DEF StackInv
<1>2. /\ DOMAIN stack = 1..Len(stack) /\ Len(stack) \in Nat
      /\ DOMAIN below = 1..Len(below) /\ Len(below) \in Nat
  BY <1>1, LenProperties
<1>3. below \in Seq(Frames(T)) /\ frame \in Frames(T)
  <2>1. below \in Seq(Frames(R \cup {condition}))
    BY FramesGrow
  <2>2. below \in Seq(Frames(T))
    BY <2>1, FramesGrow
  <2> QED BY <2>2 DEF Frames
<1>4. /\ stack' = Append(below, frame) /\ document' = document
      /\ document.collection[id] # None /\ Len(below) < StackLimit
  BY DEF Call, noRefs
<1> HIDE DEF frame, T
<1>5. /\ stack' \in Seq(Frames(T)) /\ Len(stack') = Len(below) + 1
      /\ DOMAIN stack' = 1..Len(below) + 1
      /\ \A i \in 1..Len(below) : stack'[i] = below[i]
      /\ stack'[Len(below) + 1] = frame
  BY <1>2, <1>3, <1>4, LenProperties
<1>6. frame.id = id
  BY DEF frame
<1>7. \A i \in 1..Len(below) + 1 :
        IF i = Len(below) + 1 THEN stack'[i].id = id
        ELSE i \in DOMAIN stack /\ stack'[i].id = stack[i].id
  BY <1>2, <1>5, <1>6
<1>8. FramesOK'
  <2>1. ASSUME NEW i \in 1..Len(below) + 1
        PROVE  /\ stack'[i].id \in MenuIds /\ document'.collection[stack'[i].id] # None
               /\ stack'[i].next \in Nat \ {0}
    <3>1. stack'[i] \in Frames(T)
      BY <1>5, ElementOfSeq
    <3>2. document'.collection[stack'[i].id] # None
      BY <1>4, <1>7 DEF TypeOK
    <3> QED BY <3>1, <3>2 DEF Frames
  <2>2. Len(stack') <= StackLimit
    BY <1>2, <1>4, <1>5, StackLimitAssumption
  <2> QED BY <1>5, <2>1, <2>2 DEF FramesOK
<1>9. DepthInv'
  <2> SUFFICES ASSUME NEW rank \in Ranks, Descends(rank), NEW i \in 1..Len(below) + 1
               PROVE  rank[stack'[i].id] + i <= StackLimit
    BY <1>4, <1>5, DocumentFixed DEF DepthInv, Ranks
  <2>1. CASE i = Len(below) + 1
    <3>1. rank[id] + Len(below) + 1 <= StackLimit /\ rank[id] \in Nat
      BY DEF Ranks
    <3> QED BY <1>2, <1>7, <2>1, <3>1, StackLimitAssumption
  <2>2. CASE i # Len(below) + 1
    BY <1>7, <2>2 DEF DepthInv
  <2> QED BY <2>1, <2>2
<1> QED BY <1>4, <1>5, <1>8, <1>9 DEF StackInv

\* No frame is left.
LEMMA StackEmptied ==
  ASSUME TypeOK, StackInv, DepthInv, document' = document, stack' = <<>>
  PROVE  FramesOK' /\ StackInv' /\ DepthInv'
<1>1. PICK R : stack \in Seq(Frames(R))
  BY DEF StackInv
<1>2. stack' \in Seq(Frames(R)) /\ Len(stack') = 0 /\ Len(stack) \in Nat
  BY <1>1, EmptySeq, LenProperties
<1> QED BY <1>2, StackShrinks

LEMMA StackFixed ==
  ASSUME TypeOK, StackInv, DepthInv, document' = document, stack' = stack
  PROVE  FramesOK' /\ StackInv' /\ DepthInv'
<1>1. PICK R : stack \in Seq(Frames(R))
  BY DEF StackInv
<1>2. stack' \in Seq(Frames(R)) /\ Len(stack') <= Len(stack)
  BY <1>1, LenProperties
<1> QED BY <1>2, StackShrinks

---------------------------------------------------------------------------
(* The actions. *)

\* The part of IInv that is about the stack, and the stages it goes with.
Control ==
  /\ stage \in {"entry", "menu", "index", "done", "failed", "crashed"}
  /\ role \in DOMAIN RoleOrder /\ entry \in 1..Len(EntryOrder) + 1
  /\ stage = "menu" => stack # <<>> /\ entry \in DOMAIN EntryOrder
  /\ stage \in {"entry", "index", "done", "failed"} => stack = <<>>

LEMMA Parts ==
  TypeOK <=> Control /\ FramesOK
BY DEF TypeOK, Control, FramesOK

LEMMA RaiseStep ==
  ASSUME IInv, NEW exception, stage \in {"entry", "menu"}, entry \in DOMAIN EntryOrder,
         Raise(exception)
  PROVE  IInv'
<1>1. Control'
  BY DEF Raise, IInv, TypeOK, Control, unwind, isCaught, EntryOrder
<1>2. FramesOK' /\ StackInv' /\ DepthInv'
  BY StackEmptied DEF IInv, Raise, unwind
<1>3. LayeredMenusFit'
  BY DEF Raise, IInv, LayeredMenusFit, isCaught
<1> QED BY <1>1, <1>2, <1>3, Parts DEF IInv, TypeOK, Control, FramesOK

LEMMA decodeEntryStep ==
  ASSUME IInv, decodeEntry
  PROVE  IInv'
<1> DEFINE id == document.sets[Role][Entry]
<1>1. stack = <<>> /\ stack \in Seq(Frames({})) /\ Len(stack) = 0
  BY EmptySeq DEF IInv, TypeOK, decodeEntry
<1>2. id \in MenuIds
  <2>1. document \in Document
    BY DocumentsAssumption DEF IInv, StackInv
  <2>2. Role \in UserRoles /\ Entry \in Entries
    BY DEF IInv, TypeOK, decodeEntry, UserRoles, Entries, Role, Entry
  <2> QED BY <2>1, <2>2 DEF Document, decodeEntry
<1>3. Call(id, None, stack)
  BY DEF decodeEntry
<1> HIDE DEF id
<1>4. \A rank \in Ranks : rank[id] + Len(stack) + 1 <= StackLimit
  BY <1>1, <1>2, StackLimitAssumption DEF Ranks
<1>5. FramesOK' /\ StackInv' /\ DepthInv'
  BY <1>1, <1>2, <1>3, <1>4, StackGrows DEF IInv
<1>6. Control'
  <2>1. stack' # <<>>
    BY <1>1, <1>3, EmptySeq, LenProperties DEF Call
  <2> QED BY <1>3, <2>1 DEF Call, IInv, TypeOK, Control, decodeEntry
<1>7. LayeredMenusFit'
  BY <1>3 DEF Call, LayeredMenusFit
<1> QED BY <1>5, <1>6, <1>7 DEF IInv, TypeOK, Control, FramesOK

\* The innermost frame advances and gets a reference.
LEMMA decodeRefStep ==
  ASSUME IInv, decodeRef
  PROVE  IInv'
<1>1. stack # <<>>
  BY ChildType DEF IInv, decodeRef
<1>2. PICK R : stack \in Seq(Frames(R))
  BY DEF IInv, StackInv
<1> DEFINE advanced == Advance(stack)
<1>3. /\ advanced \in Seq(Frames(R)) /\ Len(advanced) = Len(stack)
      /\ \A i \in 1..Len(stack) : advanced[i].id = stack[i].id
  BY <1>1, <1>2, AdvanceFrame
<1>4. stack' = emplaceBack(advanced, Leaf(Child))
  BY DEF decodeRef
<1> HIDE DEF advanced
<1>5. Len(stack) \in Nat \ {0} /\ advanced # <<>>
  BY <1>1, <1>2, <1>3, EmptySeq
<1>6. /\ \E T : stack' \in Seq(Frames(T))
      /\ Len(stack') = Len(advanced)
      /\ \A i \in 1..Len(advanced) : stack'[i].id = advanced[i].id
  BY <1>3, <1>4, <1>5, EmplaceFrame
<1>7. FramesOK' /\ StackInv' /\ DepthInv'
  <2>1. PICK T : stack' \in Seq(Frames(T))
    BY <1>6
  <2> QED BY <1>3, <1>5, <1>6, <2>1, StackShrinks DEF IInv, decodeRef
<1>8. stack' # <<>>
  BY <1>3, <1>5, <1>6, EmptySeq
<1>9. Control' /\ LayeredMenusFit'
  BY <1>8 DEF decodeRef, IInv, TypeOK, Control, LayeredMenusFit, InLoop
<1> QED BY <1>7, <1>9 DEF IInv, TypeOK, Control, FramesOK

\* A menu of a layered collection refers to menus of lower rank only.
LEMMA decodeMenuRefStep ==
  ASSUME IInv, decodeMenuRef
  PROVE  IInv'
<1> DEFINE advanced == Advance(stack)
           id == Child.menu
<1>1. InLoop /\ isMenuRef(Child) /\ Call(id, Condition(Child), advanced)
  BY DEF decodeMenuRef, refId
<1>2. stack # <<>> /\ Top \in 1..StackLimit /\ id \in MenuIds /\ Edge(Frame.id, id)
  BY <1>1, ChildType, ChildEdge DEF IInv
<1>3. Frame.id \in MenuIds
  BY <1>1, ChildType DEF IInv
<1>4. PICK R : stack \in Seq(Frames(R))
  BY DEF IInv, StackInv
<1>5. /\ advanced \in Seq(Frames(R)) /\ Len(advanced) = Len(stack)
      /\ \A i \in 1..Len(advanced) : advanced[i].id = stack[i].id
  BY <1>2, <1>4, AdvanceFrame
<1> HIDE DEF advanced, id
<1>6. ASSUME NEW rank \in Ranks, Descends(rank)
      PROVE  rank[id] + Len(advanced) + 1 <= StackLimit
  <2>1. rank[id] < rank[Frame.id]
    BY <1>2, <1>3, <1>6 DEF Descends
  <2>2. rank[Frame.id] + Top <= StackLimit
    <3>1. Top \in DOMAIN stack
      BY <1>2, <1>4, LenProperties DEF Top
    <3> QED BY <3>1, <1>6 DEF IInv, DepthInv, Frame
  <2>3. rank[id] \in Nat /\ rank[Frame.id] \in Nat
    BY <1>2, <1>3 DEF Ranks
  <2> QED BY <1>2, <1>5, <2>1, <2>2, <2>3, StackLimitAssumption DEF Top
<1>7. FramesOK' /\ StackInv' /\ DepthInv'
  BY <1>1, <1>2, <1>5, <1>6, StackGrows DEF IInv
<1>8. stack' # <<>>
  <2>1. stack' = Append(advanced, [id |-> id, condition |-> Condition(Child), next |-> 1, refs |-> <<>>])
    BY <1>1 DEF Call, noRefs
  <2> QED BY <1>5, <2>1, EmptySeq, LenProperties
<1>9. Control' /\ LayeredMenusFit'
  BY <1>1, <1>8 DEF Call, IInv, TypeOK, Control, LayeredMenusFit, InLoop
<1> QED BY <1>7, <1>9 DEF IInv, TypeOK, Control, FramesOK

\* The innermost frame is dropped; the one below gets a reference.
LEMMA ReturnStep ==
  ASSUME IInv, Return
  PROVE  IInv'
<1> DEFINE menu == Menu(Frame.id, Frame.condition, Frame.refs)
<1>1. stage = "menu" /\ stack # <<>> /\ entry \in DOMAIN EntryOrder /\ document' = document
  BY DEF IInv, TypeOK, Return
<1>2. PICK R : stack \in Seq(Frames(R))
  BY DEF IInv, StackInv
<1>3. Top \in Nat \ {0} /\ Top = Len(stack)
  BY <1>1, <1>2, EmptySeq DEF Top
<1>4. LayeredMenusFit'
  BY <1>1 DEF Return, LayeredMenusFit
<1>5. CASE Top = 1
  <2>1. stack' = <<>> /\ entry' = entry + 1 /\ stage' = "entry" /\ role' = role
    BY <1>5 DEF Return
  <2>2. Control'
    BY <1>1, <2>1 DEF IInv, TypeOK, Control, EntryOrder
  <2> QED BY <1>1, <1>4, <2>1, <2>2, StackEmptied, Parts DEF IInv, TypeOK, Control, FramesOK
<1>6. CASE Top # 1
  <2> DEFINE front == Front(stack)
  <2>1. stack' = emplaceBack(front, menu) /\ entry' = entry /\ stage' = stage /\ role' = role
    BY <1>6 DEF Return
  <2>2. /\ front \in Seq(Frames(R)) /\ Len(front) = Len(stack) - 1
        /\ \A i \in 1..Len(stack) - 1 : front[i] = stack[i]
    <3>1. \A i \in 1..Len(stack) - 1 : stack[i] \in Frames(R)
      BY <1>2, <1>3, ElementOfSeq
    <3> QED BY <1>3, <1>6, <3>1, SubSeqProperties DEF Front
  <2> HIDE DEF front, menu
  <2>3. front # <<>>
    BY <1>3, <1>6, <2>2, EmptySeq
  <2>4. /\ \E T : stack' \in Seq(Frames(T))
        /\ Len(stack') = Len(front)
        /\ \A i \in 1..Len(front) : stack'[i].id = front[i].id
    BY <2>1, <2>2, <2>3, EmplaceFrame
  <2>5. PICK T : stack' \in Seq(Frames(T))
    BY <2>4
  <2>6. Len(stack') <= Len(stack) /\ \A i \in 1..Len(stack') : stack'[i].id = stack[i].id
    BY <1>3, <2>2, <2>4
  <2>7. FramesOK' /\ StackInv' /\ DepthInv'
    BY <1>1, <2>5, <2>6, StackShrinks DEF IInv
  <2>8. stack' # <<>>
    BY <1>3, <1>6, <2>2, <2>4, EmptySeq
  <2> QED BY <1>1, <1>4, <2>1, <2>7, <2>8 DEF IInv, TypeOK, Control, FramesOK
<1> QED BY <1>5, <1>6

LEMMA ThrowStep ==
  ASSUME IInv, Throw
  PROVE  IInv'
<1>1. stage \in {"entry", "menu"} /\ entry \in DOMAIN EntryOrder
  BY DEF IInv, TypeOK, Throw, InLoop
<1>2. \E exception : Raise(exception)
  BY DEF Throw
<1> QED BY <1>1, <1>2, RaiseStep

\* With the stack full the menu has no rank left to refer to another.
LEMMA OverflowStep ==
  ASSUME IInv, Overflow
  PROVE  IInv'
<1>1. InLoop /\ isMenuRef(Child) /\ Top = StackLimit /\ stage' = "crashed"
  BY DEF Overflow
<1>2. /\ document' = document /\ stack' = stack /\ role' = role /\ entry' = entry
  BY DEF Overflow
<1>3. Top \in 1..StackLimit /\ Frame.id \in MenuIds /\ Child.menu \in MenuIds
      /\ Edge(Frame.id, Child.menu)
  BY <1>1, ChildType, ChildEdge DEF IInv
<1>4. ASSUME NEW rank \in Ranks, Descends(rank)
      PROVE  FALSE
  <2>1. rank[Child.menu] < rank[Frame.id]
    BY <1>3, <1>4 DEF Descends
  <2>2. rank[Frame.id] + Top <= StackLimit
    <3>1. PICK R : stack \in Seq(Frames(R))
      BY DEF IInv, StackInv
    <3>2. Top \in DOMAIN stack
      BY <1>3, <3>1, LenProperties DEF Top
    <3> QED BY <3>2, <1>4 DEF IInv, DepthInv, Frame
  <2>3. rank[Child.menu] \in Nat /\ rank[Frame.id] \in Nat
    BY <1>3 DEF Ranks
  <2> QED BY <1>1, <1>3, <2>1, <2>2, <2>3, StackLimitAssumption
<1>5. ~Layered'
  BY <1>2, <1>4, DocumentFixed DEF Layered, Ranks
<1>6. Control'
  BY <1>1, <1>2 DEF IInv, TypeOK, Control
<1> QED BY <1>2, <1>5, <1>6, StackFixed DEF IInv, TypeOK, Control, FramesOK, LayeredMenusFit

\* The actions between the menus leave the empty stack alone.
LEMMA UserInterfaceStep ==
  ASSUME IInv, makeUserInterface \/ addEntry \/ skipRef \/ addMenu \/ emplaceUI
  PROVE  IInv'
<1> USE DEF makeUserInterface, addEntry, skipRef, addMenu, emplaceUI
<1>1. document' = document /\ stack' = stack OBVIOUS
<1>2. stage' \in {"entry", "index", "done"} OBVIOUS
<1>3. role' \in DOMAIN RoleOrder /\ entry' \in 1..Len(EntryOrder) + 1
  <2>1. Len(RoleOrder) = 3 /\ DOMAIN RoleOrder = 1..3
        /\ Len(EntryOrder) = 4 /\ DOMAIN EntryOrder = 1..4
    BY DEF RoleOrder, EntryOrder
  <2>2. role \in 1..3 /\ entry \in 1..5
    BY <2>1 DEF IInv, TypeOK
  <2>3. CASE makeUserInterface \/ addEntry \/ skipRef \/ addMenu
    <3>1. role' = role /\ (entry' \in {entry, 1} \/ (entry \in 1..4 /\ entry' = entry + 1))
      BY <2>1, <2>3
    <3> QED BY <2>1, <2>2, <3>1
  <2>4. CASE emplaceUI
    <3>1. \/ role = 3 /\ role' = role /\ entry' = entry
          \/ role # 3 /\ role' = role + 1 /\ entry' = 1
      BY <2>1, <2>4, Zenon
    <3> QED BY <2>1, <2>2, <3>1
  <2> QED BY <2>3, <2>4
<1>4. stack = <<>>
  BY DEF IInv, TypeOK
<1>5. Control' /\ LayeredMenusFit'
  BY <1>1, <1>2, <1>3, <1>4 DEF Control, LayeredMenusFit
<1> QED BY <1>1, <1>5, StackFixed DEF IInv, TypeOK, Control, FramesOK

LEMMA StutterStep ==
  ASSUME IInv, UNCHANGED vars
  PROVE  IInv'
<1>1. document' = document /\ stack' = stack /\ stage' = stage /\ role' = role /\ entry' = entry
  BY DEF vars
<1>2. FramesOK' /\ StackInv' /\ DepthInv'
  BY <1>1, StackFixed DEF IInv
<1>3. Control'
  BY <1>1 DEF IInv, TypeOK, Control
<1>4. LayeredMenusFit'
  BY <1>1, DocumentFixed DEF IInv, LayeredMenusFit, Layered, Ranks
<1> QED BY <1>2, <1>3, <1>4 DEF IInv, TypeOK, Control, FramesOK

LEMMA InitIInv ==
  Init => IInv
<1> SUFFICES ASSUME Init PROVE IInv
  OBVIOUS
<1>1. stack = <<>> /\ Len(stack) = 0 /\ stack \in Seq(Frames({})) /\ DOMAIN stack = {}
  BY EmptySeq DEF Init
<1>2. TypeOK
  BY <1>1, StackLimitAssumption DEF Init, TypeOK, RoleOrder, EntryOrder
<1> QED BY <1>1, <1>2 DEF Init, IInv, StackInv, DepthInv, LayeredMenusFit

LEMMA NextIInv ==
  IInv /\ [Next]_vars => IInv'
<1> SUFFICES ASSUME IInv, [Next]_vars PROVE IInv'
  OBVIOUS
<1>1. CASE decodeEntry         BY <1>1, decodeEntryStep
<1>2. CASE decodeRef           BY <1>2, decodeRefStep
<1>3. CASE decodeMenuRef       BY <1>3, decodeMenuRefStep
<1>4. CASE Return              BY <1>4, ReturnStep
<1>5. CASE Throw               BY <1>5, ThrowStep
<1>6. CASE Overflow            BY <1>6, OverflowStep
<1>7. CASE makeUserInterface \/ addEntry \/ skipRef \/ addMenu \/ emplaceUI
  BY <1>7, UserInterfaceStep
<1>8. CASE Returned \/ UNCHANGED vars
  BY <1>8, StutterStep DEF Returned
<1> QED BY <1>1, <1>2, <1>3, <1>4, <1>5, <1>6, <1>7, <1>8 DEF Next

---------------------------------------------------------------------------
(* What the decoded menus are. *)

\* What a child of a Menu element becomes, given the references F of the menus that
\* are decoded.
Ref(F, child) == IF isMenuRef(child) THEN Menu(child.menu, Condition(child), F[child.menu])
                 ELSE Leaf(child)
ReadyTo(d, F, id, n) ==
  /\ n \in 0..Len(d.collection[id])
  /\ \A i \in 1..n : LET child == d.collection[id][i] IN isMenuRef(child) => child.menu \in DOMAIN F
Refs(d, F, id, n) == [i \in 1..n |-> Ref(F, d.collection[id][i])]

\* The references of the first n children of the Menu element id.
Builds(d, F, id, n, refs) == ReadyTo(d, F, id, n) /\ refs = Refs(d, F, id, n)

\* F is a solution of decodeMenu's recursion for the menus it is defined for.
Canonical(d, F) ==
  \A id \in DOMAIN F : /\ id \in MenuIds /\ d.collection[id] # None
                       /\ Builds(d, F, id, Len(d.collection[id]), F[id])

\* A call below the innermost has passed on its last child to the call above it.
Passed(k) == document.collection[stack[k].id][stack[k].next - 1]
Decoded(k) == IF k = Len(stack) THEN stack[k].next - 1 ELSE stack[k].next - 2
CallsInv ==
  \A k \in DOMAIN stack : k # Len(stack) =>
    /\ stack[k].next - 1 \in DOMAIN document.collection[stack[k].id]
    /\ isMenuRef(Passed(k))
    /\ Passed(k).menu = stack[k + 1].id /\ Condition(Passed(k)) = stack[k + 1].condition
StackOf(F) ==
  \A k \in DOMAIN stack : Builds(document, F, stack[k].id, Decoded(k), stack[k].refs)

IsObject(F, menu) ==
  menu.id \in DOMAIN F /\ menu = Menu(menu.id, menu.condition, F[menu.id])
MenusOf(F) ==
  /\ \A e \in DOMAIN menus : IsObject(F, menus[e])
  /\ \A r \in DOMAIN uis : \A e \in DOMAIN uis[r].menus : IsObject(F, uis[r].menus[e])

\* One F has the references of every Menu object there is, wherever it was decoded.
RefsOf(F) == Canonical(document, F) /\ StackOf(F) /\ MenusOf(F)
RefsInv == \E F : RefsOf(F)

\* The identification menu is the first menu to be decoded and the first to be indexed.
Ident == menus["IdentificationMenu"]
IdentInv ==
  /\ stage \in {"entry", "menu"} => entry = 1 \/ "IdentificationMenu" \in DOMAIN menus
  /\ stage # "index" => index = Empty /\ todo = <<>>
  /\ stage = "index" =>
       /\ "IdentificationMenu" \in DOMAIN menus
       /\ \/ entry = 1 /\ todo = <<>> /\ index = Empty
          \/ entry # 1 /\ todo # <<>> /\ Head(todo) = Ident /\ index = Empty
          \/ entry # 1 /\ Ident.id \in DOMAIN index /\ index[Ident.id] = Ident
  /\ IdentificationIsIndexed

LEMMA MenuIsMenu ==
  ASSUME RefsInv, NEW e \in DOMAIN menus
  PROVE  isMenu(menus[e])
BY DEF RefsInv, RefsOf, MenusOf, IsObject, Menu, isMenu

\* The first of the four menus an exception does not leave out.
LEMMA IdentDecodeStep ==
  ASSUME IInv, IdentInv,
         decodeEntry \/ decodeRef \/ decodeMenuRef \/ Throw \/ Overflow
  PROVE  IdentInv'
<1>1. /\ menus' = menus /\ index' = index /\ todo' = todo /\ uis' = uis
      /\ stage \in {"entry", "menu"} /\ stage' # "index"
  BY DEF decodeEntry, decodeRef, decodeMenuRef, Throw, Overflow, Call, Raise, InLoop
<1>2. stage' \in {"entry", "menu"} => entry' = entry \/ Entry # "IdentificationMenu"
  BY DEF decodeEntry, decodeRef, decodeMenuRef, Throw, Overflow, Call, Raise, InLoop
<1>3. Entry # "IdentificationMenu" => entry # 1
  BY DEF Entry, EntryOrder
<1> QED BY <1>1, <1>2, <1>3 DEF IdentInv, IdentificationIsIndexed

LEMMA IdentReturnStep ==
  ASSUME IInv, IdentInv, Return
  PROVE  IdentInv'
<1>1. /\ index' = index /\ todo' = todo /\ uis' = uis
      /\ stage = "menu" /\ stage' \in {"entry", "menu"}
  BY DEF Return
<1>2. (entry' = entry /\ menus' = menus) \/ \E menu : menus' = emplace(menus, Entry, menu)
  BY DEF Return
<1>3. entry = 1 => Entry = "IdentificationMenu"
  BY DEF Entry, EntryOrder
<1>4. entry' = 1 \/ "IdentificationMenu" \in DOMAIN menus'
  BY <1>1, <1>2, <1>3 DEF IdentInv, emplace
<1> QED BY <1>1, <1>4 DEF IdentInv, IdentificationIsIndexed

LEMMA IdentIndexStep ==
  ASSUME IInv, IdentInv, RefsInv, makeUserInterface \/ addEntry \/ skipRef \/ addMenu
  PROVE  IdentInv'
<1>1. /\ menus' = menus /\ uis' = uis /\ stage' = "index"
  BY DEF makeUserInterface, addEntry, skipRef, addMenu
<1>2. entry \in 1..5 /\ DOMAIN EntryOrder = 1..4
  BY DEF IInv, TypeOK, EntryOrder
<1>3. "IdentificationMenu" \in DOMAIN menus
  <2>1. stage = "index" \/ (stage = "entry" /\ entry \notin 1..4)
    BY <1>2 DEF makeUserInterface, addEntry, skipRef, addMenu
  <2> QED BY <1>2, <2>1 DEF IdentInv
<1>4. isMenu(Ident) /\ Ident' = Ident
  BY <1>1, <1>3, MenuIsMenu DEF Ident
<1> SUFFICES \/ entry' = 1 /\ todo' = <<>> /\ index' = Empty
             \/ entry' # 1 /\ todo' # <<>> /\ Head(todo') = Ident /\ index' = Empty
             \/ entry' # 1 /\ Ident.id \in DOMAIN index' /\ index'[Ident.id] = Ident
  BY <1>1, <1>3, <1>4 DEF IdentInv, IdentificationIsIndexed, Empty
<1>5. CASE makeUserInterface
  BY <1>5 DEF makeUserInterface, IdentInv
<1>6. CASE addEntry
  <2>1. entry = 1 => Entry = "IdentificationMenu"
    BY DEF Entry, EntryOrder
  <2>2. CASE entry = 1
    <3>1. entry' = 2 /\ todo' = <<Ident>> /\ index' = Empty
      BY <1>3, <1>6, <2>1, <2>2 DEF addEntry, IdentInv, Ident
    <3> QED BY <3>1
  <2>3. CASE entry # 1
    BY <1>2, <1>6, <2>3 DEF addEntry, IdentInv
  <2> QED BY <2>2, <2>3
<1>7. CASE skipRef
  BY <1>4, <1>7 DEF skipRef, IdentInv
<1>8. CASE addMenu
  <2>1. entry' = entry /\ entry # 1 /\ index' = emplace(index, Head(todo).id, Head(todo))
    BY <1>8 DEF addMenu, IdentInv
  <2>2. Ident.id \in DOMAIN index' /\ index'[Ident.id] = Ident
    BY <1>8, <2>1 DEF addMenu, IdentInv, emplace, Empty
  <2> QED BY <2>1, <2>2
<1> QED BY <1>5, <1>6, <1>7, <1>8

LEMMA IdentEmplaceStep ==
  ASSUME IInv, IdentInv, emplaceUI
  PROVE  IdentInv'
<1> DEFINE ui == [menus |-> menus, index |-> index]
<1>1. /\ uis' = emplace(uis, Role, ui) /\ index' = Empty /\ todo' = <<>>
      /\ stage = "index" /\ stage' \in {"entry", "done"}
      /\ stage' = "entry" => entry' = 1
  BY DEF emplaceUI
<1>2. ui.index[ui.menus["IdentificationMenu"].id] = ui.menus["IdentificationMenu"]
  BY DEF emplaceUI, IdentInv, Ident, EntryOrder
<1> HIDE DEF ui
<1>3. IdentificationIsIndexed'
  BY <1>1, <1>2 DEF IdentInv, IdentificationIsIndexed, emplace
<1> QED BY <1>1, <1>3 DEF IdentInv, Empty

LEMMA IdentStep ==
  ASSUME IInv, IdentInv, RefsInv, [Next]_vars
  PROVE  IdentInv'
<1>1. CASE Returned \/ UNCHANGED vars
  BY <1>1 DEF Returned, vars, IdentInv, IdentificationIsIndexed, Ident, Empty
<1> QED BY <1>1, IdentDecodeStep, IdentReturnStep, IdentIndexStep, IdentEmplaceStep DEF Next

---------------------------------------------------------------------------
(* Steps and the references. *)

\* The references of n children as a sequence.
LEMMA RefsSeq ==
  ASSUME NEW d, NEW F, NEW id, NEW n \in Nat
  PROVE  \E S : Refs(d, F, id, n) \in Seq(S) /\ Len(Refs(d, F, id, n)) = n
<1> DEFINE S == {Ref(F, d.collection[id][i]) : i \in 1..n}
<1>1. Refs(d, F, id, n) \in [1..n -> S]
  BY DEF Refs
<1>2. Refs(d, F, id, n) \in Seq(S)
  BY <1>1, SeqDef
<1>3. Len(Refs(d, F, id, n)) = n
  BY <1>2, LenProperties DEF Refs
<1> QED BY <1>2, <1>3

\* emplaceBack of the reference for the next child.
LEMMA NextBuilds ==
  ASSUME NEW d, NEW F, NEW id, NEW n \in Nat, NEW refs,
         Len(d.collection[id]) \in Nat, n < Len(d.collection[id]),
         Builds(d, F, id, n, refs), NEW child, child = d.collection[id][n + 1],
         isMenuRef(child) => child.menu \in DOMAIN F
  PROVE  Builds(d, F, id, n + 1, Append(refs, Ref(F, child)))
<1>1. refs = Refs(d, F, id, n)
  BY DEF Builds
<1>2. ReadyTo(d, F, id, n + 1)
  BY DEF Builds, ReadyTo
<1>3. PICK S : Refs(d, F, id, n) \in Seq(S) /\ Len(Refs(d, F, id, n)) = n
  BY RefsSeq
<1>4. PICK T : Refs(d, F, id, n + 1) \in Seq(T) /\ Len(Refs(d, F, id, n + 1)) = n + 1
  BY RefsSeq
<1> DEFINE U == (S \cup T) \cup {Ref(F, child)}
<1>5. refs \in Seq(U) /\ Refs(d, F, id, n + 1) \in Seq(U) /\ Ref(F, child) \in U
  BY <1>1, <1>3, <1>4, SeqMonotonic
<1>6. /\ \A i \in 1..n : refs[i] = Refs(d, F, id, n + 1)[i]
      /\ Refs(d, F, id, n + 1)[n + 1] = Ref(F, child)
  BY <1>1 DEF Refs
<1> HIDE DEF U
<1>7. /\ Append(refs, Ref(F, child)) \in Seq(U) /\ Len(Append(refs, Ref(F, child))) = n + 1
      /\ \A i \in 1..n : Append(refs, Ref(F, child))[i] = refs[i]
      /\ Append(refs, Ref(F, child))[n + 1] = Ref(F, child)
  BY <1>1, <1>3, <1>5, AppendProperties
<1>8. Append(refs, Ref(F, child)) = Refs(d, F, id, n + 1)
  <2>1. \A i \in 1..n + 1 : Append(refs, Ref(F, child))[i] = Refs(d, F, id, n + 1)[i]
    BY <1>6, <1>7
  <2> QED BY <1>4, <1>5, <1>7, <2>1, SeqEqual
<1> QED BY <1>2, <1>8 DEF Builds

LEMMA NothingBuilt ==
  ASSUME NEW d, NEW F, NEW id, Len(d.collection[id]) \in Nat
  PROVE  Builds(d, F, id, 0, <<>>)
<1>1. PICK S : Refs(d, F, id, 0) \in Seq(S) /\ Len(Refs(d, F, id, 0)) = 0
  BY RefsSeq
<1>2. Refs(d, F, id, 0) = <<>>
  BY <1>1, EmptySeq, SeqEqual
<1> QED BY <1>2 DEF Builds, ReadyTo

\* Once a menu is decoded, F may be extended by it.
Extended(F, id, refs) ==
  [m \in DOMAIN F \cup {id} |-> IF m \in DOMAIN F THEN F[m] ELSE refs]

LEMMA ExtendedBuilds ==
  ASSUME NEW d, NEW F, NEW id, NEW refs, NEW m, NEW n, NEW built, Builds(d, F, m, n, built)
  PROVE  Builds(d, Extended(F, id, refs), m, n, built)
<1> DEFINE G == Extended(F, id, refs)
<1>1. \A x \in DOMAIN F : x \in DOMAIN G /\ G[x] = F[x]
  BY DEF Extended
<1> HIDE DEF G
<1>2. \A i \in 1..n : Ref(G, d.collection[m][i]) = Ref(F, d.collection[m][i])
  BY <1>1 DEF Builds, ReadyTo, Ref
<1>3. Refs(d, G, m, n) = Refs(d, F, m, n)
  BY <1>2 DEF Refs
<1>4. ReadyTo(d, G, m, n)
  BY <1>1 DEF Builds, ReadyTo
<1> QED BY <1>3, <1>4 DEF Builds, G

LEMMA ExtendedIsCanonical ==
  ASSUME NEW d, NEW F, Canonical(d, F), NEW id \in MenuIds, d.collection[id] # None,
         NEW refs, Builds(d, F, id, Len(d.collection[id]), refs)
  PROVE  /\ Canonical(d, Extended(F, id, refs))
         /\ id \in DOMAIN Extended(F, id, refs)
         /\ Extended(F, id, refs)[id] = refs
         /\ \A menu : IsObject(F, menu) => IsObject(Extended(F, id, refs), menu)
<1> DEFINE G == Extended(F, id, refs)
<1>1. /\ DOMAIN G = DOMAIN F \cup {id} /\ \A x \in DOMAIN F : G[x] = F[x]
      /\ id \notin DOMAIN F => G[id] = refs
  BY DEF Extended
<1>2. G[id] = refs
  BY <1>1 DEF Canonical, Builds
<1>3. \A m \in DOMAIN G : Builds(d, F, m, Len(d.collection[m]), G[m])
  BY <1>1, <1>2 DEF Canonical
<1>4. Canonical(d, G)
  BY <1>1, <1>3, ExtendedBuilds DEF Canonical
<1>5. \A menu : IsObject(F, menu) => IsObject(G, menu)
  BY <1>1 DEF IsObject
<1> QED BY <1>1, <1>2, <1>4, <1>5

\* What an action on frames that stay in place keeps: of the lower frames everything.
LEMMA ElementSeq ==
  ASSUME IInv, NEW id \in MenuIds, document.collection[id] # None
  PROVE  /\ document.collection[id] \in Seq(Lookup \cup MenuRef)
         /\ Len(document.collection[id]) \in Nat
         /\ DOMAIN document.collection[id] = 1..Len(document.collection[id])
<1>1. document.collection[id] \in Seq(Lookup \cup MenuRef)
  BY DocumentsAssumption DEF IInv, StackInv, Document
<1> QED BY <1>1, LenProperties

\* The innermost call and what it has built.
LEMMA InnermostFrame ==
  ASSUME IInv, stage = "menu"
  PROVE  /\ Top \in Nat \ {0} /\ Top = Len(stack) /\ DOMAIN stack = 1..Len(stack)
         /\ Frame = stack[Top] /\ Frame.id \in MenuIds
         /\ document.collection[Frame.id] # None /\ Frame.next \in Nat \ {0}
         /\ Children = document.collection[Frame.id]
         /\ DOMAIN Children = 1..Len(Children) /\ Len(Children) \in Nat
         /\ \A F : StackOf(F) => Builds(document, F, Frame.id, Frame.next - 1, Frame.refs)
<1>1. PICK R : stack \in Seq(Frames(R))
  BY DEF IInv, StackInv
<1>2. Top \in Nat \ {0} /\ Top = Len(stack) /\ DOMAIN stack = 1..Len(stack)
  BY <1>1, EmptySeq, LenProperties DEF IInv, TypeOK, Top
<1>3. Frame = stack[Top] /\ Frame.id \in MenuIds /\ document.collection[Frame.id] # None
      /\ Frame.next \in Nat \ {0} /\ Children = document.collection[Frame.id]
  BY <1>2 DEF IInv, TypeOK, Frame, Children
<1>4. Top \in DOMAIN stack /\ Decoded(Top) = Frame.next - 1
  BY <1>2, <1>3 DEF Decoded
<1>5. \A F : StackOf(F) => Builds(document, F, Frame.id, Frame.next - 1, Frame.refs)
  BY <1>3, <1>4 DEF StackOf
<1> QED BY <1>2, <1>3, <1>5, ElementSeq

LEMMA decodeRefBuilds ==
  ASSUME IInv, CallsInv, RefsInv, decodeRef
  PROVE  CallsInv' /\ RefsInv'
<1>1. PICK R : stack \in Seq(Frames(R))
  BY DEF IInv, StackInv
<1>2. PICK F : RefsOf(F)
  BY DEF RefsInv
<1>3. stage = "menu" /\ Frame.next \in DOMAIN Children /\ ~isMenuRef(Child)
      /\ Child = Children[Frame.next]
  BY DEF decodeRef, InLoop, Child
<1> DEFINE advanced == Advance(stack)
<1>4. stack # <<>> /\ Len(stack) \in Nat \ {0}
  BY <1>1, <1>3, EmptySeq DEF IInv, TypeOK
<1>5. /\ advanced \in Seq(Frames(R)) /\ Len(advanced) = Len(stack) /\ advanced # <<>>
      /\ \A k \in 1..Len(stack) :
           /\ advanced[k].id = stack[k].id /\ advanced[k].condition = stack[k].condition
           /\ advanced[k].refs = stack[k].refs
           /\ advanced[k].next = IF k = Len(stack) THEN stack[k].next + 1 ELSE stack[k].next
  BY <1>1, <1>4, AdvanceFrame, EmptySeq
<1>6. stack' = emplaceBack(advanced, Leaf(Child))
  BY DEF decodeRef
<1> HIDE DEF advanced
<1>7. /\ \E T : stack' \in Seq(Frames(T))
      /\ Len(stack') = Len(stack)
      /\ \A k \in 1..Len(stack) :
           /\ stack'[k].id = advanced[k].id /\ stack'[k].condition = advanced[k].condition
           /\ stack'[k].next = advanced[k].next
           /\ stack'[k].refs = IF k = Len(stack) THEN Append(advanced[k].refs, Leaf(Child))
                                ELSE advanced[k].refs
  BY <1>5, <1>6, EmplaceFrame
<1>8. DOMAIN stack = 1..Len(stack) /\ DOMAIN stack' = 1..Len(stack)
  BY <1>1, <1>7, LenProperties
<1>9. document' = document /\ menus' = menus /\ uis' = uis
  BY DEF decodeRef
<1>10. CallsInv'
  <2> SUFFICES ASSUME NEW k \in 1..Len(stack), k # Len(stack)
               PROVE  /\ stack'[k].next - 1 \in DOMAIN document.collection[stack'[k].id]
                      /\ isMenuRef(Passed(k)')
                      /\ Passed(k)'.menu = stack'[k + 1].id
                      /\ Condition(Passed(k)') = stack'[k + 1].condition
    BY <1>7, <1>8, <1>9 DEF CallsInv
  <2>1. k + 1 \in 1..Len(stack)
    BY <1>4
  <2>2. Passed(k)' = Passed(k)
    BY <1>5, <1>7, <1>9 DEF Passed
  <2> QED BY <1>5, <1>7, <1>8, <2>1, <2>2 DEF CallsInv
<1>11. StackOf(F)'
  <2> SUFFICES ASSUME NEW k \in 1..Len(stack)
               PROVE  Builds(document, F, stack'[k].id, Decoded(k)', stack'[k].refs)
    BY <1>8, <1>9 DEF StackOf
  <2>1. CASE k # Len(stack)
    <3>1. Decoded(k)' = Decoded(k)
      BY <1>5, <1>7, <2>1 DEF Decoded
    <3> QED BY <1>2, <1>5, <1>7, <1>8, <2>1, <3>1 DEF RefsOf, StackOf
  <2>2. CASE k = Len(stack)
    <3> DEFINE n == Frame.next - 1
    <3>1. /\ n \in Nat /\ n < Len(document.collection[Frame.id])
          /\ Len(document.collection[Frame.id]) \in Nat
          /\ Builds(document, F, Frame.id, n, Frame.refs)
          /\ Child = document.collection[Frame.id][n + 1]
      BY <1>2, <1>3, InnermostFrame DEF RefsOf
    <3>2. Decoded(k)' = n + 1 /\ stack'[k].id = Frame.id
          /\ stack'[k].refs = Append(Frame.refs, Leaf(Child))
      <4>1. Frame = stack[k] /\ Frame.next \in Nat \ {0}
        BY <1>3, <2>2, InnermostFrame
      <4>2. /\ stack'[k].id = Frame.id /\ stack'[k].next = Frame.next + 1
            /\ stack'[k].refs = Append(Frame.refs, Leaf(Child))
        BY <1>5, <1>7, <2>2, <4>1
      <4>3. Decoded(k)' = stack'[k].next - 1
        BY <1>7, <2>2 DEF Decoded
      <4> QED BY <4>1, <4>2, <4>3
    <3> HIDE DEF n
    <3>3. Builds(document, F, Frame.id, n + 1, Append(Frame.refs, Ref(F, Child)))
      BY <1>3, <3>1, NextBuilds
    <3> QED BY <1>3, <3>2, <3>3 DEF Ref
  <2> QED BY <2>1, <2>2
<1>12. MenusOf(F)' /\ Canonical(document', F)
  BY <1>2, <1>9 DEF RefsOf, MenusOf
<1> QED BY <1>10, <1>11, <1>12 DEF RefsInv, RefsOf

\* A new call has built nothing; the one that makes it waits for the reference.
LEMMA decodeMenuRefBuilds ==
  ASSUME IInv, CallsInv, RefsInv, decodeMenuRef
  PROVE  CallsInv' /\ RefsInv'
<1>1. PICK R : stack \in Seq(Frames(R))
  BY DEF IInv, StackInv
<1>2. PICK F : RefsOf(F)
  BY DEF RefsInv
<1>3. InLoop /\ stage = "menu" /\ Frame.next \in DOMAIN Children /\ isMenuRef(Child)
      /\ Child = Children[Frame.next]
  BY DEF decodeMenuRef, InLoop, Child
<1>4. Child.menu \in MenuIds
  BY <1>3, ChildEdge DEF IInv
<1> DEFINE advanced == Advance(stack)
           frame == [id |-> Child.menu, condition |-> Condition(Child), next |-> 1, refs |-> <<>>]
<1>5. stack # <<>> /\ Len(stack) \in Nat \ {0}
  BY <1>1, <1>3, EmptySeq DEF IInv, TypeOK
<1>6. /\ advanced \in Seq(Frames(R)) /\ Len(advanced) = Len(stack)
      /\ \A k \in 1..Len(stack) :
           /\ advanced[k].id = stack[k].id /\ advanced[k].condition = stack[k].condition
           /\ advanced[k].refs = stack[k].refs
           /\ advanced[k].next = IF k = Len(stack) THEN stack[k].next + 1 ELSE stack[k].next
  BY <1>1, <1>5, AdvanceFrame
<1>7. /\ stack' = Append(advanced, frame) /\ document.collection[Child.menu] # None
      /\ document' = document /\ menus' = menus /\ uis' = uis
  BY DEF decodeMenuRef, Call, refId, noRefs
<1>8. /\ frame.id = Child.menu /\ frame.condition = Condition(Child)
      /\ frame.next = 1 /\ frame.refs = <<>>
  OBVIOUS
<1> DEFINE T == (R \cup {Condition(Child)}) \cup {<<>>}
<1>9. advanced \in Seq(Frames(T)) /\ frame \in Frames(T)
  <2>1. advanced \in Seq(Frames(T))
    BY <1>6, FramesGrow
  <2> QED BY <1>4, <2>1 DEF Frames
<1> HIDE DEF advanced, frame, T
<1>10. /\ stack' \in Seq(Frames(T)) /\ Len(stack') = Len(stack) + 1
       /\ \A k \in 1..Len(stack) : stack'[k] = advanced[k]
       /\ stack'[Len(stack) + 1] = frame
  BY <1>6, <1>7, <1>9, AppendProperties
<1>11. DOMAIN stack = 1..Len(stack) /\ DOMAIN stack' = 1..Len(stack) + 1
  BY <1>1, <1>10, LenProperties
<1>12. /\ Frame = stack[Len(stack)] /\ Frame.next \in Nat \ {0}
       /\ Children = document.collection[Frame.id]
       /\ Builds(document, F, Frame.id, Frame.next - 1, Frame.refs)
  BY <1>2, <1>3, InnermostFrame DEF RefsOf
<1>13. CallsInv'
  <2> SUFFICES ASSUME NEW k \in 1..Len(stack)
               PROVE  /\ stack'[k].next - 1 \in DOMAIN document.collection[stack'[k].id]
                      /\ isMenuRef(Passed(k)')
                      /\ Passed(k)'.menu = stack'[k + 1].id
                      /\ Condition(Passed(k)') = stack'[k + 1].condition
    BY <1>5, <1>7, <1>10, <1>11 DEF CallsInv
  <2>1. CASE k # Len(stack)
    <3>1. k + 1 \in 1..Len(stack)
      BY <1>5, <2>1
    <3>2. Passed(k)' = Passed(k)
      BY <1>6, <1>7, <1>10, <2>1 DEF Passed
    <3>3. /\ stack'[k].id = stack[k].id /\ stack'[k].next = stack[k].next
          /\ stack'[k + 1].id = stack[k + 1].id
          /\ stack'[k + 1].condition = stack[k + 1].condition
      BY <1>6, <1>10, <2>1, <3>1
    <3> QED BY <1>11, <2>1, <3>2, <3>3 DEF CallsInv
  <2>2. CASE k = Len(stack)
    <3>1. stack'[k].id = Frame.id /\ stack'[k].next - 1 = Frame.next
      BY <1>6, <1>10, <1>12, <2>2
    <3>2. Passed(k)' = Child
      BY <1>3, <1>7, <1>12, <3>1 DEF Passed
    <3>3. stack'[k + 1] = frame
      BY <1>10, <2>2
    <3> QED BY <1>3, <1>8, <1>12, <3>1, <3>2, <3>3
  <2> QED BY <2>1, <2>2
<1>14. StackOf(F)'
  <2> SUFFICES ASSUME NEW k \in 1..Len(stack) + 1
               PROVE  Builds(document, F, stack'[k].id, Decoded(k)', stack'[k].refs)
    BY <1>7, <1>11 DEF StackOf
  <2>1. CASE k = Len(stack) + 1
    <3>1. Decoded(k)' = 0
      BY <1>8, <1>10, <2>1 DEF Decoded
    <3>2. Builds(document, F, Child.menu, 0, <<>>)
      BY <1>4, <1>7, ElementSeq, NothingBuilt
    <3> QED BY <1>8, <1>10, <2>1, <3>1, <3>2
  <2>2. CASE k \in 1..Len(stack)
    <3>1. Decoded(k)' = Decoded(k)
      <4>1. k # Len(stack')
        BY <1>5, <1>10, <2>2
      <4>2. Decoded(k)' = stack'[k].next - 2
        BY <4>1 DEF Decoded
      <4>3. stack[k].next \in Nat
        BY <1>11, <2>2 DEF IInv, TypeOK
      <4>4. stack'[k].next = IF k = Len(stack) THEN stack[k].next + 1 ELSE stack[k].next
        BY <1>6, <1>10, <2>2
      <4> QED BY <4>2, <4>3, <4>4 DEF Decoded
    <3> QED BY <1>2, <1>6, <1>10, <1>11, <2>2, <3>1 DEF RefsOf, StackOf
  <2> QED BY <1>5, <2>1, <2>2
<1>15. MenusOf(F)' /\ Canonical(document', F)
  BY <1>2, <1>7 DEF RefsOf, MenusOf
<1> QED BY <1>13, <1>14, <1>15 DEF RefsInv, RefsOf

LEMMA decodeEntryBuilds ==
  ASSUME IInv, RefsInv, decodeEntry
  PROVE  CallsInv' /\ RefsInv'
<1> DEFINE id == document.sets[Role][Entry]
           frame == [id |-> id, condition |-> None, next |-> 1, refs |-> <<>>]
<1>1. PICK F : RefsOf(F)
  BY DEF RefsInv
<1>2. /\ stack = <<>> /\ stack' = Append(stack, frame) /\ document.collection[id] # None
      /\ document' = document /\ menus' = menus /\ uis' = uis
  BY DEF IInv, TypeOK, decodeEntry, Call, noRefs
<1>3. id \in MenuIds
  <2>1. document \in Document
    BY DocumentsAssumption DEF IInv, StackInv
  <2>2. Role \in UserRoles /\ Entry \in Entries
    BY DEF IInv, TypeOK, decodeEntry, UserRoles, Entries, Role, Entry
  <2> QED BY <2>1, <2>2 DEF Document, decodeEntry
<1>4. frame.id = id /\ frame.next = 1 /\ frame.refs = <<>>
  OBVIOUS
<1> HIDE DEF id, frame
<1>5. stack' = <<frame>>
  BY <1>2
<1>6. DOMAIN stack' = {1} /\ Len(stack') = 1 /\ stack'[1] = frame
  BY <1>5
<1>7. CallsInv'
  BY <1>6 DEF CallsInv
<1>8. Decoded(1)' = 0
  BY <1>4, <1>6 DEF Decoded
<1>9. StackOf(F)'
  <2>1. Builds(document, F, id, 0, <<>>)
    BY <1>2, <1>3, ElementSeq, NothingBuilt
  <2> QED BY <1>2, <1>4, <1>6, <1>8, <2>1 DEF StackOf
<1>10. MenusOf(F)' /\ Canonical(document', F)
  BY <1>1, <1>2 DEF RefsOf, MenusOf
<1> QED BY <1>7, <1>9, <1>10 DEF RefsInv, RefsOf

\* The menu that is returned has the references of all its children: F may be extended
\* by it, or has it from an earlier decoding.
LEMMA ReturnedMenu ==
  ASSUME IInv, Return, NEW F, RefsOf(F)
  PROVE  \E G : /\ Canonical(document, G) /\ StackOf(G) /\ MenusOf(G)
                /\ Frame.id \in DOMAIN G /\ G[Frame.id] = Frame.refs
<1> DEFINE G == Extended(F, Frame.id, Frame.refs)
<1>1. stage = "menu" /\ Frame.next \notin DOMAIN Children
  BY DEF Return
<1>2. /\ Frame.id \in MenuIds /\ document.collection[Frame.id] # None
      /\ Builds(document, F, Frame.id, Len(document.collection[Frame.id]), Frame.refs)
  <2>1. /\ Frame.id \in MenuIds /\ document.collection[Frame.id] # None
        /\ Frame.next \in Nat \ {0} /\ Children = document.collection[Frame.id]
        /\ DOMAIN Children = 1..Len(Children) /\ Len(Children) \in Nat
        /\ Builds(document, F, Frame.id, Frame.next - 1, Frame.refs)
    BY <1>1, InnermostFrame DEF RefsOf
  <2>2. Frame.next - 1 \in 0..Len(Children)
    BY <2>1 DEF Builds, ReadyTo
  <2>3. Frame.next - 1 = Len(Children)
    BY <1>1, <2>1, <2>2
  <2> QED BY <2>1, <2>3
<1>3. /\ Canonical(document, G) /\ Frame.id \in DOMAIN G /\ G[Frame.id] = Frame.refs
      /\ \A menu : IsObject(F, menu) => IsObject(G, menu)
  BY <1>2, ExtendedIsCanonical DEF RefsOf
<1>4. StackOf(G)
  BY ExtendedBuilds DEF RefsOf, StackOf
<1>5. MenusOf(G)
  BY <1>3 DEF RefsOf, MenusOf
<1> QED BY <1>3, <1>4, <1>5

LEMMA ReturnBuilds ==
  ASSUME IInv, CallsInv, RefsInv, Return
  PROVE  CallsInv' /\ RefsInv'
<1>1. PICK F : RefsOf(F)
  BY DEF RefsInv
<1>2. PICK G : /\ Canonical(document, G) /\ StackOf(G) /\ MenusOf(G)
               /\ Frame.id \in DOMAIN G /\ G[Frame.id] = Frame.refs
  BY <1>1, ReturnedMenu
<1> DEFINE menu == Menu(Frame.id, Frame.condition, Frame.refs)
<1>3. IsObject(G, menu)
  BY <1>2 DEF IsObject, Menu
<1>4. stage = "menu" /\ document' = document /\ uis' = uis
  BY DEF Return
<1>5. CASE Top = 1
  <2>1. stack' = <<>> /\ menus' = emplace(menus, Entry, menu)
    BY <1>5 DEF Return
  <2> HIDE DEF menu
  <2>2. DOMAIN stack' = {}
    BY <2>1
  <2>3. CallsInv' /\ StackOf(G)'
    BY <2>2 DEF CallsInv, StackOf
  <2>4. MenusOf(G)'
    BY <1>2, <1>3, <1>4, <2>1 DEF MenusOf, emplace
  <2> QED BY <1>2, <1>4, <2>3, <2>4 DEF RefsInv, RefsOf
<1>6. CASE Top # 1
  <2> DEFINE front == Front(stack)
             m == Len(stack) - 1
  <2>1. PICK R : stack \in Seq(Frames(R))
    BY DEF IInv, StackInv
  <2>2. /\ Top = Len(stack) /\ DOMAIN stack = 1..Len(stack) /\ m \in Nat \ {0}
        /\ Len(stack) = m + 1 /\ Frame = stack[m + 1]
    BY <1>4, <1>6, InnermostFrame
  <2>3. stack' = emplaceBack(front, menu) /\ menus' = menus
    BY <1>6 DEF Return
  <2>4. /\ front \in Seq(Frames(R)) /\ Len(front) = m
        /\ \A k \in 1..m : front[k] = stack[k]
    <3>1. \A k \in 1..m : stack[k] \in Frames(R)
      BY <2>1, <2>2, ElementOfSeq
    <3> QED BY <2>2, <3>1, SubSeqProperties DEF Front
  <2> HIDE DEF front, menu, m
  <2>5. front # <<>>
    BY <2>2, <2>4, EmptySeq
  <2>6. /\ \E T : stack' \in Seq(Frames(T))
        /\ Len(stack') = m
        /\ \A k \in 1..m :
             /\ stack'[k].id = stack[k].id /\ stack'[k].condition = stack[k].condition
             /\ stack'[k].next = stack[k].next
             /\ stack'[k].refs = IF k = m THEN Append(stack[k].refs, menu) ELSE stack[k].refs
    <3>1. /\ \E T : stack' \in Seq(Frames(T))
          /\ Len(stack') = m
          /\ \A k \in 1..m :
               /\ stack'[k].id = front[k].id /\ stack'[k].condition = front[k].condition
               /\ stack'[k].next = front[k].next
               /\ stack'[k].refs = IF k = m THEN Append(front[k].refs, menu) ELSE front[k].refs
      BY <2>3, <2>4, <2>5, EmplaceFrame
    <3> QED BY <2>4, <3>1
  <2>7. DOMAIN stack' = 1..m
    BY <2>6, LenProperties
  <2>8. CallsInv'
    <3> SUFFICES ASSUME NEW k \in 1..m, k # m
                 PROVE  /\ stack'[k].next - 1 \in DOMAIN document.collection[stack'[k].id]
                        /\ isMenuRef(Passed(k)')
                        /\ Passed(k)'.menu = stack'[k + 1].id
                        /\ Condition(Passed(k)') = stack'[k + 1].condition
      BY <1>4, <2>6, <2>7 DEF CallsInv
    <3>1. k + 1 \in 1..m /\ k \in DOMAIN stack /\ k # Len(stack)
      BY <2>2
    <3>2. Passed(k)' = Passed(k)
      BY <1>4, <2>6 DEF Passed
    <3>3. /\ stack'[k].id = stack[k].id /\ stack'[k].next = stack[k].next
          /\ stack'[k + 1].id = stack[k + 1].id
          /\ stack'[k + 1].condition = stack[k + 1].condition
      BY <2>6, <3>1
    <3> QED BY <3>1, <3>2, <3>3 DEF CallsInv
  <2>9. StackOf(G)'
    <3> SUFFICES ASSUME NEW k \in 1..m
                 PROVE  Builds(document, G, stack'[k].id, Decoded(k)', stack'[k].refs)
      BY <1>4, <2>7 DEF StackOf
    <3>1. k \in DOMAIN stack /\ k # Len(stack) /\ stack[k].next \in Nat \ {0}
          /\ stack[k].id \in MenuIds /\ document.collection[stack[k].id] # None
      BY <2>2 DEF IInv, TypeOK
    <3>2. Builds(document, G, stack[k].id, stack[k].next - 2, stack[k].refs)
      BY <1>2, <3>1 DEF StackOf, Decoded
    <3>3. CASE k # m
      <4>1. Decoded(k)' = stack[k].next - 2
        BY <2>6, <3>3 DEF Decoded
      <4> QED BY <2>6, <3>2, <3>3, <4>1
    <3>4. CASE k = m
      <4>1. Decoded(k)' = stack[k].next - 1
        BY <2>6, <3>4 DEF Decoded
      <4> DEFINE n == stack[k].next - 2
                 id == stack[k].id
      <4>2. /\ stack[k].next - 1 \in DOMAIN document.collection[id]
            /\ isMenuRef(Passed(k)) /\ Passed(k).menu = Frame.id
            /\ Condition(Passed(k)) = Frame.condition
        BY <2>2, <3>1, <3>4 DEF CallsInv
      <4>3. /\ Len(document.collection[id]) \in Nat
            /\ DOMAIN document.collection[id] = 1..Len(document.collection[id])
        BY <3>1, ElementSeq
      <4>4. n \in Nat /\ n < Len(document.collection[id]) /\ n + 1 = stack[k].next - 1
        <5>1. n \in 0..Len(document.collection[id])
          BY <3>2 DEF Builds, ReadyTo
        <5> QED BY <3>1, <4>2, <4>3, <5>1
      <4>5. Passed(k) = document.collection[id][n + 1]
        BY <4>4 DEF Passed
      <4>6. Ref(G, Passed(k)) = menu
        BY <1>2, <4>2 DEF Ref, menu
      <4>7. stack'[k].id = id /\ stack'[k].refs = Append(stack[k].refs, menu)
        BY <2>6, <3>4
      <4>8. Builds(document, G, id, n, stack[k].refs)
        BY <3>2
      <4> HIDE DEF n, id
      <4>9. Builds(document, G, id, n + 1, Append(stack[k].refs, Ref(G, Passed(k))))
        BY <1>2, <4>2, <4>3, <4>4, <4>5, <4>8, NextBuilds
      <4> QED BY <4>1, <4>4, <4>6, <4>7, <4>9
    <3> QED BY <3>3, <3>4
  <2>10. MenusOf(G)'
    BY <1>2, <1>4, <2>3 DEF MenusOf
  <2> QED BY <1>2, <1>4, <2>8, <2>9, <2>10 DEF RefsInv, RefsOf
<1> QED BY <1>5, <1>6

\* The other steps keep the menus that are decoded, or drop some.
LEMMA OtherBuilds ==
  ASSUME IInv, CallsInv, RefsInv,
         \/ Throw \/ Overflow \/ Returned \/ UNCHANGED vars
         \/ makeUserInterface \/ addEntry \/ skipRef \/ addMenu \/ emplaceUI
  PROVE  CallsInv' /\ RefsInv'
<1>1. PICK F : RefsOf(F)
  BY DEF RefsInv
<1>2. document' = document /\ (stack' = stack \/ stack' = <<>>)
  BY DEF Throw, Raise, unwind, Overflow, Returned, vars,
         makeUserInterface, addEntry, skipRef, addMenu, emplaceUI
<1>3. \/ menus' = menus /\ uis' = uis
      \/ /\ menus' = menus \/ menus' = Empty
         /\ uis' = emplace(uis, Role, [menus |-> menus, index |-> index])
  BY DEF Throw, Raise, Overflow, Returned, vars,
         makeUserInterface, addEntry, skipRef, addMenu, emplaceUI
<1>4. CallsInv' /\ StackOf(F)'
  <2>1. CASE stack' = stack
    BY <1>1, <1>2, <2>1 DEF RefsOf, CallsInv, Passed, StackOf, Decoded
  <2>2. CASE stack' = <<>>
    <3>1. DOMAIN stack' = {}
      BY <2>2
    <3> QED BY <3>1 DEF CallsInv, StackOf
  <2> QED BY <1>2, <2>1, <2>2
<1>5. MenusOf(F)'
  BY <1>1, <1>3 DEF RefsOf, MenusOf, emplace, Empty
<1> QED BY <1>1, <1>2, <1>4, <1>5 DEF RefsInv, RefsOf

LEMMA BuildsStep ==
  ASSUME IInv, CallsInv, RefsInv, [Next]_vars
  PROVE  CallsInv' /\ RefsInv'
BY decodeRefBuilds, decodeMenuRefBuilds, decodeEntryBuilds, ReturnBuilds, OtherBuilds DEF Next

---------------------------------------------------------------------------
(* The Menu objects of the user interfaces. *)

\* Every non-empty set of naturals has a least element.
LEMMA LeastElement ==
  ASSUME NEW S \in SUBSET Nat, S # {}
  PROVE  \E m \in S : \A n \in S : m <= n
<1> DEFINE R == {ss \in Nat \X Nat : ss[1] < ss[2]}
<1>1. IsWellFoundedOn(R, Nat) BY NatLessThanWellFounded DEF OpToRel
<1>2. PICK m \in S : \A n \in S : ~(<<n, m>> \in R)
  <2> HIDE DEF R
  <2> QED BY <1>1, WFMin
<1>3. \A n \in S : ~(n < m) BY <1>2
<1> QED BY <1>3

\* Level is defined by recursion; a function up to some level goes on to the next.
Below(f, n) == IF n = 0 THEN RoleMenus ELSE UNION {Submenus(menu) : menu \in f[n - 1]}
Solves(f, k) == f = [n \in 0..k |-> Below(f, n)]

LEMMA SolutionGrows ==
  ASSUME NEW k \in Nat, NEW f, Solves(f, k)
  PROVE  \E g : Solves(g, k + 1)
<1> DEFINE g == [n \in 0..k + 1 |-> Below(f, n)]
<1>1. ASSUME NEW n \in 0..k PROVE g[n] = f[n]
  BY DEF Solves
<1>2. ASSUME NEW n \in 0..k + 1 PROVE Below(g, n) = Below(f, n)
  <2>1. n # 0 => g[n - 1] = f[n - 1]
    BY <1>1
  <2> QED BY <2>1 DEF Below
<1>3. g = [n \in 0..k + 1 |-> Below(g, n)]
  <2> HIDE DEF g
  <2>1. g = [n \in 0..k + 1 |-> Below(f, n)]
    BY DEF g
  <2> QED BY <1>2, <2>1
<1> QED BY <1>3 DEF Solves

LEMMA LevelIsDefined ==
  Solves(Level, StackLimit)
<1> DEFINE Bad == {k \in Nat : ~\E f : Solves(f, k)}
<1>1. Bad = {}
  <2> SUFFICES ASSUME Bad # {} PROVE FALSE
    OBVIOUS
  <2>1. PICK k \in Bad : \A n \in Bad : k <= n
    <3> Bad \in SUBSET Nat OBVIOUS
    <3> HIDE DEF Bad
    <3> QED BY LeastElement
  <2>2. CASE k = 0
    <3> DEFINE f == [n \in 0..0 |-> RoleMenus]
    <3>1. \A n \in 0..0 : Below(f, n) = RoleMenus
      BY DEF Below
    <3>2. f = [n \in 0..0 |-> Below(f, n)]
      <4> HIDE DEF f
      <4>1. f = [n \in 0..0 |-> RoleMenus]
        BY DEF f
      <4> QED BY <3>1, <4>1
    <3> QED BY <2>1, <2>2, <3>2 DEF Solves
  <2>3. CASE k # 0
    <3>1. k - 1 \in Nat /\ (k - 1) + 1 = k
      BY <2>1, <2>3
    <3>2. k - 1 \notin Bad
      BY <2>1, <3>1
    <3>3. PICK f : Solves(f, k - 1)
      BY <3>1, <3>2
    <3>4. \E g : Solves(g, (k - 1) + 1)
      BY <3>1, <3>3, SolutionGrows
    <3> QED BY <2>1, <3>1, <3>4
  <2> QED BY <2>2, <2>3
<1>2. \E f : Solves(f, StackLimit)
  BY <1>1, StackLimitAssumption
<1>3. Level = CHOOSE f : Solves(f, StackLimit)
  BY DEF Level, Solves, Below
<1> QED BY <1>2, <1>3

\* The menus among the references of a Menu object are Menu objects.
LEMMA SubmenusAreObjects ==
  ASSUME NEW d, NEW F, Canonical(d, F), NEW menu, IsObject(F, menu), NEW sub \in Submenus(menu)
  PROVE  IsObject(F, sub)
<1>1. PICK i \in DOMAIN menu.refs : isMenu(menu.refs[i]) /\ sub = menu.refs[i]
  BY DEF Submenus
<1> DEFINE n == Len(d.collection[menu.id])
           child == d.collection[menu.id][i]
<1>2. menu.id \in DOMAIN F /\ menu.refs = F[menu.id]
  BY DEF IsObject, Menu
<1>3. menu.refs = Refs(d, F, menu.id, n) /\ ReadyTo(d, F, menu.id, n)
  BY <1>2 DEF Canonical, Builds
<1>4. i \in 1..n /\ sub = Ref(F, child)
  BY <1>1, <1>3 DEF Refs
<1>5. isMenuRef(child) => child.menu \in DOMAIN F
  BY <1>3, <1>4 DEF ReadyTo
<1> HIDE DEF n, child
<1>6. isMenuRef(child)
  BY <1>1, <1>4 DEF Ref, Leaf, isMenu
<1> QED BY <1>4, <1>5, <1>6 DEF Ref, Menu, IsObject

LEMMA ObjectsAreObjects ==
  ASSUME NEW F, RefsOf(F), NEW menu \in Objects
  PROVE  IsObject(F, menu)
<1>1. /\ DOMAIN Level = 0..StackLimit
      /\ \A n \in 0..StackLimit : Level[n] = Below(Level, n)
  BY LevelIsDefined DEF Solves
<1> DEFINE Bad == {n \in 0..StackLimit : ~\A m \in Level[n] : IsObject(F, m)}
<1>2. Bad = {}
  <2> SUFFICES ASSUME Bad # {} PROVE FALSE
    OBVIOUS
  <2>1. PICK n \in Bad : \A k \in Bad : n <= k
    <3> Bad \in SUBSET Nat OBVIOUS
    <3> HIDE DEF Bad
    <3> QED BY LeastElement
  <2>2. PICK m \in Level[n] : ~IsObject(F, m)
    BY <2>1
  <2>3. CASE n = 0
    <3>1. m \in RoleMenus
      BY <1>1, <2>1, <2>2, <2>3 DEF Below
    <3> QED BY <2>2, <3>1 DEF RoleMenus, RefsOf, MenusOf
  <2>4. CASE n # 0
    <3>1. n - 1 \in 0..StackLimit /\ ~(n <= n - 1)
      BY <2>1, <2>4, StackLimitAssumption
    <3>2. n - 1 \notin Bad
      BY <2>1, <3>1
    <3>3. PICK above \in Level[n - 1] : m \in Submenus(above)
      BY <1>1, <2>1, <2>2, <2>4 DEF Below
    <3>4. IsObject(F, above)
      BY <3>1, <3>2, <3>3
    <3> QED BY <2>2, <3>3, <3>4, SubmenusAreObjects DEF RefsOf
  <2> QED BY <2>3, <2>4
<1>3. PICK n \in 0..StackLimit : menu \in Level[n]
  BY DEF Objects
<1> QED BY <1>2, <1>3

LEMMA RefsDecideById ==
  RefsInv => SameIdSameReferences
<1> SUFFICES ASSUME NEW F, RefsOf(F), NEW m1 \in Objects, NEW m2 \in Objects, m1.id = m2.id
             PROVE  m1.refs = m2.refs
  BY DEF RefsInv, SameIdSameReferences
<1>1. IsObject(F, m1) /\ IsObject(F, m2)
  BY ObjectsAreObjects
<1> QED BY <1>1 DEF IsObject, Menu

---------------------------------------------------------------------------
(* The inductive invariant. *)

\* The stack, the first menu of a role, and what the calls have built.
FullInv == IInv /\ IdentInv /\ CallsInv /\ RefsInv

LEMMA InitFullInv ==
  Init => FullInv
<1> SUFFICES ASSUME Init PROVE FullInv
  OBVIOUS
<1>1. DOMAIN stack = {} /\ DOMAIN menus = {} /\ DOMAIN uis = {}
  BY DEF Init, Empty
<1>2. IdentInv /\ CallsInv
  BY <1>1 DEF Init, IdentInv, IdentificationIsIndexed, CallsInv
<1>3. RefsOf(Empty)
  BY <1>1 DEF RefsOf, Canonical, StackOf, MenusOf, Empty
<1> QED BY <1>2, <1>3, InitIInv DEF FullInv, RefsInv

LEMMA NextFullInv ==
  FullInv /\ [Next]_vars => FullInv'
BY NextIInv, IdentStep, BuildsStep DEF FullInv

LEMMA FullInvHolds == Spec => []FullInv
BY InitFullInv, NextFullInv, PTL DEF Spec

---------------------------------------------------------------------------
(* FlattenSeq, by its parts. *)

FlatNext(f, seqs, i) == IF i = 1 THEN seqs[i] ELSE f[i - 1] \o seqs[i]
FlatTo(f, seqs, k) == f = [i \in 1..k |-> FlatNext(f, seqs, i)]
Flat(seqs) == CHOOSE f : FlatTo(f, seqs, Len(seqs))

LEMMA FlatGrows ==
  ASSUME NEW seqs, NEW k \in Nat, NEW f, FlatTo(f, seqs, k)
  PROVE  \E g : FlatTo(g, seqs, k + 1)
<1> DEFINE g == [i \in 1..k + 1 |-> FlatNext(f, seqs, i)]
<1>1. ASSUME NEW i \in 1..k PROVE g[i] = f[i]
  BY DEF FlatTo
<1>2. ASSUME NEW i \in 1..k + 1 PROVE FlatNext(g, seqs, i) = FlatNext(f, seqs, i)
  <2>1. i # 1 => i - 1 \in 1..k
    OBVIOUS
  <2>2. i # 1 => g[i - 1] = f[i - 1]
    BY <1>1, <2>1
  <2> QED BY <2>2 DEF FlatNext
<1>3. g = [i \in 1..k + 1 |-> FlatNext(g, seqs, i)]
  <2> HIDE DEF g
  <2>1. g = [i \in 1..k + 1 |-> FlatNext(f, seqs, i)]
    BY DEF g
  <2> QED BY <1>2, <2>1
<1> QED BY <1>3 DEF FlatTo

LEMMA FlatExists ==
  ASSUME NEW seqs, NEW n \in Nat
  PROVE  \E f : FlatTo(f, seqs, n)
<1> DEFINE Bad == {k \in Nat : ~\E f : FlatTo(f, seqs, k)}
<1>1. Bad = {}
  <2> SUFFICES ASSUME Bad # {} PROVE FALSE
    OBVIOUS
  <2>1. PICK k \in Bad : \A j \in Bad : k <= j
    <3> Bad \in SUBSET Nat OBVIOUS
    <3> HIDE DEF Bad
    <3> QED BY LeastElement
  <2>2. CASE k = 0
    <3>1. FlatTo(<<>>, seqs, 0)
      BY DEF FlatTo
    <3> QED BY <2>1, <2>2, <3>1
  <2>3. CASE k # 0
    <3>1. k - 1 \in Nat /\ (k - 1) + 1 = k
      BY <2>1, <2>3
    <3>2. k - 1 \notin Bad
      BY <2>1, <3>1
    <3>3. PICK f : FlatTo(f, seqs, k - 1)
      BY <3>1, <3>2
    <3>4. \E g : FlatTo(g, seqs, (k - 1) + 1)
      BY <3>1, <3>3, FlatGrows
    <3> QED BY <2>1, <3>1, <3>4
  <2> QED BY <2>2, <2>3
<1> QED BY <1>1

\* The parts, and the sequences they are.
LEMMA FlatParts ==
  ASSUME NEW X, NEW seqs \in Seq(Seq(X))
  PROVE  /\ Len(seqs) \in Nat
         /\ FlattenSeq(seqs) = IF seqs = <<>> THEN <<>> ELSE Flat(seqs)[Len(seqs)]
         /\ \A i \in 1..Len(seqs) : /\ Flat(seqs)[i] = FlatNext(Flat(seqs), seqs, i)
                                    /\ Flat(seqs)[i] \in Seq(X)
<1> DEFINE f == Flat(seqs)
           n == Len(seqs)
<1>1. n \in Nat /\ (n = 0 <=> seqs = <<>>)
  BY EmptySeq, LenProperties
<1>2. FlatTo(f, seqs, n)
  BY <1>1, FlatExists DEF Flat
<1>3. FlattenSeq(seqs) = IF n = 0 THEN seqs ELSE f[n]
  BY DEF FlattenSeq, Flat, FlatTo, FlatNext
<1> HIDE DEF f, n
<1>4. ASSUME NEW i \in 1..n PROVE f[i] = FlatNext(f, seqs, i)
  BY <1>2 DEF FlatTo
<1> DEFINE Bad == {i \in 1..n : f[i] \notin Seq(X)}
<1>5. Bad = {}
  <2> SUFFICES ASSUME Bad # {} PROVE FALSE
    OBVIOUS
  <2>1. PICK i \in Bad : \A j \in Bad : i <= j
    <3> Bad \in SUBSET Nat OBVIOUS
    <3> HIDE DEF Bad
    <3> QED BY LeastElement
  <2>2. seqs[i] \in Seq(X)
    BY <2>1, ElementOfSeq DEF n
  <2>3. i # 1 => i - 1 \in 1..n /\ i - 1 \notin Bad
    BY <1>1, <2>1
  <2>4. i # 1 => f[i - 1] \in Seq(X)
    BY <2>3
  <2>5. FlatNext(f, seqs, i) \in Seq(X)
    BY <2>2, <2>4, ConcatProperties DEF FlatNext
  <2> QED BY <1>4, <2>1, <2>5
<1> QED BY <1>1, <1>3, <1>4, <1>5 DEF f, n

LEMMA FlattenType ==
  ASSUME NEW X, NEW seqs \in Seq(Seq(X))
  PROVE  FlattenSeq(seqs) \in Seq(X)
<1>1. Len(seqs) \in Nat /\ (Len(seqs) = 0 <=> seqs = <<>>)
  BY EmptySeq, LenProperties
<1> QED BY <1>1, FlatParts, EmptySeq

LEMMA FlattenNothing ==
  FlattenSeq(<<>>) = <<>>
BY EmptySeq DEF FlattenSeq

LEMMA FlattenAppend ==
  ASSUME NEW X, NEW seqs \in Seq(Seq(X)), NEW x \in Seq(X)
  PROVE  FlattenSeq(Append(seqs, x)) = FlattenSeq(seqs) \o x
<1> DEFINE more == Append(seqs, x)
           f == Flat(seqs)
           g == Flat(more)
           n == Len(seqs)
<1>1. /\ more \in Seq(Seq(X)) /\ more # <<>> /\ Len(more) = n + 1
      /\ \A i \in 1..n : more[i] = seqs[i]
      /\ more[n + 1] = x
  BY AppendProperties
<1>2. n \in Nat /\ (n = 0 <=> seqs = <<>>)
  BY EmptySeq, LenProperties
<1>3. /\ FlattenSeq(seqs) = IF seqs = <<>> THEN <<>> ELSE f[n]
      /\ \A i \in 1..n : f[i] = FlatNext(f, seqs, i)
  BY FlatParts
<1> HIDE DEF more
<1>4. /\ FlattenSeq(more) = g[n + 1]
      /\ \A i \in 1..n + 1 : g[i] = FlatNext(g, more, i)
  BY <1>1, FlatParts
<1> HIDE DEF f, g, n
<1> DEFINE Bad == {i \in 1..n : g[i] # f[i]}
<1>5. Bad = {}
  <2> SUFFICES ASSUME Bad # {} PROVE FALSE
    OBVIOUS
  <2>1. PICK i \in Bad : \A j \in Bad : i <= j
    <3> Bad \in SUBSET Nat OBVIOUS
    <3> HIDE DEF Bad
    <3> QED BY LeastElement
  <2>2. i # 1 => i - 1 \in 1..n /\ i - 1 \notin Bad
    BY <1>2, <2>1
  <2>3. i # 1 => g[i - 1] = f[i - 1]
    BY <2>2
  <2>4. FlatNext(g, more, i) = FlatNext(f, seqs, i)
    BY <1>1, <2>1, <2>3 DEF FlatNext
  <2> QED BY <1>2, <1>3, <1>4, <2>1, <2>4
<1>6. n + 1 \in 1..n + 1 /\ (n + 1) - 1 = n
  BY <1>2
<1>7. g[n + 1] = IF n + 1 = 1 THEN x ELSE g[n] \o x
  BY <1>1, <1>4, <1>6 DEF FlatNext
<1>8. CASE n = 0
  <2>1. FlattenSeq(seqs) \o x = x
    BY <1>2, <1>3, <1>8, ConcatEmptySeq
  <2> QED BY <1>4, <1>7, <1>8, <2>1 DEF more
<1>9. CASE n # 0
  <2>1. n \in 1..n /\ n + 1 # 1
    BY <1>2, <1>9
  <2>2. g[n] = f[n]
    BY <1>5, <2>1
  <2> QED BY <1>2, <1>3, <1>4, <1>7, <1>9, <2>1, <2>2 DEF more
<1> QED BY <1>8, <1>9

LEMMA ConcatThree ==
  ASSUME NEW X, NEW s \in Seq(X), NEW t \in Seq(X), NEW u \in Seq(X)
  PROVE  (s \o t) \o u = s \o (t \o u)
OBVIOUS

LEMMA FlattenConcat ==
  ASSUME NEW X, NEW s \in Seq(Seq(X)), NEW t \in Seq(Seq(X))
  PROVE  FlattenSeq(s \o t) = FlattenSeq(s) \o FlattenSeq(t)
<1> DEFINE Fails(n) == \E u \in Seq(Seq(X)) : /\ Len(u) = n
                                             /\ FlattenSeq(s \o u) # FlattenSeq(s) \o FlattenSeq(u)
           Bad == {n \in Nat : Fails(n)}
<1>1. Bad = {}
  <2> SUFFICES ASSUME Bad # {} PROVE FALSE
    OBVIOUS
  <2>1. PICK n \in Bad : \A j \in Bad : n <= j
    <3> Bad \in SUBSET Nat OBVIOUS
    <3> HIDE DEF Bad
    <3> QED BY LeastElement
  <2>2. PICK u \in Seq(Seq(X)) : Len(u) = n /\ FlattenSeq(s \o u) # FlattenSeq(s) \o FlattenSeq(u)
    BY <2>1
  <2>3. FlattenSeq(s) \in Seq(X)
    BY FlattenType
  <2>4. u # <<>>
    <3> SUFFICES ASSUME u = <<>> PROVE FALSE
      OBVIOUS
    <3>1. s \o <<>> = s /\ FlattenSeq(s) \o <<>> = FlattenSeq(s)
      BY <2>3, ConcatEmptySeq
    <3> QED BY <2>2, <3>1, FlattenNothing
  <2>5. PICK v \in Seq(Seq(X)), x \in Seq(X) : u = Append(v, x)
    BY <2>4, SequenceEmptyOrAppend
  <2>6. Len(v) \in Nat /\ Len(v) = n - 1 /\ n \in Nat
    BY <2>1, <2>2, <2>5, AppendProperties, LenProperties
  <2>7. Len(v) \notin Bad
    BY <2>1, <2>6
  <2>8. FlattenSeq(s \o v) = FlattenSeq(s) \o FlattenSeq(v)
    BY <2>6, <2>7
  <2>9. s \o u = Append(s \o v, x)
    <3>1. u = v \o <<x>> /\ <<x>> \in Seq(Seq(X))
      BY <2>5, AppendIsConcat
    <3>2. s \o v \in Seq(Seq(X))
      BY ConcatProperties
    <3>3. (s \o v) \o <<x>> = s \o (v \o <<x>>)
      <4> DEFINE w == <<x>>
                 Y == Seq(X)
      <4>1. s \in Seq(Y) /\ v \in Seq(Y) /\ w \in Seq(Y)
        BY <3>1
      <4> HIDE DEF w, Y, Bad
      <4>2. (s \o v) \o w = s \o (v \o w)
        BY <4>1
      <4> QED BY <4>2 DEF w
    <3>4. Append(s \o v, x) = (s \o v) \o <<x>>
      BY <3>2, AppendIsConcat
    <3> QED BY <3>1, <3>3, <3>4
  <2>10. /\ FlattenSeq(s \o u) = FlattenSeq(s \o v) \o x
         /\ FlattenSeq(u) = FlattenSeq(v) \o x
    <3>1. s \o v \in Seq(Seq(X))
      BY ConcatProperties
    <3> QED BY <2>5, <2>9, <3>1, FlattenAppend
  <2>11. FlattenSeq(v) \in Seq(X)
    BY FlattenType
  <2>12. (FlattenSeq(s) \o FlattenSeq(v)) \o x = FlattenSeq(s) \o (FlattenSeq(v) \o x)
    <3> DEFINE fs == FlattenSeq(s)
               fv == FlattenSeq(v)
    <3>1. fs \in Seq(X) /\ fv \in Seq(X) /\ x \in Seq(X)
      BY <2>3, <2>11
    <3> HIDE DEF fs, fv, Bad
    <3>2. (fs \o fv) \o x = fs \o (fv \o x)
      BY <3>1
    <3> QED BY <3>2 DEF fs, fv
  <2> QED BY <2>2, <2>8, <2>10, <2>12
<1>2. Len(t) \in Nat
  BY LenProperties
<1> QED BY <1>1, <1>2

LEMMA FlattenOne ==
  ASSUME NEW X, NEW x \in Seq(X)
  PROVE  FlattenSeq(<<x>>) = x
<1>1. Append(<<>>, x) = <<x>> /\ <<>> \in Seq(Seq(X))
  BY EmptySeq
<1>2. FlattenSeq(<<x>>) = <<>> \o x
  BY <1>1, FlattenAppend, FlattenNothing
<1> QED BY <1>2, ConcatEmptySeq

---------------------------------------------------------------------------
(* The recursions of MenuSpec and of Lookups over the depth of the menus. *)

\* The Menu objects of a child, given those below every menu.
Subtree(d, below, child) ==
  IF Abs!isMenuRef(child) THEN <<Abs!ChildRef(Abs!Decoded(d), child)>> \o below[child.menu] ELSE <<>>
\* The lookups of a child, given those of every menu.
LookupsOf(lookups, child) ==
  IF ~isMenuRef(child) THEN <<child>>
  ELSE (IF child.condition = None THEN <<>> ELSE <<child.condition>>) \o lookups[child.menu]
\* The row for depth n in Walk, Below and Lookups, given the rows in f.
Row(of, d, f, n) ==
  IF of = "Walk"
  THEN [m \in MenuIds |-> IF n = 0 THEN Abs!Raises("overflow")
                          ELSE Abs!MenuCall(d, f[n - 1], d.collection[m])]
  ELSE IF of = "Below"
  THEN [m \in MenuIds |->
          IF n = 0 THEN <<>>
          ELSE Abs!FlattenSeq([i \in DOMAIN d.collection[m] |->
                                 Subtree(d, f[n - 1], d.collection[m][i])])]
  ELSE [m \in MenuIds |->
          LET children == d.collection[m]
          IN CASE n = 0 -> <<TooDeep>>
               [] n # 0 /\ children \in {None, <<>>} -> <<Refused>>
               [] OTHER -> FlattenSeq([i \in DOMAIN children |-> LookupsOf(f[n - 1], children[i])])]
Rows(of, d, f, k) == f = [n \in 0..k |-> Row(of, d, f, n)]
Table(of, d) == CHOOSE f : Rows(of, d, f, StackLimit)

LEMMA RowsGrow ==
  ASSUME NEW of, NEW d, NEW k \in Nat, NEW f, Rows(of, d, f, k)
  PROVE  \E g : Rows(of, d, g, k + 1)
<1> DEFINE g == [n \in 0..k + 1 |-> Row(of, d, f, n)]
<1>1. ASSUME NEW n \in 0..k PROVE g[n] = f[n]
  BY DEF Rows
<1>2. ASSUME NEW n \in 0..k + 1 PROVE Row(of, d, g, n) = Row(of, d, f, n)
  <2>1. n # 0 => n - 1 \in 0..k
    OBVIOUS
  <2>2. n # 0 => g[n - 1] = f[n - 1]
    BY <1>1, <2>1
  <2> HIDE DEF g
  <2>3. CASE n = 0
    BY <2>3 DEF Row
  <2>4. CASE n # 0
    BY <2>2, <2>4 DEF Row
  <2> QED BY <2>3, <2>4
<1>3. g = [n \in 0..k + 1 |-> Row(of, d, g, n)]
  <2> HIDE DEF g
  <2>1. g = [n \in 0..k + 1 |-> Row(of, d, f, n)]
    BY DEF g
  <2> QED BY <1>2, <2>1
<1> QED BY <1>3 DEF Rows

LEMMA TableIsDefined ==
  ASSUME NEW of, NEW d
  PROVE  \A n \in 0..StackLimit : Table(of, d)[n] = Row(of, d, Table(of, d), n)
<1> DEFINE Bad == {k \in Nat : ~\E f : Rows(of, d, f, k)}
<1>1. Bad = {}
  <2> SUFFICES ASSUME Bad # {} PROVE FALSE
    OBVIOUS
  <2>1. PICK k \in Bad : \A n \in Bad : k <= n
    <3> Bad \in SUBSET Nat OBVIOUS
    <3> HIDE DEF Bad
    <3> QED BY LeastElement
  <2>2. CASE k = 0
    <3> DEFINE f == [n \in 0..0 |-> Row(of, d, <<>>, 0)]
    <3>1. \A n \in 0..0 : Row(of, d, f, n) = Row(of, d, <<>>, 0)
      <4> HIDE DEF f
      <4> QED BY DEF Row
    <3>2. f = [n \in 0..0 |-> Row(of, d, f, n)]
      <4> HIDE DEF f
      <4>1. f = [n \in 0..0 |-> Row(of, d, <<>>, 0)]
        BY DEF f
      <4> QED BY <3>1, <4>1
    <3> QED BY <2>1, <2>2, <3>2 DEF Rows
  <2>3. CASE k # 0
    <3>1. k - 1 \in Nat /\ (k - 1) + 1 = k
      BY <2>1, <2>3
    <3>2. k - 1 \notin Bad
      BY <2>1, <3>1
    <3>3. PICK f : Rows(of, d, f, k - 1)
      BY <3>1, <3>2
    <3>4. \E g : Rows(of, d, g, (k - 1) + 1)
      BY <3>1, <3>3, RowsGrow
    <3> QED BY <2>1, <3>1, <3>4
  <2> QED BY <2>2, <2>3
<1>2. \E f : Rows(of, d, f, StackLimit)
  BY <1>1, StackLimitAssumption
<1>3. Rows(of, d, Table(of, d), StackLimit)
  BY <1>2 DEF Table
<1> QED BY <1>3 DEF Rows

LEMMA TablesAre ==
  /\ \A d : Abs!Walk(d) = Table("Walk", d)
  /\ \A d : Abs!Below(d) = Table("Below", d)[StackLimit]
  /\ Lookups = Table("Lookups", document)[StackLimit]
<1>1. ASSUME NEW d PROVE Abs!Walk(d) = Table("Walk", d)
  BY DEF Abs!Walk, Table, Rows, Row
<1>2. ASSUME NEW d PROVE Abs!Below(d) = Table("Below", d)[StackLimit]
  BY DEF Abs!Below, Table, Rows, Row, Subtree
<1>3. Lookups = Table("Lookups", document)[StackLimit]
  BY DEF Lookups, Table, Rows, Row, LookupsOf
<1> QED BY <1>1, <1>2, <1>3

---------------------------------------------------------------------------
(* The calls of decodeMenu as MenuSpec has them. *)

LEMMA SameNames ==
  /\ \A child : Abs!isMenuRef(child) <=> isMenuRef(child)
  /\ \A lookup, known : Abs!Fault(lookup, known) = Fault(lookup, known)
  /\ \A d, child : Abs!ConditionFault(d, child) = ConditionFault(d, child)
  /\ \A id, condition, refs : Abs!Menu(id, condition, refs) = Menu(id, condition, refs)
  /\ \A child : Abs!Condition(child) = Condition(child) /\ Abs!Leaf(child) = Leaf(child)
  /\ \A S : Abs!FirstIn(S) = FirstIn(S)
  /\ \A seqs : Abs!FlattenSeq(seqs) = FlattenSeq(seqs)
<1>1. \A child : Abs!isMenuRef(child) <=> isMenuRef(child)
  BY DEF Abs!isMenuRef, isMenuRef
<1>2. \A lookup, known : Abs!Fault(lookup, known) = Fault(lookup, known)
  BY DEF Abs!Fault, Fault
<1>3. \A d, child : Abs!ConditionFault(d, child) = ConditionFault(d, child)
  BY <1>2 DEF Abs!ConditionFault, ConditionFault
<1>4. \A id, condition, refs : Abs!Menu(id, condition, refs) = Menu(id, condition, refs)
  BY DEF Abs!Menu, Menu
<1>5. \A child : Abs!Condition(child) = Condition(child) /\ Abs!Leaf(child) = Leaf(child)
  BY DEF Abs!Condition, Condition, Abs!Leaf, Leaf
<1>6. \A S : Abs!FirstIn(S) = FirstIn(S)
  BY DEF Abs!FirstIn, FirstIn
<1>7. \A seqs : Abs!FlattenSeq(seqs) = FlattenSeq(seqs)
  BY DEF Abs!FlattenSeq, FlattenSeq
<1> QED BY <1>1, <1>2, <1>3, <1>4, <1>5, <1>6, <1>7

LEMMA ChildFaultIs ==
  ASSUME NEW d, NEW called, NEW child
  PROVE  Abs!ChildFault(d, called, child) =
           IF ~isMenuRef(child) THEN Fault(child, d.known)
           ELSE IF ConditionFault(d, child) # None THEN ConditionFault(d, child)
           ELSE called[child.menu].fault
BY SameNames DEF Abs!ChildFault

LEMMA ChildRefIs ==
  ASSUME NEW called, NEW child
  PROVE  Abs!ChildRef(called, child) =
           IF isMenuRef(child) THEN Menu(child.menu, Condition(child), called[child.menu].refs)
           ELSE Leaf(child)
BY SameNames DEF Abs!ChildRef

\* The references of a menu with these children.
RefsFor(called, children) == [i \in 1..Len(children) |-> Abs!ChildRef(called, children[i])]

LEMMA FirstIs ==
  ASSUME NEW S \in SUBSET Nat, NEW i \in S, \A j \in S : i <= j
  PROVE  FirstIn(S) = i
<1>1. FirstIn(S) \in S /\ \A j \in S : FirstIn(S) <= j
  BY DEF FirstIn
<1> HIDE DEF FirstIn
<1>2. FirstIn(S) <= i /\ i <= FirstIn(S) /\ FirstIn(S) \in Nat
  BY <1>1
<1> QED BY <1>2

LEMMA CallRefused ==
  ASSUME NEW d, NEW called, NEW children \in {None, <<>>}
  PROVE  Abs!MenuCall(d, called, children).fault = "other"
BY DEF Abs!MenuCall, Abs!Raises

\* The first child that fails decides.
LEMMA CallFails ==
  ASSUME NEW d, NEW called, NEW X, NEW children \in Seq(X), children # None,
         NEW i \in 1..Len(children), Abs!ChildFault(d, called, children[i]) # None,
         \A j \in 1..i - 1 : Abs!ChildFault(d, called, children[j]) = None
  PROVE  Abs!MenuCall(d, called, children).fault = Abs!ChildFault(d, called, children[i])
<1> DEFINE bad == {j \in DOMAIN children : Abs!ChildFault(d, called, children[j]) # None}
<1>1. DOMAIN children = 1..Len(children) /\ Len(children) \in Nat /\ children # <<>>
  BY LenProperties, EmptySeq
<1>2. i \in bad /\ bad \in SUBSET Nat
  BY <1>1
<1>3. ASSUME NEW j \in bad PROVE i <= j
  <2>1. j \in 1..Len(children) /\ j \notin 1..i - 1
    BY <1>1
  <2> QED BY <2>1
<1>4. Abs!MenuCall(d, called, children) =
        IF bad # {} THEN Abs!Raises(Abs!ChildFault(d, called, children[FirstIn(bad)]))
        ELSE [fault |-> None, refs |-> [j \in DOMAIN children |-> Abs!ChildRef(called, children[j])]]
  BY <1>1, SameNames DEF Abs!MenuCall
<1> HIDE DEF bad
<1>5. FirstIn(bad) = i
  BY <1>2, <1>3, FirstIs
<1> QED BY <1>2, <1>4, <1>5 DEF Abs!Raises

LEMMA CallSucceeds ==
  ASSUME NEW d, NEW called, NEW X, NEW children \in Seq(X), children # None, children # <<>>,
         \A i \in 1..Len(children) : Abs!ChildFault(d, called, children[i]) = None
  PROVE  Abs!MenuCall(d, called, children) =
           [fault |-> None, refs |-> RefsFor(called, children)]
<1>1. DOMAIN children = 1..Len(children)
  BY LenProperties
<1>2. {i \in DOMAIN children : Abs!ChildFault(d, called, children[i]) # None} = {}
  BY <1>1
<1> QED BY <1>1, <1>2 DEF Abs!MenuCall, RefsFor

IsFine(d, called, children, X) ==
  /\ children \in Seq(X) /\ children # None /\ children # <<>>
  /\ \A i \in 1..Len(children) : Abs!ChildFault(d, called, children[i]) = None
  /\ Abs!MenuCall(d, called, children).refs = RefsFor(called, children)
LEMMA CallIsFine ==
  ASSUME NEW d, NEW called, NEW X, NEW children \in Seq(X) \cup {None},
         Abs!MenuCall(d, called, children).fault = None
  PROVE  IsFine(d, called, children, X)
<1>1. children # None /\ children # <<>> /\ children \in Seq(X)
  BY CallRefused, MenuNoneAssumption
<1> DEFINE Bad == {i \in 1..Len(children) : Abs!ChildFault(d, called, children[i]) # None}
<1>2. Bad = {}
  <2> SUFFICES ASSUME Bad # {} PROVE FALSE
    OBVIOUS
  <2>1. PICK i \in Bad : \A j \in Bad : i <= j
    <3> Bad \in SUBSET Nat
      BY <1>1, LenProperties
    <3> HIDE DEF Bad
    <3> QED BY LeastElement
  <2>2. ASSUME NEW j \in 1..i - 1 PROVE Abs!ChildFault(d, called, children[j]) = None
    <3>1. Len(children) \in Nat /\ i \in 1..Len(children)
      BY <1>1, LenProperties
    <3>2. j \in 1..Len(children) /\ ~(i <= j)
      BY <3>1
    <3> QED BY <2>1, <3>2
  <2>3. i \in 1..Len(children) /\ Abs!ChildFault(d, called, children[i]) # None
    OBVIOUS
  <2> HIDE DEF Bad
  <2> QED BY <1>1, <2>2, <2>3, CallFails
<1>3. \A i \in 1..Len(children) : Abs!ChildFault(d, called, children[i]) = None
  BY <1>2
<1> QED BY <1>1, <1>3, CallSucceeds DEF IsFine

LEMMA ElementOf ==
  ASSUME NEW d \in Document, NEW m \in MenuIds
  PROVE  d.collection[m] \in Seq(Lookup \cup MenuRef) \cup {None}
BY DEF Document

LEMMA WalkIs ==
  ASSUME NEW d, NEW n \in 0..StackLimit, NEW m \in MenuIds
  PROVE  Abs!Walk(d)[n][m] = IF n = 0 THEN Abs!Raises("overflow")
                             ELSE Abs!MenuCall(d, Abs!Walk(d)[n - 1], d.collection[m])
<1>1. Abs!Walk(d)[n] = Row("Walk", d, Abs!Walk(d), n)
  BY TablesAre, TableIsDefined
<1> QED BY <1>1 DEF Row

LEMMA NoRoom ==
  ASSUME NEW d, NEW m \in MenuIds
  PROVE  Abs!Walk(d)[0][m].fault = "overflow"
<1>1. 0 \in 0..StackLimit
  BY StackLimitAssumption
<1>2. Abs!Walk(d)[0][m] = Abs!Raises("overflow")
  BY <1>1, WalkIs
<1> QED BY <1>2 DEF Abs!Raises

\* What a call that no exception leaves has done.
LEMMA WalkIsFine ==
  ASSUME NEW d \in Document, NEW n \in 0..StackLimit, NEW m \in MenuIds,
         Abs!Walk(d)[n][m].fault = None
  PROVE  LET children == d.collection[m]
             called == Abs!Walk(d)[n - 1]
         IN /\ n # 0 /\ n - 1 \in 0..StackLimit
            /\ children \in Seq(Lookup \cup MenuRef) /\ children # None /\ children # <<>>
            /\ DOMAIN children = 1..Len(children)
            /\ \A i \in 1..Len(children) : Abs!ChildFault(d, called, children[i]) = None
            /\ Abs!Walk(d)[n][m].refs = RefsFor(called, children)
<1>1. n # 0
  BY NoRoom, MenuNoneAssumption
<1>2. n - 1 \in 0..StackLimit
  BY <1>1, StackLimitAssumption
<1>3. Abs!Walk(d)[n][m] = Abs!MenuCall(d, Abs!Walk(d)[n - 1], d.collection[m])
  BY <1>1, WalkIs
<1>4. d.collection[m] \in Seq(Lookup \cup MenuRef) \cup {None}
  BY ElementOf
<1>5. /\ d.collection[m] \in Seq(Lookup \cup MenuRef)
      /\ d.collection[m] # None /\ d.collection[m] # <<>>
      /\ \A i \in 1..Len(d.collection[m]) :
           Abs!ChildFault(d, Abs!Walk(d)[n - 1], d.collection[m][i]) = None
      /\ Abs!Walk(d)[n][m].refs = RefsFor(Abs!Walk(d)[n - 1], d.collection[m])
  <2> DEFINE called == Abs!Walk(d)[n - 1]
             children == d.collection[m]
             X == Lookup \cup MenuRef
  <2>1. children \in Seq(X) \cup {None}
        /\ Abs!MenuCall(d, called, children).fault = None
        /\ Abs!Walk(d)[n][m].refs = Abs!MenuCall(d, called, children).refs
    BY <1>3, <1>4
  <2> HIDE DEF called, children, X
  <2>2. IsFine(d, called, children, X)
    BY <2>1, CallIsFine
  <2> QED BY <2>1, <2>2 DEF called, children, X, IsFine
<1>6. DOMAIN d.collection[m] = 1..Len(d.collection[m])
  BY <1>5, LenProperties
<1> QED BY <1>1, <1>2, <1>5, <1>6

\* A child that no exception leaves, among calls that agree on such children.
LEMMA ChildElsewhere ==
  ASSUME NEW d, NEW called, NEW other, NEW child, Abs!ChildFault(d, called, child) = None,
         isMenuRef(child) /\ called[child.menu].fault = None => other[child.menu] = called[child.menu]
  PROVE  /\ Abs!ChildFault(d, other, child) = None
         /\ Abs!ChildRef(other, child) = Abs!ChildRef(called, child)
<1>1. isMenuRef(child) => other[child.menu] = called[child.menu]
  BY ChildFaultIs
<1> QED BY <1>1, ChildFaultIs, ChildRefIs

LEMMA ChildrenOf ==
  ASSUME NEW children \in Seq(Lookup \cup MenuRef), NEW i \in 1..Len(children)
  PROVE  /\ children[i] \in Lookup \cup MenuRef
         /\ isMenuRef(children[i]) => children[i] \in MenuRef /\ children[i].menu \in MenuIds
<1>1. children[i] \in Lookup \cup MenuRef
  BY ElementOfSeq
<1> QED BY <1>1, LookupsAreNoMenuRefs

\* More room on the stack changes nothing about a call that no exception leaves.
LEMMA RoomToSpare ==
  ASSUME NEW d \in Document
  PROVE  \A n \in 0..StackLimit - 1 : \A m \in MenuIds :
           Abs!Walk(d)[n][m].fault = None => Abs!Walk(d)[n + 1][m] = Abs!Walk(d)[n][m]
<1> DEFINE W == Abs!Walk(d)
           Same(n) == \A m \in MenuIds : W[n][m].fault = None => W[n + 1][m] = W[n][m]
           Bad == {n \in 0..StackLimit - 1 : ~Same(n)}
<1>1. Bad = {}
  <2> SUFFICES ASSUME Bad # {} PROVE FALSE
    OBVIOUS
  <2>1. PICK n \in Bad : \A k \in Bad : n <= k
    <3> Bad \in SUBSET Nat
      BY StackLimitAssumption
    <3> HIDE DEF Bad
    <3> QED BY LeastElement
  <2>2. PICK m \in MenuIds : W[n][m].fault = None /\ W[n + 1][m] # W[n][m]
    BY <2>1
  <2> DEFINE children == d.collection[m]
  <2>3. n \in 0..StackLimit /\ n + 1 \in 0..StackLimit /\ n + 1 # 0 /\ (n + 1) - 1 = n
    BY <2>1, StackLimitAssumption
  <2>4. /\ n # 0 /\ n - 1 \in 0..StackLimit
        /\ children \in Seq(Lookup \cup MenuRef) /\ children # None /\ children # <<>>
        /\ \A i \in 1..Len(children) : Abs!ChildFault(d, W[n - 1], children[i]) = None
        /\ W[n][m].refs = RefsFor(W[n - 1], children)
    BY <2>2, <2>3, WalkIsFine
  <2>5. n - 1 \in 0..StackLimit - 1 /\ ~(n <= n - 1) /\ (n - 1) + 1 = n
    BY <2>3, <2>4, StackLimitAssumption
  <2>6. Same(n - 1)
    BY <2>1, <2>5
  <2>7. /\ W[n][m] = Abs!MenuCall(d, W[n - 1], children)
        /\ W[n + 1][m] = Abs!MenuCall(d, W[n], children)
    BY <2>3, <2>4, WalkIs
  <2> HIDE DEF W, Bad
  <2>8. ASSUME NEW i \in 1..Len(children)
        PROVE  /\ Abs!ChildFault(d, W[n], children[i]) = None
               /\ Abs!ChildRef(W[n], children[i]) = Abs!ChildRef(W[n - 1], children[i])
    <3>1. isMenuRef(children[i]) => children[i].menu \in MenuIds
      BY <2>4, ChildrenOf
    <3> DEFINE called == W[n - 1]
               other == W[n]
               child == children[i]
    <3>2. Abs!ChildFault(d, called, child) = None
      BY <2>4
    <3>3. isMenuRef(child) /\ called[child.menu].fault = None => other[child.menu] = called[child.menu]
      BY <2>5, <2>6, <3>1
    <3> HIDE DEF child, called, other
    <3>4. /\ Abs!ChildFault(d, other, child) = None
          /\ Abs!ChildRef(other, child) = Abs!ChildRef(called, child)
      BY <3>2, <3>3, ChildElsewhere
    <3> QED BY <3>4 DEF child, called, other
  <2> HIDE DEF children
  <2>9. /\ W[n][m] = [fault |-> None, refs |-> RefsFor(W[n - 1], children)]
        /\ W[n + 1][m] = [fault |-> None, refs |-> RefsFor(W[n], children)]
    <3> DEFINE above == W[n - 1]
               here == W[n]
    <3>1. \A i \in 1..Len(children) : /\ Abs!ChildFault(d, above, children[i]) = None
                                     /\ Abs!ChildFault(d, here, children[i]) = None
      BY <2>4, <2>8
    <3>2. children \in Seq(Lookup \cup MenuRef) /\ children # None /\ children # <<>>
      BY <2>4
    <3> HIDE DEF above, here
    <3>3. Abs!MenuCall(d, above, children) =
            [fault |-> None, refs |-> RefsFor(above, children)]
      BY <3>1, <3>2, CallSucceeds
    <3>4. Abs!MenuCall(d, here, children) =
            [fault |-> None, refs |-> RefsFor(here, children)]
      BY <3>1, <3>2, CallSucceeds
    <3> QED BY <2>7, <3>3, <3>4 DEF above, here
  <2>10. RefsFor(W[n - 1], children)
           = RefsFor(W[n], children)
    BY <2>8 DEF RefsFor
  <2> QED BY <2>2, <2>9, <2>10
<1> QED BY <1>1

\* Decoded is a solution of decodeMenu's recursion for the menus no exception leaves.
LEMMA DecodedIsFine ==
  ASSUME NEW d \in Document, NEW m \in MenuIds, Abs!Decoded(d)[m].fault = None
  PROVE  LET children == d.collection[m]
         IN /\ children \in Seq(Lookup \cup MenuRef) /\ children # None /\ children # <<>>
            /\ DOMAIN children = 1..Len(children)
            /\ \A i \in 1..Len(children) : Abs!ChildFault(d, Abs!Decoded(d), children[i]) = None
            /\ Abs!Decoded(d)[m].refs =
                 RefsFor(Abs!Decoded(d), children)
<1> DEFINE W == Abs!Walk(d)
           children == d.collection[m]
           before == StackLimit - 1
<1>1. /\ StackLimit \in 0..StackLimit /\ before \in 0..StackLimit - 1 /\ before + 1 = StackLimit
  BY StackLimitAssumption
<1>2. W[StackLimit][m].fault = None
  BY DEF Abs!Decoded
<1>3. /\ children \in Seq(Lookup \cup MenuRef) /\ children # None /\ children # <<>>
      /\ DOMAIN children = 1..Len(children)
      /\ \A i \in 1..Len(children) : Abs!ChildFault(d, W[before], children[i]) = None
      /\ W[StackLimit][m].refs = RefsFor(W[before], children)
  BY <1>1, <1>2, WalkIsFine
<1>4. \A k \in MenuIds : W[before][k].fault = None => W[StackLimit][k] = W[before][k]
  <2>1. \A k \in MenuIds : W[before][k].fault = None => W[before + 1][k] = W[before][k]
    BY <1>1, RoomToSpare
  <2> QED BY <1>1, <2>1
<1> HIDE DEF W, before
<1>5. ASSUME NEW i \in 1..Len(children)
      PROVE  /\ Abs!ChildFault(d, W[StackLimit], children[i]) = None
             /\ Abs!ChildRef(W[StackLimit], children[i]) = Abs!ChildRef(W[before], children[i])
  <2>1. isMenuRef(children[i]) => children[i].menu \in MenuIds
    BY <1>3, ChildrenOf
  <2>2. Abs!ChildFault(d, W[before], children[i]) = None
    BY <1>3
  <2>3. isMenuRef(children[i]) /\ W[before][children[i].menu].fault = None
          => W[StackLimit][children[i].menu] = W[before][children[i].menu]
    BY <1>4, <2>1
  <2> HIDE DEF children
  <2> QED BY <2>2, <2>3, ChildElsewhere
<1> HIDE DEF children
<1>6. W[StackLimit][m].refs = RefsFor(W[StackLimit], children)
  BY <1>3, <1>5 DEF RefsFor
<1> QED BY <1>3, <1>5, <1>6 DEF W, children, Abs!Decoded

---------------------------------------------------------------------------
(* The trees of the Menu objects. *)

\* The menus that decode, the Menu objects for them, and all references to be found in those.
Decodable(d) == {m \in MenuIds : Abs!Decoded(d)[m].fault = None}
DecodedMenus(d) ==
  {Menu(m, c, Abs!Decoded(d)[m].refs) : m \in Decodable(d), c \in VarIds \cup {None}}
DecodedRefs(d) == DecodedMenus(d) \cup [variable : VarIds \cup {None}]

\* The menus at and below one reference, and below several, in document order.
Tree(d, ref) == IF isMenu(ref) THEN <<ref>> \o Abs!Below(d)[ref.id] ELSE <<>>
Preorder(d, refs) == FlattenSeq([i \in 1..Len(refs) |-> Tree(d, refs[i])])

LEMMA DecodedMenu ==
  ASSUME NEW d, NEW menu \in DecodedMenus(d)
  PROVE  /\ isMenu(menu) /\ menu.id \in Decodable(d)
         /\ menu.refs = Abs!Decoded(d)[menu.id].refs
<1>1. PICK m \in Decodable(d), c \in VarIds \cup {None} : menu = Menu(m, c, Abs!Decoded(d)[m].refs)
  BY DEF DecodedMenus
<1>2. menu = [id |-> m, condition |-> c, refs |-> Abs!Decoded(d)[m].refs]
  BY <1>1 DEF Menu
<1> HIDE DEF Decodable
<1> QED BY <1>1, <1>2 DEF isMenu

LEMMA DecodedRef ==
  ASSUME NEW d, NEW ref \in DecodedRefs(d)
  PROVE  isMenu(ref) => ref \in DecodedMenus(d)
BY DEF DecodedRefs, isMenu

LEMMA FineForever ==
  ASSUME NEW d \in Document, NEW n \in 0..StackLimit, NEW m \in MenuIds,
         Abs!Walk(d)[n][m].fault = None
  PROVE  Abs!Decoded(d)[m] = Abs!Walk(d)[n][m]
<1> DEFINE W == Abs!Walk(d)
           Bad == {k \in n..StackLimit : W[k][m] # W[n][m]}
<1>1. Bad = {}
  <2> SUFFICES ASSUME Bad # {} PROVE FALSE
    OBVIOUS
  <2>1. PICK k \in Bad : \A j \in Bad : k <= j
    <3> Bad \in SUBSET Nat
      BY StackLimitAssumption
    <3> HIDE DEF Bad
    <3> QED BY LeastElement
  <2>2. k # n
    BY <2>1
  <2>3. k - 1 \in n..StackLimit /\ k - 1 \in 0..StackLimit - 1 /\ ~(k <= k - 1) /\ (k - 1) + 1 = k
    BY <2>1, <2>2, StackLimitAssumption
  <2>4. W[k - 1][m] = W[n][m]
    BY <2>1, <2>3
  <2>5. W[(k - 1) + 1][m] = W[k - 1][m]
    BY <2>3, <2>4, RoomToSpare
  <2> QED BY <2>1, <2>3, <2>4, <2>5
<1>2. StackLimit \in n..StackLimit
  BY StackLimitAssumption
<1> QED BY <1>1, <1>2 DEF Abs!Decoded

LEMMA ConditionType ==
  ASSUME NEW child \in MenuRef
  PROVE  Condition(child) \in VarIds \cup {None}
BY DEF MenuRef, Lookup, Condition

\* A child that decodes, as a reference.
LEMMA ChildRefType ==
  ASSUME NEW d \in Document, NEW child \in Lookup \cup MenuRef,
         Abs!ChildFault(d, Abs!Decoded(d), child) = None
  PROVE  LET ref == Abs!ChildRef(Abs!Decoded(d), child)
         IN /\ ref \in DecodedRefs(d)
            /\ isMenu(ref) <=> isMenuRef(child)
            /\ isMenuRef(child) => ref.id = child.menu /\ ref \in DecodedMenus(d)
<1> DEFINE ref == Abs!ChildRef(Abs!Decoded(d), child)
<1>1. CASE isMenuRef(child)
  <2>1. ref = Menu(child.menu, Condition(child), Abs!Decoded(d)[child.menu].refs)
    BY <1>1, ChildRefIs
  <2>2. child \in MenuRef /\ child.menu \in MenuIds
    BY <1>1, LookupsAreNoMenuRefs
  <2>3. child.menu \in Decodable(d)
    <3>1. Abs!Decoded(d)[child.menu].fault = None
      BY <1>1, ChildFaultIs
    <3> QED BY <2>2, <3>1 DEF Decodable
  <2>4. ref \in DecodedMenus(d)
    <3>1. Condition(child) \in VarIds \cup {None}
      BY <2>2, ConditionType
    <3> HIDE DEF ref
    <3> QED BY <2>1, <2>3, <3>1 DEF DecodedMenus
  <2>5. isMenu(ref) /\ ref.id = child.menu
    <3>1. ref = [id |-> child.menu, condition |-> Condition(child), refs |-> Abs!Decoded(d)[child.menu].refs]
      BY <2>1 DEF Menu
    <3> HIDE DEF ref
    <3> QED BY <3>1 DEF isMenu
  <2> QED BY <1>1, <2>4, <2>5 DEF DecodedRefs
<1>2. CASE ~isMenuRef(child)
  <2>1. ref = [variable |-> child.variable]
    BY <1>2, ChildRefIs DEF Leaf
  <2>2. child \in Lookup
    BY <1>2 DEF isMenuRef, MenuRef
  <2>3. child.variable \in VarIds \cup {None}
    BY <2>2 DEF Lookup
  <2> HIDE DEF ref
  <2>4. ~isMenu(ref)
    BY <2>1 DEF isMenu
  <2>5. ref \in DecodedRefs(d)
    BY <2>1, <2>3 DEF DecodedRefs
  <2> QED BY <1>2, <2>4, <2>5 DEF ref
<1> QED BY <1>1, <1>2

LEMMA DecodedRefsType ==
  ASSUME NEW d \in Document, NEW m \in Decodable(d)
  PROVE  Abs!Decoded(d)[m].refs \in Seq(DecodedRefs(d))
<1> DEFINE children == d.collection[m]
           called == Abs!Decoded(d)
           n == Len(children)
<1>1. m \in MenuIds /\ called[m].fault = None
  BY DEF Decodable
<1>2. /\ children \in Seq(Lookup \cup MenuRef)
      /\ \A i \in 1..n : Abs!ChildFault(d, called, children[i]) = None
      /\ called[m].refs = RefsFor(called, children)
  BY <1>1, DecodedIsFine
<1>3. ASSUME NEW i \in 1..n PROVE Abs!ChildRef(called, children[i]) \in DecodedRefs(d)
  <2>1. children[i] \in Lookup \cup MenuRef /\ Abs!ChildFault(d, called, children[i]) = None
    BY <1>2, ChildrenOf
  <2> HIDE DEF children
  <2> QED BY <2>1, ChildRefType
<1>4. n \in Nat
  BY <1>2, LenProperties
<1> HIDE DEF children, called, n
<1>5. [i \in 1..n |-> Abs!ChildRef(called, children[i])] \in [1..n -> DecodedRefs(d)]
  BY <1>3
<1>6. [i \in 1..n |-> Abs!ChildRef(called, children[i])] \in Seq(DecodedRefs(d))
  BY <1>4, <1>5, SeqDef
<1> QED BY <1>2, <1>6 DEF RefsFor, called, n

LEMMA SubtreeType ==
  ASSUME NEW d \in Document, NEW child \in Lookup \cup MenuRef, NEW below,
         Abs!ChildFault(d, Abs!Decoded(d), child) = None,
         isMenuRef(child) => below[child.menu] \in Seq(DecodedMenus(d))
  PROVE  Subtree(d, below, child) \in Seq(DecodedMenus(d))
<1> DEFINE ref == Abs!ChildRef(Abs!Decoded(d), child)
<1>1. CASE isMenuRef(child)
  <2>1. ref \in DecodedMenus(d)
    BY <1>1, ChildRefType
  <2>2. Subtree(d, below, child) = <<ref>> \o below[child.menu]
    BY <1>1, SameNames DEF Subtree
  <2> HIDE DEF ref
  <2>3. <<ref>> \in Seq(DecodedMenus(d))
    BY <2>1
  <2> QED BY <1>1, <2>2, <2>3, ConcatProperties
<1>2. CASE ~isMenuRef(child)
  <2>1. Subtree(d, below, child) = <<>>
    BY <1>2, SameNames DEF Subtree
  <2> QED BY <2>1, EmptySeq
<1> QED BY <1>1, <1>2

LEMMA BelowIs ==
  ASSUME NEW d, NEW n \in 1..StackLimit, NEW m \in MenuIds
  PROVE  Table("Below", d)[n][m] =
           FlattenSeq([i \in DOMAIN d.collection[m] |->
                         Subtree(d, Table("Below", d)[n - 1], d.collection[m][i])])
<1>1. n \in 0..StackLimit /\ n # 0
  BY StackLimitAssumption
<1>2. Table("Below", d)[n] = Row("Below", d, Table("Below", d), n)
  BY <1>1, TableIsDefined
<1> QED BY <1>1, <1>2, SameNames DEF Row

\* A menu that decodes with room for n calls has all the menus below it in row n.
BelowIn(d, n) ==
  \A m \in MenuIds : Abs!Walk(d)[n][m].fault = None =>
    /\ Table("Below", d)[n][m] \in Seq(DecodedMenus(d))
    /\ n < StackLimit => Table("Below", d)[n + 1][m] = Table("Below", d)[n][m]

LEMMA BelowStep ==
  ASSUME NEW d \in Document, NEW n \in 1..StackLimit, BelowIn(d, n - 1)
  PROVE  BelowIn(d, n)
<1> DEFINE W == Abs!Walk(d)
           B == Table("Below", d)
<1> SUFFICES ASSUME NEW m \in MenuIds, W[n][m].fault = None
             PROVE  /\ B[n][m] \in Seq(DecodedMenus(d))
                    /\ n < StackLimit => B[n + 1][m] = B[n][m]
  BY DEF BelowIn
<1> DEFINE children == d.collection[m]
           called == W[n - 1]
           decoded == Abs!Decoded(d)
<1>1. n \in 0..StackLimit /\ n - 1 \in 0..StackLimit /\ n - 1 < StackLimit /\ (n - 1) + 1 = n
  BY StackLimitAssumption
<1>2. /\ children \in Seq(Lookup \cup MenuRef)
      /\ DOMAIN children = 1..Len(children) /\ Len(children) \in Nat
      /\ \A i \in 1..Len(children) : Abs!ChildFault(d, called, children[i]) = None
  BY <1>1, WalkIsFine, LenProperties
<1>3. \A k \in MenuIds : called[k].fault = None => decoded[k] = called[k]
  BY <1>1, FineForever
<1>4. \A k \in MenuIds : called[k].fault = None =>
        B[n - 1][k] \in Seq(DecodedMenus(d)) /\ B[n][k] = B[n - 1][k]
  BY <1>1 DEF BelowIn
<1> HIDE DEF called, decoded
<1>5. ASSUME NEW i \in 1..Len(children)
      PROVE  /\ Subtree(d, B[n - 1], children[i]) \in Seq(DecodedMenus(d))
             /\ Subtree(d, B[n], children[i]) = Subtree(d, B[n - 1], children[i])
  <2> DEFINE child == children[i]
  <2>1. child \in Lookup \cup MenuRef /\ (isMenuRef(child) => child.menu \in MenuIds)
    BY <1>2, ChildrenOf
  <2>2. Abs!ChildFault(d, called, child) = None
    BY <1>2
  <2> HIDE DEF child, children, B
  <2>3. isMenuRef(child) => called[child.menu].fault = None
    BY <2>2, ChildFaultIs
  <2>4. isMenuRef(child) => decoded[child.menu] = called[child.menu]
    BY <1>3, <2>1, <2>3
  <2>5. isMenuRef(child) => B[n - 1][child.menu] \in Seq(DecodedMenus(d))
    BY <1>4, <2>1, <2>3
  <2>6. isMenuRef(child) => B[n][child.menu] = B[n - 1][child.menu]
    BY <1>4, <2>1, <2>3
  <2>7. Abs!ChildFault(d, decoded, child) = None
    BY <2>2, <2>4, ChildElsewhere
  <2>8. Subtree(d, B[n - 1], child) \in Seq(DecodedMenus(d))
    <3> DEFINE below == B[n - 1]
    <3>1. isMenuRef(child) => below[child.menu] \in Seq(DecodedMenus(d))
      BY <2>5
    <3> HIDE DEF below
    <3>2. Subtree(d, below, child) \in Seq(DecodedMenus(d))
      BY <2>1, <2>7, <3>1, SubtreeType DEF decoded
    <3> QED BY <3>2 DEF below
  <2>9. Subtree(d, B[n], child) = Subtree(d, B[n - 1], child)
    BY <2>6, SameNames DEF Subtree
  <2> QED BY <2>8, <2>9 DEF child
<1>6. B[n][m] = FlattenSeq([i \in 1..Len(children) |-> Subtree(d, B[n - 1], children[i])])
  BY <1>2, BelowIs
<1>7. B[n][m] \in Seq(DecodedMenus(d))
  <2> DEFINE pieces == [i \in 1..Len(children) |-> Subtree(d, B[n - 1], children[i])]
             Y == Seq(DecodedMenus(d))
  <2>1. pieces \in [1..Len(children) -> Y]
    BY <1>5
  <2>2. pieces \in Seq(Y)
    <3> HIDE DEF pieces, Y
    <3> QED BY <1>2, <2>1, SeqDef
  <2>3. B[n][m] = FlattenSeq(pieces)
    BY <1>6
  <2> HIDE DEF pieces
  <2> QED BY <2>2, <2>3, FlattenType
<1>8. ASSUME n < StackLimit PROVE B[n + 1][m] = B[n][m]
  <2> DEFINE k == n + 1
  <2>1. k \in 1..StackLimit /\ k - 1 = n
    BY <1>8, StackLimitAssumption
  <2> HIDE DEF k
  <2>2. B[k][m] = FlattenSeq([i \in 1..Len(children) |-> Subtree(d, B[k - 1], children[i])])
    BY <1>2, <2>1, BelowIs
  <2>3. [i \in 1..Len(children) |-> Subtree(d, B[n], children[i])]
          = [i \in 1..Len(children) |-> Subtree(d, B[n - 1], children[i])]
    BY <1>5
  <2> HIDE DEF B, children
  <2>4. B[k][m] = B[n][m]
    BY <1>6, <2>1, <2>2, <2>3
  <2> QED BY <2>4 DEF k
<1> QED BY <1>7, <1>8

LEMMA BelowInAll ==
  ASSUME NEW d \in Document, NEW n \in 0..StackLimit
  PROVE  BelowIn(d, n)
<1> DEFINE Bad == {k \in 0..StackLimit : ~BelowIn(d, k)}
<1>1. Bad = {}
  <2> SUFFICES ASSUME Bad # {} PROVE FALSE
    OBVIOUS
  <2>1. PICK k \in Bad : \A j \in Bad : k <= j
    <3> Bad \in SUBSET Nat
      BY StackLimitAssumption
    <3> HIDE DEF Bad
    <3> QED BY LeastElement
  <2>2. CASE k = 0
    <3>1. BelowIn(d, 0)
      BY NoRoom, MenuNoneAssumption DEF BelowIn
    <3> QED BY <2>1, <2>2, <3>1
  <2>3. CASE k # 0
    <3>1. k \in 1..StackLimit /\ k - 1 \in 0..StackLimit /\ ~(k <= k - 1)
      BY <2>1, <2>3, StackLimitAssumption
    <3>2. BelowIn(d, k - 1)
      BY <2>1, <3>1
    <3>3. BelowIn(d, k)
      <4> HIDE DEF Bad
      <4> QED BY <3>1, <3>2, BelowStep
    <3> QED BY <2>1, <3>3
  <2> QED BY <2>2, <2>3
<1> QED BY <1>1

\* Below a menu that decodes are the trees of its references.
LEMMA BelowIsPreorder ==
  ASSUME NEW d \in Document, NEW m \in Decodable(d)
  PROVE  /\ Abs!Below(d)[m] \in Seq(DecodedMenus(d))
         /\ Abs!Below(d)[m] = Preorder(d, Abs!Decoded(d)[m].refs)
<1> DEFINE B == Table("Below", d)
           children == d.collection[m]
           before == StackLimit - 1
           called == Abs!Walk(d)[before]
           decoded == Abs!Decoded(d)
<1>1. /\ m \in MenuIds /\ StackLimit \in 1..StackLimit /\ StackLimit \in 0..StackLimit
      /\ before \in 0..StackLimit /\ before < StackLimit /\ before + 1 = StackLimit
  BY StackLimitAssumption DEF Decodable
<1>2. Abs!Walk(d)[StackLimit][m].fault = None
  BY DEF Decodable, Abs!Decoded
<1>3. /\ children \in Seq(Lookup \cup MenuRef)
      /\ DOMAIN children = 1..Len(children) /\ Len(children) \in Nat
      /\ \A i \in 1..Len(children) : Abs!ChildFault(d, called, children[i]) = None
  BY <1>1, <1>2, WalkIsFine, LenProperties
<1>4. /\ \A i \in 1..Len(children) : Abs!ChildFault(d, decoded, children[i]) = None
      /\ decoded[m].refs = RefsFor(decoded, children)
  BY <1>1, DecodedIsFine DEF Decodable
<1>5. Abs!Below(d) = B[StackLimit] /\ BelowIn(d, before) /\ BelowIn(d, StackLimit)
  BY <1>1, TablesAre, BelowInAll
<1>6. Abs!Below(d)[m] \in Seq(DecodedMenus(d))
  BY <1>1, <1>2, <1>5 DEF BelowIn
<1>7. \A k \in MenuIds : called[k].fault = None => B[StackLimit][k] = B[before][k]
  BY <1>1, <1>5 DEF BelowIn
<1>8. B[StackLimit][m] = FlattenSeq([i \in 1..Len(children) |-> Subtree(d, B[before], children[i])])
  BY <1>1, <1>3, BelowIs
<1> HIDE DEF called, decoded, before
<1>9. Len(decoded[m].refs) = Len(children)
  BY <1>3, <1>4 DEF RefsFor
<1>10. ASSUME NEW i \in 1..Len(children)
       PROVE  Tree(d, decoded[m].refs[i]) = Subtree(d, B[before], children[i])
  <2> DEFINE child == children[i]
             ref == Abs!ChildRef(decoded, child)
  <2>1. child \in Lookup \cup MenuRef /\ (isMenuRef(child) => child.menu \in MenuIds)
    BY <1>3, ChildrenOf
  <2>2. Abs!ChildFault(d, called, child) = None /\ Abs!ChildFault(d, decoded, child) = None
    BY <1>3, <1>4
  <2>3. decoded[m].refs[i] = ref
    BY <1>4 DEF RefsFor
  <2> HIDE DEF child, children, B
  <2>4. /\ isMenu(ref) <=> isMenuRef(child)
        /\ isMenuRef(child) => ref.id = child.menu
    BY <2>1, <2>2, ChildRefType DEF decoded
  <2>5. isMenuRef(child) => B[StackLimit][child.menu] = B[before][child.menu]
    <3>1. isMenuRef(child) => called[child.menu].fault = None
      BY <2>2, ChildFaultIs
    <3> QED BY <1>7, <2>1, <3>1
  <2>6. Subtree(d, B[before], child) = IF isMenuRef(child) THEN <<ref>> \o B[before][child.menu] ELSE <<>>
    BY SameNames DEF Subtree, decoded
  <2>7. Tree(d, ref) = IF isMenu(ref) THEN <<ref>> \o B[StackLimit][ref.id] ELSE <<>>
    BY <1>5 DEF Tree
  <2> HIDE DEF ref
  <2>8. Tree(d, ref) = Subtree(d, B[before], child)
    BY <2>4, <2>5, <2>6, <2>7
  <2> QED BY <2>3, <2>8 DEF child
<1>11. [i \in 1..Len(children) |-> Tree(d, decoded[m].refs[i])]
         = [i \in 1..Len(children) |-> Subtree(d, B[before], children[i])]
  BY <1>10
<1>12. Preorder(d, decoded[m].refs) = FlattenSeq([i \in 1..Len(children) |-> Tree(d, decoded[m].refs[i])])
  BY <1>9 DEF Preorder
<1> HIDE DEF B, children
<1>13. Preorder(d, decoded[m].refs) = B[StackLimit][m]
  BY <1>8, <1>11, <1>12
<1> QED BY <1>5, <1>6, <1>13 DEF decoded

LEMMA SameOrders ==
  /\ Abs!RoleOrder = RoleOrder /\ Abs!EntryOrder = EntryOrder
  /\ Abs!UserRoles = UserRoles /\ Abs!Entries = Entries
<1>1. Abs!RoleOrder = RoleOrder /\ Abs!EntryOrder = EntryOrder
  BY DEF Abs!RoleOrder, RoleOrder, Abs!EntryOrder, EntryOrder
<1> QED BY <1>1 DEF Abs!UserRoles, UserRoles, Abs!Entries, Entries

LEMMA TreeType ==
  ASSUME NEW d \in Document, NEW ref \in DecodedRefs(d)
  PROVE  /\ Tree(d, ref) \in Seq(DecodedMenus(d))
         /\ isMenu(ref) => Tree(d, ref) = <<ref>> \o Preorder(d, ref.refs)
         /\ ~isMenu(ref) => Tree(d, ref) = <<>>
<1>1. CASE isMenu(ref)
  <2>1. ref \in DecodedMenus(d)
    BY <1>1, DecodedRef
  <2>2. ref.id \in Decodable(d) /\ ref.refs = Abs!Decoded(d)[ref.id].refs
    BY <2>1, DecodedMenu
  <2>3. Abs!Below(d)[ref.id] \in Seq(DecodedMenus(d)) /\ Abs!Below(d)[ref.id] = Preorder(d, ref.refs)
    BY <2>2, BelowIsPreorder
  <2>4. <<ref>> \in Seq(DecodedMenus(d))
    BY <2>1
  <2>5. Tree(d, ref) = <<ref>> \o Abs!Below(d)[ref.id]
    BY <1>1 DEF Tree
  <2> QED BY <1>1, <2>3, <2>4, <2>5, ConcatProperties
<1>2. CASE ~isMenu(ref)
  BY <1>2, EmptySeq DEF Tree
<1> QED BY <1>1, <1>2

\* The trees of references, one by one.
LEMMA TreesType ==
  ASSUME NEW d \in Document, NEW refs \in Seq(DecodedRefs(d))
  PROVE  [i \in 1..Len(refs) |-> Tree(d, refs[i])] \in Seq(Seq(DecodedMenus(d)))
<1> DEFINE Y == Seq(DecodedMenus(d))
           trees == [i \in 1..Len(refs) |-> Tree(d, refs[i])]
<1>1. \A i \in 1..Len(refs) : refs[i] \in DecodedRefs(d)
  BY ElementOfSeq
<1>2. \A i \in 1..Len(refs) : Tree(d, refs[i]) \in Y
  BY <1>1, TreeType
<1>3. trees \in [1..Len(refs) -> Y] /\ Len(refs) \in Nat
  BY <1>2, LenProperties
<1> HIDE DEF trees, Y
<1>4. trees \in Seq(Y)
  BY <1>3, SeqDef
<1> QED BY <1>4 DEF trees, Y

LEMMA PreorderType ==
  ASSUME NEW d \in Document, NEW refs \in Seq(DecodedRefs(d))
  PROVE  Preorder(d, refs) \in Seq(DecodedMenus(d))
<1> DEFINE trees == [i \in 1..Len(refs) |-> Tree(d, refs[i])]
<1>1. trees \in Seq(Seq(DecodedMenus(d)))
  BY TreesType
<1>2. Preorder(d, refs) = FlattenSeq(trees)
  BY DEF Preorder
<1> HIDE DEF trees
<1> QED BY <1>1, <1>2, FlattenType

LEMMA PreorderConcat ==
  ASSUME NEW d \in Document, NEW s \in Seq(DecodedRefs(d)), NEW t \in Seq(DecodedRefs(d))
  PROVE  Preorder(d, s \o t) = Preorder(d, s) \o Preorder(d, t)
<1> DEFINE trees(refs) == [i \in 1..Len(refs) |-> Tree(d, refs[i])]
           Y == Seq(DecodedMenus(d))
           both == s \o t
<1>1. /\ both \in Seq(DecodedRefs(d)) /\ Len(both) = Len(s) + Len(t)
      /\ \A i \in 1..Len(s) + Len(t) : both[i] = IF i <= Len(s) THEN s[i] ELSE t[i - Len(s)]
  BY ConcatProperties
<1>2. Len(s) \in Nat /\ Len(t) \in Nat
  BY LenProperties
<1> HIDE DEF both
<1>3. /\ trees(s) \in Seq(Y) /\ trees(t) \in Seq(Y) /\ trees(both) \in Seq(Y)
      /\ Len(trees(s)) = Len(s) /\ Len(trees(t)) = Len(t) /\ Len(trees(both)) = Len(both)
  <2>1. \A refs \in Seq(DecodedRefs(d)) : trees(refs) \in Seq(Y)
    BY TreesType
  <2>2. \A refs : Len(refs) \in Nat => Len(trees(refs)) = Len(refs)
    OBVIOUS
  <2>3. Len(both) \in Nat
    BY <1>1, <1>2
  <2> HIDE DEF trees, Y
  <2> QED BY <1>1, <1>2, <2>1, <2>2, <2>3
<1>4. trees(both) = trees(s) \o trees(t)
  <2> DEFINE ts == trees(s)
             tt == trees(t)
             tb == trees(both)
             ns == Len(s)
             nt == Len(t)
  <2>1. \A i \in 1..ns : ts[i] = Tree(d, s[i])
    OBVIOUS
  <2>2. \A i \in 1..nt : tt[i] = Tree(d, t[i])
    OBVIOUS
  <2>3. \A i \in 1..ns + nt : tb[i] = Tree(d, both[i])
    BY <1>1
  <2>4. ts \in Seq(Y) /\ tt \in Seq(Y) /\ tb \in Seq(Y) /\ Len(ts) = ns /\ Len(tt) = nt /\ Len(tb) = ns + nt
    BY <1>1, <1>3
  <2>5. ns \in Nat /\ nt \in Nat
    BY <1>2
  <2>6. \A i \in 1..ns + nt : both[i] = IF i <= ns THEN s[i] ELSE t[i - ns]
    BY <1>1
  <2> HIDE DEF ts, tt, tb, ns, nt, Y
  <2>7. /\ ts \o tt \in Seq(Y) /\ Len(ts \o tt) = ns + nt
        /\ \A i \in 1..ns + nt : (ts \o tt)[i] = IF i <= ns THEN ts[i] ELSE tt[i - ns]
    BY <2>4, ConcatProperties
  <2>8. ASSUME NEW i \in 1..ns + nt PROVE tb[i] = (ts \o tt)[i]
    <3>1. CASE i <= ns
      <4>1. i \in 1..ns
        BY <2>5, <3>1
      <4> QED BY <2>1, <2>3, <2>6, <2>7, <3>1, <4>1
    <3>2. CASE ~(i <= ns)
      <4>1. i - ns \in 1..nt
        BY <2>5, <3>2
      <4> QED BY <2>2, <2>3, <2>6, <2>7, <3>2, <4>1
    <3> QED BY <3>1, <3>2
  <2>9. tb = ts \o tt
    BY <2>4, <2>7, <2>8, SeqEqual
  <2> QED BY <2>9 DEF tb, ts, tt
<1>5. FlattenSeq(trees(s) \o trees(t)) = FlattenSeq(trees(s)) \o FlattenSeq(trees(t))
  <2> DEFINE ts == trees(s)
             tt == trees(t)
  <2>1. ts \in Seq(Seq(DecodedMenus(d))) /\ tt \in Seq(Seq(DecodedMenus(d)))
    BY <1>3
  <2> HIDE DEF ts, tt
  <2>2. FlattenSeq(ts \o tt) = FlattenSeq(ts) \o FlattenSeq(tt)
    BY <2>1, FlattenConcat
  <2> QED BY <2>2 DEF ts, tt
<1> QED BY <1>4, <1>5 DEF Preorder, both

LEMMA PreorderNothing ==
  ASSUME NEW d
  PROVE  Preorder(d, <<>>) = <<>>
<1>1. [i \in 1..Len(<<>>) |-> Tree(d, <<>>[i])] = <<>>
  OBVIOUS
<1> QED BY <1>1, FlattenNothing DEF Preorder

LEMMA PreorderOne ==
  ASSUME NEW d \in Document, NEW ref \in DecodedRefs(d)
  PROVE  Preorder(d, <<ref>>) = Tree(d, ref)
<1> DEFINE one == <<ref>>
           tree == Tree(d, ref)
<1>1. Len(one) = 1 /\ one[1] = ref
  OBVIOUS
<1>2. tree \in Seq(DecodedMenus(d))
  BY TreeType
<1> HIDE DEF one
<1>3. [i \in 1..Len(one) |-> Tree(d, one[i])] = <<tree>>
  BY <1>1
<1> HIDE DEF tree
<1>4. FlattenSeq(<<tree>>) = tree
  BY <1>2, FlattenOne
<1> QED BY <1>3, <1>4 DEF Preorder, one, tree

\* The first reference, and what comes after it.
LEMMA PreorderHead ==
  ASSUME NEW d \in Document, NEW refs \in Seq(DecodedRefs(d)), refs # <<>>
  PROVE  /\ Head(refs) \in DecodedRefs(d) /\ Tail(refs) \in Seq(DecodedRefs(d))
         /\ Preorder(d, refs) = Tree(d, Head(refs)) \o Preorder(d, Tail(refs))
<1> DEFINE head == Head(refs)
           tail == Tail(refs)
           one == <<head>>
<1>1. head \in DecodedRefs(d) /\ tail \in Seq(DecodedRefs(d))
  BY HeadTailProperties
<1>2. refs = one \o tail
  BY HeadTailProperties
<1>3. one \in Seq(DecodedRefs(d)) /\ Preorder(d, one) = Tree(d, head)
  BY <1>1, PreorderOne
<1> HIDE DEF head, tail, one
<1>4. Preorder(d, one \o tail) = Preorder(d, one) \o Preorder(d, tail)
  BY <1>1, <1>3, PreorderConcat
<1> QED BY <1>1, <1>2, <1>3, <1>4 DEF head, tail

---------------------------------------------------------------------------
(* The index. *)

LEMMA FirstByIdNothing ==
  Abs!FirstById(<<>>) = Empty
BY DEF Abs!FirstById, Empty

LEMMA FirstByIdGrows ==
  ASSUME NEW X, NEW all \in Seq(X), NEW menu \in X
  PROVE  Abs!FirstById(Append(all, menu)) = emplace(Abs!FirstById(all), menu.id, menu)
<1> DEFINE more == Append(all, menu)
           n == Len(all)
           old(id) == {i \in DOMAIN all : all[i].id = id}
           new(id) == {i \in DOMAIN more : more[i].id = id}
           ids == {all[i].id : i \in DOMAIN all}
           first == Abs!FirstById(all)
<1>1. /\ n \in Nat /\ DOMAIN all = 1..n /\ DOMAIN more = 1..n + 1
      /\ \A i \in 1..n : more[i] = all[i]
      /\ more[n + 1] = menu
  BY AppendProperties, LenProperties
<1>2. Abs!FirstById(more) = [id \in {more[i].id : i \in DOMAIN more} |-> more[FirstIn(new(id))]]
  BY SameNames DEF Abs!FirstById
<1>3. first = [id \in ids |-> all[FirstIn(old(id))]]
  BY SameNames DEF Abs!FirstById
<1> HIDE DEF more, n, first
<1>4. {more[i].id : i \in DOMAIN more} = ids \cup {menu.id}
  <2>1. ASSUME NEW x \in {more[i].id : i \in DOMAIN more} PROVE x \in ids \cup {menu.id}
    <3>1. PICK i \in 1..n + 1 : x = more[i].id
      BY <1>1
    <3>2. i \in 1..n \/ i = n + 1
      BY <1>1
    <3> QED BY <1>1, <3>1, <3>2
  <2>2. ASSUME NEW x \in ids \cup {menu.id} PROVE x \in {more[i].id : i \in DOMAIN more}
    <3>1. CASE x \in ids
      <4>1. PICK i \in 1..n : x = all[i].id
        BY <1>1, <3>1
      <4>2. i \in 1..n + 1
        BY <1>1
      <4> QED BY <1>1, <4>1, <4>2
    <3>2. CASE x = menu.id
      <4>1. n + 1 \in 1..n + 1
        BY <1>1
      <4> QED BY <1>1, <3>2, <4>1
    <3> QED BY <3>1, <3>2
  <2> QED BY <2>1, <2>2
<1>5. ASSUME NEW id \in ids PROVE more[FirstIn(new(id))] = first[id]
  <2>1. old(id) # {} /\ old(id) \in SUBSET Nat
    BY <1>1
  <2>2. PICK i \in old(id) : \A j \in old(id) : i <= j
    <3> HIDE DEF old
    <3> QED BY <2>1, LeastElement
  <2>3. FirstIn(old(id)) = i
    <3> HIDE DEF old
    <3> QED BY <2>1, <2>2, FirstIs
  <2>4. i \in new(id) /\ new(id) \in SUBSET Nat /\ i \in 1..n
    BY <1>1, <2>2
  <2>5. ASSUME NEW j \in new(id) PROVE i <= j
    <3>1. CASE j = n + 1
      BY <1>1, <2>4, <3>1
    <3>2. CASE j # n + 1
      <4>1. j \in 1..n + 1 /\ more[j].id = id
        BY <1>1
      <4>2. j \in 1..n
        BY <1>1, <3>2, <4>1
      <4> QED BY <1>1, <2>2, <4>1, <4>2
    <3> QED BY <3>1, <3>2
  <2>6. FirstIn(new(id)) = i
    <3> HIDE DEF new
    <3> QED BY <2>4, <2>5, FirstIs
  <2> QED BY <1>1, <1>3, <2>3, <2>4, <2>6
<1>6. ASSUME menu.id \notin ids PROVE more[FirstIn(new(menu.id))] = menu
  <2>1. n + 1 \in new(menu.id) /\ new(menu.id) \in SUBSET Nat
    BY <1>1
  <2>2. ASSUME NEW j \in new(menu.id) PROVE n + 1 <= j
    <3>1. j \in 1..n + 1 /\ more[j].id = menu.id
      BY <1>1
    <3>2. j \notin 1..n
      BY <1>1, <1>6, <3>1
    <3> QED BY <1>1, <3>1, <3>2
  <2>3. FirstIn(new(menu.id)) = n + 1
    <3> HIDE DEF new
    <3> QED BY <2>1, <2>2, FirstIs
  <2> QED BY <1>1, <2>3
<1> HIDE DEF old, new, ids
<1>7. ASSUME NEW id \in ids \cup {menu.id}
      PROVE  more[FirstIn(new(id))] = IF id \in ids THEN first[id] ELSE menu
  BY <1>5, <1>6
<1>8. DOMAIN first = ids
  BY <1>3
<1> QED BY <1>2, <1>4, <1>7, <1>8 DEF emplace, more, first

\* The trees of the first j entries of a role, in the order they are indexed.
EntryTree(d, r, i) ==
  LET found == Abs!RoleMenus(d, r)
      e == EntryOrder[i]
  IN IF e \in DOMAIN found THEN <<found[e]>> \o Abs!Below(d)[found[e].id] ELSE <<>>
Indexed(d, r, j) == FlattenSeq([i \in 1..j |-> EntryTree(d, r, i)])

LEMMA RoleMenusAre ==
  ASSUME NEW d \in Document, NEW r \in UserRoles, NEW e \in Entries
  PROVE  /\ e \in DOMAIN Abs!RoleMenus(d, r) <=> Abs!EntryFault(d, r, e) = None
         /\ e \in DOMAIN Abs!RoleMenus(d, r) =>
              /\ d.sets[r][e] \in Decodable(d)
              /\ Abs!RoleMenus(d, r)[e] = Menu(d.sets[r][e], None, Abs!Decoded(d)[d.sets[r][e]].refs)
              /\ Abs!RoleMenus(d, r)[e] \in DecodedMenus(d)
<1>1. Abs!RoleMenus(d, r) =
        [x \in {y \in Entries : Abs!EntryFault(d, r, y) = None} |->
           Menu(d.sets[r][x], None, Abs!Decoded(d)[d.sets[r][x]].refs)]
  BY SameNames, SameOrders DEF Abs!RoleMenus
<1>2. ASSUME Abs!EntryFault(d, r, e) = None PROVE d.sets[r][e] \in Decodable(d)
  <2>1. d.sets[r][e] # None
    BY <1>2, MenuNoneAssumption DEF Abs!EntryFault
  <2>2. d.sets[r][e] \in MenuIds
    BY <2>1 DEF Document
  <2>3. Abs!Decoded(d)[d.sets[r][e]].fault = None
    BY <1>2, <2>1 DEF Abs!EntryFault
  <2> QED BY <2>2, <2>3 DEF Decodable
<1>3. d.sets[r][e] \in Decodable(d) =>
        Menu(d.sets[r][e], None, Abs!Decoded(d)[d.sets[r][e]].refs) \in DecodedMenus(d)
  BY DEF DecodedMenus
<1> QED BY <1>1, <1>2, <1>3

LEMMA EntryTreeIs ==
  ASSUME NEW d \in Document, NEW r \in UserRoles, NEW i \in DOMAIN EntryOrder
  PROVE  LET found == Abs!RoleMenus(d, r)
             e == EntryOrder[i]
             refs == IF e \in DOMAIN found THEN <<found[e]>> ELSE <<>>
         IN /\ refs \in Seq(DecodedRefs(d))
            /\ EntryTree(d, r, i) = Preorder(d, refs)
            /\ EntryTree(d, r, i) \in Seq(DecodedMenus(d))
<1> DEFINE found == Abs!RoleMenus(d, r)
           e == EntryOrder[i]
<1>1. e \in Entries
  BY DEF Entries
<1>2. CASE e \in DOMAIN found
  <2>1. found[e] \in DecodedMenus(d) /\ found[e] \in DecodedRefs(d)
    BY <1>1, <1>2, RoleMenusAre DEF DecodedRefs
  <2> DEFINE menu == found[e]
  <2>2. EntryTree(d, r, i) = <<menu>> \o Abs!Below(d)[menu.id]
    BY <1>2 DEF EntryTree
  <2> HIDE DEF menu
  <2>3. isMenu(menu)
    BY <2>1, DecodedMenu DEF menu
  <2>4. EntryTree(d, r, i) = Tree(d, menu)
    BY <2>2, <2>3 DEF Tree
  <2>5. Preorder(d, <<menu>>) = Tree(d, menu) /\ Tree(d, menu) \in Seq(DecodedMenus(d))
    BY <2>1, PreorderOne, TreeType DEF menu
  <2>6. <<menu>> \in Seq(DecodedRefs(d))
    BY <2>1 DEF menu
  <2> QED BY <1>2, <2>4, <2>5, <2>6 DEF menu
<1>3. CASE e \notin DOMAIN found
  <2>1. EntryTree(d, r, i) = <<>>
    BY <1>3 DEF EntryTree
  <2> QED BY <1>3, <2>1, PreorderNothing, EmptySeq
<1> QED BY <1>2, <1>3

LEMMA IndexedIs ==
  ASSUME NEW d \in Document, NEW r \in UserRoles
  PROVE  /\ Indexed(d, r, 0) = <<>>
         /\ \A j \in DOMAIN EntryOrder :
              Indexed(d, r, j) = Indexed(d, r, j - 1) \o EntryTree(d, r, j)
         /\ \A j \in 0..Len(EntryOrder) : Indexed(d, r, j) \in Seq(DecodedMenus(d))
         /\ Abs!MenuIndex(d, r) = Abs!FirstById(Indexed(d, r, Len(EntryOrder)))
<1> DEFINE trees(j) == [i \in 1..j |-> EntryTree(d, r, i)]
           Y == Seq(DecodedMenus(d))
<1>1. DOMAIN EntryOrder = 1..4 /\ Len(EntryOrder) = 4
  BY DEF EntryOrder
<1>2. \A i \in 1..4 : EntryTree(d, r, i) \in Y
  BY <1>1, EntryTreeIs
<1>3. ASSUME NEW j \in 0..4 PROVE trees(j) \in Seq(Y)
  <2>1. trees(j) \in [1..j -> Y]
    BY <1>2
  <2> HIDE DEF trees, Y
  <2> QED BY <2>1, SeqDef
<1>4. Indexed(d, r, 0) = <<>>
  <2>1. trees(0) = <<>>
    OBVIOUS
  <2> QED BY <2>1, FlattenNothing DEF Indexed
<1>5. ASSUME NEW j \in 0..4 PROVE Indexed(d, r, j) \in Y
  <2> DEFINE ts == trees(j)
  <2>1. ts \in Seq(Seq(DecodedMenus(d))) /\ Indexed(d, r, j) = FlattenSeq(ts)
    BY <1>3 DEF Indexed
  <2> HIDE DEF ts
  <2> QED BY <2>1, FlattenType
<1>6. ASSUME NEW j \in 1..4
      PROVE  Indexed(d, r, j) = Indexed(d, r, j - 1) \o EntryTree(d, r, j)
  <2> DEFINE k == j - 1
             ts == trees(k)
             tree == EntryTree(d, r, j)
  <2>1. k \in 0..4 /\ j \in 0..4 /\ k + 1 = j
    OBVIOUS
  <2>2. ts \in Seq(Y) /\ trees(j) \in Seq(Y) /\ tree \in Y
    BY <1>2, <1>3, <2>1
  <2>3. Len(ts) = k /\ Len(trees(j)) = j
    BY <2>1
  <2>4. trees(j) = Append(ts, tree)
    <3>1. /\ Append(ts, tree) \in Seq(Y) /\ Len(Append(ts, tree)) = j
          /\ \A i \in 1..k : Append(ts, tree)[i] = ts[i]
          /\ Append(ts, tree)[j] = tree
      <4> HIDE DEF ts, tree, Y
      <4> QED BY <2>1, <2>2, <2>3, AppendProperties
    <3>2. ASSUME NEW i \in 1..j PROVE trees(j)[i] = Append(ts, tree)[i]
      <4>1. i \in 1..k \/ i = j
        BY <2>1
      <4> QED BY <3>1, <4>1
    <3> DEFINE more == Append(ts, tree)
               new == trees(j)
    <3>3. more \in Seq(Y) /\ new \in Seq(Y) /\ Len(more) = j /\ Len(new) = j /\ \A i \in 1..j : new[i] = more[i]
      BY <2>2, <2>3, <3>1, <3>2
    <3> HIDE DEF more, new, Y
    <3>4. new = more
      BY <3>3, SeqEqual
    <3> QED BY <3>4 DEF more, new
  <2>5. Indexed(d, r, j) = FlattenSeq(Append(ts, tree)) /\ Indexed(d, r, k) = FlattenSeq(ts)
    BY <2>4 DEF Indexed
  <2> HIDE DEF ts, tree
  <2>6. FlattenSeq(Append(ts, tree)) = FlattenSeq(ts) \o tree
    BY <2>2, FlattenAppend
  <2> QED BY <2>5, <2>6 DEF tree
<1>7. Abs!MenuIndex(d, r) = Abs!FirstById(Indexed(d, r, 4))
  BY <1>1, SameNames, SameOrders DEF Abs!MenuIndex, Indexed, EntryTree
<1> QED BY <1>1, <1>4, <1>5, <1>6, <1>7

---------------------------------------------------------------------------
(* What the calls on the stack have come to. *)

\* The calls for the children of frame k, and the children themselves.
Called(k) == Abs!Walk(document)[StackLimit - k]
ChildrenAt(k) == document.collection[stack[k].id]

\* The innermost call is for the entry at hand; no child that is behind a call, and no
\* condition that is, has raised an exception.
CallsAreFine ==
  stage = "menu" =>
    /\ stack[1].id = document.sets[Role][Entry] /\ stack[1].condition = None
    /\ \A k \in DOMAIN stack :
         /\ \A i \in 1..Decoded(k) : Abs!ChildFault(document, Called(k), ChildrenAt(k)[i]) = None
         /\ k # Len(stack) => ConditionFault(document, Passed(k)) = None

LEMMA InvDocument ==
  ASSUME IInv
  PROVE  /\ document \in Document
         /\ Role \in UserRoles /\ (entry \in DOMAIN EntryOrder => Entry \in Entries)
<1>1. document \in Document
  BY DocumentsAssumption DEF IInv, StackInv
<1> QED BY <1>1 DEF IInv, TypeOK, UserRoles, Entries, Role, Entry

\* The frames after a step: ids and conditions stay, the innermost may look at its next child.
SameFrames(n) ==
  \A k \in 1..n : stack'[k].id = stack[k].id /\ stack'[k].condition = stack[k].condition

LEMMA decodeRefFrames ==
  ASSUME IInv, decodeRef
  PROVE  /\ Len(stack) \in Nat \ {0} /\ Len(stack') = Len(stack)
         /\ DOMAIN stack = 1..Len(stack) /\ DOMAIN stack' = 1..Len(stack)
         /\ SameFrames(Len(stack))
         /\ \A k \in 1..Len(stack) :
              stack'[k].next = IF k = Len(stack) THEN stack[k].next + 1 ELSE stack[k].next
<1>1. PICK R : stack \in Seq(Frames(R))
  BY DEF IInv, StackInv
<1> DEFINE advanced == Advance(stack)
<1>2. stack # <<>> /\ Len(stack) \in Nat \ {0}
  BY <1>1, EmptySeq DEF IInv, TypeOK, decodeRef, InLoop
<1>3. /\ advanced \in Seq(Frames(R)) /\ Len(advanced) = Len(stack) /\ advanced # <<>>
      /\ \A k \in 1..Len(stack) :
           /\ advanced[k].id = stack[k].id /\ advanced[k].condition = stack[k].condition
           /\ advanced[k].next = IF k = Len(stack) THEN stack[k].next + 1 ELSE stack[k].next
  BY <1>1, <1>2, AdvanceFrame, EmptySeq
<1>4. stack' = emplaceBack(advanced, Leaf(Child))
  BY DEF decodeRef
<1> HIDE DEF advanced
<1>5. /\ \E T : stack' \in Seq(Frames(T))
      /\ Len(stack') = Len(stack)
      /\ \A k \in 1..Len(stack) :
           /\ stack'[k].id = advanced[k].id /\ stack'[k].condition = advanced[k].condition
           /\ stack'[k].next = advanced[k].next
  BY <1>3, <1>4, EmplaceFrame
<1>6. DOMAIN stack = 1..Len(stack) /\ DOMAIN stack' = 1..Len(stack)
  BY <1>1, <1>5, LenProperties
<1> QED BY <1>2, <1>3, <1>5, <1>6 DEF SameFrames

LEMMA decodeMenuRefFrames ==
  ASSUME IInv, decodeMenuRef
  PROVE  /\ Len(stack) \in Nat \ {0} /\ Len(stack') = Len(stack) + 1
         /\ DOMAIN stack = 1..Len(stack) /\ DOMAIN stack' = 1..Len(stack) + 1
         /\ SameFrames(Len(stack))
         /\ \A k \in 1..Len(stack) :
              stack'[k].next = IF k = Len(stack) THEN stack[k].next + 1 ELSE stack[k].next
         /\ stack'[Len(stack) + 1].id = Child.menu /\ stack'[Len(stack) + 1].next = 1
<1>1. PICK R : stack \in Seq(Frames(R))
  BY DEF IInv, StackInv
<1>2. Child.menu \in MenuIds
  BY ChildEdge DEF IInv, decodeMenuRef
<1> DEFINE advanced == Advance(stack)
           frame == [id |-> Child.menu, condition |-> Condition(Child), next |-> 1, refs |-> <<>>]
           T == (R \cup {Condition(Child)}) \cup {<<>>}
<1>3. stack # <<>> /\ Len(stack) \in Nat \ {0}
  BY <1>1, EmptySeq DEF IInv, TypeOK, decodeMenuRef, InLoop
<1>4. /\ advanced \in Seq(Frames(R)) /\ Len(advanced) = Len(stack)
      /\ \A k \in 1..Len(stack) :
           /\ advanced[k].id = stack[k].id /\ advanced[k].condition = stack[k].condition
           /\ advanced[k].next = IF k = Len(stack) THEN stack[k].next + 1 ELSE stack[k].next
  BY <1>1, <1>3, AdvanceFrame
<1>5. stack' = Append(advanced, frame)
  BY DEF decodeMenuRef, Call, refId, noRefs
<1>6. frame.id = Child.menu /\ frame.next = 1
  OBVIOUS
<1>7. advanced \in Seq(Frames(T)) /\ frame \in Frames(T)
  <2>1. advanced \in Seq(Frames(T))
    BY <1>4, FramesGrow
  <2> QED BY <1>2, <2>1 DEF Frames
<1> HIDE DEF advanced, frame, T
<1>8. /\ stack' \in Seq(Frames(T)) /\ Len(stack') = Len(stack) + 1
      /\ \A k \in 1..Len(stack) : stack'[k] = advanced[k]
      /\ stack'[Len(stack) + 1] = frame
  BY <1>4, <1>5, <1>7, AppendProperties
<1>9. DOMAIN stack = 1..Len(stack) /\ DOMAIN stack' = 1..Len(stack) + 1
  BY <1>1, <1>8, LenProperties
<1> QED BY <1>3, <1>4, <1>6, <1>8, <1>9 DEF SameFrames

LEMMA ReturnFrames ==
  ASSUME IInv, Return, Top # 1
  PROVE  /\ Len(stack) - 1 \in Nat \ {0} /\ Len(stack') = Len(stack) - 1
         /\ DOMAIN stack = 1..Len(stack) /\ DOMAIN stack' = 1..Len(stack) - 1
         /\ SameFrames(Len(stack) - 1)
         /\ \A k \in 1..Len(stack) - 1 : stack'[k].next = stack[k].next
<1> DEFINE front == Front(stack)
           m == Len(stack) - 1
           menu == Menu(Frame.id, Frame.condition, Frame.refs)
<1>1. PICK R : stack \in Seq(Frames(R))
  BY DEF IInv, StackInv
<1>2. /\ DOMAIN stack = 1..Len(stack) /\ m \in Nat \ {0} /\ Len(stack) = m + 1
  BY InnermostFrame DEF Return
<1>3. stack' = emplaceBack(front, menu)
  BY DEF Return
<1>4. /\ front \in Seq(Frames(R)) /\ Len(front) = m
      /\ \A k \in 1..m : front[k] = stack[k]
  <2>1. \A k \in 1..m : stack[k] \in Frames(R)
    BY <1>1, <1>2, ElementOfSeq
  <2> QED BY <1>2, <2>1, SubSeqProperties DEF Front
<1> HIDE DEF front, menu, m
<1>5. front # <<>>
  BY <1>2, <1>4, EmptySeq
<1>6. /\ \E T : stack' \in Seq(Frames(T))
      /\ Len(stack') = m
      /\ \A k \in 1..m :
           /\ stack'[k].id = front[k].id /\ stack'[k].condition = front[k].condition
           /\ stack'[k].next = front[k].next
  BY <1>3, <1>4, <1>5, EmplaceFrame
<1>7. DOMAIN stack' = 1..m
  BY <1>6, LenProperties
<1> QED BY <1>2, <1>4, <1>6, <1>7 DEF SameFrames, m

\* F has for every menu in it what MenuSpec says, if that is no exception.
LEMMA CanonicalIsDecoded ==
  ASSUME NEW d \in Document, NEW F, Canonical(d, F)
  PROVE  \A n \in 0..StackLimit : \A m \in DOMAIN F :
           Abs!Walk(d)[n][m].fault = None => F[m] = Abs!Walk(d)[n][m].refs
<1> DEFINE W == Abs!Walk(d)
           Same(n) == \A m \in DOMAIN F : W[n][m].fault = None => F[m] = W[n][m].refs
           Bad == {n \in 0..StackLimit : ~Same(n)}
<1>1. Bad = {}
  <2> SUFFICES ASSUME Bad # {} PROVE FALSE
    OBVIOUS
  <2>1. PICK n \in Bad : \A k \in Bad : n <= k
    <3> Bad \in SUBSET Nat
      BY StackLimitAssumption
    <3> HIDE DEF Bad
    <3> QED BY LeastElement
  <2>2. PICK m \in DOMAIN F : W[n][m].fault = None /\ F[m] # W[n][m].refs
    BY <2>1
  <2> DEFINE children == d.collection[m]
             called == W[n - 1]
  <2>3. m \in MenuIds /\ n \in 0..StackLimit
    BY <2>1 DEF Canonical
  <2>4. /\ n # 0 /\ n - 1 \in 0..StackLimit
        /\ children \in Seq(Lookup \cup MenuRef)
        /\ \A i \in 1..Len(children) : Abs!ChildFault(d, called, children[i]) = None
        /\ W[n][m].refs = RefsFor(called, children)
    BY <2>2, <2>3, WalkIsFine
  <2>5. n - 1 \in 0..StackLimit /\ ~(n <= n - 1)
    BY <2>3, <2>4
  <2>6. Same(n - 1)
    BY <2>1, <2>5
  <2>7. /\ F[m] = [i \in 1..Len(children) |-> Ref(F, children[i])]
        /\ \A i \in 1..Len(children) : isMenuRef(children[i]) => children[i].menu \in DOMAIN F
    BY DEF Canonical, Builds, Refs, ReadyTo
  <2> HIDE DEF Bad
  <2>8. ASSUME NEW i \in 1..Len(children)
        PROVE  Ref(F, children[i]) = Abs!ChildRef(called, children[i])
    <3> DEFINE child == children[i]
    <3>1. Abs!ChildFault(d, called, child) = None /\ (isMenuRef(child) => child.menu \in DOMAIN F)
      BY <2>4, <2>7
    <3> HIDE DEF child
    <3>2. isMenuRef(child) => called[child.menu].fault = None
      BY <3>1, ChildFaultIs
    <3>3. isMenuRef(child) => F[child.menu] = called[child.menu].refs
      BY <2>6, <3>1, <3>2
    <3> HIDE DEF called
    <3>4. Ref(F, child) = Abs!ChildRef(called, child)
      BY <3>3, ChildRefIs DEF Ref
    <3> QED BY <3>4 DEF child
  <2> HIDE DEF children, called
  <2>9. F[m] = RefsFor(called, children)
    BY <2>7, <2>8 DEF RefsFor
  <2> QED BY <2>2, <2>4, <2>9
<1> QED BY <1>1

\* The call that returns is one no exception leaves.
LEMMA ReturnsDecoded ==
  ASSUME IInv, RefsInv, CallsAreFine, Return
  PROVE  LET n == StackLimit - (Top - 1)
         IN /\ n \in 1..StackLimit
            /\ Abs!Walk(document)[n][Frame.id].fault = None
            /\ Abs!Walk(document)[n][Frame.id].refs = Frame.refs
<1> DEFINE n == StackLimit - (Top - 1)
           children == document.collection[Frame.id]
           called == Abs!Walk(document)[n - 1]
<1>1. stage = "menu" /\ Frame.next \notin DOMAIN Children /\ Frame.refs # <<>>
  BY DEF Return
<1>2. PICK F : RefsOf(F)
  BY DEF RefsInv
<1>3. /\ Top \in Nat \ {0} /\ Top = Len(stack) /\ Top \in DOMAIN stack /\ Frame = stack[Top]
      /\ Frame.id \in MenuIds /\ children # None
      /\ Frame.next \in Nat \ {0} /\ Children = children
      /\ DOMAIN children = 1..Len(children) /\ Len(children) \in Nat
      /\ Builds(document, F, Frame.id, Frame.next - 1, Frame.refs)
  BY <1>1, <1>2, InnermostFrame DEF RefsOf
<1>4. Top <= StackLimit /\ document \in Document
  BY <1>3, InvDocument DEF IInv, TypeOK
<1>5. n \in 1..StackLimit /\ n \in 0..StackLimit /\ n # 0 /\ n - 1 = StackLimit - Top
  BY <1>3, <1>4, StackLimitAssumption
<1>6. Frame.next - 1 = Len(children)
  <2>1. Frame.next - 1 \in 0..Len(children)
    BY <1>3 DEF Builds, ReadyTo
  <2> QED BY <1>1, <1>3, <2>1
<1>7. Frame.refs = [i \in 1..Len(children) |-> Ref(F, children[i])]
  BY <1>3, <1>6 DEF Builds, Refs
<1>8. children # <<>>
  <2> SUFFICES ASSUME children = <<>> PROVE Frame.refs = <<>>
    BY <1>1
  <2>1. 1..Len(children) = {}
    OBVIOUS
  <2> QED BY <1>7, <2>1
<1>9. children \in Seq(Lookup \cup MenuRef)
  BY <1>3, <1>4, ElementOf
<1>10. \A i \in 1..Len(children) : Abs!ChildFault(document, called, children[i]) = None
  <2>1. Decoded(Top) = Len(children) /\ Called(Top) = called /\ ChildrenAt(Top) = children
    BY <1>3, <1>5, <1>6 DEF Decoded, Called, ChildrenAt
  <2> QED BY <1>1, <1>3, <2>1 DEF CallsAreFine
<1>11. Abs!Walk(document)[n][Frame.id] = Abs!MenuCall(document, called, children)
  BY <1>3, <1>5, WalkIs
<1>12. Abs!Walk(document)[n][Frame.id].fault = None
  <2> HIDE DEF called, children
  <2>1. children \in Seq(Lookup \cup MenuRef) /\ children # None /\ children # <<>>
    BY <1>3, <1>8, <1>9
  <2>2. Abs!MenuCall(document, called, children) = [fault |-> None, refs |-> RefsFor(called, children)]
    BY <1>10, <2>1, CallSucceeds
  <2> QED BY <1>11, <2>2
<1>13. PICK G : Canonical(document, G) /\ Frame.id \in DOMAIN G /\ G[Frame.id] = Frame.refs
  BY <1>2, ReturnedMenu
<1> HIDE DEF n, called, children
<1>14. Abs!Walk(document)[n][Frame.id].refs = Frame.refs
  BY <1>4, <1>5, <1>12, <1>13, CanonicalIsDecoded
<1> QED BY <1>5, <1>12, <1>14 DEF n

LEMMA CallsFineStep ==
  ASSUME IInv, CallsInv, RefsInv, CallsAreFine, [Next]_vars
  PROVE  CallsAreFine'
<1> SUFFICES ASSUME stage' = "menu"
             PROVE  /\ stack'[1].id = document'.sets[Role'][Entry'] /\ stack'[1].condition = None
                    /\ \A k \in DOMAIN stack' :
                         /\ \A i \in 1..Decoded(k)' :
                              Abs!ChildFault(document', Called(k)', ChildrenAt(k)'[i]) = None
                         /\ k # Len(stack)' => ConditionFault(document', Passed(k)') = None
  BY DEF CallsAreFine
<1> DEFINE Goal(k) == /\ \A i \in 1..Decoded(k)' :
                           Abs!ChildFault(document, Called(k), ChildrenAt(k)'[i]) = None
                      /\ k # Len(stack') => ConditionFault(document, Passed(k)') = None
<1>1. /\ document' = document /\ role' = role
      /\ stage # "entry" => stage = "menu"
      /\ stage = "entry" => decodeEntry \/ UNCHANGED vars
      /\ stage = "menu" => decodeRef \/ decodeMenuRef \/ (Return /\ Top # 1) \/ UNCHANGED vars
  BY DEF Next, decodeEntry, decodeRef, decodeMenuRef, Return, Throw, Overflow, Call, Raise,
         makeUserInterface, addEntry, skipRef, addMenu, emplaceUI, Returned, InLoop, vars
<1>2. \A k : Called(k)' = Called(k)
  BY <1>1 DEF Called
<1>3. CASE UNCHANGED vars
  BY <1>3 DEF vars, CallsAreFine, Called, ChildrenAt, Decoded, Passed, Role, Entry
<1>4. CASE decodeEntry
  <2> DEFINE id == document.sets[Role][Entry]
             frame == [id |-> id, condition |-> None, next |-> 1, refs |-> <<>>]
  <2>1. stack = <<>> /\ stack' = Append(stack, frame) /\ entry' = entry
    BY <1>4 DEF IInv, TypeOK, decodeEntry, Call, noRefs
  <2>2. frame.id = id /\ frame.condition = None /\ frame.next = 1
    OBVIOUS
  <2> HIDE DEF frame
  <2>3. DOMAIN stack' = {1} /\ Len(stack') = 1 /\ stack'[1] = frame
    BY <2>1
  <2>4. Decoded(1)' = 0
    BY <2>2, <2>3 DEF Decoded
  <2>5. Role' = Role /\ Entry' = Entry
    BY <1>1, <2>1 DEF Role, Entry
  <2> QED BY <1>1, <2>2, <2>3, <2>4, <2>5
<1>5. CASE stage = "menu" /\ (decodeRef \/ decodeMenuRef \/ (Return /\ Top # 1))
  <2>1. Role' = Role /\ Entry' = Entry
    BY <1>1, <1>5 DEF decodeRef, decodeMenuRef, Return, Call, Role, Entry
  <2>2. /\ stack[1].id = document.sets[Role][Entry] /\ stack[1].condition = None
        /\ \A k \in DOMAIN stack :
             /\ \A i \in 1..Decoded(k) : Abs!ChildFault(document, Called(k), ChildrenAt(k)[i]) = None
             /\ k # Len(stack) => ConditionFault(document, Passed(k)) = None
    BY <1>5 DEF CallsAreFine
  <2>3. \A k \in DOMAIN stack : stack[k].next \in Nat \ {0}
    BY DEF IInv, TypeOK
  <2> DEFINE n == Len(stack)
  <2>4. CASE decodeRef
    <3>1. /\ n \in Nat \ {0} /\ Len(stack) = n /\ Len(stack') = n
          /\ DOMAIN stack = 1..n /\ DOMAIN stack' = 1..n
          /\ SameFrames(n)
          /\ \A k \in 1..n : stack'[k].next = IF k = n THEN stack[k].next + 1 ELSE stack[k].next
      BY <2>4, decodeRefFrames
    <3> HIDE DEF n
    <3>2. ASSUME NEW k \in 1..n PROVE Goal(k)
      <4>1. ChildrenAt(k)' = ChildrenAt(k)
        BY <1>1, <3>1 DEF ChildrenAt, SameFrames
      <4>2. CASE k # n
        <5>1. Decoded(k)' = Decoded(k) /\ Passed(k)' = Passed(k)
          BY <1>1, <3>1, <4>2 DEF Decoded, Passed, SameFrames
        <5> QED BY <2>2, <3>1, <4>1, <4>2, <5>1
      <4>3. CASE k = n
        <5>1. stack[k].next \in Nat \ {0} /\ stack'[k].next = stack[k].next + 1
          BY <2>3, <3>1, <4>3
        <5>2. Decoded(k)' = stack[k].next /\ Decoded(k) = stack[k].next - 1
          BY <3>1, <4>3, <5>1 DEF Decoded
        <5>3. Child = ChildrenAt(k)[stack[k].next]
          BY <3>1, <4>3 DEF Child, Children, Frame, Top, ChildrenAt
        <5>4. Abs!ChildFault(document, Called(k), Child) = None
          BY <2>4, ChildFaultIs DEF decodeRef
        <5>5. ASSUME NEW i \in 1..stack[k].next
              PROVE  Abs!ChildFault(document, Called(k), ChildrenAt(k)[i]) = None
          <6>1. i = stack[k].next \/ i \in 1..stack[k].next - 1
            BY <5>1
          <6> QED BY <2>2, <3>1, <5>2, <5>3, <5>4, <6>1
        <5> QED BY <3>1, <4>1, <4>3, <5>2, <5>5
      <4> QED BY <4>2, <4>3
    <3>3. stack'[1].id = stack[1].id /\ stack'[1].condition = stack[1].condition
      <4>1. 1 \in 1..n
        BY <3>1
      <4> QED BY <3>1, <4>1 DEF SameFrames
    <3> HIDE DEF Goal
    <3>4. \A k \in DOMAIN stack' : Goal(k)
      BY <3>1, <3>2
    <3> QED BY <1>1, <1>2, <2>1, <2>2, <3>1, <3>3, <3>4 DEF Goal
  <2>5. CASE decodeMenuRef
    <3>1. /\ n \in Nat \ {0} /\ Len(stack) = n /\ Len(stack') = n + 1
          /\ DOMAIN stack = 1..n /\ DOMAIN stack' = 1..n + 1
          /\ SameFrames(n)
          /\ \A k \in 1..n : stack'[k].next = IF k = n THEN stack[k].next + 1 ELSE stack[k].next
          /\ stack'[n + 1].next = 1
      BY <2>5, decodeMenuRefFrames
    <3> HIDE DEF n
    <3>2. ASSUME NEW k \in 1..n + 1 PROVE Goal(k)
      <4>1. CASE k = n + 1
        <5>1. Decoded(k)' = 0
          BY <3>1, <4>1 DEF Decoded
        <5> QED BY <3>1, <4>1, <5>1
      <4>2. CASE k \in 1..n
        <5>1. ChildrenAt(k)' = ChildrenAt(k)
          BY <1>1, <3>1, <4>2 DEF ChildrenAt, SameFrames
        <5>2. k # Len(stack') /\ stack[k].next \in Nat \ {0}
          BY <2>3, <3>1, <4>2
        <5>3. Decoded(k)' = Decoded(k)
          <6>1. Decoded(k)' = stack'[k].next - 2
            BY <5>2 DEF Decoded
          <6>2. stack'[k].next = IF k = n THEN stack[k].next + 1 ELSE stack[k].next
            BY <3>1, <4>2
          <6> QED BY <3>1, <5>2, <6>1, <6>2 DEF Decoded
        <5>4. ConditionFault(document, Passed(k)') = None
          <6>1. CASE k # n
            <7>1. Passed(k)' = Passed(k)
              BY <1>1, <3>1, <4>2, <6>1 DEF Passed, SameFrames
            <7> QED BY <2>2, <3>1, <4>2, <6>1, <7>1
          <6>2. CASE k = n
            <7>1. stack'[k].next - 1 = stack[k].next
              BY <3>1, <4>2, <5>2, <6>2
            <7>2. Passed(k)' = Child
              BY <1>1, <3>1, <4>2, <6>2, <7>1
                 DEF Passed, SameFrames, Child, Children, Frame, Top
            <7> QED BY <2>5, <7>2 DEF decodeMenuRef
          <6> QED BY <6>1, <6>2
        <5> QED BY <2>2, <3>1, <4>2, <5>1, <5>3, <5>4
      <4>3. k = n + 1 \/ k \in 1..n
        BY <3>1
      <4> QED BY <4>1, <4>2, <4>3
    <3>3. stack'[1].id = stack[1].id /\ stack'[1].condition = stack[1].condition
      <4>1. 1 \in 1..n
        BY <3>1
      <4> QED BY <3>1, <4>1 DEF SameFrames
    <3> HIDE DEF Goal
    <3>4. \A k \in DOMAIN stack' : Goal(k)
      BY <3>1, <3>2
    <3> QED BY <1>1, <1>2, <2>1, <2>2, <3>1, <3>3, <3>4 DEF Goal
  <2>6. CASE Return /\ Top # 1
    <3> DEFINE m == Len(stack) - 1
    <3>1. /\ m \in Nat \ {0} /\ Len(stack') = m /\ Len(stack) = m + 1
          /\ DOMAIN stack = 1..Len(stack) /\ DOMAIN stack' = 1..m
          /\ SameFrames(m)
          /\ \A k \in 1..m : stack'[k].next = stack[k].next
      BY <2>6, ReturnFrames
    <3> HIDE DEF m
    <3>2. ASSUME NEW k \in 1..m PROVE Goal(k)
      <4>1. ChildrenAt(k)' = ChildrenAt(k) /\ Passed(k)' = Passed(k)
        BY <1>1, <3>1 DEF ChildrenAt, Passed, SameFrames
      <4>2. k \in DOMAIN stack /\ k # Len(stack) /\ stack[k].next \in Nat \ {0}
        BY <2>3, <3>1
      <4>3. Decoded(k) = stack[k].next - 2
        BY <4>2 DEF Decoded
      <4>4. CASE k # m
        <5>1. Decoded(k)' = Decoded(k)
          BY <3>1, <4>2, <4>3, <4>4 DEF Decoded
        <5> QED BY <2>2, <4>1, <4>2, <5>1
      <4>5. CASE k = m
        <5>1. Decoded(k)' = stack[k].next - 1
          BY <3>1, <4>5 DEF Decoded
        <5>2. Passed(k) = ChildrenAt(k)[stack[k].next - 1]
          BY DEF Passed, ChildrenAt
        <5>3. Abs!ChildFault(document, Called(k), Passed(k)) = None
          <6>1. ConditionFault(document, Passed(k)) = None
            BY <2>2, <4>2
          <6>2. isMenuRef(Passed(k)) /\ Passed(k).menu = stack[k + 1].id
            BY <4>2 DEF CallsInv
          <6>3. Frame = stack[k + 1] /\ StackLimit - (Top - 1) = StackLimit - k
            BY <3>1, <4>5, StackLimitAssumption DEF Frame, Top
          <6>4. Called(k)[Frame.id].fault = None
            BY <2>6, <6>3, ReturnsDecoded DEF Called
          <6> QED BY <6>1, <6>2, <6>3, <6>4, ChildFaultIs
        <5>4. ASSUME NEW i \in 1..stack[k].next - 1
              PROVE  Abs!ChildFault(document, Called(k), ChildrenAt(k)[i]) = None
          <6>1. i = stack[k].next - 1 \/ i \in 1..stack[k].next - 2
            BY <4>2
          <6> QED BY <2>2, <4>2, <4>3, <5>2, <5>3, <6>1
        <5> QED BY <3>1, <4>1, <4>5, <5>1, <5>4
      <4> QED BY <4>4, <4>5
    <3>3. stack'[1].id = stack[1].id /\ stack'[1].condition = stack[1].condition
      BY <3>1 DEF SameFrames
    <3> HIDE DEF Goal
    <3>4. \A k \in DOMAIN stack' : Goal(k)
      BY <3>1, <3>2
    <3> QED BY <1>1, <1>2, <2>1, <2>2, <3>1, <3>3, <3>4 DEF Goal
  <2> QED BY <1>5, <2>4, <2>5, <2>6
<1> QED BY <1>1, <1>3, <1>4, <1>5

\* An exception of the innermost call is that of the entry.
LEMMA FaultRises ==
  ASSUME IInv, CallsInv, CallsAreFine, stage = "menu", NEW x, x # None,
         Abs!Walk(document)[StackLimit - (Top - 1)][Frame.id].fault = x
  PROVE  Abs!EntryFault(document, Role, Entry) = x
<1> DEFINE W == Abs!Walk(document)
           Rises(k) == W[StackLimit - (k - 1)][stack[k].id].fault = x
           Up == {k \in 1..Top : Rises(k)}
<1>1. /\ Top \in Nat \ {0} /\ Top = Len(stack) /\ DOMAIN stack = 1..Top
      /\ Frame = stack[Top] /\ Top <= StackLimit /\ document \in Document
  BY InnermostFrame, InvDocument DEF IInv, TypeOK
<1>2. Top \in Up /\ Up \in SUBSET Nat
  BY <1>1
<1>3. PICK k \in Up : \A j \in Up : k <= j
  <2> HIDE DEF Up
  <2> QED BY <1>2, LeastElement
<1>4. k = 1
  <2> SUFFICES ASSUME k # 1 PROVE FALSE
    OBVIOUS
  <2> DEFINE j == k - 1
             children == ChildrenAt(j)
             i == Decoded(j) + 1
  <2>1. k \in 1..Top /\ j \in 1..Top /\ j + 1 = k /\ j # Len(stack) /\ j \in DOMAIN stack /\ ~(k <= j)
    BY <1>1, <1>3
  <2>2. /\ stack[j].next \in Nat \ {0} /\ stack[j].id \in MenuIds /\ children # None
    BY <2>1 DEF IInv, TypeOK, ChildrenAt
  <2>3. /\ stack[j].next - 1 \in DOMAIN children
        /\ isMenuRef(Passed(j)) /\ Passed(j).menu = stack[j + 1].id
    BY <2>1 DEF CallsInv, ChildrenAt
  <2>4. Decoded(j) = stack[j].next - 2 /\ i = stack[j].next - 1 /\ Passed(j) = children[i]
    BY <2>1, <2>2 DEF Decoded, Passed, ChildrenAt
  <2>5. children \in Seq(Lookup \cup MenuRef) /\ DOMAIN children = 1..Len(children)
    <3>1. children \in Seq(Lookup \cup MenuRef)
      BY <1>1, <2>2, ElementOf DEF ChildrenAt
    <3> QED BY <3>1, LenProperties
  <2>6. /\ \A l \in 1..Decoded(j) : Abs!ChildFault(document, Called(j), children[l]) = None
        /\ ConditionFault(document, Passed(j)) = None
    BY <2>1 DEF CallsAreFine
  <2>7. Called(j)[Passed(j).menu].fault = x
    <3>1. StackLimit - (k - 1) = StackLimit - j
      OBVIOUS
    <3> QED BY <1>3, <2>1, <2>3, <3>1 DEF Called
  <2>8. Abs!ChildFault(document, Called(j), children[i]) = x
    BY <2>3, <2>4, <2>6, <2>7, ChildFaultIs
  <2>9. Abs!MenuCall(document, Called(j), children).fault = x
    <3> DEFINE called == Called(j)
               X == Lookup \cup MenuRef
    <3>1. i \in 1..Len(children) /\ i - 1 = Decoded(j)
      <4>1. i \in 1..Len(children)
        BY <2>3, <2>4, <2>5
      <4>2. i - 1 = stack[j].next - 2
        BY <2>2, <2>4
      <4> QED BY <2>4, <4>1, <4>2
    <3>2. \A l \in 1..i - 1 : Abs!ChildFault(document, called, children[l]) = None
      BY <2>6, <3>1
    <3>3. children \in Seq(X) /\ children # None
      BY <2>2, <2>5
    <3>4. Abs!ChildFault(document, called, children[i]) # None
      BY <2>8
    <3> HIDE DEF called, X, children, i
    <3>5. Abs!MenuCall(document, called, children).fault = Abs!ChildFault(document, called, children[i])
      BY <3>1, <3>2, <3>3, <3>4, CallFails
    <3> QED BY <2>8, <3>5 DEF called
  <2>10. W[StackLimit - (j - 1)][stack[j].id] = Abs!MenuCall(document, Called(j), children)
    <3> DEFINE n == StackLimit - (j - 1)
    <3>1. n \in 0..StackLimit /\ n # 0 /\ n - 1 = StackLimit - j
      BY <1>1, <2>1, StackLimitAssumption
    <3> HIDE DEF n
    <3>2. W[n][stack[j].id] = Abs!MenuCall(document, W[n - 1], document.collection[stack[j].id])
      BY <2>2, <3>1, WalkIs
    <3> QED BY <3>1, <3>2 DEF Called, ChildrenAt, n
  <2>11. j \in Up
    BY <2>1, <2>9, <2>10
  <2> QED BY <1>3, <2>1, <2>11
<1>5. W[StackLimit][stack[1].id].fault = x
  <2>1. StackLimit - (1 - 1) = StackLimit
    BY StackLimitAssumption
  <2> QED BY <1>3, <1>4, <2>1
<1>6. stack[1].id = document.sets[Role][Entry] /\ stack[1].id # None
  <2>1. 1 \in DOMAIN stack
    BY <1>1
  <2>2. stack[1].id \in MenuIds
    BY <2>1 DEF IInv, TypeOK
  <2> QED BY <2>2, MenuNoneAssumption DEF CallsAreFine
<1> QED BY <1>5, <1>6 DEF Abs!EntryFault, Abs!Decoded

---------------------------------------------------------------------------
(* The exceptions. *)

LEMMA LookupFault ==
  ASSUME NEW lookup \in Lookup, NEW names
  PROVE  Fault(lookup, names) \in {None, "out_of_range", "other"}
BY DEF Lookup, Fault

LEMMA ConditionFaultType ==
  ASSUME NEW d, NEW child \in MenuRef
  PROVE  ConditionFault(d, child) \in {None, "out_of_range", "other"}
<1>1. child.condition \in Lookup \cup {None}
  BY DEF MenuRef
<1> QED BY <1>1, LookupFault DEF ConditionFault

\* The child the innermost call is at fails: so does the entry.
LEMMA ChildFails ==
  ASSUME IInv, CallsInv, CallsAreFine, InLoop,
         NEW x, x # None, Abs!ChildFault(document, Called(Top), Child) = x
  PROVE  Abs!EntryFault(document, Role, Entry) = x
<1> DEFINE children == document.collection[Frame.id]
           called == Called(Top)
           i == Frame.next
           X == Lookup \cup MenuRef
<1>1. stage = "menu" /\ Frame.next \in DOMAIN Children /\ Child = Children[Frame.next]
  BY DEF InLoop, Child
<1>2. /\ Top \in Nat \ {0} /\ Top = Len(stack) /\ Top \in DOMAIN stack
      /\ Frame = stack[Top] /\ Frame.id \in MenuIds /\ children # None
      /\ Children = children /\ DOMAIN children = 1..Len(children)
      /\ Frame.next \in Nat \ {0}
  BY <1>1, InnermostFrame
<1>3. Top <= StackLimit /\ document \in Document
  BY <1>2, InvDocument DEF IInv, TypeOK
<1>4. children \in Seq(X)
  BY <1>2, <1>3, ElementOf
<1>5. i \in 1..Len(children) /\ Child = children[i]
  BY <1>1, <1>2
<1>6. \A j \in 1..i - 1 : Abs!ChildFault(document, called, children[j]) = None
  <2>1. Decoded(Top) = i - 1 /\ ChildrenAt(Top) = children
    BY <1>2 DEF Decoded, ChildrenAt
  <2> QED BY <1>1, <1>2, <2>1 DEF CallsAreFine
<1>7. Abs!MenuCall(document, called, children).fault = x
  <2>1. Abs!ChildFault(document, called, children[i]) = x
    BY <1>5
  <2> HIDE DEF called, children, i, X
  <2>2. Abs!MenuCall(document, called, children).fault = Abs!ChildFault(document, called, children[i])
    <3>1. children # None
      BY <1>2
    <3> QED BY <1>4, <1>5, <1>6, <2>1, <3>1, CallFails
  <2> QED BY <2>1, <2>2
<1>8. Abs!Walk(document)[StackLimit - (Top - 1)][Frame.id] = Abs!MenuCall(document, called, children)
  <2> DEFINE n == StackLimit - (Top - 1)
  <2>1. n \in 0..StackLimit /\ n # 0 /\ n - 1 = StackLimit - Top
    BY <1>2, <1>3, StackLimitAssumption
  <2> HIDE DEF n
  <2>2. Abs!Walk(document)[n][Frame.id] = Abs!MenuCall(document, Abs!Walk(document)[n - 1], children)
    BY <1>2, <2>1, WalkIs
  <2> QED BY <2>1, <2>2 DEF n, Called
<1> HIDE DEF children, called
<1>9. Abs!Walk(document)[StackLimit - (Top - 1)][Frame.id].fault = x
  BY <1>7, <1>8
<1> QED BY <1>1, <1>9, FaultRises

LEMMA ThrowIs ==
  ASSUME IInv, CallsInv, RefsInv, CallsAreFine, Throw
  PROVE  \E x \in {"out_of_range", "other"} :
           Raise(x) /\ Abs!EntryFault(document, Role, Entry) = x
<1> DEFINE F(x) == Raise(x) /\ Abs!EntryFault(document, Role, Entry) = x
           id == document.sets[Role][Entry]
<1>1. /\ document \in Document /\ Role \in UserRoles
      /\ entry \in DOMAIN EntryOrder => Entry \in Entries
  BY InvDocument
<1>2. CASE stage = "entry" /\ entry \in DOMAIN EntryOrder /\ id = None /\ Raise("out_of_range")
  <2>1. Abs!EntryFault(document, Role, Entry) = "out_of_range"
    BY <1>2 DEF Abs!EntryFault
  <2> QED BY <1>2, <2>1
<1>3. CASE /\ stage = "entry" /\ entry \in DOMAIN EntryOrder /\ id # None
           /\ document.collection[id] = None /\ Raise("other")
  <2>1. id \in MenuIds
    BY <1>1, <1>3 DEF Document
  <2>2. StackLimit \in 0..StackLimit /\ StackLimit # 0
    BY StackLimitAssumption
  <2>3. Abs!Walk(document)[StackLimit][id] =
          Abs!MenuCall(document, Abs!Walk(document)[StackLimit - 1], document.collection[id])
    <3> HIDE DEF id
    <3> QED BY <2>1, <2>2, WalkIs
  <2>4. Abs!Walk(document)[StackLimit][id].fault = "other"
    BY <1>3, <2>3, CallRefused
  <2>5. Abs!EntryFault(document, Role, Entry) = "other"
    BY <1>3, <2>4 DEF Abs!EntryFault, Abs!Decoded
  <2> QED BY <1>3, <2>5
<1>4. CASE InLoop /\ ~isMenuRef(Child) /\ Fault(Child, document.known) # None
           /\ Raise(Fault(Child, document.known))
  <2> DEFINE x == Fault(Child, document.known)
  <2>1. Child \in Lookup \cup MenuRef
    BY <1>4, ChildType DEF IInv
  <2>2. Child \in Lookup
    BY <1>4, <2>1 DEF isMenuRef, MenuRef
  <2>3. x \in {"out_of_range", "other"}
    BY <1>4, <2>2, LookupFault
  <2>4. Abs!ChildFault(document, Called(Top), Child) = x
    BY <1>4, ChildFaultIs
  <2>5. Raise(x) /\ x # None
    BY <1>4
  <2> HIDE DEF x
  <2>6. Abs!EntryFault(document, Role, Entry) = x
    BY <1>4, <2>4, <2>5, ChildFails
  <2> QED BY <2>3, <2>5, <2>6
<1>5. CASE InLoop /\ isMenuRef(Child) /\ ConditionFault(document, Child) # None
           /\ Raise(ConditionFault(document, Child))
  <2> DEFINE x == ConditionFault(document, Child)
  <2>1. Child \in MenuRef
    BY <1>5, ChildType, LookupsAreNoMenuRefs DEF IInv
  <2>2. x \in {"out_of_range", "other"}
    BY <1>5, <2>1, ConditionFaultType
  <2>3. Abs!ChildFault(document, Called(Top), Child) = x
    BY <1>5, ChildFaultIs
  <2>4. Raise(x) /\ x # None
    BY <1>5
  <2> HIDE DEF x
  <2>5. Abs!EntryFault(document, Role, Entry) = x
    BY <1>5, <2>3, <2>4, ChildFails
  <2> QED BY <2>2, <2>4, <2>5
<1>6. CASE /\ InLoop /\ isMenuRef(Child) /\ ConditionFault(document, Child) = None
           /\ Top < StackLimit /\ document.collection[refId(Child)] = None /\ Raise("other")
  <2>1. Top \in 1..StackLimit /\ Child.menu \in MenuIds /\ document.collection[Child.menu] = None
    BY <1>6, ChildType, ChildEdge DEF IInv, refId
  <2> DEFINE n == StackLimit - Top
  <2>2. n \in 0..StackLimit /\ n # 0
    BY <1>6, <2>1, StackLimitAssumption
  <2>3. Abs!Walk(document)[n][Child.menu] =
          Abs!MenuCall(document, Abs!Walk(document)[n - 1], document.collection[Child.menu])
    <3> HIDE DEF n
    <3> QED BY <2>1, <2>2, WalkIs
  <2>4. Called(Top)[Child.menu].fault = "other"
    BY <2>1, <2>3, CallRefused DEF Called
  <2>5. Abs!ChildFault(document, Called(Top), Child) = "other"
    BY <1>6, <2>4, ChildFaultIs
  <2>6. Abs!EntryFault(document, Role, Entry) = "other"
    BY <1>6, <2>5, MenuNoneAssumption, ChildFails
  <2> QED BY <1>6, <2>6
<1>7. CASE stage = "menu" /\ Frame.next \notin DOMAIN Children /\ Frame.refs = <<>> /\ Raise("other")
  <2> DEFINE children == document.collection[Frame.id]
             n == StackLimit - (Top - 1)
  <2>1. PICK G : RefsOf(G)
    BY DEF RefsInv
  <2>2. /\ Top \in Nat \ {0} /\ Top = Len(stack) /\ Frame.id \in MenuIds /\ children # None
        /\ Frame.next \in Nat \ {0} /\ Children = children
        /\ DOMAIN children = 1..Len(children) /\ Len(children) \in Nat
        /\ Builds(document, G, Frame.id, Frame.next - 1, Frame.refs)
    BY <1>7, <2>1, InnermostFrame DEF RefsOf
  <2>3. Frame.next - 1 = Len(children)
    <3>1. Frame.next - 1 \in 0..Len(children)
      BY <2>2 DEF Builds, ReadyTo
    <3> QED BY <1>7, <2>2, <3>1
  <2>4. children = <<>>
    <3>1. \E S : Frame.refs \in Seq(S) /\ Len(Frame.refs) = Len(children)
      BY <2>2, <2>3, RefsSeq DEF Builds
    <3>2. Len(children) = 0
      BY <1>7, <3>1
    <3>3. children \in Seq(Lookup \cup MenuRef)
      BY <1>1, <2>2, ElementOf
    <3> QED BY <3>2, <3>3, EmptySeq
  <2>5. n \in 0..StackLimit /\ n # 0
    BY <2>2, StackLimitAssumption DEF IInv, TypeOK
  <2>6. Abs!Walk(document)[n][Frame.id] =
          Abs!MenuCall(document, Abs!Walk(document)[n - 1], document.collection[Frame.id])
    <3> HIDE DEF n
    <3> QED BY <2>2, <2>5, WalkIs
  <2>7. Abs!Walk(document)[n][Frame.id].fault = "other"
    BY <2>4, <2>6, CallRefused
  <2>8. Abs!EntryFault(document, Role, Entry) = "other"
    BY <1>7, <2>7, MenuNoneAssumption, FaultRises
  <2> QED BY <1>7, <2>8
<1> QED BY <1>2, <1>3, <1>4, <1>5, <1>6, <1>7 DEF Throw

LEMMA OverflowIs ==
  ASSUME IInv, CallsInv, CallsAreFine, Overflow
  PROVE  Abs!EntryFault(document, Role, Entry) = "overflow"
<1>1. InLoop /\ isMenuRef(Child) /\ ConditionFault(document, Child) = None /\ Top = StackLimit
  BY DEF Overflow
<1>2. Child.menu \in MenuIds
  BY <1>1, ChildEdge DEF IInv
<1>3. Called(Top)[Child.menu].fault = "overflow"
  <2>1. StackLimit - StackLimit = 0
    BY StackLimitAssumption
  <2> QED BY <1>1, <1>2, <2>1, NoRoom DEF Called
<1>4. Abs!ChildFault(document, Called(Top), Child) = "overflow"
  BY <1>1, <1>3, ChildFaultIs
<1> QED BY <1>1, <1>4, MenuNoneAssumption, ChildFails

---------------------------------------------------------------------------
(* The verdict. *)

LEMMA AllIsDone ==
  ASSUME NEW d, \A r \in UserRoles, e \in Entries : ~Abs!Uncaught(d, r, e)
  PROVE  Abs!Verdict(d) = "done"
<1>1. {r \in DOMAIN RoleOrder : \E e \in Entries : Abs!Uncaught(d, RoleOrder[r], e)} = {}
  BY DEF UserRoles
<1> QED BY <1>1, SameOrders DEF Abs!Verdict

\* Of the roles, and of the entries of a role, the first that is not decoded decides.
LEMMA FirstUncaught ==
  ASSUME NEW d, NEW r \in DOMAIN RoleOrder, NEW i \in DOMAIN EntryOrder,
         \A j \in 1..r - 1, e \in Entries : ~Abs!Uncaught(d, RoleOrder[j], e),
         \A j \in 1..i - 1 : ~Abs!Uncaught(d, RoleOrder[r], EntryOrder[j]),
         Abs!Uncaught(d, RoleOrder[r], EntryOrder[i])
  PROVE  Abs!Verdict(d) = IF Abs!EntryFault(d, RoleOrder[r], EntryOrder[i]) = "overflow"
                          THEN "crashed" ELSE "failed"
<1> DEFINE roles == {k \in DOMAIN RoleOrder : \E e \in Entries : Abs!Uncaught(d, RoleOrder[k], e)}
           entries == {k \in DOMAIN EntryOrder : Abs!Uncaught(d, RoleOrder[r], EntryOrder[k])}
<1>1. DOMAIN RoleOrder = 1..3 /\ DOMAIN EntryOrder = 1..4
  BY DEF RoleOrder, EntryOrder
<1>2. FirstIn(roles) = r
  <2>1. r \in roles
    BY DEF Entries
  <2>2. roles \in SUBSET Nat
    BY <1>1
  <2>3. ASSUME NEW k \in roles PROVE r <= k
    <3>1. k \in 1..3 /\ k \notin 1..r - 1
      BY <1>1
    <3> QED BY <1>1, <3>1
  <2> HIDE DEF roles
  <2> QED BY <2>1, <2>2, <2>3, FirstIs
<1>3. FirstIn(entries) = i
  <2>1. i \in entries
    OBVIOUS
  <2>2. entries \in SUBSET Nat
    BY <1>1
  <2>3. ASSUME NEW k \in entries PROVE i <= k
    <3>1. k \in 1..4 /\ k \notin 1..i - 1
      BY <1>1
    <3> QED BY <1>1, <3>1
  <2> HIDE DEF entries
  <2> QED BY <2>1, <2>2, <2>3, FirstIs
<1>4. roles # {}
  BY DEF Entries
<1>5. Abs!Verdict(d) =
        LET first == RoleOrder[FirstIn(roles)]
            e == EntryOrder[FirstIn({k \in DOMAIN EntryOrder : Abs!Uncaught(d, first, EntryOrder[k])})]
        IN CASE roles = {} -> "done"
             [] roles # {} /\ Abs!EntryFault(d, first, e) = "overflow" -> "crashed"
             [] OTHER -> "failed"
  BY SameNames, SameOrders DEF Abs!Verdict
<1> HIDE DEF roles
<1> QED BY <1>2, <1>3, <1>4, <1>5

---------------------------------------------------------------------------
(* The entries of a role. *)

\* Found has the menus of a role's entries before the j-th, none of which ends decodeUI.
Before(j) == {EntryOrder[i] : i \in 1..j - 1}
EntriesBefore(d, r, j, found) ==
  /\ \A e \in Before(j) : ~Abs!Uncaught(d, r, e)
  /\ found = [e \in {x \in Before(j) : Abs!EntryFault(d, r, x) = None} |->
                Menu(d.sets[r][e], None, Abs!Decoded(d)[d.sets[r][e]].refs)]

Behind == IF stage = "index" THEN Len(EntryOrder) + 1 ELSE entry
EntriesInv == stage \in {"entry", "menu", "index"} => EntriesBefore(document, Role, Behind, menus)

LEMMA BeforeIs ==
  /\ Before(1) = {} /\ Before(Len(EntryOrder) + 1) = Entries
  /\ \A j \in DOMAIN EntryOrder : /\ Before(j + 1) = Before(j) \cup {EntryOrder[j]}
                                  /\ EntryOrder[j] \notin Before(j)
<1>1. DOMAIN EntryOrder = 1..4 /\ Len(EntryOrder) = 4
  BY DEF EntryOrder
<1>2. Before(1) = {}
  BY DEF Before
<1>3. Before(Len(EntryOrder) + 1) = Entries
  BY <1>1 DEF Before, Entries
<1>4. ASSUME NEW j \in 1..4
      PROVE  Before(j + 1) = Before(j) \cup {EntryOrder[j]} /\ EntryOrder[j] \notin Before(j)
  <2>1. 1..(j + 1) - 1 = (1..j - 1) \cup {j}
    OBVIOUS
  <2>2. Before(j + 1) = Before(j) \cup {EntryOrder[j]}
    BY <2>1 DEF Before
  <2>3. ASSUME NEW i \in 1..j - 1 PROVE EntryOrder[i] # EntryOrder[j]
    BY DEF EntryOrder
  <2> QED BY <2>2, <2>3 DEF Before
<1> QED BY <1>1, <1>2, <1>3, <1>4

LEMMA NoEntry ==
  ASSUME NEW d, NEW r
  PROVE  EntriesBefore(d, r, 1, Empty)
BY BeforeIs DEF EntriesBefore, Empty

\* An entry without a menu, where that is allowed.
LEMMA EntrySkipped ==
  ASSUME NEW d, NEW r, NEW j \in DOMAIN EntryOrder, NEW found, EntriesBefore(d, r, j, found),
         ~Abs!Uncaught(d, r, EntryOrder[j]), Abs!EntryFault(d, r, EntryOrder[j]) # None
  PROVE  EntriesBefore(d, r, j + 1, found)
<1>1. Before(j + 1) = Before(j) \cup {EntryOrder[j]}
  BY BeforeIs
<1>2. {x \in Before(j + 1) : Abs!EntryFault(d, r, x) = None}
        = {x \in Before(j) : Abs!EntryFault(d, r, x) = None}
  BY <1>1
<1> QED BY <1>1, <1>2 DEF EntriesBefore

LEMMA EntryAdded ==
  ASSUME NEW d, NEW r, NEW j \in DOMAIN EntryOrder, NEW found, EntriesBefore(d, r, j, found),
         Abs!EntryFault(d, r, EntryOrder[j]) = None
  PROVE  LET id == d.sets[r][EntryOrder[j]]
         IN EntriesBefore(d, r, j + 1,
              emplace(found, EntryOrder[j], Menu(id, None, Abs!Decoded(d)[id].refs)))
<1> DEFINE entryMenu(e) == Menu(d.sets[r][e], None, Abs!Decoded(d)[d.sets[r][e]].refs)
           here == EntryOrder[j]
           fine(k) == {x \in Before(k) : Abs!EntryFault(d, r, x) = None}
           more == emplace(found, here, entryMenu(here))
<1>1. Before(j + 1) = Before(j) \cup {here} /\ here \notin Before(j)
  BY BeforeIs
<1>2. fine(j + 1) = fine(j) \cup {here} /\ here \notin fine(j)
  BY <1>1
<1>3. found = [e \in fine(j) |-> entryMenu(e)]
  BY DEF EntriesBefore
<1>4. \A e \in Before(j + 1) : ~Abs!Uncaught(d, r, e)
  BY <1>1 DEF EntriesBefore, Abs!Uncaught
<1> HIDE DEF entryMenu, fine, here
<1>5. more = [e \in fine(j + 1) |-> entryMenu(e)]
  BY <1>2, <1>3 DEF emplace
<1> QED BY <1>4, <1>5 DEF EntriesBefore, entryMenu, fine, here

LEMMA AllEntries ==
  ASSUME NEW d, NEW r, NEW found, EntriesBefore(d, r, Len(EntryOrder) + 1, found)
  PROVE  /\ found = Abs!RoleMenus(d, r)
         /\ \A e \in Entries : ~Abs!Uncaught(d, r, e)
BY BeforeIs, SameNames, SameOrders DEF EntriesBefore, Abs!RoleMenus

\* The first call for an entry returns what MenuSpec has for the entry.
LEMMA EntryReturned ==
  ASSUME IInv, RefsInv, CallsAreFine, Return, Top = 1
  PROVE  LET id == document.sets[Role][Entry]
         IN /\ Abs!EntryFault(document, Role, Entry) = None
            /\ menus' = emplace(menus, Entry, Menu(id, None, Abs!Decoded(document)[id].refs))
<1> DEFINE n == StackLimit - (Top - 1)
<1>1. stage = "menu" /\ menus' = emplace(menus, Entry, Menu(Frame.id, Frame.condition, Frame.refs))
  BY DEF Return
<1>2. Frame = stack[1] /\ Frame.id \in MenuIds
  BY <1>1, InnermostFrame
<1>3. Frame.id = document.sets[Role][Entry] /\ Frame.condition = None
  BY <1>1, <1>2 DEF CallsAreFine
<1>4. Abs!Walk(document)[n][Frame.id].fault = None /\ Abs!Walk(document)[n][Frame.id].refs = Frame.refs
  BY ReturnsDecoded
<1>5. n = StackLimit
  BY StackLimitAssumption
<1>6. Abs!Decoded(document)[Frame.id].fault = None /\ Abs!Decoded(document)[Frame.id].refs = Frame.refs
  BY <1>4, <1>5 DEF Abs!Decoded
<1>7. Frame.id # None
  BY <1>2, MenuNoneAssumption
<1> QED BY <1>1, <1>3, <1>6, <1>7 DEF Abs!EntryFault

LEMMA EntriesStep ==
  ASSUME IInv, IdentInv, CallsInv, RefsInv, CallsAreFine, EntriesInv, [Next]_vars
  PROVE  EntriesInv'
<1> SUFFICES ASSUME stage' \in {"entry", "menu", "index"}
             PROVE  EntriesBefore(document, Role', Behind', menus')
  <2>1. document' = document
    BY DEF Next, vars, decodeEntry, decodeRef, decodeMenuRef, Call, Return, Throw, Raise, Overflow,
           makeUserInterface, addEntry, skipRef, addMenu, emplaceUI, Returned
  <2> QED BY <2>1 DEF EntriesInv
<1>1. entry \in 1..Len(EntryOrder) + 1 /\ DOMAIN EntryOrder = 1..Len(EntryOrder) /\ Len(EntryOrder) = 4
  BY DEF IInv, TypeOK, EntryOrder
<1>2. CASE decodeEntry \/ decodeRef \/ decodeMenuRef
  <2>1. /\ stage \in {"entry", "menu"} /\ stage' \in {"entry", "menu"}
        /\ menus' = menus /\ role' = role /\ entry' = entry
    BY <1>2 DEF decodeEntry, decodeRef, decodeMenuRef, Call, InLoop
  <2> QED BY <2>1 DEF EntriesInv, Behind, Role
<1>3. CASE Return
  <2>1. stage = "menu" /\ entry \in DOMAIN EntryOrder /\ Entry = EntryOrder[entry]
    BY <1>3 DEF Return, IInv, TypeOK, Entry
  <2>2. EntriesBefore(document, Role, entry, menus)
    BY <2>1 DEF EntriesInv, Behind
  <2>3. CASE Top = 1
    <3>1. stage' = "entry" /\ entry' = entry + 1 /\ role' = role
      BY <1>3, <2>3 DEF Return
    <3>2. /\ Abs!EntryFault(document, Role, Entry) = None
          /\ menus' = emplace(menus, Entry,
                        Menu(document.sets[Role][Entry], None,
                             Abs!Decoded(document)[document.sets[Role][Entry]].refs))
      BY <1>3, <2>3, EntryReturned
    <3>3. EntriesBefore(document, Role, entry + 1, menus')
      BY <2>1, <2>2, <3>2, EntryAdded
    <3> QED BY <3>1, <3>3 DEF Behind, Role
  <2>4. CASE Top # 1
    <3>1. stage' = "menu" /\ menus' = menus /\ role' = role /\ entry' = entry
      BY <1>3, <2>1, <2>4 DEF Return
    <3> QED BY <2>2, <3>1 DEF Behind, Role
  <2> QED BY <2>3, <2>4
<1>4. CASE Throw
  <2>1. PICK x \in {"out_of_range", "other"} :
          Raise(x) /\ Abs!EntryFault(document, Role, Entry) = x
    BY <1>4, ThrowIs
  <2>2. stage \in {"entry", "menu"} /\ entry \in DOMAIN EntryOrder /\ Entry = EntryOrder[entry]
    BY <1>4 DEF Throw, InLoop, IInv, TypeOK, Entry
  <2>3. /\ x = "out_of_range" /\ Entry # "IdentificationMenu" /\ entry' = entry + 1
        /\ stage' = "entry" /\ menus' = menus /\ role' = role
    BY <2>1 DEF Raise, isCaught
  <2>4. ~Abs!Uncaught(document, Role, Entry) /\ Abs!EntryFault(document, Role, Entry) # None
    BY <2>1, <2>3, MenuNoneAssumption DEF Abs!Uncaught
  <2>5. EntriesBefore(document, Role, entry, menus)
    BY <2>2 DEF EntriesInv, Behind
  <2>6. EntriesBefore(document, Role, entry + 1, menus)
    BY <2>2, <2>4, <2>5, EntrySkipped
  <2> QED BY <2>3, <2>6 DEF Behind, Role
<1>5. CASE Overflow
  BY <1>5 DEF Overflow
<1>6. CASE makeUserInterface
  <2>1. /\ stage = "entry" /\ entry = Len(EntryOrder) + 1
        /\ stage' = "index" /\ menus' = menus /\ role' = role
    BY <1>1, <1>6 DEF makeUserInterface
  <2> QED BY <2>1 DEF EntriesInv, Behind, Role
<1>7. CASE addEntry \/ skipRef \/ addMenu
  <2>1. stage = "index" /\ stage' = "index" /\ menus' = menus /\ role' = role
    BY <1>7 DEF addEntry, skipRef, addMenu
  <2> QED BY <2>1 DEF EntriesInv, Behind, Role
<1>8. CASE emplaceUI
  <2>1. stage' = "entry" /\ entry' = 1 /\ menus' = Empty
    BY <1>8 DEF emplaceUI
  <2> QED BY <2>1, NoEntry DEF Behind
<1>9. CASE Returned \/ UNCHANGED vars
  <2>1. stage' = stage /\ menus' = menus /\ role' = role /\ entry' = entry
    BY <1>9 DEF Returned, vars
  <2> QED BY <2>1 DEF EntriesInv, Behind, Role
<1> QED BY <1>2, <1>3, <1>4, <1>5, <1>6, <1>7, <1>8, <1>9 DEF Next

---------------------------------------------------------------------------
(* The index of a role. *)

\* The references still to be indexed lead to the rest of the trees, after those in P.
IndexedTo(d, r, j, P, refs) == P \o Preorder(d, refs) = Indexed(d, r, j)
IndexInv ==
  stage = "index" =>
    /\ todo \in Seq(DecodedRefs(document))
    /\ \E P \in Seq(DecodedMenus(document)) :
         index = Abs!FirstById(P) /\ IndexedTo(document, Role, entry - 1, P, todo)

LEMMA NothingTodo ==
  ASSUME NEW d \in Document, NEW r \in UserRoles, NEW j \in 0..Len(EntryOrder),
         NEW P \in Seq(DecodedMenus(d)), IndexedTo(d, r, j, P, <<>>)
  PROVE  P = Indexed(d, r, j)
<1>1. P \o <<>> = P
  BY ConcatEmptySeq
<1> QED BY <1>1, PreorderNothing DEF IndexedTo

LEMMA EntryTodo ==
  ASSUME NEW d \in Document, NEW r \in UserRoles, NEW j \in DOMAIN EntryOrder,
         NEW P \in Seq(DecodedMenus(d)), IndexedTo(d, r, j - 1, P, <<>>)
  PROVE  LET found == Abs!RoleMenus(d, r)
             e == EntryOrder[j]
             refs == IF e \in DOMAIN found THEN <<found[e]>> ELSE <<>>
         IN refs \in Seq(DecodedRefs(d)) /\ IndexedTo(d, r, j, P, refs)
<1>1. j - 1 \in 0..Len(EntryOrder)
  BY DEF EntryOrder
<1>2. P = Indexed(d, r, j - 1)
  BY <1>1, NothingTodo
<1> DEFINE found == Abs!RoleMenus(d, r)
           e == EntryOrder[j]
           refs == IF e \in DOMAIN found THEN <<found[e]>> ELSE <<>>
<1>3. refs \in Seq(DecodedRefs(d)) /\ EntryTree(d, r, j) = Preorder(d, refs)
  BY EntryTreeIs
<1>4. Indexed(d, r, j) = Indexed(d, r, j - 1) \o EntryTree(d, r, j)
  BY IndexedIs
<1> HIDE DEF refs
<1>5. IndexedTo(d, r, j, P, refs)
  BY <1>2, <1>3, <1>4 DEF IndexedTo
<1> QED BY <1>3, <1>5 DEF refs

LEMMA LeafDone ==
  ASSUME NEW d \in Document, NEW r, NEW j, NEW P, NEW refs \in Seq(DecodedRefs(d)), refs # <<>>,
         ~isMenu(Head(refs)), IndexedTo(d, r, j, P, refs)
  PROVE  Tail(refs) \in Seq(DecodedRefs(d)) /\ IndexedTo(d, r, j, P, Tail(refs))
<1>1. /\ Head(refs) \in DecodedRefs(d) /\ Tail(refs) \in Seq(DecodedRefs(d))
      /\ Preorder(d, refs) = Tree(d, Head(refs)) \o Preorder(d, Tail(refs))
  BY PreorderHead
<1>2. Tree(d, Head(refs)) = <<>>
  BY <1>1, TreeType
<1>3. Preorder(d, Tail(refs)) \in Seq(DecodedMenus(d))
  BY <1>1, PreorderType
<1>4. Preorder(d, refs) = Preorder(d, Tail(refs))
  BY <1>1, <1>2, <1>3, ConcatEmptySeq
<1> QED BY <1>1, <1>4 DEF IndexedTo

\* addMenu goes on with the references of the menu.
LEMMA MenuDone ==
  ASSUME NEW d \in Document, NEW r, NEW j, NEW P \in Seq(DecodedMenus(d)),
         NEW refs \in Seq(DecodedRefs(d)), refs # <<>>,
         isMenu(Head(refs)), IndexedTo(d, r, j, P, refs)
  PROVE  /\ Head(refs) \in DecodedMenus(d)
         /\ Head(refs).refs \o Tail(refs) \in Seq(DecodedRefs(d))
         /\ IndexedTo(d, r, j, Append(P, Head(refs)), Head(refs).refs \o Tail(refs))
<1> DEFINE head == Head(refs)
           tail == Tail(refs)
           subs == head.refs
           one == <<head>>
           under == Preorder(d, subs)
           after == Preorder(d, tail)
           X == DecodedMenus(d)
<1>1. /\ head \in DecodedRefs(d) /\ tail \in Seq(DecodedRefs(d))
      /\ Preorder(d, refs) = Tree(d, head) \o after
  BY PreorderHead
<1>2. head \in X
  BY <1>1, DecodedRef
<1>3. head.id \in Decodable(d) /\ subs = Abs!Decoded(d)[head.id].refs
  BY <1>2, DecodedMenu
<1>4. subs \in Seq(DecodedRefs(d))
  BY <1>3, DecodedRefsType
<1>5. Tree(d, head) = one \o under
  BY <1>1, TreeType
<1>6. one \in Seq(X) /\ under \in Seq(X) /\ after \in Seq(X)
  <2>1. under \in Seq(X)
    BY <1>4, PreorderType
  <2>2. after \in Seq(X)
    BY <1>1, PreorderType
  <2>3. one \in Seq(X)
    BY <1>2
  <2> QED BY <2>1, <2>2, <2>3
<1>7. Append(P, head) = P \o one
  BY <1>2, AppendIsConcat
<1> HIDE DEF head, tail, subs, one, X
<1>8. subs \o tail \in Seq(DecodedRefs(d)) /\ Preorder(d, subs \o tail) = under \o after
  BY <1>1, <1>4, PreorderConcat, ConcatProperties
<1> HIDE DEF under, after
<1>9. P \o ((one \o under) \o after) = (P \o one) \o (under \o after)
  <2> DEFINE rest == under \o after
  <2>1. P \in Seq(X)
    BY DEF X
  <2>2. (one \o under) \o after = one \o rest
    BY <1>6, ConcatThree
  <2>3. rest \in Seq(X)
    BY <1>6, ConcatProperties
  <2> HIDE DEF rest
  <2>4. one \in Seq(X)
    BY <1>6
  <2>5. P \o (one \o rest) = (P \o one) \o rest
    BY <2>1, <2>3, <2>4, ConcatThree
  <2> QED BY <2>2, <2>5 DEF rest
<1>10. IndexedTo(d, r, j, Append(P, head), subs \o tail)
  BY <1>1, <1>5, <1>7, <1>8, <1>9 DEF IndexedTo
<1> QED BY <1>2, <1>8, <1>10 DEF head, tail, subs, X

LEMMA IndexStep ==
  ASSUME IInv, IdentInv, EntriesInv, IndexInv, [Next]_vars
  PROVE  IndexInv'
<1> SUFFICES ASSUME stage' = "index"
             PROVE  /\ todo' \in Seq(DecodedRefs(document'))
                    /\ \E P \in Seq(DecodedMenus(document')) :
                         index' = Abs!FirstById(P) /\ IndexedTo(document', Role', entry' - 1, P, todo')
  BY DEF IndexInv
<1>1. document \in Document /\ Role \in UserRoles
  BY InvDocument
<1>2. \/ makeUserInterface \/ addEntry \/ skipRef \/ addMenu
      \/ stage = "index" /\ UNCHANGED vars
  BY DEF Next, decodeEntry, decodeRef, decodeMenuRef, Call, InLoop, Return, Throw, Raise, Overflow,
         emplaceUI, Returned, vars
<1>3. document' = document /\ Role' = Role
  BY <1>2 DEF makeUserInterface, addEntry, skipRef, addMenu, vars, Role
<1>4. CASE makeUserInterface
  <2>1. entry' = 1 /\ entry' - 1 = 0 /\ todo' = <<>> /\ index' = Empty
    BY <1>4 DEF makeUserInterface, IdentInv
  <2>2. IndexedTo(document, Role, 0, <<>>, <<>>)
    BY <1>1, PreorderNothing, IndexedIs DEF IndexedTo
  <2>3. <<>> \in Seq(DecodedMenus(document)) /\ <<>> \in Seq(DecodedRefs(document))
    BY EmptySeq
  <2> QED BY <1>3, <2>1, <2>2, <2>3, FirstByIdNothing
<1>5. ASSUME stage = "index"
      PROVE  /\ todo \in Seq(DecodedRefs(document))
             /\ \E P \in Seq(DecodedMenus(document)) :
                  index = Abs!FirstById(P) /\ IndexedTo(document, Role, entry - 1, P, todo)
  BY <1>5 DEF IndexInv
<1>6. CASE addEntry
  <2>1. /\ stage = "index" /\ todo = <<>> /\ entry \in DOMAIN EntryOrder
        /\ todo' = (IF Entry \in DOMAIN menus THEN <<menus[Entry]>> ELSE <<>>)
        /\ entry' = entry + 1 /\ index' = index /\ entry' - 1 = entry
    BY <1>6 DEF addEntry, EntryOrder
  <2>2. PICK P \in Seq(DecodedMenus(document)) :
          index = Abs!FirstById(P) /\ IndexedTo(document, Role, entry - 1, P, <<>>)
    BY <1>5, <2>1
  <2>3. menus = Abs!RoleMenus(document, Role)
    BY <2>1, AllEntries DEF EntriesInv, Behind
  <2>4. todo' \in Seq(DecodedRefs(document)) /\ IndexedTo(document, Role, entry, P, todo')
    BY <1>1, <2>1, <2>2, <2>3, EntryTodo DEF Entry
  <2> QED BY <1>3, <2>1, <2>2, <2>4
<1>7. CASE skipRef
  <2>1. /\ stage = "index" /\ todo # <<>> /\ ~isMenu(Head(todo)) /\ todo' = Tail(todo)
        /\ index' = index /\ entry' = entry
    BY <1>7 DEF skipRef
  <2>2. PICK P \in Seq(DecodedMenus(document)) :
          index = Abs!FirstById(P) /\ IndexedTo(document, Role, entry - 1, P, todo)
    BY <1>5, <2>1
  <2>3. todo' \in Seq(DecodedRefs(document)) /\ IndexedTo(document, Role, entry - 1, P, todo')
    BY <1>1, <1>5, <2>1, <2>2, LeafDone
  <2> QED BY <1>3, <2>1, <2>2, <2>3
<1>8. CASE addMenu
  <2> DEFINE head == Head(todo)
  <2>1. /\ stage = "index" /\ todo # <<>> /\ isMenu(head) /\ todo' = head.refs \o Tail(todo)
        /\ index' = emplace(index, head.id, head) /\ entry' = entry
    BY <1>8 DEF addMenu
  <2>2. PICK P \in Seq(DecodedMenus(document)) :
          index = Abs!FirstById(P) /\ IndexedTo(document, Role, entry - 1, P, todo)
    BY <1>5, <2>1
  <2>3. /\ head \in DecodedMenus(document) /\ todo' \in Seq(DecodedRefs(document))
        /\ IndexedTo(document, Role, entry - 1, Append(P, head), todo')
    BY <1>1, <1>5, <2>1, <2>2, MenuDone
  <2> HIDE DEF head
  <2>4. index' = Abs!FirstById(Append(P, head))
    BY <2>1, <2>2, <2>3, FirstByIdGrows
  <2>5. Append(P, head) \in Seq(DecodedMenus(document))
    BY <2>3, AppendProperties
  <2> QED BY <1>3, <2>1, <2>3, <2>4, <2>5
<1>9. CASE stage = "index" /\ UNCHANGED vars
  BY <1>3, <1>5, <1>9 DEF vars
<1> QED BY <1>2, <1>4, <1>6, <1>7, <1>8, <1>9

LEMMA IndexDone ==
  ASSUME IInv, EntriesInv, IndexInv, emplaceUI
  PROVE  /\ menus = Abs!RoleMenus(document, Role) /\ index = Abs!MenuIndex(document, Role)
         /\ \A e \in Entries : ~Abs!Uncaught(document, Role, e)
<1>1. /\ document \in Document /\ Role \in UserRoles
      /\ stage = "index" /\ todo = <<>> /\ entry \notin DOMAIN EntryOrder
  BY InvDocument DEF emplaceUI
<1>2. entry - 1 = Len(EntryOrder) /\ Len(EntryOrder) \in 0..Len(EntryOrder)
  BY <1>1 DEF IInv, TypeOK, EntryOrder
<1>3. PICK P \in Seq(DecodedMenus(document)) :
        index = Abs!FirstById(P) /\ IndexedTo(document, Role, Len(EntryOrder), P, <<>>)
  BY <1>1, <1>2 DEF IndexInv
<1>4. P = Indexed(document, Role, Len(EntryOrder))
  BY <1>1, <1>2, <1>3, NothingTodo
<1>5. index = Abs!MenuIndex(document, Role)
  BY <1>1, <1>3, <1>4, IndexedIs
<1>6. EntriesBefore(document, Role, Len(EntryOrder) + 1, menus)
  BY <1>1 DEF EntriesInv, Behind
<1> QED BY <1>5, <1>6, AllEntries

---------------------------------------------------------------------------
(* The roles, and what becomes of decodeUI. *)

RolesTo(j) == {RoleOrder[i] : i \in 1..j - 1}
RolesBefore(d, j, made) ==
  /\ \A r \in RolesTo(j), e \in Entries : ~Abs!Uncaught(d, r, e)
  /\ made = [r \in RolesTo(j) |-> [menus |-> Abs!RoleMenus(d, r), index |-> Abs!MenuIndex(d, r)]]
Reached == IF stage = "done" THEN Len(RoleOrder) + 1 ELSE role
RolesInv == stage \notin {"failed", "crashed"} => RolesBefore(document, Reached, uis)

LEMMA RolesToIs ==
  /\ RolesTo(1) = {} /\ RolesTo(Len(RoleOrder) + 1) = UserRoles
  /\ \A j \in DOMAIN RoleOrder : /\ RolesTo(j + 1) = RolesTo(j) \cup {RoleOrder[j]}
                                 /\ RoleOrder[j] \notin RolesTo(j)
<1>1. DOMAIN RoleOrder = 1..3 /\ Len(RoleOrder) = 3
  BY DEF RoleOrder
<1>2. RolesTo(1) = {}
  BY DEF RolesTo
<1>3. RolesTo(Len(RoleOrder) + 1) = UserRoles
  BY <1>1 DEF RolesTo, UserRoles
<1>4. ASSUME NEW j \in 1..3
      PROVE  RolesTo(j + 1) = RolesTo(j) \cup {RoleOrder[j]} /\ RoleOrder[j] \notin RolesTo(j)
  <2>1. 1..(j + 1) - 1 = (1..j - 1) \cup {j}
    OBVIOUS
  <2>2. RolesTo(j + 1) = RolesTo(j) \cup {RoleOrder[j]}
    BY <2>1 DEF RolesTo
  <2>3. ASSUME NEW i \in 1..j - 1 PROVE RoleOrder[i] # RoleOrder[j]
    BY DEF RoleOrder
  <2> QED BY <2>2, <2>3 DEF RolesTo
<1> QED BY <1>1, <1>2, <1>3, <1>4

LEMMA RoleAdded ==
  ASSUME NEW d, NEW j \in DOMAIN RoleOrder, NEW made, RolesBefore(d, j, made),
         \A e \in Entries : ~Abs!Uncaught(d, RoleOrder[j], e)
  PROVE  LET r == RoleOrder[j]
         IN RolesBefore(d, j + 1,
              emplace(made, r, [menus |-> Abs!RoleMenus(d, r), index |-> Abs!MenuIndex(d, r)]))
<1> DEFINE ui(r) == [menus |-> Abs!RoleMenus(d, r), index |-> Abs!MenuIndex(d, r)]
           here == RoleOrder[j]
           more == emplace(made, here, ui(here))
<1>1. RolesTo(j + 1) = RolesTo(j) \cup {here} /\ here \notin RolesTo(j)
  BY RolesToIs
<1>2. made = [r \in RolesTo(j) |-> ui(r)]
  BY DEF RolesBefore
<1>3. \A r \in RolesTo(j + 1), e \in Entries : ~Abs!Uncaught(d, r, e)
  BY <1>1 DEF RolesBefore
<1> HIDE DEF ui, here
<1>4. more = [r \in RolesTo(j + 1) |-> ui(r)]
  BY <1>1, <1>2 DEF emplace
<1> QED BY <1>3, <1>4 DEF RolesBefore, ui, here

LEMMA RolesStep ==
  ASSUME IInv, EntriesInv, IndexInv, RolesInv, [Next]_vars
  PROVE  RolesInv'
<1> SUFFICES ASSUME stage' \notin {"failed", "crashed"}
             PROVE  RolesBefore(document, Reached', uis')
  <2>1. document' = document
    BY DEF Next, vars, decodeEntry, decodeRef, decodeMenuRef, Call, Return, Throw, Raise, Overflow,
           makeUserInterface, addEntry, skipRef, addMenu, emplaceUI, Returned
  <2> QED BY <2>1 DEF RolesInv
<1>1. CASE emplaceUI
  <2>1. /\ stage = "index" /\ role \in DOMAIN RoleOrder /\ Role = RoleOrder[role]
        /\ uis' = emplace(uis, Role, [menus |-> menus, index |-> index])
    BY <1>1 DEF emplaceUI, IInv, TypeOK, Role
  <2>2. /\ menus = Abs!RoleMenus(document, Role) /\ index = Abs!MenuIndex(document, Role)
        /\ \A e \in Entries : ~Abs!Uncaught(document, Role, e)
    BY <1>1, IndexDone
  <2>3. RolesBefore(document, role, uis)
    BY <2>1 DEF RolesInv, Reached
  <2>4. RolesBefore(document, role + 1, uis')
    BY <2>1, <2>2, <2>3, RoleAdded
  <2>5. Reached' = role + 1
    BY <1>1 DEF emplaceUI, Reached
  <2> QED BY <2>4, <2>5
<1>2. CASE decodeEntry \/ decodeRef \/ decodeMenuRef \/ Return
  <2>1. stage \in {"entry", "menu"} /\ stage' \in {"entry", "menu"} /\ uis' = uis /\ role' = role
    BY <1>2 DEF decodeEntry, decodeRef, decodeMenuRef, Return, Call, InLoop
  <2> QED BY <2>1 DEF RolesInv, Reached
<1>3. CASE Throw
  <2>1. PICK x : Raise(x)
    BY <1>3 DEF Throw
  <2>2. stage \in {"entry", "menu"} /\ stage' = "entry" /\ uis' = uis /\ role' = role
    BY <1>3, <2>1 DEF Raise, Throw, InLoop
  <2> QED BY <2>2 DEF RolesInv, Reached
<1>4. CASE Overflow
  BY <1>4 DEF Overflow
<1>5. CASE makeUserInterface \/ addEntry \/ skipRef \/ addMenu
  <2>1. stage \in {"entry", "index"} /\ stage' = "index" /\ uis' = uis /\ role' = role
    BY <1>5 DEF makeUserInterface, addEntry, skipRef, addMenu
  <2> QED BY <2>1 DEF RolesInv, Reached
<1>6. CASE Returned \/ UNCHANGED vars
  <2>1. stage' = stage /\ uis' = uis /\ role' = role
    BY <1>6 DEF Returned, vars
  <2> QED BY <2>1 DEF RolesInv, Reached
<1> QED BY <1>1, <1>2, <1>3, <1>4, <1>5, <1>6 DEF Next

OutcomeInv == stage \in {"done", "failed", "crashed"} => Abs!Verdict(document) = stage

\* The entry at hand ends decodeUI.
LEMMA EntryDecides ==
  ASSUME IInv, EntriesInv, RolesInv, stage \in {"entry", "menu"}, entry \in DOMAIN EntryOrder,
         Abs!Uncaught(document, Role, Entry)
  PROVE  Abs!Verdict(document) =
           IF Abs!EntryFault(document, Role, Entry) = "overflow" THEN "crashed" ELSE "failed"
<1>1. role \in DOMAIN RoleOrder /\ Role = RoleOrder[role] /\ Entry = EntryOrder[entry]
  BY DEF IInv, TypeOK, Role, Entry
<1>2. \A j \in 1..role - 1, e \in Entries : ~Abs!Uncaught(document, RoleOrder[j], e)
  <2>1. RolesBefore(document, role, uis)
    BY DEF RolesInv, Reached
  <2> QED BY <2>1 DEF RolesBefore, RolesTo
<1>3. \A j \in 1..entry - 1 : ~Abs!Uncaught(document, RoleOrder[role], EntryOrder[j])
  <2>1. EntriesBefore(document, Role, entry, menus)
    BY DEF EntriesInv, Behind
  <2> QED BY <1>1, <2>1 DEF EntriesBefore, Before
<1> QED BY <1>1, <1>2, <1>3, FirstUncaught

LEMMA OutcomeStep ==
  ASSUME IInv, CallsInv, RefsInv, CallsAreFine, EntriesInv, IndexInv, RolesInv, OutcomeInv,
         [Next]_vars
  PROVE  OutcomeInv'
<1> SUFFICES ASSUME stage' \in {"done", "failed", "crashed"}
             PROVE  Abs!Verdict(document) = stage'
  <2>1. document' = document
    BY DEF Next, vars, decodeEntry, decodeRef, decodeMenuRef, Call, Return, Throw, Raise, Overflow,
           makeUserInterface, addEntry, skipRef, addMenu, emplaceUI, Returned
  <2> QED BY <2>1 DEF OutcomeInv
<1>1. \/ Throw \/ Overflow \/ emplaceUI
      \/ stage \in {"done", "failed", "crashed"} /\ UNCHANGED vars
  BY DEF Next, vars, decodeEntry, decodeRef, decodeMenuRef, Call, InLoop, Return,
         makeUserInterface, addEntry, skipRef, addMenu, Returned
<1>2. CASE Throw
  <2>1. PICK x \in {"out_of_range", "other"} :
          Raise(x) /\ Abs!EntryFault(document, Role, Entry) = x
    BY <1>2, ThrowIs
  <2>2. stage \in {"entry", "menu"} /\ entry \in DOMAIN EntryOrder
    BY <1>2 DEF Throw, InLoop, IInv, TypeOK
  <2>3. stage' = "failed" /\ (x = "other" \/ Entry = "IdentificationMenu")
    BY <2>1 DEF Raise, isCaught
  <2>4. Abs!Uncaught(document, Role, Entry)
    BY <2>1, <2>3, MenuNoneAssumption DEF Abs!Uncaught
  <2> QED BY <2>1, <2>2, <2>3, <2>4, EntryDecides
<1>3. CASE Overflow
  <2>1. Abs!EntryFault(document, Role, Entry) = "overflow"
    BY <1>3, OverflowIs
  <2>2. stage \in {"entry", "menu"} /\ entry \in DOMAIN EntryOrder /\ stage' = "crashed"
    BY <1>3 DEF Overflow, InLoop, IInv, TypeOK
  <2>3. Abs!Uncaught(document, Role, Entry)
    BY <2>1, MenuNoneAssumption DEF Abs!Uncaught
  <2> QED BY <2>1, <2>2, <2>3, EntryDecides
<1>4. CASE emplaceUI
  <2>1. stage' = "done" /\ document' = document
    BY <1>4 DEF emplaceUI
  <2>2. RolesInv'
    BY RolesStep
  <2>3. RolesBefore(document, Len(RoleOrder) + 1, uis')
    BY <2>1, <2>2 DEF RolesInv, Reached
  <2> QED BY <2>1, <2>3, RolesToIs, AllIsDone DEF RolesBefore
<1>5. CASE stage \in {"done", "failed", "crashed"} /\ UNCHANGED vars
  BY <1>5 DEF OutcomeInv, vars
<1> QED BY <1>1, <1>2, <1>3, <1>4, <1>5

---------------------------------------------------------------------------
(* MenuSpec. *)

\* What every state says of MenuSpec's one step: the calls, the entries, the roles.
AbsInv == FullInv /\ CallsAreFine /\ EntriesInv /\ IndexInv /\ RolesInv /\ OutcomeInv

LEMMA InitAbsInv ==
  Init => AbsInv
<1> SUFFICES ASSUME Init PROVE AbsInv
  OBVIOUS
<1>1. stage = "entry" /\ role = 1 /\ entry = 1 /\ menus = Empty /\ uis = Empty
  BY DEF Init
<1>2. EntriesInv
  BY <1>1, NoEntry DEF EntriesInv, Behind
<1>3. RolesInv
  BY <1>1, RolesToIs DEF RolesInv, Reached, RolesBefore, Empty
<1> QED BY <1>1, <1>2, <1>3, InitFullInv DEF AbsInv, CallsAreFine, IndexInv, OutcomeInv

LEMMA NextAbsInv ==
  AbsInv /\ [Next]_vars => AbsInv'
<1> SUFFICES ASSUME AbsInv, [Next]_vars PROVE AbsInv'
  OBVIOUS
<1>1. /\ FullInv /\ IInv /\ IdentInv /\ CallsInv /\ RefsInv
      /\ CallsAreFine /\ EntriesInv /\ IndexInv /\ RolesInv /\ OutcomeInv
  BY DEF AbsInv, FullInv
<1>2. FullInv'
  BY <1>1, NextFullInv
<1>3. CallsAreFine'
  BY <1>1, CallsFineStep
<1>4. EntriesInv'
  BY <1>1, EntriesStep
<1>5. IndexInv'
  BY <1>1, IndexStep
<1>6. RolesInv'
  BY <1>1, RolesStep
<1>7. OutcomeInv'
  BY <1>1, OutcomeStep
<1> QED BY <1>2, <1>3, <1>4, <1>5, <1>6, <1>7 DEF AbsInv

LEMMA AbsInvHolds == Spec => []AbsInv
BY InitAbsInv, NextAbsInv, PTL DEF Spec

LEMMA StepDecodes ==
  AbsInv /\ [Next]_vars => [Abs!Decode]_(Abs!absVars)
<1> SUFFICES ASSUME AbsInv, [Next]_vars PROVE [Abs!Decode]_(Abs!absVars)
  OBVIOUS
<1> DEFINE over == {"done", "failed", "crashed"}
           status == IF stage \in over THEN stage ELSE "running"
           result == IF stage = "done" THEN uis ELSE Empty
<1>1. document' = document
  BY DEF Next, vars, decodeEntry, decodeRef, decodeMenuRef, Call, Return, Throw, Raise, Overflow,
         makeUserInterface, addEntry, skipRef, addMenu, emplaceUI, Returned
<1>2. CASE stage \in over
  <2>1. UNCHANGED vars
    BY <1>2 DEF Next, decodeEntry, decodeRef, decodeMenuRef, InLoop, Return, Throw, Overflow,
                makeUserInterface, addEntry, skipRef, addMenu, emplaceUI, Returned, vars
  <2>2. document' = document /\ stage' = stage /\ uis' = uis
    BY <2>1 DEF vars
  <2> QED BY <2>2 DEF Abs!absVars
<1>3. CASE stage \notin over /\ stage' \notin over
  BY <1>1, <1>3 DEF Abs!absVars
<1>4. CASE stage \notin over /\ stage' \in over
  <2>1. RolesInv' /\ OutcomeInv'
    BY NextAbsInv DEF AbsInv
  <2>2. Abs!Verdict(document) = stage'
    BY <1>1, <1>4, <2>1 DEF OutcomeInv
  <2>3. status = "running" /\ status' = stage' /\ stage' # "running"
    BY <1>4
  <2>4. CASE stage' = "done"
    <3>1. RolesBefore(document, Len(RoleOrder) + 1, uis')
      BY <1>1, <2>1, <2>4 DEF RolesInv, Reached
    <3>2. uis' = [r \in UserRoles |-> [menus |-> Abs!RoleMenus(document, r),
                                       index |-> Abs!MenuIndex(document, r)]]
      BY <3>1, RolesToIs DEF RolesBefore
    <3>3. result' = [r \in Abs!UserRoles |-> [menus |-> Abs!RoleMenus(document, r),
                                              index |-> Abs!MenuIndex(document, r)]]
      BY <2>4, <3>2, SameOrders
    <3> QED BY <1>1, <2>2, <2>3, <2>4, <3>3 DEF Abs!Decode
  <2>5. CASE stage' # "done"
    <3>1. result' = Abs!NoUIs
      BY <2>5 DEF Empty, Abs!NoUIs
    <3> QED BY <1>1, <2>2, <2>3, <2>5, <3>1 DEF Abs!Decode
  <2> QED BY <2>4, <2>5
<1> QED BY <1>2, <1>3, <1>4

---------------------------------------------------------------------------
(* Menus as lists of lookups. *)

\* What a list comes to: the exception of its first lookup that fails.
\* A member of a list of lookups, and the exceptions it may raise.
Look == Lookup \cup {TooDeep}
Faults == {None, "out_of_range", "other", "overflow"}

LEMMA LookFault ==
  ASSUME NEW lookup \in Look, NEW names
  PROVE  Fault(lookup, names) \in Faults
<1>1. CASE lookup = TooDeep
  BY <1>1 DEF TooDeep, Fault, Faults
<1>2. CASE lookup \in Lookup
  BY <1>2, LookupFault DEF Faults
<1> QED BY <1>1, <1>2 DEF Look

LEMMA OutcomeOf ==
  ASSUME NEW list \in Seq(Look), NEW known
  PROVE  \/ /\ \A i \in 1..Len(list) : Fault(list[i], known) = None
            /\ MenuOutcome(list, known) = "menu"
         \/ \E i \in 1..Len(list) :
              /\ Fault(list[i], known) \in {"out_of_range", "other", "overflow"}
              /\ \A j \in 1..i - 1 : Fault(list[j], known) = None
              /\ MenuOutcome(list, known) = Fault(list[i], known)
<1> DEFINE bad == {i \in DOMAIN list : Fault(list[i], known) # None}
<1>1. DOMAIN list = 1..Len(list) /\ Len(list) \in Nat /\ list # None
  BY LenProperties, MenuNoneAssumption DEF MenuList, Look
<1>2. MenuOutcome(list, known) = IF bad = {} THEN "menu" ELSE Fault(list[FirstIn(bad)], known)
  BY <1>1 DEF MenuOutcome, FirstIn
<1>3. CASE bad = {}
  BY <1>1, <1>2, <1>3
<1>4. CASE bad # {}
  <2>1. bad \in SUBSET Nat
    BY <1>1
  <2>2. PICK i \in bad : \A j \in bad : i <= j
    <3> HIDE DEF bad
    <3> QED BY <1>4, <2>1, LeastElement
  <2>3. i \in 1..Len(list) /\ Fault(list[i], known) # None
    BY <1>1
  <2>4. \A j \in 1..i - 1 : Fault(list[j], known) = None
    <3> SUFFICES ASSUME NEW j \in 1..i - 1, Fault(list[j], known) # None PROVE FALSE
      OBVIOUS
    <3>1. j \in DOMAIN list /\ ~(i <= j)
      BY <1>1, <2>3
    <3> QED BY <2>2, <3>1
  <2>5. list[i] \in Look
    BY <2>3, ElementOfSeq
  <2>6. Fault(list[i], known) \in {"out_of_range", "other", "overflow"}
    BY <2>3, <2>5, LookFault DEF Faults
  <2> HIDE DEF bad
  <2>7. FirstIn(bad) = i
    BY <2>1, <2>2, FirstIs
  <2> QED BY <1>2, <1>4, <2>3, <2>4, <2>6, <2>7
<1> QED BY <1>3, <1>4

LEMMA OutcomeType ==
  ASSUME NEW list \in Seq(Look), NEW known
  PROVE  MenuOutcome(list, known) \in {"menu", "out_of_range", "other", "overflow"}
BY OutcomeOf

LEMMA OutcomeFine ==
  ASSUME NEW list \in Seq(Look), NEW known, \A i \in 1..Len(list) : Fault(list[i], known) = None
  PROVE  MenuOutcome(list, known) = "menu"
BY OutcomeOf, MenuNoneAssumption

\* The first lookup that fails.
LEMMA OutcomeFirst ==
  ASSUME NEW list \in Seq(Look), NEW known, NEW i \in 1..Len(list),
         Fault(list[i], known) # None, \A j \in 1..i - 1 : Fault(list[j], known) = None
  PROVE  MenuOutcome(list, known) = Fault(list[i], known)
<1>1. Len(list) \in Nat
  BY LenProperties
<1>2. PICK k \in 1..Len(list) : /\ Fault(list[k], known) \in {"out_of_range", "other", "overflow"}
                                /\ \A j \in 1..k - 1 : Fault(list[j], known) = None
                                /\ MenuOutcome(list, known) = Fault(list[k], known)
  BY OutcomeOf
<1>3. Fault(list[k], known) # None
  BY <1>2, MenuNoneAssumption
<1>4. k \notin 1..i - 1 /\ i \notin 1..k - 1
  BY <1>2, <1>3
<1>5. k = i
  BY <1>1, <1>4
<1> QED BY <1>2, <1>5

\* The first of two lists decides, if it fails.
LEMMA OutcomeConcat ==
  ASSUME NEW s \in Seq(Look), NEW t \in Seq(Look), NEW known
  PROVE  MenuOutcome(s \o t, known) =
           IF MenuOutcome(s, known) = "menu" THEN MenuOutcome(t, known) ELSE MenuOutcome(s, known)
<1> DEFINE both == s \o t
<1>1. /\ both \in Seq(Look) /\ Len(both) = Len(s) + Len(t)
      /\ Len(s) \in Nat /\ Len(t) \in Nat
      /\ \A i \in 1..Len(s) + Len(t) : both[i] = IF i <= Len(s) THEN s[i] ELSE t[i - Len(s)]
  BY ConcatProperties, LenProperties
<1> HIDE DEF both
<1>2. ASSUME NEW i \in 1..Len(s) PROVE i \in 1..Len(both) /\ both[i] = s[i]
  BY <1>1
<1>3. CASE MenuOutcome(s, known) # "menu"
  <2>1. PICK i \in 1..Len(s) : /\ Fault(s[i], known) \in {"out_of_range", "other", "overflow"}
                               /\ \A j \in 1..i - 1 : Fault(s[j], known) = None
                               /\ MenuOutcome(s, known) = Fault(s[i], known)
    BY <1>3, OutcomeOf
  <2>2. i \in 1..Len(both) /\ both[i] = s[i] /\ Fault(both[i], known) # None
    BY <1>2, <2>1, MenuNoneAssumption
  <2>3. \A j \in 1..i - 1 : Fault(both[j], known) = None
    <3>1. \A j \in 1..i - 1 : j \in 1..Len(s)
      BY <1>1
    <3> QED BY <1>2, <2>1, <3>1
  <2>4. MenuOutcome(both, known) = Fault(both[i], known)
    BY <1>1, <2>2, <2>3, OutcomeFirst
  <2> QED BY <1>3, <2>1, <2>2, <2>4 DEF both
<1>4. CASE MenuOutcome(s, known) = "menu"
  <2>1. \A i \in 1..Len(s) : Fault(s[i], known) = None
    <3>1. ~(MenuOutcome(s, known) \in {"out_of_range", "other", "overflow"})
      BY <1>4
    <3> QED BY <3>1, OutcomeOf
  <2>2. ASSUME NEW i \in 1..Len(t) PROVE Len(s) + i \in 1..Len(both) /\ both[Len(s) + i] = t[i]
    <3>1. Len(s) + i \in 1..Len(s) + Len(t) /\ ~(Len(s) + i <= Len(s)) /\ (Len(s) + i) - Len(s) = i
      BY <1>1
    <3> QED BY <1>1, <3>1
  <2>3. CASE \A i \in 1..Len(t) : Fault(t[i], known) = None
    <3>1. MenuOutcome(t, known) = "menu"
      BY <2>3, OutcomeFine
    <3>2. ASSUME NEW i \in 1..Len(both) PROVE Fault(both[i], known) = None
      <4>1. CASE i <= Len(s)
        BY <1>1, <2>1, <4>1
      <4>2. CASE ~(i <= Len(s))
        <5>1. i - Len(s) \in 1..Len(t) /\ both[i] = t[i - Len(s)]
          BY <1>1, <4>2
        <5> QED BY <2>3, <5>1
      <4> QED BY <4>1, <4>2
    <3>3. MenuOutcome(both, known) = "menu"
      BY <1>1, <3>2, OutcomeFine
    <3> QED BY <1>4, <3>1, <3>3 DEF both
  <2>4. CASE ~\A i \in 1..Len(t) : Fault(t[i], known) = None
    <3>1. PICK i \in 1..Len(t) : /\ Fault(t[i], known) \in {"out_of_range", "other", "overflow"}
                                 /\ \A j \in 1..i - 1 : Fault(t[j], known) = None
                                 /\ MenuOutcome(t, known) = Fault(t[i], known)
      BY <2>4, OutcomeOf
    <3> DEFINE k == Len(s) + i
    <3>2. k \in 1..Len(both) /\ both[k] = t[i] /\ Fault(both[k], known) # None
      BY <2>2, <3>1, MenuNoneAssumption
    <3>3. ASSUME NEW j \in 1..k - 1 PROVE Fault(both[j], known) = None
      <4>1. j \in 1..Len(s) + Len(t)
        BY <1>1
      <4>2. CASE j <= Len(s)
        BY <1>1, <2>1, <4>1, <4>2
      <4>3. CASE ~(j <= Len(s))
        <5> DEFINE ns == Len(s)
        <5>1. ns \in Nat /\ i \in Nat /\ j \in 1..(ns + i) - 1 /\ ~(j <= ns)
          BY <1>1, <4>3
        <5>2. both[j] = t[j - ns]
          BY <1>1, <4>1, <4>3
        <5> HIDE DEF ns
        <5>3. j - ns \in 1..i - 1
          BY <5>1
        <5> QED BY <3>1, <5>2, <5>3
      <4> QED BY <4>2, <4>3
    <3> HIDE DEF k
    <3>4. MenuOutcome(both, known) = Fault(both[k], known)
      BY <1>1, <3>2, <3>3, OutcomeFirst
    <3> QED BY <1>4, <3>1, <3>2, <3>4 DEF both
  <2> QED BY <2>3, <2>4
<1> QED BY <1>3, <1>4

LEMMA OutcomeNothing ==
  ASSUME NEW known
  PROVE  MenuOutcome(<<>>, known) = "menu" /\ <<>> \in Seq(Look)
<1>1. <<>> \in Seq(Look)
  OBVIOUS
<1>2. \A i \in 1..Len(<<>>) : Fault(<<>>[i], known) = None
  OBVIOUS
<1> QED BY <1>1, <1>2, OutcomeFine

LEMMA OutcomeOne ==
  ASSUME NEW lookup \in Look, NEW known
  PROVE  /\ <<lookup>> \in Seq(Look)
         /\ MenuOutcome(<<lookup>>, known) =
              IF Fault(lookup, known) = None THEN "menu" ELSE Fault(lookup, known)
<1> DEFINE one == <<lookup>>
<1>1. one \in Seq(Look) /\ Len(one) = 1 /\ one[1] = lookup
  OBVIOUS
<1> HIDE DEF one
<1>2. CASE Fault(lookup, known) = None
  <2>1. \A i \in 1..Len(one) : Fault(one[i], known) = None
    BY <1>1, <1>2
  <2> QED BY <1>1, <1>2, <2>1, OutcomeFine DEF one
<1>3. CASE Fault(lookup, known) # None
  <2>1. 1 \in 1..Len(one) /\ \A j \in 1..1 - 1 : Fault(one[j], known) = None
    BY <1>1
  <2> QED BY <1>1, <1>3, <2>1, OutcomeFirst DEF one
<1> QED BY <1>2, <1>3

\* The first of several lists that fails decides.
FirstDecides(seqs, known) ==
  /\ (\A i \in 1..Len(seqs) : MenuOutcome(seqs[i], known) = "menu")
       => MenuOutcome(FlattenSeq(seqs), known) = "menu"
  /\ \A i \in 1..Len(seqs) :
       MenuOutcome(seqs[i], known) # "menu" /\ (\A j \in 1..i - 1 : MenuOutcome(seqs[j], known) = "menu")
         => MenuOutcome(FlattenSeq(seqs), known) = MenuOutcome(seqs[i], known)

LEMMA OutcomeFlatten ==
  ASSUME NEW seqs \in Seq(Seq(Look)), NEW known
  PROVE  FirstDecides(seqs, known)
<1> DEFINE Y == Seq(Look)
           Bad == {n \in Nat : \E u \in Seq(Y) : Len(u) = n /\ ~FirstDecides(u, known)}
<1>1. Bad = {}
  <2> SUFFICES ASSUME Bad # {} PROVE FALSE
    OBVIOUS
  <2>1. PICK n \in Bad : \A j \in Bad : n <= j
    <3> Bad \in SUBSET Nat OBVIOUS
    <3> HIDE DEF Bad
    <3> QED BY LeastElement
  <2>2. PICK u \in Seq(Y) : Len(u) = n /\ ~FirstDecides(u, known)
    BY <2>1
  <2>3. u # <<>>
    <3>1. Len(<<>>) = 0
      OBVIOUS
    <3>2. FirstDecides(<<>>, known)
      BY <3>1, FlattenNothing, OutcomeNothing DEF FirstDecides
    <3> QED BY <2>2, <3>2
  <2>4. PICK v \in Seq(Y), x \in Y : u = Append(v, x)
    BY <2>3, SequenceEmptyOrAppend
  <2>5. /\ Len(v) \in Nat /\ n = Len(v) + 1
        /\ \A i \in 1..Len(v) : u[i] = v[i]
        /\ u[Len(v) + 1] = x
    BY <2>2, <2>4, AppendProperties, LenProperties
  <2>6. Len(v) \notin Bad
    <3>1. ~(n <= Len(v)) /\ n \in Nat
      BY <2>5
    <3> HIDE DEF Bad
    <3> QED BY <2>1, <3>1
  <2>7. FirstDecides(v, known)
    BY <2>5, <2>6
  <2> HIDE DEF Bad
  <2>8. FlattenSeq(u) = FlattenSeq(v) \o x
    BY <2>4, FlattenAppend
  <2>9. FlattenSeq(v) \in Seq(Look)
    BY FlattenType
  <2>10. MenuOutcome(FlattenSeq(u), known) =
           IF MenuOutcome(FlattenSeq(v), known) = "menu" THEN MenuOutcome(x, known)
           ELSE MenuOutcome(FlattenSeq(v), known)
    <3> DEFINE all == FlattenSeq(v)
    <3>1. all \in Seq(Look) /\ x \in Seq(Look)
      BY <2>9
    <3> HIDE DEF all
    <3>2. MenuOutcome(all \o x, known) =
            IF MenuOutcome(all, known) = "menu" THEN MenuOutcome(x, known) ELSE MenuOutcome(all, known)
      BY <3>1, OutcomeConcat
    <3> QED BY <2>8, <3>2 DEF all
  <2>11. ASSUME \A i \in 1..Len(u) : MenuOutcome(u[i], known) = "menu"
         PROVE  MenuOutcome(FlattenSeq(u), known) = "menu"
    <3>1. MenuOutcome(x, known) = "menu"
      BY <2>2, <2>5, <2>11
    <3>2. \A i \in 1..Len(v) : MenuOutcome(v[i], known) = "menu"
      BY <2>2, <2>5, <2>11
    <3> QED BY <2>7, <2>10, <3>1, <3>2 DEF FirstDecides
  <2>12. ASSUME NEW i \in 1..Len(u), MenuOutcome(u[i], known) # "menu",
                \A j \in 1..i - 1 : MenuOutcome(u[j], known) = "menu"
         PROVE  MenuOutcome(FlattenSeq(u), known) = MenuOutcome(u[i], known)
    <3>1. CASE i = Len(v) + 1
      <4>1. \A j \in 1..Len(v) : MenuOutcome(v[j], known) = "menu"
        BY <2>5, <2>12, <3>1
      <4> QED BY <2>5, <2>7, <2>10, <3>1, <4>1 DEF FirstDecides
    <3>2. CASE i # Len(v) + 1
      <4>1. i \in 1..Len(v) /\ u[i] = v[i]
        BY <2>2, <2>5, <3>2
      <4>2. \A j \in 1..i - 1 : j \in 1..Len(v)
        BY <2>5, <4>1
      <4>3. \A j \in 1..i - 1 : MenuOutcome(v[j], known) = "menu"
        BY <2>5, <2>12, <4>2
      <4>4. MenuOutcome(FlattenSeq(v), known) = MenuOutcome(v[i], known)
        BY <2>7, <2>12, <4>1, <4>3 DEF FirstDecides
      <4> QED BY <2>10, <2>12, <4>1, <4>4
    <3> QED BY <3>1, <3>2
  <2> QED BY <2>2, <2>11, <2>12 DEF FirstDecides
<1>2. Len(seqs) \in Nat
  BY LenProperties
<1> QED BY <1>1, <1>2

\* An exception as the outcome of a list.
OutcomeFor(fault) == IF fault = None THEN "menu" ELSE fault
ComesTo(list, fault) ==
  /\ list \in Seq(Look) /\ fault \in Faults
  /\ MenuOutcome(list, document.known) = OutcomeFor(fault)

\* A child agrees with its lookups if the menu it refers to does.
LEMMA ChildAgrees ==
  ASSUME NEW child \in Lookup \cup MenuRef, NEW called, NEW lookups,
         isMenuRef(child) => ComesTo(lookups[child.menu], called[child.menu].fault)
  PROVE  ComesTo(LookupsOf(lookups, child), Abs!ChildFault(document, called, child))
<1> DEFINE known == document.known
           rest == lookups[child.menu]
<1>1. CASE ~isMenuRef(child)
  <2>1. child \in Lookup
    BY <1>1 DEF isMenuRef, MenuRef
  <2>2. LookupsOf(lookups, child) = <<child>>
    BY <1>1 DEF LookupsOf
  <2>3. Abs!ChildFault(document, called, child) = Fault(child, known)
    BY <1>1, ChildFaultIs
  <2> DEFINE fault == Fault(child, known)
  <2>4. <<child>> \in Seq(Look) /\ MenuOutcome(<<child>>, known) = OutcomeFor(fault)
    <3>1. child \in Look
      BY <2>1 DEF Look
    <3> QED BY <3>1, OutcomeOne DEF OutcomeFor
  <2>5. fault \in Faults
    BY <2>1, LookupFault DEF Faults
  <2> QED BY <2>2, <2>3, <2>4, <2>5 DEF ComesTo
<1>2. CASE isMenuRef(child)
  <2>1. child.condition \in Lookup \cup {None}
    BY <1>2, LookupsAreNoMenuRefs DEF MenuRef
  <2>2. /\ rest \in Seq(Look) /\ called[child.menu].fault \in Faults
        /\ MenuOutcome(rest, known) = OutcomeFor(called[child.menu].fault)
    BY <1>2 DEF ComesTo
  <2> DEFINE first == IF child.condition = None THEN <<>> ELSE <<child.condition>>
  <2>3. LookupsOf(lookups, child) = first \o rest
    BY <1>2 DEF LookupsOf
  <2>4. /\ first \in Seq(Look)
        /\ MenuOutcome(first, known) = OutcomeFor(ConditionFault(document, child))
    <3>1. CASE child.condition = None
      BY <3>1, OutcomeNothing DEF ConditionFault, OutcomeFor
    <3>2. CASE child.condition # None
      <4> DEFINE condition == child.condition
      <4>1. condition \in Look /\ first = <<condition>>
            /\ ConditionFault(document, child) = Fault(condition, known)
        BY <2>1, <3>2 DEF ConditionFault, Look
      <4> HIDE DEF condition, first
      <4> QED BY <4>1, OutcomeOne DEF OutcomeFor
    <3> QED BY <3>1, <3>2
  <2>5. Abs!ChildFault(document, called, child) =
          IF ConditionFault(document, child) # None THEN ConditionFault(document, child)
          ELSE called[child.menu].fault
    BY <1>2, ChildFaultIs
  <2> HIDE DEF first, rest, known
  <2>6. first \o rest \in Seq(Look)
    BY <2>2, <2>4, ConcatProperties
  <2>7. MenuOutcome(first \o rest, known) =
          IF MenuOutcome(first, known) = "menu" THEN MenuOutcome(rest, known)
          ELSE MenuOutcome(first, known)
    BY <2>2, <2>4, OutcomeConcat
  <2>8. ConditionFault(document, child) \in Faults
    BY <1>2, LookupsAreNoMenuRefs, ConditionFaultType DEF Faults
  <2> QED BY <2>2, <2>3, <2>4, <2>5, <2>6, <2>7, <2>8 DEF OutcomeFor, ComesTo, known, Faults
<1> QED BY <1>1, <1>2

\* The lists of the menus to depth n come to what the calls with room for n do.
Agree(n) ==
  \A m \in MenuIds :
    ComesTo(Table("Lookups", document)[n][m], Abs!Walk(document)[n][m].fault)

LEMMA LookupsIs ==
  ASSUME NEW n \in 1..StackLimit, NEW m \in MenuIds
  PROVE  LET children == document.collection[m]
         IN Table("Lookups", document)[n][m] =
              IF children \in {None, <<>>} THEN <<Refused>>
              ELSE FlattenSeq([i \in DOMAIN children |->
                                 LookupsOf(Table("Lookups", document)[n - 1], children[i])])
<1>1. n \in 0..StackLimit /\ n # 0
  BY StackLimitAssumption
<1>2. Table("Lookups", document)[n] = Row("Lookups", document, Table("Lookups", document), n)
  BY <1>1, TableIsDefined
<1> QED BY <1>1, <1>2 DEF Row

\* The parts of a list decide as the children do.
LEMMA PartsDecide ==
  ASSUME NEW called, NEW children \in Seq(Lookup \cup MenuRef), children # None, children # <<>>,
         NEW parts \in [1..Len(children) -> Seq(Look)],
         \A i \in 1..Len(children) :
           ComesTo(parts[i], Abs!ChildFault(document, called, children[i]))
  PROVE  ComesTo(FlattenSeq(parts), Abs!MenuCall(document, called, children).fault)
<1> DEFINE fault(i) == Abs!ChildFault(document, called, children[i])
           X == Lookup \cup MenuRef
           Bad == {i \in 1..Len(children) : fault(i) # None}
<1>1. Len(children) \in Nat
  BY LenProperties
<1>2. /\ parts \in Seq(Seq(Look)) /\ Len(parts) = Len(children)
      /\ FlattenSeq(parts) \in Seq(Look) /\ FirstDecides(parts, document.known)
  <2> DEFINE Y == Seq(Look)
  <2>1. parts \in [1..Len(children) -> Y]
    OBVIOUS
  <2>2. parts \in Seq(Y)
    <3> HIDE DEF Y
    <3> QED BY <1>1, <2>1, SeqDef
  <2>3. Len(parts) = Len(children)
    <3>1. DOMAIN parts = 1..Len(parts) /\ Len(parts) \in Nat
      BY <2>2, LenProperties
    <3> QED BY <1>1, <3>1
  <2> QED BY <2>2, <2>3, FlattenType, OutcomeFlatten
<1>3. CASE Bad = {}
  <2>1. \A i \in 1..Len(children) : Abs!ChildFault(document, called, children[i]) = None
    BY <1>3
  <2>2. Abs!MenuCall(document, called, children) = [fault |-> None, refs |-> RefsFor(called, children)]
    BY <2>1, CallSucceeds
  <2>3. \A i \in 1..Len(parts) : MenuOutcome(parts[i], document.known) = "menu"
    BY <1>2, <2>1 DEF OutcomeFor, ComesTo
  <2>4. MenuOutcome(FlattenSeq(parts), document.known) = "menu" BY <1>2, <2>3 DEF FirstDecides
  <2>5. Abs!MenuCall(document, called, children).fault = None BY <2>2
  <2>6. None \in Faults BY DEF Faults
  <2> QED BY <1>2, <2>4, <2>5, <2>6 DEF OutcomeFor, ComesTo
<1>4. CASE Bad # {}
  <2>1. PICK i \in Bad : \A j \in Bad : i <= j
    <3> Bad \in SUBSET Nat
      BY <1>1
    <3> HIDE DEF Bad
    <3> QED BY <1>4, LeastElement
  <2>2. i \in 1..Len(children) /\ fault(i) # None
    OBVIOUS
  <2>3. ASSUME NEW j \in 1..i - 1 PROVE j \in 1..Len(children) /\ fault(j) = None
    <3>1. j \in 1..Len(children) /\ ~(i <= j)
      BY <1>1, <2>2
    <3> QED BY <2>1, <3>1
  <2> HIDE DEF Bad
  <2>4. Abs!MenuCall(document, called, children).fault = fault(i)
    BY <2>2, <2>3, CallFails
  <2>5. /\ MenuOutcome(parts[i], document.known) = fault(i) /\ fault(i) # "menu"
        /\ fault(i) \in Faults
    BY <2>2 DEF OutcomeFor, ComesTo, Faults
  <2>6. \A j \in 1..i - 1 : MenuOutcome(parts[j], document.known) = "menu"
    BY <2>3 DEF OutcomeFor, ComesTo
  <2>7. MenuOutcome(FlattenSeq(parts), document.known) = fault(i)
    BY <1>2, <2>2, <2>5, <2>6 DEF FirstDecides
  <2> QED BY <1>2, <2>2, <2>4, <2>5, <2>7 DEF OutcomeFor, ComesTo
<1> QED BY <1>3, <1>4

LEMMA AgreeStep ==
  ASSUME document \in Document, NEW n \in 1..StackLimit, Agree(n - 1)
  PROVE  Agree(n)
<1> SUFFICES ASSUME NEW m \in MenuIds
             PROVE  ComesTo(Table("Lookups", document)[n][m], Abs!Walk(document)[n][m].fault)
  BY DEF Agree
<1> DEFINE children == document.collection[m]
           called == Abs!Walk(document)[n - 1]
           lookups == Table("Lookups", document)[n - 1]
           parts == [i \in DOMAIN children |-> LookupsOf(lookups, children[i])]
           X == Lookup \cup MenuRef
<1>1. n \in 0..StackLimit /\ n # 0
  BY StackLimitAssumption
<1>2. /\ Abs!Walk(document)[n][m] = Abs!MenuCall(document, called, children)
      /\ Table("Lookups", document)[n][m] =
           IF children \in {None, <<>>} THEN <<Refused>> ELSE FlattenSeq(parts)
  BY <1>1, WalkIs, LookupsIs
<1>3. children \in Seq(X) \cup {None}
  BY ElementOf
<1>4. CASE children \in {None, <<>>}
  <2>1. Abs!MenuCall(document, called, children).fault = "other"
    BY <1>4, CallRefused
  <2>2. Refused \in Lookup /\ Fault(Refused, document.known) = "other"
    BY DEF Refused, Lookup, Fault
  <2>3. <<Refused>> \in Seq(Look) /\ MenuOutcome(<<Refused>>, document.known) = "other"
    BY <2>2, OutcomeOne, MenuNoneAssumption DEF Look
  <2> QED BY <1>2, <1>4, <2>1, <2>3, MenuNoneAssumption DEF ComesTo, OutcomeFor, Faults
<1>5. CASE children \notin {None, <<>>}
  <2>1. children \in Seq(X) /\ children # None /\ children # <<>>
    BY <1>3, <1>5
  <2>2. DOMAIN children = 1..Len(children)
    BY <2>1, LenProperties
  <2>3. ASSUME NEW i \in 1..Len(children)
        PROVE  ComesTo(parts[i], Abs!ChildFault(document, called, children[i]))
    <3>1. children[i] \in X /\ (isMenuRef(children[i]) => children[i].menu \in MenuIds)
      BY <2>1, ChildrenOf
    <3>2. ASSUME isMenuRef(children[i])
          PROVE  ComesTo(lookups[children[i].menu], called[children[i].menu].fault)
      <4> DEFINE below == children[i].menu
      <4>1. below \in MenuIds
        BY <3>1, <3>2
      <4> HIDE DEF below
      <4>2. ComesTo(Table("Lookups", document)[n - 1][below], Abs!Walk(document)[n - 1][below].fault)
        BY <4>1 DEF Agree
      <4> QED BY <4>2 DEF below
    <3>3. parts[i] = LookupsOf(lookups, children[i])
      BY <2>2
    <3> HIDE DEF parts, lookups, called, children
    <3>4. ComesTo(LookupsOf(lookups, children[i]), Abs!ChildFault(document, called, children[i]))
      <4> DEFINE child == children[i]
      <4>1. child \in Lookup \cup MenuRef
        BY <3>1
      <4>2. isMenuRef(child) => ComesTo(lookups[child.menu], called[child.menu].fault)
        BY <3>2
      <4> HIDE DEF child, X
      <4>3. ComesTo(LookupsOf(lookups, child), Abs!ChildFault(document, called, child))
        BY <4>1, <4>2, ChildAgrees
      <4> QED BY <4>3 DEF child
    <3> QED BY <3>3, <3>4
  <2>4. parts \in [1..Len(children) -> Seq(Look)]
    <3>1. \A i \in 1..Len(children) : parts[i] \in Seq(Look)
      BY <2>3 DEF ComesTo
    <3>2. parts = [i \in 1..Len(children) |-> parts[i]]
      BY <2>2
    <3> HIDE DEF parts
    <3> QED BY <3>1, <3>2
  <2> HIDE DEF parts, lookups, called, children
  <2>5. ComesTo(FlattenSeq(parts), Abs!MenuCall(document, called, children).fault)
    BY <2>1, <2>3, <2>4, PartsDecide
  <2> QED BY <1>2, <1>5, <2>5
<1> QED BY <1>4, <1>5

\* Without room a call overflows, and so does its list.
LEMMA AgreeAtZero ==
  Agree(0)
<1> SUFFICES ASSUME NEW m \in MenuIds
             PROVE  ComesTo(Table("Lookups", document)[0][m], Abs!Walk(document)[0][m].fault)
  BY DEF Agree
<1>1. 0 \in 0..StackLimit
  BY StackLimitAssumption
<1>2. Table("Lookups", document)[0] = Row("Lookups", document, Table("Lookups", document), 0)
  BY <1>1, TableIsDefined
<1>3. Table("Lookups", document)[0][m] = <<TooDeep>>
  BY <1>2 DEF Row
<1>4. TooDeep \in Look /\ Fault(TooDeep, document.known) = "overflow"
  BY DEF TooDeep, Fault, Look
<1>5. <<TooDeep>> \in Seq(Look) /\ MenuOutcome(<<TooDeep>>, document.known) = "overflow"
  BY <1>4, OutcomeOne, MenuNoneAssumption
<1> QED BY <1>3, <1>5, NoRoom, MenuNoneAssumption DEF ComesTo, OutcomeFor, Faults

LEMMA AllAgree ==
  ASSUME document \in Document, NEW n \in 0..StackLimit
  PROVE  Agree(n)
<1> DEFINE Bad == {k \in 0..StackLimit : ~Agree(k)}
<1>1. Bad = {}
  <2> SUFFICES ASSUME Bad # {} PROVE FALSE
    OBVIOUS
  <2>1. PICK k \in Bad : \A j \in Bad : k <= j
    <3> Bad \in SUBSET Nat
      BY StackLimitAssumption
    <3> HIDE DEF Bad
    <3> QED BY LeastElement
  <2>2. k # 0
    BY <2>1, AgreeAtZero
  <2>3. k \in 1..StackLimit /\ k - 1 \in 0..StackLimit /\ ~(k <= k - 1)
    BY <2>1, <2>2, StackLimitAssumption
  <2>4. Agree(k - 1)
    BY <2>1, <2>3
  <2> QED BY <2>1, <2>3, <2>4, AgreeStep
<1> QED BY <1>1

\* The list of an entry, and what it comes to.
ListOf(r, e) ==
  LET id == document.sets[r][e] IN IF id = None THEN None ELSE Lookups[id]
Lists == [r \in UserRoles |-> [e \in Entries |-> ListOf(r, e)]]

LEMMA EntryAgrees ==
  ASSUME document \in Document, NEW r \in UserRoles, NEW e \in Entries
  PROVE  LET fault == Abs!EntryFault(document, r, e)
         IN fault \in Faults /\ MenuOutcome(Lists[r][e], document.known) = OutcomeFor(fault)
<1> DEFINE id == document.sets[r][e]
<1>1. id \in MenuIds \cup {None} /\ Lists[r][e] = ListOf(r, e)
  BY DEF Document, Lists
<1>2. CASE id = None
  <2>1. Abs!EntryFault(document, r, e) = "out_of_range" /\ ListOf(r, e) = None
    BY <1>2 DEF Abs!EntryFault, ListOf
  <2>2. MenuOutcome(None, document.known) = "out_of_range"
    BY DEF MenuOutcome
  <2> QED BY <1>1, <2>1, <2>2, MenuNoneAssumption DEF OutcomeFor, Faults
<1>3. CASE id # None
  <2>1. id \in MenuIds
    BY <1>1, <1>3
  <2>2. Agree(StackLimit)
    BY AllAgree, StackLimitAssumption
  <2>3. ComesTo(Table("Lookups", document)[StackLimit][id], Abs!Walk(document)[StackLimit][id].fault)
    BY <2>1, <2>2 DEF Agree
  <2>4. ListOf(r, e) = Table("Lookups", document)[StackLimit][id]
    BY <1>3, TablesAre DEF ListOf
  <2>5. Abs!EntryFault(document, r, e) = Abs!Walk(document)[StackLimit][id].fault
    BY <1>3 DEF Abs!EntryFault, Abs!Decoded
  <2> QED BY <1>1, <2>3, <2>4, <2>5 DEF ComesTo
<1> QED BY <1>2, <1>3

\* An entry is decoded or given up exactly when no exception of it leaves decodeRoleUI.
LEMMA EntryDecodes ==
  ASSUME document \in Document, NEW r \in UserRoles, NEW e \in Entries
  PROVE  /\ Decodes(Lists[r], e, document.known) <=> ~Abs!Uncaught(document, r, e)
         /\ MenuOutcome(Lists[r][e], document.known) = "overflow"
              <=> Abs!EntryFault(document, r, e) = "overflow"
<1> DEFINE fault == Abs!EntryFault(document, r, e)
           outcome == MenuOutcome(Lists[r][e], document.known)
<1>1. fault \in Faults /\ outcome = OutcomeFor(fault)
  BY EntryAgrees
<1>2. Decodes(Lists[r], e, document.known) <=> outcome \in {"menu"} \cup Absorbed(e)
  BY DEF Decodes
<1>3. Abs!Uncaught(document, r, e) <=> fault \notin {None} \cup Absorbed(e)
  BY DEF Abs!Uncaught, Absorbed
<1> HIDE DEF fault, outcome
<1>4. (outcome \in {"menu"} \cup Absorbed(e) <=> fault \in {None} \cup Absorbed(e))
      /\ (outcome = "overflow" <=> fault = "overflow")
  BY <1>1, MenuNoneAssumption DEF OutcomeFor, Faults, Absorbed
<1> QED BY <1>2, <1>3, <1>4 DEF fault, outcome

LEMMA RoleDecodes ==
  ASSUME document \in Document, NEW r \in UserRoles
  PROVE  DecodesRoleUI(Lists[r], document.known)
           <=> \A e \in Entries : ~Abs!Uncaught(document, r, e)
BY EntryDecodes DEF DecodesRoleUI

\* The first uncaught entry is the first that Exhausts looks for.
LEMMA ExhaustsIs ==
  ASSUME document \in Document
  PROVE  Exhausts(Lists, document.known) <=> Abs!Verdict(document) = "crashed"
<1> DEFINE Ends(r, i) == Abs!Uncaught(document, RoleOrder[r], EntryOrder[i])
           Roles == {r \in 1..3 : \E e \in Entries : Abs!Uncaught(document, RoleOrder[r], e)}
<1>1. /\ DOMAIN RoleOrder = 1..3 /\ DOMAIN EntryOrder = 1..4
      /\ \A r \in 1..3 : RoleOrder[r] \in UserRoles
      /\ \A i \in 1..4 : EntryOrder[i] \in Entries
      /\ \A e \in Entries : \E i \in 1..4 : e = EntryOrder[i]
      /\ \A r \in UserRoles : \E i \in 1..3 : r = RoleOrder[i]
  BY DEF RoleOrder, EntryOrder, UserRoles, Entries
<1>2. ASSUME Exhausts(Lists, document.known) PROVE Abs!Verdict(document) = "crashed"
  <2>1. PICK r \in 1..3, i \in 1..4 :
          /\ MenuOutcome(Lists[RoleOrder[r]][EntryOrder[i]], document.known) = "overflow"
          /\ \A q \in 1..r - 1 : DecodesRoleUI(Lists[RoleOrder[q]], document.known)
          /\ \A f \in 1..i - 1 : Decodes(Lists[RoleOrder[r]], EntryOrder[f], document.known)
    BY <1>1, <1>2 DEF Exhausts
  <2>2. Abs!EntryFault(document, RoleOrder[r], EntryOrder[i]) = "overflow"
    BY <1>1, <2>1, EntryDecodes
  <2>3. Ends(r, i)
    BY <2>2, MenuNoneAssumption DEF Abs!Uncaught
  <2>4. \A j \in 1..r - 1, e \in Entries : ~Abs!Uncaught(document, RoleOrder[j], e)
    <3>1. \A j \in 1..r - 1 : j \in 1..3
      OBVIOUS
    <3> QED BY <1>1, <2>1, <3>1, RoleDecodes
  <2>5. \A j \in 1..i - 1 : ~Ends(r, j)
    <3>1. \A j \in 1..i - 1 : j \in 1..4
      OBVIOUS
    <3> QED BY <1>1, <2>1, <3>1, EntryDecodes
  <2>6. r \in DOMAIN RoleOrder /\ i \in DOMAIN EntryOrder
    BY <1>1
  <2> QED BY <2>2, <2>3, <2>4, <2>5, <2>6, FirstUncaught
<1>3. ASSUME Abs!Verdict(document) = "crashed" PROVE Exhausts(Lists, document.known)
  <2>1. Roles # {}
    <3>1. ~\A r \in UserRoles, e \in Entries : ~Abs!Uncaught(document, r, e)
      BY <1>3, AllIsDone
    <3> QED BY <1>1, <3>1
  <2>2. PICK r \in Roles : \A k \in Roles : r <= k
    <3> Roles \in SUBSET Nat OBVIOUS
    <3> HIDE DEF Roles
    <3> QED BY <2>1, LeastElement
  <2> DEFINE Found == {i \in 1..4 : Ends(r, i)}
  <2>3. r \in 1..3 /\ Found # {}
    BY <1>1
  <2>4. PICK i \in Found : \A k \in Found : i <= k
    <3> Found \in SUBSET Nat OBVIOUS
    <3> HIDE DEF Found
    <3> QED BY <2>3, LeastElement
  <2>5. i \in 1..4 /\ Ends(r, i)
    OBVIOUS
  <2>6. \A j \in 1..r - 1 : j \in 1..3 /\ \A e \in Entries : ~Abs!Uncaught(document, RoleOrder[j], e)
    <3> SUFFICES ASSUME NEW j \in 1..r - 1
                 PROVE  j \in 1..3 /\ \A e \in Entries : ~Abs!Uncaught(document, RoleOrder[j], e)
      OBVIOUS
    <3>1. j \in 1..3 /\ ~(r <= j)
      BY <2>3
    <3>2. j \notin Roles
      <4> HIDE DEF Roles
      <4> QED BY <2>2, <3>1
    <3> QED BY <3>1, <3>2
  <2>7. \A j \in 1..i - 1 : j \in 1..4 /\ ~Ends(r, j)
    <3> SUFFICES ASSUME NEW j \in 1..i - 1 PROVE j \in 1..4 /\ ~Ends(r, j)
      OBVIOUS
    <3>1. j \in 1..4 /\ ~(i <= j)
      BY <2>5
    <3>2. j \notin Found
      <4> HIDE DEF Found
      <4> QED BY <2>4, <3>1
    <3> QED BY <3>1, <3>2
  <2> HIDE DEF Roles, Found
  <2>8. Abs!Verdict(document) =
          IF Abs!EntryFault(document, RoleOrder[r], EntryOrder[i]) = "overflow"
          THEN "crashed" ELSE "failed"
    BY <1>1, <2>3, <2>5, <2>6, <2>7, FirstUncaught
  <2>9. Abs!EntryFault(document, RoleOrder[r], EntryOrder[i]) = "overflow"
    BY <1>3, <2>8
  <2>10. MenuOutcome(Lists[RoleOrder[r]][EntryOrder[i]], document.known) = "overflow"
    BY <1>1, <2>3, <2>5, <2>9, EntryDecodes
  <2>11. \A q \in 1..r - 1 : DecodesRoleUI(Lists[RoleOrder[q]], document.known)
    BY <1>1, <2>6, RoleDecodes
  <2>12. \A f \in 1..i - 1 : Decodes(Lists[RoleOrder[r]], EntryOrder[f], document.known)
    BY <1>1, <2>3, <2>7, EntryDecodes
  <2> QED BY <1>1, <2>3, <2>5, <2>10, <2>11, <2>12 DEF Exhausts
<1> QED BY <1>2, <1>3

LEMMA ListsDecide ==
  AbsInv => LookupsDecide
<1> SUFFICES ASSUME AbsInv, stage \in {"done", "failed", "crashed"}
             PROVE  /\ stage = "done" <=> \A r \in UserRoles : DecodesRoleUI(Lists[r], document.known)
                    /\ stage = "crashed" <=> Exhausts(Lists, document.known)
  BY DEF LookupsDecide, Lists, ListOf
<1>1. document \in Document /\ Abs!Verdict(document) = stage
  BY InvDocument DEF AbsInv, FullInv, OutcomeInv
<1>2. (\A r \in UserRoles : DecodesRoleUI(Lists[r], document.known))
        <=> \A r \in UserRoles, e \in Entries : ~Abs!Uncaught(document, r, e)
  BY <1>1, RoleDecodes
<1>3. ASSUME stage = "done" PROVE \A r \in UserRoles, e \in Entries : ~Abs!Uncaught(document, r, e)
  BY <1>3, RolesToIs DEF AbsInv, RolesInv, Reached, RolesBefore
<1>4. ASSUME \A r \in UserRoles, e \in Entries : ~Abs!Uncaught(document, r, e)
      PROVE  stage = "done"
  BY <1>1, <1>4, AllIsDone
<1> QED BY <1>1, <1>2, <1>3, <1>4, ExhaustsIs

---------------------------------------------------------------------------
(* Theorems. *)

\* However menus nest and whatever fails on the way, an exception leaves no decodeMenu
\* call behind and every call is one for a Menu element that exists.
THEOREM TypeCorrect == Spec => []TypeOK
<1>1. FullInv => TypeOK
  BY DEF FullInv, IInv
<1> QED BY <1>1, FullInvHolds, PTL

\* decodeUI does not run out of stack on menus whose references descend in StackLimit
\* levels, for any collection and any StackLimit: the recursion without a guard is
\* harmless exactly as long as documents keep to that.
THEOREM MenusFit == Spec => []LayeredMenusFit
<1>1. FullInv => LayeredMenusFit
  BY DEF FullInv, IInv
<1> QED BY <1>1, FullInvHolds, PTL

\* Conditional and unconditional decodings of one Menu element differ in the condition
\* only: decodeMenu gives a menu the references its element has, whoever
\* refers to it and whatever failed before, and nothing of another call's.  So getMenu,
\* which finds one object of an id, loses conditions and nothing else.
THEOREM SameReferences == Spec => []SameIdSameReferences
<1>1. FullInv => SameIdSameReferences
  BY RefsDecideById DEF FullInv
<1> QED BY <1>1, FullInvHolds, PTL

\* getMenu of the identification menu's id is the unconditional object, although addMenu
\* meets other objects with that id: it is decoded first and indexed first, and emplace
\* keeps what it has.
THEOREM IdentificationFound == Spec => []IdentificationIsIndexed
<1>1. FullInv => IdentificationIsIndexed
  BY DEF FullInv, IdentInv
<1> QED BY <1>1, FullInvHolds, PTL

\* decodeUI is one step: the user interfaces it returns, trees and indices, are those of the
\* recursive definition, whatever order the calls, exceptions and loops take; an exception
\* leaves it, or the stack runs out, exactly when the first menu that cannot be left out
\* says so.  It is the safety half of Implements.
THEOREM MenuDecoderImplements == Spec => Abs!AbsInit /\ [][Abs!Decode]_(Abs!absVars)
<1>1. Init => Abs!AbsInit
  BY DEF Init, Abs!AbsInit, Empty, Abs!NoUIs
<1>2. AbsInv /\ [Next]_vars => [Abs!Decode]_(Abs!absVars)
  BY StepDecodes
<1> QED BY <1>1, <1>2, AbsInvHolds, PTL DEF Spec

\* decodeUI returns, throws or exhausts the call stack exactly as the lists of lookups say that
\* Loader has for the menus, for every collection, menus that nest in a circle included:
\* nothing but the order of the lookups in the document and the stack decides.
THEOREM ListsSuffice == Spec => []LookupsDecide
<1>1. AbsInv => LookupsDecide
  BY ListsDecide
<1> QED BY <1>1, AbsInvHolds, PTL
=============================================================================
