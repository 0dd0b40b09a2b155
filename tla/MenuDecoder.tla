---------------------------- MODULE MenuDecoder ----------------------------
(***************************************************************************)
(* decodeUI, call by call.  decodeMenu recurses along MenuRef and keeps no *)
(* record of the menus it is in, so its call stack is part of the state:   *)
(* a frame is a decodeMenu call, the loop over the children of its Menu    *)
(* element and the references decoded so far.  An exception unwinds the    *)
(* whole stack, to decodeOptionalMenu or out of decodeUI.                  *)
(*                                                                         *)
(* When the four menus of a role are decoded, UserInterface's constructor  *)
(* indexes their trees with addMenu, one after the other.                  *)
(***************************************************************************)
EXTENDS MenuCollection

VARIABLES
  document,  \* the elements decodeUI reads
  stage,     \* "entry" (between menus), "menu" (in decodeMenu), "index" (in addMenu),
             \* "done", "failed" or "crashed"
  role,      \* position in RoleOrder
  entry,     \* position in EntryOrder, of decodeRoleUI and of the constructor
  stack,     \* the decodeMenu calls, the innermost last
  menus,     \* the menus of the role decoded so far, without the ones given up
  todo,      \* references addSubmenu has not reached, in the order it reaches them
  index,     \* UserInterface's menus_
  uis        \* the result of decodeUI so far

vars == <<document, stage, role, entry, stack, menus, todo, index, uis>>

Role == RoleOrder[role]
Entry == EntryOrder[entry]
Empty == [x \in {} |-> None]
Top == Len(stack)
Frame == stack[Top]
Children == document.collection[Frame.id]

Init ==
  /\ document \in Documents
  /\ stage = "entry" /\ role = 1 /\ entry = 1
  /\ stack = <<>> /\ menus = Empty
  /\ todo = <<>> /\ index = Empty /\ uis = Empty

\* unordered_map: a key that is taken keeps its value.
replace(map, key, value) ==  \* fault: it does not
  [k \in DOMAIN map \cup {key} |-> IF k = key THEN value ELSE map[k]]
emplace(map, key, value) ==
  [k \in DOMAIN map \cup {key} |-> IF k \in DOMAIN map THEN map[k] ELSE value]

---------------------------------------------------------------------------
(* decodeMenu. *)

\* An exception: decodeOptionalMenu turns out_of_range into a null pointer; nothing
\* else is caught below decodeUI's caller.
isAbsorbed(exception) == exception # "out_of_range"  \* fault: the wrong ones
isCaught(exception) == exception = "out_of_range"
oneLevel(frames) == Front(frames)  \* fault: the loop of the calling menu goes on
unwind(frames) == <<>>

Raise(exception) ==
  /\ stack' = unwind(stack)
  /\ IF isCaught(exception) /\ Entry # "IdentificationMenu"
     THEN entry' = entry + 1 /\ stage' = "entry"
     ELSE stage' = "failed" /\ UNCHANGED entry
  /\ UNCHANGED <<document, role, menus, todo, index, uis>>

\* A call of decodeMenu on top of the frames in below; its references are its own.
callersRefs(below) == IF below = <<>> THEN <<>> ELSE Last(below).refs  \* fault: they are not
noRefs(below) == <<>>
Call(id, condition, below) ==
  /\ Len(below) < StackLimit
  /\ document.collection[id] # None
  /\ stack' = Append(below, [id |-> id, condition |-> condition, next |-> 1, refs |-> noRefs(below)])
  /\ stage' = "menu"
  /\ UNCHANGED <<document, role, entry, menus, todo, index, uis>>

\* menu_ids has the entry, and the collection has that menu.
decodeEntry ==
  /\ stage = "entry" /\ entry \in DOMAIN EntryOrder
  /\ document.sets[Role][Entry] # None
  /\ Call(document.sets[Role][Entry], None, stack)

\* The innermost call has a child left to look at.
InLoop == stage = "menu" /\ Frame.next \in DOMAIN Children
Child == Children[Frame.next]
dropRefs(frames, ref) ==  \* fault: the references start over
  [frames EXCEPT ![Len(frames)].refs = <<ref>>]
emplaceBack(frames, ref) == [frames EXCEPT ![Len(frames)].refs = Append(@, ref)]
Advance(frames) == [frames EXCEPT ![Len(frames)].next = @ + 1]

\* decodeVariableRef, decodeRecordRef.
decodeRef ==
  /\ InLoop /\ ~isMenuRef(Child)
  /\ Fault(Child, document.known) = None
  /\ stack' = emplaceBack(Advance(stack), Leaf(Child))
  /\ UNCHANGED <<document, stage, role, entry, menus, todo, index, uis>>

ownId(child) == Frame.id  \* fault: menu_id is passed on
refId(child) == child.menu

\* A MenuRef: the condition is decoded, then decodeMenu calls itself.
decodeMenuRef ==
  /\ InLoop /\ isMenuRef(Child)
  /\ ConditionFault(document, Child) = None
  /\ Call(refId(Child), Condition(Child), Advance(stack))

\* The loop is over: the Menu object goes to the caller.
Return ==
  /\ stage = "menu" /\ Frame.next \notin DOMAIN Children /\ Frame.refs # <<>>
  /\ LET menu == Menu(Frame.id, Frame.condition, Frame.refs)
     IN IF Top = 1
        THEN /\ menus' = emplace(menus, Entry, menu)
             /\ stack' = <<>> /\ entry' = entry + 1 /\ stage' = "entry"
        ELSE /\ stack' = emplaceBack(Front(stack), menu)
             /\ UNCHANGED <<menus, entry, stage>>
  /\ UNCHANGED <<document, role, todo, index, uis>>

\* A lookup or a condition fails, a menu is not in the collection, or the one that
\* was decoded has no references.
Throw ==
  \/ /\ stage = "entry" /\ entry \in DOMAIN EntryOrder
     /\ \/ document.sets[Role][Entry] = None /\ Raise("out_of_range")
        \/ /\ document.sets[Role][Entry] # None
           /\ document.collection[document.sets[Role][Entry]] = None
           /\ Raise("other")
  \/ /\ InLoop /\ ~isMenuRef(Child)
     /\ Fault(Child, document.known) # None
     /\ Raise(Fault(Child, document.known))
  \/ /\ InLoop /\ isMenuRef(Child)
     /\ ConditionFault(document, Child) # None
     /\ Raise(ConditionFault(document, Child))
  \/ /\ InLoop /\ isMenuRef(Child)
     /\ ConditionFault(document, Child) = None
     /\ Top < StackLimit /\ document.collection[refId(Child)] = None
     /\ Raise("other")
  \/ /\ stage = "menu" /\ Frame.next \notin DOMAIN Children /\ Frame.refs = <<>>
     /\ Raise("other")

\* The call that does not fit the stack ends the process.
Overflow ==
  /\ InLoop /\ isMenuRef(Child)
  /\ ConditionFault(document, Child) = None
  /\ Top = StackLimit
  /\ stage' = "crashed"
  /\ UNCHANGED <<document, role, entry, stack, menus, todo, index, uis>>

---------------------------------------------------------------------------
(* decodeRoleUI and UserInterface. *)

makeUserInterface ==
  /\ stage = "entry" /\ entry \notin DOMAIN EntryOrder
  /\ stage' = "index" /\ entry' = 1
  /\ UNCHANGED <<document, role, stack, menus, todo, index, uis>>

\* addMenu of one of the four menus, which does nothing for a null pointer.
addEntry ==
  /\ stage = "index" /\ todo = <<>> /\ entry \in DOMAIN EntryOrder
  /\ todo' = IF Entry \in DOMAIN menus THEN <<menus[Entry]>> ELSE <<>>
  /\ entry' = entry + 1
  /\ UNCHANGED <<document, stage, role, stack, menus, index, uis>>

\* addSubmenu looks for menus among the references, addMenu goes down into them.
skipRef ==
  /\ stage = "index" /\ todo # <<>> /\ ~isMenu(Head(todo))
  /\ todo' = Tail(todo)
  /\ UNCHANGED <<document, stage, role, entry, stack, menus, index, uis>>

addMenu ==
  /\ stage = "index" /\ todo # <<>> /\ isMenu(Head(todo))
  /\ index' = emplace(index, Head(todo).id, Head(todo))
  /\ todo' = Head(todo).refs \o Tail(todo)
  /\ UNCHANGED <<document, stage, role, entry, stack, menus, uis>>

emplaceUI ==
  /\ stage = "index" /\ todo = <<>> /\ entry \notin DOMAIN EntryOrder
  /\ uis' = emplace(uis, Role, [menus |-> menus, index |-> index])
  /\ IF role = Len(RoleOrder)
     THEN stage' = "done" /\ UNCHANGED <<role, entry, menus>>
     ELSE stage' = "entry" /\ role' = role + 1 /\ entry' = 1 /\ menus' = Empty
  /\ index' = Empty
  /\ UNCHANGED <<document, stack, todo>>

Returned ==
  /\ stage \in {"done", "failed", "crashed"}
  /\ UNCHANGED vars

Next ==
  \/ decodeEntry \/ decodeRef \/ decodeMenuRef \/ Return \/ Throw \/ Overflow
  \/ makeUserInterface \/ addEntry \/ skipRef \/ addMenu \/ emplaceUI \/ Returned

Spec == Init /\ [][Next]_vars /\ WF_vars(Next)

---------------------------------------------------------------------------
(* Properties. *)

\* Types; outside decodeMenu nothing is on the stack, inside it there is a call for a
\* menu of the collection.
TypeOK ==
  /\ stage \in {"entry", "menu", "index", "done", "failed", "crashed"}
  /\ role \in DOMAIN RoleOrder /\ entry \in 1..Len(EntryOrder) + 1
  /\ Len(stack) <= StackLimit
  /\ \A i \in DOMAIN stack :
       /\ stack[i].id \in MenuIds /\ document.collection[stack[i].id] # None
       /\ stack[i].next \in Nat \ {0}
  /\ stage = "menu" => stack # <<>> /\ entry \in DOMAIN EntryOrder
  /\ stage \in {"entry", "index", "done", "failed"} => stack = <<>>

\* The menus decodeMenu calls itself for.
Edge(m, n) ==
  /\ document.collection[m] # None
  /\ \E i \in DOMAIN document.collection[m] :
       LET child == document.collection[m][i] IN isMenuRef(child) /\ child.menu = n

\* No chain of menu references is longer than the stack: then there is no circle.
Ranks == [MenuIds -> 0..StackLimit - 1]
Descends(rank) == \A m, n \in MenuIds : Edge(m, n) => rank[n] < rank[m]
Layered == \E rank \in Ranks : Descends(rank)

\* decodeMenu has no guard against circles; on a layered collection it needs none.
LayeredMenusFit == Layered => stage # "crashed"

\* All Menu objects of the user interfaces, by their distance from a role's menus.
Submenus(menu) == {menu.refs[i] : i \in {j \in DOMAIN menu.refs : isMenu(menu.refs[j])}}
RoleMenus == UNION {{uis[r].menus[e] : e \in DOMAIN uis[r].menus} : r \in DOMAIN uis}
Level[n \in 0..StackLimit] ==
  IF n = 0 THEN RoleMenus ELSE UNION {Submenus(menu) : menu \in Level[n - 1]}
Objects == UNION {Level[n] : n \in 0..StackLimit}

\* Menu objects with one id differ in their conditions only, although each is decoded
\* anew; so an index by id loses conditions and nothing else.
SameIdSameReferences ==
  \A m1, m2 \in Objects : m1.id = m2.id => m1.refs = m2.refs

\* getMenu of the identification menu's id is the identification menu, never one of
\* the conditional objects for the same element.
IdentificationIsIndexed ==
  \A r \in DOMAIN uis :
    LET menu == uis[r].menus["IdentificationMenu"] IN uis[r].index[menu.id] = menu

\* The lookups of a menu tree in the order decodeMenu meets them: what Loader has of it.
Refused == [variable |-> None, fault |-> "other"]
Lookups ==
  LET of(child, lookups) ==
        IF ~isMenuRef(child) THEN <<child>>
        ELSE (IF child.condition = None THEN <<>> ELSE <<child.condition>>) \o lookups[child.menu]
      lookups[n \in 0..StackLimit] ==
        [m \in MenuIds |->
           LET children == document.collection[m]
           IN CASE n = 0 -> <<TooDeep>>
                [] n # 0 /\ children \in {None, <<>>} -> <<Refused>>
                [] OTHER -> FlattenSeq([i \in DOMAIN children |-> of(children[i], lookups[n - 1])])]
  IN lookups[StackLimit]

\* decodeUI returns, throws or exhausts the call stack exactly as the lists of lookups
\* say that Loader has for the menus of every role, whether menus nest in a circle or not.
LookupsDecide ==
  stage \in {"done", "failed", "crashed"} =>
    LET list(id) == IF id = None THEN None ELSE Lookups[id]
        lists == [r \in UserRoles |-> [e \in Entries |-> list(document.sets[r][e])]]
    IN /\ stage = "done" <=> \A r \in UserRoles : DecodesRoleUI(lists[r], document.known)
       /\ stage = "crashed" <=> Exhausts(lists, document.known)

\* MenuDecoder implements MenuSpec: the trees, the index and the exceptions are those
\* of the recursive definition, and decodeUI ends.
Abs == INSTANCE MenuSpec WITH
         status <- IF stage \in {"done", "failed", "crashed"} THEN stage ELSE "running",
         uis <- IF stage = "done" THEN uis ELSE Empty
Implements == Abs!AbsSpec
=============================================================================
