----------------------------- MODULE MenuSpec -----------------------------
(***************************************************************************)
(* What decodeUI promises for a menu collection, as one step: the user     *)
(* interfaces of all roles, or an exception, or, when the menus nest       *)
(* deeper than the call stack, the end of the process.                     *)
(***************************************************************************)
EXTENDS MenuCollection

\* The exception a child of a Menu element raises, and the reference it becomes, when
\* called has what the calls of decodeMenu for it return.
ChildFault(d, called, child) ==
  CASE ~isMenuRef(child) -> Fault(child, d.known)
    [] isMenuRef(child) /\ ConditionFault(d, child) # None -> ConditionFault(d, child)
    [] OTHER -> called[child.menu].fault
ChildRef(called, child) ==
  IF isMenuRef(child) THEN Menu(child.menu, Condition(child), called[child.menu].refs)
                      ELSE Leaf(child)

\* A call of decodeMenu: the exception that leaves it, or the references of the object.
Raises(exception) == [fault |-> exception, refs |-> <<>>]
MenuCall(d, called, children) ==
  LET bad == {i \in DOMAIN children : ChildFault(d, called, children[i]) # None}
  IN CASE children \in {None, <<>>} -> Raises("other")
       [] children \notin {None, <<>>} /\ bad # {} ->
            Raises(ChildFault(d, called, children[FirstIn(bad)]))
       [] OTHER -> [fault |-> None, refs |-> [i \in DOMAIN children |-> ChildRef(called, children[i])]]

\* The calls for every menu, with room for n of them on the stack.
Walk(d) ==
  LET walk[n \in 0..StackLimit] ==
        [m \in MenuIds |-> IF n = 0 THEN Raises("overflow")
                                    ELSE MenuCall(d, walk[n - 1], d.collection[m])]
  IN walk
Decoded(d) == Walk(d)[StackLimit]

EntryFault(d, role, e) ==
  IF d.sets[role][e] = None THEN "out_of_range" ELSE Decoded(d)[d.sets[role][e]].fault

\* The exceptions that leave decodeRoleUI.
Uncaught(d, role, e) ==
  EntryFault(d, role, e) \notin {None} \cup (IF e = "IdentificationMenu" THEN {} ELSE {"out_of_range"})

\* The roles and the entries are decoded in order; the first exception decides.
Verdict(d) ==
  LET roles == {r \in DOMAIN RoleOrder : \E e \in Entries : Uncaught(d, RoleOrder[r], e)}
      role == RoleOrder[FirstIn(roles)]
      entry == EntryOrder[FirstIn({e \in DOMAIN EntryOrder : Uncaught(d, role, EntryOrder[e])})]
  IN CASE roles = {} -> "done"
       [] roles # {} /\ EntryFault(d, role, entry) = "overflow" -> "crashed"
       [] OTHER -> "failed"

RoleMenus(d, role) ==
  [e \in {x \in Entries : EntryFault(d, role, x) = None} |->
     Menu(d.sets[role][e], None, Decoded(d)[d.sets[role][e]].refs)]

\* The Menu objects below one for m, in document order.
Below(d) ==
  LET submenus(child, below) ==
        IF isMenuRef(child) THEN <<ChildRef(Decoded(d), child)>> \o below[child.menu] ELSE <<>>
      below[n \in 0..StackLimit] ==
        [m \in MenuIds |->
           IF n = 0 THEN <<>>
           ELSE FlattenSeq([i \in DOMAIN d.collection[m] |->
                              submenus(d.collection[m][i], below[n - 1])])]
  IN below[StackLimit]

\* getMenu(id): of the menus with that id the first of all trees in document order.
FirstById(all) ==
  [id \in {all[i].id : i \in DOMAIN all} |-> all[FirstIn({i \in DOMAIN all : all[i].id = id})]]
MenuIndex(d, role) ==
  LET menus == RoleMenus(d, role)
      tree(e) == IF e \in DOMAIN menus THEN <<menus[e]>> \o Below(d)[menus[e].id] ELSE <<>>
  IN FirstById(FlattenSeq([i \in DOMAIN EntryOrder |-> tree(EntryOrder[i])]))

---------------------------------------------------------------------------
VARIABLES
  document,  \* the elements decodeUI reads
  status,    \* "running", "done", "failed" or "crashed"
  uis        \* role -> its menus and the index of getMenu

absVars == <<document, status, uis>>
NoUIs == [role \in {} |-> None]

AbsInit == document \in Documents /\ status = "running" /\ uis = NoUIs

Decode ==
  /\ status = "running" /\ status' # "running"
  /\ status' = Verdict(document)
  /\ uis' = IF status' # "done" THEN NoUIs
            ELSE [role \in UserRoles |->
                    [menus |-> RoleMenus(document, role), index |-> MenuIndex(document, role)]]
  /\ UNCHANGED document

AbsSpec == AbsInit /\ [][Decode]_absVars /\ <>(status # "running")
=============================================================================
