------------------------------- MODULE Menus -------------------------------
(***************************************************************************)
(* The user interface of a device: every role has a set of up to four      *)
(* menus.  Decoding a menu looks up the variables its tree names, in       *)
(* document order; the first failure decides what becomes of the menu.     *)
(* decodeMenu calls itself for every MenuRef, so the call stack may run    *)
(* out on the way, which is a failure that nothing catches.                *)
(***************************************************************************)
EXTENDS Naturals, Sequences

CONSTANTS
  VarIds,  \* ids of Variable, StdVariableRef and VariableRef elements
  None     \* an absent optional, attribute, element or pointer

RoleOrder == <<"Observation", "Maintenance", "Specialist">>
EntryOrder == <<"IdentificationMenu", "ParameterMenu", "ObservationMenu", "DiagnosisMenu">>
UserRoles == {RoleOrder[i] : i \in DOMAIN RoleOrder}
Entries == {EntryOrder[i] : i \in DOMAIN EntryOrder}

\* A VariableRef, a RecordItemRef or a Condition: the variable it looks up and the
\* exception its other attributes raise.  Without a variable: a failure before any
\* lookup, as for a missing attribute, a name without a text or a menu without references.
Lookup == [variable : VarIds, fault : {None, "out_of_range", "other"}]
            \cup [variable : {None}, fault : {"other"}]

\* A call of decodeMenu that does not fit on the call stack.  A tree of MenuRefs that
\* lead back to a menu they come from always has one.
TooDeep == [variable |-> None, fault |-> "overflow"]

\* A menu tree, as its lookups in document order.
MenuList == Seq(Lookup \cup {TooDeep})

\* findVariable comes first, then everything else.
Fault(lookup, known) ==
  IF lookup.variable \notin known \cup {None} THEN "out_of_range" ELSE lookup.fault

\* What decodeMenu makes of a tree: the first lookup that fails decides; an absent menu
\* is an out_of_range of the map of menu ids.
MenuOutcome(menu, known) ==
  IF menu = None THEN "out_of_range"
  ELSE LET bad == {i \in DOMAIN menu : Fault(menu[i], known) # None}
           first == CHOOSE i \in bad : \A j \in bad : i <= j
       IN IF bad = {} THEN "menu" ELSE Fault(menu[first], known)

\* Fault: an identification menu may be given up like the others.
DecodesAnyRoleUI(role, known) ==
  \A e \in Entries : MenuOutcome(role[e], known) \notin {"other", "overflow"}
\* decodeRoleUI: the identification menu is required; of the others only an
\* out_of_range is absorbed.
Absorbed(e) == IF e = "IdentificationMenu" THEN {} ELSE {"out_of_range"}
Decodes(role, e, known) == MenuOutcome(role[e], known) \in {"menu"} \cup Absorbed(e)
DecodesRoleUI(role, known) == \A e \in Entries : Decodes(role, e, known)

\* decodeUI, role by role and entry by entry: the first menu that is not decoded is one
\* that the call stack has no room for, so the process ends.
Exhausts(menus, known) ==
  \E r \in DOMAIN RoleOrder, e \in DOMAIN EntryOrder :
    /\ MenuOutcome(menus[RoleOrder[r]][EntryOrder[e]], known) = "overflow"
    /\ \A q \in 1..r - 1 : DecodesRoleUI(menus[RoleOrder[q]], known)
    /\ \A f \in 1..e - 1 : Decodes(menus[RoleOrder[r]], EntryOrder[f], known)
=============================================================================
