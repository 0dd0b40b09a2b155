-------------------------- MODULE MenuCollection --------------------------
(***************************************************************************)
(* The UserInterface element of a device document: a collection of menus   *)
(* that refer to each other, freely and possibly in a circle, and the menu *)
(* ids each role names; and the objects they are decoded to.               *)
(***************************************************************************)
EXTENDS Menus, SequencesExt

CONSTANTS
  MenuIds,     \* ids of Menu elements and of references to them
  StackLimit,  \* calls of decodeMenu the call stack has room for
  Documents    \* the UserInterface elements to decode

ASSUME StackLimitAssumption == StackLimit \in Nat \ {0}
ASSUME MenuNoneAssumption ==
  None \notin MenuIds \cup {"out_of_range", "other", "overflow"} \cup MenuList

\* A child of a Menu element: a Lookup, or a MenuRef with its Condition.
MenuRef == [menu : MenuIds, condition : Lookup \cup {None}]
isMenuRef(child) == "menu" \in DOMAIN child

\* The elements decodeUI reads: the collection, the menus each role names, and the
\* variables of the device.
Document == [collection : [MenuIds -> Seq(Lookup \cup MenuRef) \cup {None}],
             sets : [UserRoles -> [Entries -> MenuIds \cup {None}]],
             known : SUBSET VarIds]

ASSUME DocumentsAssumption == Documents \subseteq Document

\* Decoded references.  A Menu object has the Condition of the MenuRef it was
\* decoded for, so one Menu element becomes as many objects as references lead to it.
Leaf(lookup) == [variable |-> lookup.variable]
Menu(id, condition, refs) == [id |-> id, condition |-> condition, refs |-> refs]
isMenu(ref) == "refs" \in DOMAIN ref
Condition(child) == IF child.condition = None THEN None ELSE child.condition.variable
ConditionFault(d, child) ==
  IF child.condition = None THEN None ELSE Fault(child.condition, d.known)

FirstIn(S) == CHOOSE i \in S : \A j \in S : i <= j
=============================================================================
