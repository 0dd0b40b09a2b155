------------------------- MODULE MCElementDecoders -------------------------
(***************************************************************************)
(* Small collections for ElementDecoders.  One variable whose datatype     *)
(* element is any of several hundred, or that lacks one thing, next to a   *)
(* complete ProcessData; and complete variables next to any ProcessData.   *)
(***************************************************************************)
EXTENDS ElementDecoders, TLC

CONSTANTS p1

MCVarIds == Overlays \cup {ProcessDataVariable.in, ProcessDataVariable.out, "V_Own"}
MCTypeIds == {"STD_D_Command", "STD_D_Record", "D_Unknown"}
Standard(id, type) == [loc |-> <<Std, "type", id>>, type |-> type, items |-> {}]
MCDatatypes == [STD_D_Command |-> Standard("STD_D_Command", "UInteger"),
                STD_D_Record |-> Standard("STD_D_Record", "Record")]
MCReferenced ==
  "V_ProcessDataInput" :> [value |-> None, processData |-> None, default |-> None, excluded |-> FALSE]

---------------------------------------------------------------------------
(* Datatype elements. *)

Lengths == {None, "fits", "beyond"}
Simple(type, length) == [type |-> type, length |-> length, children |-> None]
Node(type, length) ==
  [type |-> type, length |-> length, children |-> None, items |-> <<>>, simple |-> None, ref |-> None]
Ref(id) == [datatypeId |-> id]
SomeRefs == {None} \cup {Ref(id) : id \in MCTypeIds \cup {None}}
SomeSimple == {None, Simple("UInteger", None), Simple("Boolean", None), Simple("String", None),
               Simple("Array", "fits"), Simple(None, "fits")}

FlatNodes == {[Node(type, length) EXCEPT !.children = children] :
                type \in Datatype \cup {None, "Unknown"}, length \in Lengths,
                children \in {None, "AttributeNotFound", "other"}}
ArrayNodes == {[Node("Array", None) EXCEPT !.simple = simple, !.ref = ref] :
                 simple \in SomeSimple, ref \in SomeRefs}

Item == [name |-> "text", description |-> None, simple |-> Simple("Integer", "fits"), ref |-> None]
BareItem == [Item EXCEPT !.simple = None]
Items == {[Item EXCEPT !.simple = simple, !.ref = ref] : simple \in SomeSimple, ref \in SomeRefs}
           \cup {[BareItem EXCEPT !.name = name] : name \in {None, "broken"}}
           \cup {[Item EXCEPT !.description = "broken"]}
RecordNodes == {[Node("Record", "fits") EXCEPT !.items = items] :
                  items \in {<<item>> : item \in Items}
                              \cup {<<Item, item>> : item \in Items}
                              \cup {<<item, BareItem>> : item \in Items}}

DatatypeNodes == {None} \cup FlatNodes \cup ArrayNodes \cup RecordNodes

---------------------------------------------------------------------------
(* Variables and process data. *)

Bits == Node("UInteger", "fits")
Access == [rights |-> "rw", restriction |-> None]
Own == [id |-> "V_Own", index |-> 1, name |-> "text", description |-> None, access |-> Access,
        excluded |-> FALSE, datatype |-> Bits, ref |-> None]
OddVariables == {
  [Own EXCEPT !.id = None], [Own EXCEPT !.index = None],
  [Own EXCEPT !.name = None], [Own EXCEPT !.name = "broken"], [Own EXCEPT !.description = "broken"],
  [Own EXCEPT !.access.rights = None], [Own EXCEPT !.access.rights = "malformed"],
  [Own EXCEPT !.access = [rights |-> None, restriction |-> "ro"]],
  [Own EXCEPT !.access = [rights |-> "malformed", restriction |-> "ro"]]}
MCVariables ==
  OddVariables \cup {[Own EXCEPT !.datatype = node, !.ref = ref] : node \in DatatypeNodes, ref \in SomeRefs}

Direction == [id |-> "PDI", length |-> "fits", name |-> "text", datatype |-> Bits]
Directions == {None, Direction,
  [Direction EXCEPT !.id = None], [Direction EXCEPT !.length = None], [Direction EXCEPT !.length = "beyond"],
  [Direction EXCEPT !.name = None], [Direction EXCEPT !.name = "broken"],
  [Direction EXCEPT !.datatype = None], [Direction EXCEPT !.datatype = Node("String", None)],
  [Direction EXCEPT !.datatype = Node("ProcessDataIn", "fits")],
  [Direction EXCEPT !.datatype.type = None],
  [Direction EXCEPT !.datatype = [Node("Record", "fits") EXCEPT !.items = <<Item, BareItem>>]]}
When(id, subindex, value) == [variableId |-> id, subindex |-> subindex, value |-> value]
Conditions == {None, When("V_Own", None, 1), When("V_Own", 2, 1), When("V_ProcessDataInput", None, 257),
               When("V_DirectParameters_1", None, 1), When("V_Own", None, None), When(None, 1, 1)}
Data1 == [id |-> "PD", in |-> Direction, out |-> None, condition |-> None]
MCProcessData ==
  {[id |-> id, in |-> in, out |-> out, condition |-> cond] :
     id \in {"PD", None}, in \in Directions, out \in Directions, cond \in Conditions}

\* A referenced id declared again, and an id declared twice, next to process data
\* elements with one id.
Duplicates == <<Own, [Own EXCEPT !.id = "V_ProcessDataInput"], [Own EXCEPT !.datatype = Node("Float32", None)]>>
MCCollections ==
  {[variables |-> <<variable>>, processData |-> <<Data1>>] : variable \in MCVariables}
    \cup {[variables |-> <<Own>>, processData |-> <<data>>] : data \in MCProcessData}
    \cup {[variables |-> Duplicates,
           processData |-> <<Data1, [Data1 EXCEPT !.in = in, !.out = Direction, !.condition = cond]>>] :
            in \in Directions, cond \in Conditions}
=============================================================================
