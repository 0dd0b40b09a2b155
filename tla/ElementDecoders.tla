-------------------------- MODULE ElementDecoders --------------------------
(***************************************************************************)
(* The VariableCollection and the ProcessDataCollection of one device      *)
(* document, element by element: the loop of decodeVariables, and the four *)
(* calls that the loop of decodeProcessData makes for every ProcessData.   *)
(* Loader has either loop as one step over what IODDDocument says of an    *)
(* element.                                                                *)
(***************************************************************************)
EXTENDS Elements

CONSTANTS
  Collections,  \* the elements a document may have
  file,         \* that document
  datatypes,    \* the DatatypesMap of the standard definitions
  referenced    \* the variables decodeStdVariables has decoded

VARIABLES
  document,     \* the elements of this document
  stage,        \* "variables", "id", "in", "out", "condition", "union", "decoded" or "failed"
  pos,          \* the element at hand
  variables,    \* the variables decoded so far
  dataIn, dataOut, condition,  \* locals of decodeProcessData's loop
  processData,  \* its result so far
  raised        \* the exception that left the loops

locals == <<dataIn, dataOut, condition>>
vars == <<document, stage, pos, variables, locals, processData, raised>>

\* The elements; "Unknown" and "malformed" stand for any other text of an attribute.
Text == {"text", "broken", None}
Length == {"fits", "beyond", None}
SimpleNode == [type : Datatype \cup {"Unknown", None}, length : Length,
               children : {"AttributeNotFound", "other", None}]
RefNode == [datatypeId : TypeIds \cup {None}]
ItemNode == [name : Text, description : Text,
             simple : SimpleNode \cup {None}, ref : RefNode \cup {None}]
DatatypeNode == [type : Datatype \cup {"Unknown", None}, length : Length,
                 children : {"AttributeNotFound", "other", None}, items : Seq(ItemNode),
                 simple : SimpleNode \cup {None}, ref : RefNode \cup {None}]
AccessNode == [rights : AccessRights \cup {"malformed", None},
               restriction : AccessRights \cup {"malformed", None}]
VariableNode == [id : VarIds \cup {None}, index : Nat \cup {None}, name : Text,
                 description : Text, access : AccessNode, excluded : BOOLEAN,
                 datatype : DatatypeNode \cup {None}, ref : RefNode \cup {None}]
DirectionNode == [id : PDIds \cup {None}, length : Length, name : Text,
                  datatype : DatatypeNode \cup {None}]
ConditionNode == [variableId : VarIds \cup {None}, subindex : 0..255 \cup {None},
                  value : Nat \cup {None}]
ProcessDataNode == [id : PDIds \cup {None}, in : DirectionNode \cup {None},
                    out : DirectionNode \cup {None}, condition : ConditionNode \cup {None}]
Collection == [variables : Seq(VariableNode), processData : Seq(ProcessDataNode)]

ASSUME CollectionsAssumption == Collections \subseteq Collection
ASSUME DatatypesAssumption == DatatypesMap(datatypes)
ASSUME ReferencedAssumption == VariablesMap(referenced)
ASSUME FileAssumption == file \in Paths

Nothing == [x \in {} |-> None]
NodeVariable == document.variables[pos]
NodeData == document.processData[pos]

Init ==
  /\ document \in Collections
  /\ stage = "variables" /\ pos = 1
  /\ variables = Nothing /\ processData = Nothing
  /\ dataIn = None /\ dataOut = None /\ condition = None
  /\ raised = None

\* std::unordered_map::emplace and insert keep the first of two values.
secondStays(map, more) ==  \* fault: the last one is kept
  [x \in DOMAIN map \cup DOMAIN more |-> IF x \in DOMAIN more THEN more[x] ELSE map[x]]
firstStays(map, more) ==
  [x \in DOMAIN map \cup DOMAIN more |-> IF x \in DOMAIN map THEN map[x] ELSE more[x]]
emplace(map, key, value) == firstStays(map, [x \in {key} |-> value])

---------------------------------------------------------------------------
(* One iteration of decodeVariables; decode then adds the result to the     *)
(* referenced variables.                                                    *)

VariableCall == decodeVariable(NodeVariable, file, datatypes)

DecodeVariable ==
  /\ stage = "variables" /\ pos \in DOMAIN document.variables
  /\ VariableCall.raised = None
  /\ variables' = emplace(variables, NodeVariable.id, VariableCall.value)
  /\ pos' = pos + 1
  /\ UNCHANGED <<document, stage, locals, processData, raised>>

InsertVariables ==
  /\ stage = "variables" /\ pos \notin DOMAIN document.variables
  /\ variables' = firstStays(referenced, variables)
  /\ stage' = "id" /\ pos' = 1
  /\ UNCHANGED <<document, locals, processData, raised>>

---------------------------------------------------------------------------
(* One iteration of decodeProcessData, call by call. *)

Data(dir) == <<file, NodeData.id, dir>>
InCall == decodeProcessDataT(NodeData.in, Data("in"), datatypes)
OutCall == decodeProcessDataT(NodeData.out, Data("out"), datatypes)
ConditionCall == decodeCondition(NodeData.condition, variables)
UnionCall == makeUnion(dataIn, dataOut, condition)

AtProcessData(at) == stage = at /\ pos \in DOMAIN document.processData

GetId ==
  /\ AtProcessData("id") /\ NodeData.id # None
  /\ stage' = "in"
  /\ UNCHANGED <<document, pos, variables, locals, processData, raised>>

DecodeIn ==
  /\ AtProcessData("in") /\ InCall.raised = None
  /\ dataIn' = InCall.value /\ stage' = "out"
  /\ UNCHANGED <<document, pos, variables, dataOut, condition, processData, raised>>

DecodeOut ==
  /\ AtProcessData("out") /\ OutCall.raised = None
  /\ dataOut' = OutCall.value /\ stage' = "condition"
  /\ UNCHANGED <<document, pos, variables, dataIn, condition, processData, raised>>

DecodeCondition ==
  /\ AtProcessData("condition") /\ ConditionCall.raised = None
  /\ condition' = ConditionCall.value /\ stage' = "union"
  /\ UNCHANGED <<document, pos, variables, dataIn, dataOut, processData, raised>>

EmplaceUnion ==
  /\ AtProcessData("union") /\ UnionCall.raised = None
  /\ processData' = emplace(processData, NodeData.id, UnionCall.value)
  /\ dataIn' = None /\ dataOut' = None /\ condition' = None
  /\ stage' = "id" /\ pos' = pos + 1
  /\ UNCHANGED <<document, variables, raised>>

Done ==
  /\ stage = "id" /\ pos \notin DOMAIN document.processData
  /\ stage' = "decoded"
  /\ UNCHANGED <<document, pos, variables, locals, processData, raised>>

---------------------------------------------------------------------------
(* An exception that no catch block absorbs leaves both loops. *)

Raises ==
  CASE stage = "variables" /\ pos \in DOMAIN document.variables -> VariableCall.raised
    [] AtProcessData("id") -> getXMLAttribute(NodeData.id).raised
    [] AtProcessData("in") -> InCall.raised
    [] AtProcessData("out") -> OutCall.raised
    [] AtProcessData("condition") -> ConditionCall.raised
    [] AtProcessData("union") -> UnionCall.raised
    [] OTHER -> None

Throw ==
  /\ Raises # None
  /\ raised' = Raises /\ stage' = "failed"
  /\ UNCHANGED <<document, pos, variables, locals, processData>>

Returned == stage \in {"decoded", "failed"} /\ UNCHANGED vars

Next ==
  \/ DecodeVariable \/ InsertVariables
  \/ GetId \/ DecodeIn \/ DecodeOut \/ DecodeCondition \/ EmplaceUnion \/ Done
  \/ Throw \/ Returned

Spec == Init /\ [][Next]_vars

---------------------------------------------------------------------------
(* What elements are complete, said without exceptions. *)

\* A simple datatype has all its decoder needs; an integer needs no length.
SimpleComplete(node, type) ==
  /\ isSimpleData(type)
  /\ isNamedType(type) => node.children = None
  /\ type \in {"UInteger", "Integer"} => node.length # "beyond"
  /\ type \in {"String", "OctetString"} => node.length = "fits"

NestedComplete(node) == node.type \in Datatype /\ SimpleComplete(node, node.type)
RefersToSimple(ref) ==
  ref # None /\ ref.datatypeId \in DOMAIN datatypes /\ isSimpleData(datatypes[ref.datatypeId].type)

ItemComplete(item) ==
  /\ item.name = "text" /\ item.description # "broken"
  /\ IF item.simple = None THEN RefersToSimple(item.ref) ELSE NestedComplete(item.simple)

\* A RecordItem without a datatype of either kind, after complete ones.
HasBareItem(node) ==
  node.type = "Record" /\ \E i \in DOMAIN node.items :
    /\ node.items[i].name = "text" /\ node.items[i].simple = None /\ node.items[i].ref = None
    /\ \A j \in 1..i - 1 : ItemComplete(node.items[j])
LacksNode(node) == node = None \/ HasBareItem(node)

DatatypeComplete(node) ==
  /\ node # None /\ node.type \in Datatype \ ProcessDatatypes
  /\ CASE node.type = "Array" ->
            IF node.simple # None THEN NestedComplete(node.simple)
            ELSE /\ node.ref # None
                 /\ node.ref.datatypeId \in DOMAIN datatypes => RefersToSimple(node.ref)
       [] node.type = "Record" ->
            node.length = "fits" /\ \A i \in DOMAIN node.items : ItemComplete(node.items[i])
       [] OTHER -> SimpleComplete(node, node.type)

VariableComplete(node) ==
  /\ node.id # None /\ node.index # None
  /\ node.name = "text" /\ node.description # "broken"
  /\ node.access.rights \in AccessRights \/ (node.access.rights = None /\ node.access.restriction \in AccessRights)
  /\ IF LacksNode(node.datatype)
     THEN node.ref # None /\ node.ref.datatypeId \in DOMAIN datatypes
     ELSE node.datatype.type \in ProcessDatatypes \/ DatatypeComplete(node.datatype)

DirectionComplete(node) ==
  /\ node # None /\ node.id # None /\ node.length = "fits" /\ node.name = "text"
  /\ DatatypeComplete(node.datatype)

\* A direction that becomes a null pointer: one that is not there, and one whose
\* datatype lacks an element.
DirectionDropped(node) ==
  node = None \/ (node.id # None /\ node.length # None /\ LacksNode(node.datatype))

ConditionComplete(node, known) ==
  node = None \/ (node.variableId \in known /\ node.value # None)

UnionComplete(node, known) ==
  /\ node.id # None
  /\ \A dir \in {"in", "out"} : DirectionDropped(node[dir]) \/ DirectionComplete(node[dir])
  /\ ~(DirectionDropped(node.in) /\ DirectionDropped(node.out))
  /\ ConditionComplete(node.condition, known)

\* What Loader is given for these elements.
SharedBy(node) ==
  LET refs == CASE node.type = "Array" -> IF node.simple = None THEN {node.ref} ELSE {}
                [] node.type = "Record" -> {node.items[i].ref : i \in {j \in DOMAIN node.items : node.items[j].simple = None}}
                [] OTHER -> {}
  IN {ref.datatypeId : ref \in refs} \cap TypeIds

DeclarationOf(node) ==
  LET decl(kind, type, ref, items) ==
        [kind |-> kind, type |-> type, ref |-> ref, names |-> {}, items |-> items]
  IN CASE LacksNode(node.datatype) /\ node.ref = None -> decl("missing", "Boolean", None, {})
       [] LacksNode(node.datatype) /\ node.ref # None -> decl("reference", "Boolean", node.ref.datatypeId, {})
       [] ~LacksNode(node.datatype) /\ node.datatype.type \in ProcessDatatypes ->
            decl("inline", node.datatype.type, None, {})
       [] DatatypeComplete(node.datatype) ->
            decl("inline", node.datatype.type, None, SharedBy(node.datatype))
       [] OTHER -> decl("unknown", "Boolean", None, {})

VariablesOf(nodes) ==
  [i \in DOMAIN nodes |->
     [id |-> nodes[i].id, named |-> nodes[i].name = "text",
      access |-> decodeAccessRights(nodes[i].access) # None,
      excluded |-> nodes[i].excluded, decl |-> DeclarationOf(nodes[i])]]

---------------------------------------------------------------------------
(* Properties. *)

InProcessData == {"id", "in", "out", "condition", "union", "decoded"}
UnionType == [in : ProcessDataT \cup {None}, out : ProcessDataT \cup {None},
              condition : [id : VarIds, variable : Variable, subindex : 0..255 \cup {None},
                           value : 0..255] \cup {None}]

\* Types of the decoders' state; an exception is in flight exactly when the loops
\* have been left by one.
TypeOK ==
  /\ stage \in {"variables", "failed"} \cup InProcessData
  /\ pos \in Nat \ {0}
  /\ VariablesMap(variables)
  /\ dataIn \in ProcessDataT \cup {None} /\ dataOut \in ProcessDataT \cup {None}
  /\ DOMAIN processData \subseteq PDIds /\ processData \in [DOMAIN processData -> UnionType]
  /\ raised \in IF stage = "failed" THEN Exceptions ELSE {None}

\* No element that lacks something its decoder needs gets past the catch blocks of
\* decodeVariables, decodeRecordItem and decodeProcessDataT, and no complete one is
\* refused; the exceptions are an incomplete direction that is dropped, and the datatype
\* a variable refers to taken for one that is incomplete.
AcceptsCompleteElements ==
  /\ stage \in InProcessData =>
       \A i \in DOMAIN document.variables : VariableComplete(document.variables[i])
  /\ stage = "decoded" =>
       \A i \in DOMAIN document.processData :
         UnionComplete(document.processData[i], DOMAIN variables)
  /\ stage = "failed" =>
       \/ pos \in DOMAIN document.variables /\ ~VariableComplete(document.variables[pos])
       \/ pos \in DOMAIN document.processData /\ ~UnionComplete(document.processData[pos], DOMAIN variables)

\* Of two ProcessData with one id the first is kept, and it has a direction exactly if
\* the element neither is missing nor lacks its datatype.
DropsOnlyWithoutNode ==
  \A id \in DOMAIN processData :
    LET node == document.processData[First(document.processData, id)]
        union == processData[id]
    IN \A dir \in {"in", "out"} : (union[dir] = None) = DirectionDropped(node[dir])

\* The variables are those Loader has for these elements, over the same datatype
\* objects: a standard object is shared where a DatatypeRef leads to it, and only there.
IsWhatLoaderReads ==
  stage \in InProcessData =>
    LET read == decodeVariables(VariablesOf(document.variables), file, datatypes)
    IN variables = [id \in DOMAIN referenced \cup DOMAIN read |->
                      IF id \in DOMAIN referenced THEN referenced[id] ELSE read[id]]

\* Example/main.cpp:25: "if (auto subindex = condition->subindex())", a condition is on
\* a subindex if its element names one.
ConditionsKeepSubindex ==
  \A id \in DOMAIN processData :
    LET node == document.processData[First(document.processData, id)]
    IN processData[id].condition # None =>
         processData[id].condition.subindex = node.condition.subindex
=============================================================================
