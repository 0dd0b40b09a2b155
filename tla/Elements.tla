------------------------------ MODULE Elements ------------------------------
(***************************************************************************)
(* One XML element at a time: what the decoders of datatypes, variables,   *)
(* process data and conditions make of it, with the exceptions they raise  *)
(* and the catch blocks that absorb some of them.  IODDDocument has the    *)
(* results of these functions only.                                        *)
(*                                                                         *)
(* An element is a record of its attributes and children, None for one     *)
(* that is missing.  A call is its result: a value, or the exception that  *)
(* leaves it.                                                              *)
(***************************************************************************)
EXTENDS IODDDocument

Exceptions == {"NodeNotFound", "AttributeNotFound", "ProcessDataUnionAsValue",
               "NoDirection", "out_of_range", "other"}
AccessRights == {"ro", "wo", "rw"}

\* What is missing is no exception, and no text that an attribute may have.
ASSUME NoTextAssumption ==
  None \notin Exceptions \cup Datatype \cup AccessRights \cup {"text", "broken", "fits", "beyond"}

Return(value) == [raised |-> None, value |-> value]
Raise(exception) == [raised |-> exception, value |-> None]

\* call, and then the rest of the block with its value; try and catch.
Then(call, Rest(_)) == IF call.raised = None THEN Rest(call.value) ELSE call
Catch(caught, call, handler) == IF call.raised \in caught THEN handler ELSE call

getXMLNode(child) == IF child = None THEN Raise("NodeNotFound") ELSE Return(child)
getXMLAttribute(attribute) ==
  IF attribute = None THEN Raise("AttributeNotFound") ELSE Return(attribute)

\* A text is missing, "broken" (no textId, or one that is not translated), or there;
\* a missing one is a null pointer.
decodeLocalizedText(text) == IF text = "broken" THEN Raise("other") ELSE Return(text)
requiredText(text) == IF text = None THEN Raise("other") ELSE decodeLocalizedText(text)

\* accessRightRestriction is read if accessRights is absent; anything else is nullopt.
decodeAccessRights(access) ==
  LET rights == IF access.rights = None THEN access.restriction ELSE access.rights
  IN IF rights \in AccessRights THEN rights ELSE None

---------------------------------------------------------------------------
(* Datatypes.  length stands for bitLength or fixedLength: it is missing,  *)
(* "fits" or is "beyond" the bounds; children for the exception that the   *)
(* SingleValue and ValueRange children raise.                              *)

toDatatype(text) == IF text \in Datatype THEN Return(text) ELSE Raise("other")

Bounded(length, type) == IF length = "beyond" THEN Raise("other") ELSE Return(type)

\* An integer without a length gets the one of an update value.
decodeSimpleDataValue(type, node) ==
  IF ~isSimpleData(type) THEN Raise("other")
  ELSE IF isNamedType(type) /\ node.children # None THEN Raise(node.children)
  ELSE CASE type \in {"UInteger", "Integer"} ->
              Catch({"AttributeNotFound"},
                Then(getXMLAttribute(node.length), LAMBDA length : Bounded(length, type)),
                Return(type))
         [] type \in {"String", "OctetString"} ->
              Then(getXMLAttribute(node.length), LAMBDA length : Bounded(length, type))
         [] OTHER -> Return(type)

\* The objects a decoded item shares: that of the datatype it refers to.
getSimpleDatatype(value) ==
  IF isSimpleData(value.type) THEN Return({value.loc}) ELSE Raise("other")

\* A reference to an unknown datatype leaves the item type a null pointer.
decodeArrayValue(node, datatypes) ==
  IF node.simple # None
  THEN Then(toDatatype(node.simple.type), LAMBDA type :
       Then(decodeSimpleDataValue(type, node.simple), LAMBDA done : Return({})))
  ELSE IF node.ref = None THEN Raise("other")
  ELSE IF node.ref.datatypeId \in DOMAIN datatypes
       THEN getSimpleDatatype(datatypes[node.ref.datatypeId])
       ELSE Return({})

anyException == Exceptions  \* fault: any exception means that there is a DatatypeRef
noSimpleDatatype == {"NodeNotFound"}

decodeRecordItem(item, datatypes) ==
  Then(requiredText(item.name), LAMBDA name :
  Then(Catch(noSimpleDatatype,
         Then(getXMLNode(item.simple), LAMBDA simple :
         Then(getXMLAttribute(simple.type), LAMBDA text :
         Then(toDatatype(text), LAMBDA type :
         Then(decodeSimpleDataValue(type, simple), LAMBDA done : Return({}))))),
         Then(getXMLNode(item.ref), LAMBDA ref :
         Then(getXMLAttribute(ref.datatypeId), LAMBDA id :
           IF id \in DOMAIN datatypes THEN getSimpleDatatype(datatypes[id])
           ELSE Raise("other")))), LAMBDA shared :
  Then(decodeLocalizedText(item.description), LAMBDA description : Return(shared))))

\* The items in document order: the first that raises decides.
decodeRecordValue(node, datatypes) ==
  LET item == [i \in DOMAIN node.items |-> decodeRecordItem(node.items[i], datatypes)]
      bad == {i \in DOMAIN item : item[i].raised # None}
  IN IF bad # {} THEN item[CHOOSE i \in bad : \A j \in bad : i <= j]
     ELSE Then(getXMLAttribute(node.length), LAMBDA length :
            Bounded(length, UNION {item[i].value : i \in DOMAIN item}))

decodeDataValue(node, loc, datatypes) ==
  LET Value(type, call) ==
        Then(call, LAMBDA shared : Return([loc |-> loc, type |-> type, items |-> shared]))
  IN Then(getXMLAttribute(node.type), LAMBDA text :
     Then(toDatatype(text), LAMBDA type :
       CASE isArray(type) -> Value(type, decodeArrayValue(node, datatypes))
         [] ~isArray(type) /\ isRecord(type) -> Value(type, decodeRecordValue(node, datatypes))
         [] isProcessData(type) -> Raise("ProcessDataUnionAsValue")
         [] OTHER -> Value(type, Then(decodeSimpleDataValue(type, node), LAMBDA done : Return({})))))

---------------------------------------------------------------------------
(* Variables. *)

noDatatype == {"NodeNotFound"}

\* The datatype of a Variable: its Datatype, or else the one it refers to.
decodeVariableType(variable, loc, datatypes) ==
  Catch(noDatatype,
    Then(getXMLNode(variable.datatype), LAMBDA node : decodeDataValue(node, loc, datatypes)),
    Then(getXMLNode(variable.ref), LAMBDA ref :
    Then(getXMLAttribute(ref.datatypeId), LAMBDA id :
      IF id \in DOMAIN datatypes THEN Return(datatypes[id]) ELSE Raise("other"))))

\* The body of the loop of decodeVariables.
decodeVariable(variable, origin, datatypes) ==
  Then(getXMLAttribute(variable.id), LAMBDA id :
  Then(getXMLAttribute(variable.index), LAMBDA index :
  Then(requiredText(variable.name), LAMBDA name :
    IF decodeAccessRights(variable.access) = None THEN Raise("other")
    ELSE Catch(Exceptions,
           Then(decodeLocalizedText(variable.description), LAMBDA description :
           Then(Catch({"ProcessDataUnionAsValue"},
                  decodeVariableType(variable, <<origin, "variable", id>>, datatypes),
                  Return(None)), LAMBDA value :
             Return([value |-> value, processData |-> None, default |-> None,
                     excluded |-> variable.excluded]))),
           Raise("other")))))

---------------------------------------------------------------------------
(* Process data. *)

anyMissing == {"NodeNotFound", "AttributeNotFound"}  \* fault: a missing attribute is absorbed too
noDirection == {"NodeNotFound"}

\* ProcessDataIn or ProcessDataOut; a null pointer if there is none.
decodeProcessDataT(node, data, datatypes) ==
  Catch(noDirection,
    Then(getXMLNode(node), LAMBDA xml :
    Then(getXMLAttribute(xml.id), LAMBDA id :
    Then(getXMLAttribute(xml.length), LAMBDA bits :
    Then(getXMLNode(xml.datatype), LAMBDA datatype :
    Then(decodeDataValue(datatype, data, datatypes), LAMBDA value :
    Then(requiredText(xml.name), LAMBDA name : Bounded(bits, data))))))),
    Return(None))

findVariable(id, variables) ==
  IF id \in DOMAIN variables THEN Return(variables[id]) ELSE Raise("out_of_range")

\* A condition keeps eight bits of its value.
wide(number) == number  \* fault: all of them
uint8(number) == number % 256

\* subindex_attribute.empty() is true of an attribute that is not there, and the
\* number of such an attribute is 0.
subindexOf(condition) == IF condition.subindex = None THEN 0 ELSE None

decodeCondition(condition, variables) ==
  IF condition = None THEN Return(None)
  ELSE Then(getXMLAttribute(condition.variableId), LAMBDA id :
       Then(findVariable(id, variables), LAMBDA variable :
       Then(getXMLAttribute(condition.value), LAMBDA value :
         Return([id |-> id, variable |-> variable, subindex |-> subindexOf(condition),
                 value |-> uint8(value)]))))

\* ProcessDataUnion's constructor.
makeUnion(in, out, condition) ==
  IF in = None /\ out = None THEN Raise("NoDirection")
  ELSE Return([in |-> in, out |-> out, condition |-> condition])
=============================================================================
