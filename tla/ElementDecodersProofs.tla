----------------------- MODULE ElementDecodersProofs -----------------------
(***************************************************************************)
(* Proofs about ElementDecoders, for every collection of elements: which   *)
(* of them the decoders accept, and what they make of these.               *)
(***************************************************************************)
EXTENDS ElementDecoders, SequenceTheorems, WellFoundedInduction, TLAPS

\* Every non-empty set of naturals has a least element.
LEMMA LeastElement ==
  ASSUME NEW S \in SUBSET Nat, S # {}
  PROVE  \E m \in S : \A n \in S : m <= n
<1> DEFINE R == {ss \in Nat \X Nat : ss[1] < ss[2]}
<1>1. IsWellFoundedOn(R, Nat) BY NatLessThanWellFounded DEF OpToRel
<1>2. PICK m \in S : \A n \in S : ~(<<n, m>> \in R)
  <2> HIDE DEF R
  <2> QED BY <1>1, WFMin
<1>3. \A n \in S : ~(n < m) BY <1>2
<1> QED BY <1>3

---------------------------------------------------------------------------
(* Simple datatypes. *)

LEMMA SimpleDecodes ==
  ASSUME NEW type \in Datatype, NEW node,
         node.length \in Length, node.children \in {"AttributeNotFound", "other", None}
  PROVE  LET call == decodeSimpleDataValue(type, node)
         IN /\ call.raised = None <=> SimpleComplete(node, type)
            /\ call.raised \in {"AttributeNotFound", "other", None}
<1> DEFINE call == decodeSimpleDataValue(type, node)
<1>1. CASE ~isSimpleData(type)
  BY <1>1, NoTextAssumption DEF decodeSimpleDataValue, SimpleComplete, Raise, Exceptions
<1>2. CASE isSimpleData(type) /\ isNamedType(type) /\ node.children # None
  BY <1>2, NoTextAssumption DEF decodeSimpleDataValue, SimpleComplete, Raise, Exceptions
<1>3. CASE isSimpleData(type) /\ ~(isNamedType(type) /\ node.children # None)
  <2>1. CASE type \in {"UInteger", "Integer"}
    <3>1. call = Catch({"AttributeNotFound"},
                Then(getXMLAttribute(node.length), LAMBDA length : Bounded(length, type)),
                Return(type))
      BY <1>3, <2>1 DEF decodeSimpleDataValue
    <3>2. call.raised = IF node.length = "beyond" THEN "other" ELSE None
      BY <3>1, NoTextAssumption DEF Catch, Then, getXMLAttribute, Raise, Return, Bounded, Length, Exceptions
    <3> QED BY <1>3, <2>1, <3>2, NoTextAssumption DEF SimpleComplete, Exceptions
  <2>2. CASE type \in {"String", "OctetString"}
    <3>1. call = Then(getXMLAttribute(node.length), LAMBDA length : Bounded(length, type))
      BY <1>3, <2>2 DEF decodeSimpleDataValue
    <3>2. call.raised = CASE node.length = "beyond" -> "other"
                          [] node.length = None -> "AttributeNotFound"
                          [] OTHER -> None
      BY <3>1, NoTextAssumption DEF Then, getXMLAttribute, Raise, Return, Bounded, Length, Exceptions
    <3> QED BY <1>3, <2>2, <3>2, NoTextAssumption DEF SimpleComplete, Exceptions, Length
  <2>3. CASE type \notin {"UInteger", "Integer", "String", "OctetString"}
    <3>1. call = Return(type)
      BY <1>3, <2>3 DEF decodeSimpleDataValue
    <3>2. call.raised = None
      BY <3>1 DEF Return
    <3> QED BY <1>3, <2>3, <3>2 DEF SimpleComplete
  <2> QED BY <2>1, <2>2, <2>3
<1> QED BY <1>1, <1>2, <1>3

---------------------------------------------------------------------------
(* Record items. *)

\* A DatatypeRef to a simple datatype.
LEMMA SharedDecodes ==
  ASSUME NEW id \in DOMAIN datatypes
  PROVE  getSimpleDatatype(datatypes[id]) =
           IF isSimpleData(datatypes[id].type) THEN Return({datatypes[id].loc}) ELSE Raise("other")
BY DEF getSimpleDatatype

LEMMA NestedDecodes ==
  ASSUME NEW node \in SimpleNode
  PROVE  LET call == Then(getXMLAttribute(node.type), LAMBDA text :
                     Then(toDatatype(text), LAMBDA type :
                     Then(decodeSimpleDataValue(type, node), LAMBDA done : Return({}))))
         IN /\ NestedComplete(node) => call = Return({})
            /\ ~NestedComplete(node) => call.raised \in {"AttributeNotFound", "other"}
<1> DEFINE call == Then(getXMLAttribute(node.type), LAMBDA text :
                   Then(toDatatype(text), LAMBDA type :
                   Then(decodeSimpleDataValue(type, node), LAMBDA done : Return({}))))
           simple == decodeSimpleDataValue(node.type, node)
<1>1. CASE node.type = None
  <2>1. call.raised = "AttributeNotFound"
    BY <1>1, NoTextAssumption DEF Then, getXMLAttribute, Raise, Exceptions
  <2> QED BY <1>1, <2>1, NoTextAssumption DEF NestedComplete
<1>2. CASE node.type # None /\ node.type \notin Datatype
  <2>1. call.raised = "other"
    BY <1>2, NoTextAssumption DEF Then, getXMLAttribute, Return, Raise, toDatatype, Exceptions
  <2> QED BY <1>2, <2>1 DEF NestedComplete
<1>3. CASE node.type \in Datatype
  <2>1. node.type # None
    BY <1>3, NoTextAssumption
  <2>2. call = IF simple.raised = None THEN Return({}) ELSE simple
    BY <1>3, <2>1 DEF Then, getXMLAttribute, Return, toDatatype
  <2>3. /\ simple.raised = None <=> SimpleComplete(node, node.type)
        /\ simple.raised \in {"AttributeNotFound", "other", None}
    BY <1>3, SimpleDecodes DEF SimpleNode
  <2> HIDE DEF simple, call
  <2> QED BY <1>3, <2>2, <2>3 DEF NestedComplete, call
<1> QED BY <1>1, <1>2, <1>3

\* A RecordItem that has neither kind of datatype.
Bare(item) == item.name = "text" /\ item.simple = None /\ item.ref = None

LEMMA ItemDecodes ==
  ASSUME NEW item \in ItemNode
  PROVE  LET call == decodeRecordItem(item, datatypes)
         IN /\ call.raised = None <=> ItemComplete(item)
            /\ call.raised = "NodeNotFound" <=> Bare(item)
            /\ call.raised \in {"NodeNotFound", "AttributeNotFound", "other", None}
            /\ call.raised = None =>
                 call.value = IF item.simple = None THEN {datatypes[item.ref.datatypeId].loc} ELSE {}
<1> DEFINE call == decodeRecordItem(item, datatypes)
           simple == Then(getXMLNode(item.simple), LAMBDA node :
                     Then(getXMLAttribute(node.type), LAMBDA text :
                     Then(toDatatype(text), LAMBDA type :
                     Then(decodeSimpleDataValue(type, node), LAMBDA done : Return({})))))
           ref == Then(getXMLNode(item.ref), LAMBDA node :
                  Then(getXMLAttribute(node.datatypeId), LAMBDA id :
                    IF id \in DOMAIN datatypes THEN getSimpleDatatype(datatypes[id])
                    ELSE Raise("other")))
           inner == Catch(noSimpleDatatype, simple, ref)
<1>1. CASE item.name # "text"
  <2>1. call.raised = "other"
    BY <1>1, NoTextAssumption DEF ItemNode, Text, decodeRecordItem, requiredText,
       decodeLocalizedText, Then, Raise, Exceptions
  <2> QED BY <1>1, <2>1, NoTextAssumption DEF ItemComplete, Bare, Exceptions
<1>2. CASE item.name = "text"
  <2>1. requiredText(item.name) = Return("text")
    BY <1>2, NoTextAssumption DEF requiredText, decodeLocalizedText
  <2>2. call = Then(inner, LAMBDA shared :
               Then(decodeLocalizedText(item.description), LAMBDA description : Return(shared)))
    BY <2>1 DEF decodeRecordItem, Then, Return
  <2>3. call = IF inner.raised # None THEN inner
               ELSE IF item.description = "broken" THEN Raise("other") ELSE Return(inner.value)
    <3> HIDE DEF inner
    <3> QED BY <2>2, NoTextAssumption DEF Then, decodeLocalizedText, Raise, Return, Exceptions
  <2>4. /\ inner.raised = None <=>
              IF item.simple = None THEN RefersToSimple(item.ref) ELSE NestedComplete(item.simple)
        /\ inner.raised = "NodeNotFound" <=> Bare(item)
        /\ inner.raised \in {"NodeNotFound", "AttributeNotFound", "other", None}
        /\ inner.raised = None =>
             inner.value = IF item.simple = None THEN {datatypes[item.ref.datatypeId].loc} ELSE {}
    <3>1. CASE item.simple = None
      <4>1. simple.raised = "NodeNotFound"
        BY <3>1, NoTextAssumption DEF getXMLNode, Then, Raise, Exceptions
      <4>2. inner = ref
        <5> HIDE DEF simple, ref
        <5> QED BY <4>1 DEF Catch, noSimpleDatatype, inner
      <4>3. CASE item.ref = None
        <5>1. ref.raised = "NodeNotFound"
          BY <4>3, NoTextAssumption DEF getXMLNode, Then, Raise, Exceptions
        <5> HIDE DEF inner, ref
        <5> QED BY <1>2, <3>1, <4>2, <4>3, <5>1, NoTextAssumption DEF Bare, RefersToSimple, Exceptions
      <4>4. CASE item.ref # None
        <5>1. ref = Then(getXMLAttribute(item.ref.datatypeId), LAMBDA id :
                      IF id \in DOMAIN datatypes THEN getSimpleDatatype(datatypes[id])
                      ELSE Raise("other"))
          BY <4>4 DEF getXMLNode, Then, Return
        <5>2. CASE item.ref.datatypeId \in DOMAIN datatypes
          <6>1. item.ref.datatypeId # None
            BY <5>2, DatatypesAssumption, NoneAssumption DEF DatatypesMap
          <6>2. ref = getSimpleDatatype(datatypes[item.ref.datatypeId])
            BY <5>1, <5>2, <6>1 DEF getXMLAttribute, Then, Return
          <6> HIDE DEF inner, ref
          <6> QED BY <3>1, <4>2, <4>4, <5>2, <6>2, NoTextAssumption
                  DEF getSimpleDatatype, Return, Raise, RefersToSimple, Bare, Exceptions
        <5>3. CASE item.ref.datatypeId \notin DOMAIN datatypes
          <6>1. ref.raised \in {"AttributeNotFound", "other"}
            BY <5>1, <5>3, NoTextAssumption DEF getXMLAttribute, Then, Return, Raise, Exceptions
          <6> HIDE DEF inner, ref
          <6> QED BY <3>1, <4>2, <4>4, <5>3, <6>1, NoTextAssumption DEF RefersToSimple, Bare, Exceptions
        <5> QED BY <5>2, <5>3
      <4> QED BY <4>3, <4>4
    <3>2. CASE item.simple # None
      <4> DEFINE nested == Then(getXMLAttribute(item.simple.type), LAMBDA text :
                           Then(toDatatype(text), LAMBDA type :
                           Then(decodeSimpleDataValue(type, item.simple), LAMBDA done : Return({}))))
      <4>1. simple = nested
        BY <3>2 DEF getXMLNode, Then, Return
      <4>2. /\ NestedComplete(item.simple) => nested = Return({})
            /\ ~NestedComplete(item.simple) => nested.raised \in {"AttributeNotFound", "other"}
        BY <3>2, NestedDecodes DEF ItemNode
      <4> HIDE DEF nested, simple, ref
      <4>3. inner = nested
        BY <4>1, <4>2, NoTextAssumption DEF Catch, noSimpleDatatype, Return, Exceptions, inner
      <4> HIDE DEF inner
      <4> QED BY <3>2, <4>2, <4>3, NoTextAssumption DEF Return, Bare, Exceptions
    <3> QED BY <3>1, <3>2
  <2> HIDE DEF inner, call
  <2>5. CASE inner.raised # None
    BY <1>2, <2>3, <2>4, <2>5 DEF ItemComplete, call
  <2>6. CASE inner.raised = None /\ item.description = "broken"
    BY <1>2, <2>3, <2>4, <2>6, NoTextAssumption DEF ItemComplete, Raise, Exceptions, call
  <2>7. CASE inner.raised = None /\ item.description # "broken"
    BY <1>2, <2>3, <2>4, <2>7, NoTextAssumption DEF ItemComplete, Return, Exceptions, call
  <2> QED BY <2>5, <2>6, <2>7
<1> QED BY <1>1, <1>2
---------------------------------------------------------------------------
(* Datatypes. *)

LEMMA Kinds ==
  ASSUME NEW type \in Datatype
  PROVE  /\ isSimpleData(type) <=> type \in SimpleDatatypes
         /\ isComplexData(type) <=> type \in ComplexDatatypes
         /\ isArray(type) <=> type = "Array"
         /\ isRecord(type) <=> type \in ComplexDatatypes
         /\ isProcessData(type) <=> type \in ProcessDatatypes
BY DEF Datatype, SimpleDatatypes, ComplexDatatypes, ProcessDatatypes, isSimpleData,
   isComplexData, isArray, isRecord, isProcessData, Code

\* The standard objects a datatype element shares.
ItemShares(item) == IF item.simple = None THEN {datatypes[item.ref.datatypeId].loc} ELSE {}
ArrayShares(node) ==
  IF node.simple = None /\ node.ref.datatypeId \in DOMAIN datatypes
  THEN {datatypes[node.ref.datatypeId].loc} ELSE {}
RecordShares(node) == UNION {ItemShares(node.items[i]) : i \in DOMAIN node.items}
Shares(node) == CASE node.type = "Array" -> ArrayShares(node)
                  [] node.type = "Record" -> RecordShares(node)
                  [] OTHER -> {}

ArrayComplete(node) ==
  IF node.simple # None THEN NestedComplete(node.simple)
  ELSE node.ref # None /\ (node.ref.datatypeId \in DOMAIN datatypes => RefersToSimple(node.ref))

LEMMA ArrayDecodes ==
  ASSUME NEW node \in DatatypeNode
  PROVE  LET call == decodeArrayValue(node, datatypes)
         IN /\ call.raised = None <=> ArrayComplete(node)
            /\ call.raised \in {"AttributeNotFound", "other", None}
            /\ call.raised = None => call.value = ArrayShares(node)
<1> DEFINE call == decodeArrayValue(node, datatypes)
<1>1. CASE node.simple # None
  <2> DEFINE simple == decodeSimpleDataValue(node.simple.type, node.simple)
  <2>1. call = Then(toDatatype(node.simple.type), LAMBDA type :
               Then(decodeSimpleDataValue(type, node.simple), LAMBDA done : Return({})))
    BY <1>1 DEF decodeArrayValue
  <2>2. CASE node.simple.type \notin Datatype
    <3>1. call.raised = "other"
      BY <2>1, <2>2, NoTextAssumption DEF toDatatype, Then, Raise, Exceptions
    <3> QED BY <1>1, <2>2, <3>1, NoTextAssumption DEF ArrayComplete, NestedComplete, Exceptions
  <2>3. CASE node.simple.type \in Datatype
    <3>1. call = IF simple.raised = None THEN Return({}) ELSE simple
      BY <2>1, <2>3 DEF toDatatype, Then, Return
    <3>2. /\ simple.raised = None <=> SimpleComplete(node.simple, node.simple.type)
          /\ simple.raised \in {"AttributeNotFound", "other", None}
      BY <1>1, <2>3, SimpleDecodes DEF DatatypeNode, SimpleNode
    <3> HIDE DEF simple, call
    <3>3. ArrayShares(node) = {} /\ (ArrayComplete(node) <=> simple.raised = None)
      BY <1>1, <2>3, <3>2 DEF ArrayShares, ArrayComplete, NestedComplete
    <3> QED BY <3>1, <3>2, <3>3, NoTextAssumption DEF Return, call
  <2> QED BY <2>2, <2>3
<1>2. CASE node.simple = None /\ node.ref = None
  <2>1. call.raised = "other"
    BY <1>2 DEF decodeArrayValue, Raise
  <2> QED BY <1>2, <2>1, NoTextAssumption DEF ArrayComplete, Exceptions
<1>3. CASE node.simple = None /\ node.ref # None /\ node.ref.datatypeId \in DOMAIN datatypes
  <2>1. call = IF isSimpleData(datatypes[node.ref.datatypeId].type)
               THEN Return({datatypes[node.ref.datatypeId].loc}) ELSE Raise("other")
    BY <1>3, SharedDecodes DEF decodeArrayValue
  <2> HIDE DEF call
  <2> QED BY <1>3, <2>1, NoTextAssumption
          DEF ArrayComplete, RefersToSimple, ArrayShares, Return, Raise, Exceptions, call
<1>4. CASE node.simple = None /\ node.ref # None /\ node.ref.datatypeId \notin DOMAIN datatypes
  <2>1. call = Return({})
    BY <1>4 DEF decodeArrayValue
  <2> QED BY <1>4, <2>1 DEF ArrayComplete, ArrayShares, Return
<1> QED BY <1>1, <1>2, <1>3, <1>4

ItemsComplete(node) == \A i \in DOMAIN node.items : ItemComplete(node.items[i])
BareItem(node) ==
  \E i \in DOMAIN node.items :
    Bare(node.items[i]) /\ \A j \in 1..i - 1 : ItemComplete(node.items[j])

LEMMA RecordDecodes ==
  ASSUME NEW node \in DatatypeNode
  PROVE  LET call == decodeRecordValue(node, datatypes)
         IN /\ call.raised = None <=> node.length = "fits" /\ ItemsComplete(node)
            /\ call.raised = "NodeNotFound" <=> BareItem(node)
            /\ call.raised \in {"NodeNotFound", "AttributeNotFound", "other", None}
            /\ call.raised = None => call.value = RecordShares(node)
<1> DEFINE call == decodeRecordValue(node, datatypes)
           item == [i \in DOMAIN node.items |-> decodeRecordItem(node.items[i], datatypes)]
           bad == {i \in DOMAIN item : item[i].raised # None}
           first == CHOOSE i \in bad : \A j \in bad : i <= j
           shared == UNION {item[i].value : i \in DOMAIN item}
<1>1. /\ DOMAIN node.items = 1..Len(node.items) /\ Len(node.items) \in Nat
      /\ \A i \in DOMAIN node.items : node.items[i] \in ItemNode
  BY LenProperties, ElementOfSeq DEF DatatypeNode
<1>2. \A i \in DOMAIN node.items :
        /\ item[i].raised = None <=> ItemComplete(node.items[i])
        /\ item[i].raised = "NodeNotFound" <=> Bare(node.items[i])
        /\ item[i].raised \in {"NodeNotFound", "AttributeNotFound", "other", None}
        /\ item[i].raised = None => item[i].value = ItemShares(node.items[i])
  BY <1>1, ItemDecodes DEF ItemShares
<1>3. DOMAIN item = DOMAIN node.items
  OBVIOUS
<1>4. call = IF bad # {} THEN item[first]
             ELSE Then(getXMLAttribute(node.length), LAMBDA length : Bounded(length, shared))
  BY DEF decodeRecordValue
<1> HIDE DEF item, call
<1>5. CASE bad # {}
  <2>1. PICK i \in bad : \A j \in bad : i <= j
    <3>1. bad \in SUBSET Nat
      BY <1>1, <1>3
    <3> HIDE DEF bad
    <3> QED BY <1>5, <3>1, LeastElement
  <2>2. first \in bad /\ \A j \in bad : first <= j
    <3> HIDE DEF bad
    <3> QED BY <2>1
  <2> HIDE DEF first
  <2>3. first \in DOMAIN node.items /\ item[first].raised # None
    BY <1>3, <2>2
  <2>4. \A j \in 1..first - 1 : ItemComplete(node.items[j])
    BY <1>1, <1>2, <1>3, <2>2
  <2>5. ~ItemsComplete(node)
    BY <1>2, <2>3 DEF ItemsComplete
  <2>6. BareItem(node) <=> Bare(node.items[first])
    <3>1. ASSUME BareItem(node) PROVE Bare(node.items[first])
      <4>1. PICK k \in DOMAIN node.items :
              Bare(node.items[k]) /\ \A j \in 1..k - 1 : ItemComplete(node.items[j])
        BY <3>1 DEF BareItem
      <4>2. k \in bad
        BY <1>2, <1>3, <4>1, NoTextAssumption DEF Exceptions
      <4>3. first <= k /\ ~(first <= k - 1)
        BY <1>1, <1>2, <2>2, <2>3, <4>1, <4>2
      <4>4. first = k
        BY <1>1, <2>3, <4>3
      <4> QED BY <4>1, <4>4
    <3> QED BY <2>3, <2>4, <3>1 DEF BareItem
  <2>7. call = item[first]
    BY <1>4, <1>5
  <2> QED BY <1>2, <2>3, <2>5, <2>6, <2>7 DEF call
<1>6. CASE bad = {}
  <2>1. ItemsComplete(node)
    BY <1>2, <1>3, <1>6 DEF ItemsComplete
  <2>2. ~BareItem(node)
    BY <1>2, <2>1, NoTextAssumption DEF ItemsComplete, BareItem, Exceptions
  <2>3. shared = RecordShares(node)
    <3>1. \A i \in DOMAIN node.items : item[i].value = ItemShares(node.items[i])
      BY <1>2, <2>1 DEF ItemsComplete
    <3> QED BY <1>3, <3>1 DEF RecordShares
  <2> HIDE DEF shared
  <2>4. call = Then(getXMLAttribute(node.length), LAMBDA length : Bounded(length, shared))
    BY <1>4, <1>6
  <2>5. CASE node.length = "fits"
    <3>1. call = Return(shared)
      BY <2>4, <2>5, NoTextAssumption DEF getXMLAttribute, Then, Bounded, Return
    <3> QED BY <2>1, <2>2, <2>3, <2>5, <3>1, NoTextAssumption DEF Return, call, Exceptions
  <2>6. CASE node.length # "fits"
    <3>1. call.raised \in {"AttributeNotFound", "other"}
      BY <2>4, <2>6, NoTextAssumption
         DEF getXMLAttribute, Then, Bounded, Return, Raise, DatatypeNode, Length, Exceptions
    <3> QED BY <2>1, <2>2, <2>6, <3>1, NoTextAssumption DEF call, Exceptions
  <2> QED BY <2>5, <2>6
<1> QED BY <1>5, <1>6
Decoded(node, loc) == [loc |-> loc, type |-> node.type, items |-> Shares(node)]

LEMMA DataValueDecodes ==
  ASSUME NEW node \in DatatypeNode, node # None, NEW loc
  PROVE  LET call == decodeDataValue(node, loc, datatypes)
         IN /\ call.raised = None <=> DatatypeComplete(node)
            /\ call.raised = "NodeNotFound" <=> HasBareItem(node)
            /\ call.raised = "ProcessDataUnionAsValue" <=> node.type \in ProcessDatatypes
            /\ call.raised \in Exceptions \cup {None}
            /\ call.raised = None => call.value = Decoded(node, loc)
<1> DEFINE call == decodeDataValue(node, loc, datatypes)
           array == decodeArrayValue(node, datatypes)
           record == decodeRecordValue(node, datatypes)
           simple == decodeSimpleDataValue(node.type, node)
<1>0. "Array" \notin ProcessDatatypes /\ "Record" \notin ProcessDatatypes
      /\ "Array" \in Datatype /\ "Record" \in Datatype
  BY DEF ProcessDatatypes, Datatype, ComplexDatatypes
<1>2. CASE node.type = None
  <2>1. call.raised = "AttributeNotFound"
    BY <1>2, NoTextAssumption DEF decodeDataValue, getXMLAttribute, Then, Raise, Exceptions
  <2>2. node.type \notin Datatype /\ node.type # "Record" /\ node.type \notin ProcessDatatypes
    BY <1>0, <1>2, NoTextAssumption DEF Datatype
  <2> QED BY <2>1, <2>2, NoTextAssumption DEF DatatypeComplete, HasBareItem, Exceptions
<1>3. CASE node.type # None /\ node.type \notin Datatype
  <2>1. call.raised = "other"
    BY <1>3, NoTextAssumption
       DEF decodeDataValue, getXMLAttribute, Then, Return, Raise, toDatatype, Exceptions
  <2>2. node.type # "Record" /\ node.type \notin ProcessDatatypes
    BY <1>0, <1>3 DEF Datatype
  <2> QED BY <1>3, <2>1, <2>2, NoTextAssumption DEF DatatypeComplete, HasBareItem, Exceptions
<1>4. CASE node.type \in Datatype
  <2> DEFINE Value(part) == Then(part, LAMBDA shared :
                              Return([loc |-> loc, type |-> node.type, items |-> shared]))
  <2>1. call = CASE isArray(node.type) -> Value(array)
                 [] ~isArray(node.type) /\ isRecord(node.type) -> Value(record)
                 [] isProcessData(node.type) -> Raise("ProcessDataUnionAsValue")
                 [] OTHER -> Value(Then(simple, LAMBDA done : Return({})))
    <3>1. node.type # None
      BY <1>4, NoTextAssumption
    <3>2. getXMLAttribute(node.type) = Return(node.type) /\ toDatatype(node.type) = Return(node.type)
      BY <1>4, <3>1 DEF getXMLAttribute, toDatatype
    <3> QED BY <3>2 DEF decodeDataValue, Then, Return
  <2>2. \A part : /\ part.raised = None => /\ Value(part).raised = None
                                          /\ Value(part).value = [loc |-> loc, type |-> node.type, items |-> part.value]
                  /\ part.raised # None => Value(part) = part
    BY DEF Then, Return
  <2> HIDE DEF call, array, record, simple, Value
  <2>3. CASE node.type = "Array"
    <3>1. isArray(node.type) /\ ~isProcessData(node.type)
      BY <1>0, <1>4, <2>3, Kinds
    <3>2. call = Value(array)
      BY <2>1, <3>1
    <3>3. /\ array.raised = None <=> ArrayComplete(node)
          /\ array.raised \in {"AttributeNotFound", "other", None}
          /\ array.raised = None => array.value = ArrayShares(node)
      BY ArrayDecodes DEF array
    <3>4. /\ DatatypeComplete(node) <=> ArrayComplete(node)
          /\ ~HasBareItem(node) /\ node.type \notin ProcessDatatypes
          /\ Decoded(node, loc) = [loc |-> loc, type |-> node.type, items |-> ArrayShares(node)]
      BY <1>0, <2>3 DEF DatatypeComplete, ArrayComplete, HasBareItem, Decoded, Shares
    <3> QED BY <2>2, <3>2, <3>3, <3>4, NoTextAssumption DEF Exceptions, call
  <2>4. CASE node.type = "Record"
    <3>1. ~isArray(node.type) /\ isRecord(node.type) /\ ~isProcessData(node.type)
      BY <1>0, <1>4, <2>4, Kinds DEF ComplexDatatypes
    <3>2. call = Value(record)
      BY <2>1, <3>1
    <3>3. /\ record.raised = None <=> node.length = "fits" /\ ItemsComplete(node)
          /\ record.raised = "NodeNotFound" <=> BareItem(node)
          /\ record.raised \in {"NodeNotFound", "AttributeNotFound", "other", None}
          /\ record.raised = None => record.value = RecordShares(node)
      BY RecordDecodes DEF record
    <3>4. /\ DatatypeComplete(node) <=> node.length = "fits" /\ ItemsComplete(node)
          /\ HasBareItem(node) <=> BareItem(node)
          /\ node.type \notin ProcessDatatypes
          /\ Decoded(node, loc) = [loc |-> loc, type |-> node.type, items |-> RecordShares(node)]
      BY <1>0, <2>4 DEF DatatypeComplete, ItemsComplete, BareItem, Bare, HasBareItem, Decoded, Shares
    <3> QED BY <2>2, <3>2, <3>3, <3>4, NoTextAssumption DEF Exceptions, call
  <2>5. CASE node.type \in ProcessDatatypes
    <3>1. ~isArray(node.type) /\ ~isRecord(node.type) /\ isProcessData(node.type)
      BY <1>0, <1>4, <2>5, Kinds DEF ProcessDatatypes, ComplexDatatypes
    <3>2. call = Raise("ProcessDataUnionAsValue")
      BY <2>1, <3>1
    <3>3. call.raised = "ProcessDataUnionAsValue"
      BY <3>2 DEF Raise
    <3>4. ~DatatypeComplete(node) /\ ~HasBareItem(node)
      BY <1>0, <2>5 DEF DatatypeComplete, HasBareItem
    <3> QED BY <2>5, <3>3, <3>4, NoTextAssumption DEF Exceptions, call
  <2>6. CASE node.type \in SimpleDatatypes
    <3>1. ~isArray(node.type) /\ ~isRecord(node.type) /\ ~isProcessData(node.type)
      BY <1>4, <2>6, Kinds DEF ProcessDatatypes, ComplexDatatypes, SimpleDatatypes
    <3> DEFINE part == Then(simple, LAMBDA done : Return({}))
    <3>2. call = Value(part)
      BY <2>1, <3>1
    <3>3. /\ simple.raised = None <=> SimpleComplete(node, node.type)
          /\ simple.raised \in {"AttributeNotFound", "other", None}
      BY <1>4, SimpleDecodes DEF simple, DatatypeNode
    <3>4. /\ part.raised = simple.raised
          /\ part.raised = None => part.value = {}
      BY DEF Then, Return
    <3>5. /\ DatatypeComplete(node) <=> SimpleComplete(node, node.type)
          /\ ~HasBareItem(node) /\ node.type \notin ProcessDatatypes
          /\ Decoded(node, loc) = [loc |-> loc, type |-> node.type, items |-> {}]
      BY <1>4, <2>6 DEF DatatypeComplete, HasBareItem, Decoded, Shares, SimpleDatatypes, ProcessDatatypes
    <3> HIDE DEF part
    <3> QED BY <2>2, <3>2, <3>3, <3>4, <3>5, NoTextAssumption DEF Exceptions, call
  <2> QED BY <1>4, <2>3, <2>4, <2>5, <2>6 DEF Datatype, ComplexDatatypes
<1> QED BY <1>2, <1>3, <1>4
---------------------------------------------------------------------------
(* Variables. *)

LEMMA VariableTypeDecodes ==
  ASSUME NEW v \in VariableNode, NEW loc
  PROVE  LET call == decodeVariableType(v, loc, datatypes)
         IN /\ call.raised = None <=>
                 IF LacksNode(v.datatype) THEN v.ref # None /\ v.ref.datatypeId \in DOMAIN datatypes
                 ELSE DatatypeComplete(v.datatype)
            /\ call.raised = "ProcessDataUnionAsValue" <=>
                 ~LacksNode(v.datatype) /\ v.datatype.type \in ProcessDatatypes
            /\ call.raised \in Exceptions \cup {None}
            /\ call.raised = None =>
                 call.value = IF LacksNode(v.datatype) THEN datatypes[v.ref.datatypeId]
                              ELSE Decoded(v.datatype, loc)
<1> DEFINE call == decodeVariableType(v, loc, datatypes)
           own == Then(getXMLNode(v.datatype), LAMBDA node : decodeDataValue(node, loc, datatypes))
           ref == Then(getXMLNode(v.ref), LAMBDA node :
                  Then(getXMLAttribute(node.datatypeId), LAMBDA id :
                    IF id \in DOMAIN datatypes THEN Return(datatypes[id]) ELSE Raise("other")))
<1>1. call = Catch(noDatatype, own, ref)
  BY DEF decodeVariableType
<1>2. /\ own.raised = None <=> ~LacksNode(v.datatype) /\ DatatypeComplete(v.datatype)
      /\ own.raised = "NodeNotFound" <=> LacksNode(v.datatype)
      /\ own.raised = "ProcessDataUnionAsValue" <=>
           ~LacksNode(v.datatype) /\ v.datatype.type \in ProcessDatatypes
      /\ own.raised \in Exceptions \cup {None}
      /\ own.raised = None => own.value = Decoded(v.datatype, loc)
  <2>1. CASE v.datatype = None
    <3>1. own.raised = "NodeNotFound"
      BY <2>1, NoTextAssumption DEF getXMLNode, Then, Raise, Exceptions
    <3> HIDE DEF own
    <3> QED BY <2>1, <3>1, NoTextAssumption DEF LacksNode, Exceptions
  <2>2. CASE v.datatype # None
    <3> DEFINE node == v.datatype
               value == decodeDataValue(node, loc, datatypes)
    <3>1. own = value
      BY <2>2 DEF getXMLNode, Then, Return
    <3>2. node \in DatatypeNode
      BY <2>2 DEF VariableNode
    <3> HIDE DEF node
    <3>3. /\ value.raised = None <=> DatatypeComplete(node)
          /\ value.raised = "NodeNotFound" <=> HasBareItem(node)
          /\ value.raised = "ProcessDataUnionAsValue" <=> node.type \in ProcessDatatypes
          /\ value.raised \in Exceptions \cup {None}
          /\ value.raised = None => value.value = Decoded(node, loc)
      BY <2>2, <3>2, DataValueDecodes DEF node
    <3> HIDE DEF own, value
    <3> QED BY <2>2, <3>1, <3>3, NoTextAssumption DEF LacksNode, Exceptions, node
  <2> QED BY <2>1, <2>2
<1>3. /\ ref.raised = None <=> v.ref # None /\ v.ref.datatypeId \in DOMAIN datatypes
      /\ ref.raised \in {"NodeNotFound", "AttributeNotFound", "other", None}
      /\ ref.raised = None => ref.value = datatypes[v.ref.datatypeId]
  <2>1. CASE v.ref = None
    BY <2>1, NoTextAssumption DEF getXMLNode, Then, Raise, Exceptions
  <2>2. CASE v.ref # None /\ v.ref.datatypeId \in DOMAIN datatypes
    <3>1. v.ref.datatypeId # None
      BY <2>2, DatatypesAssumption, NoneAssumption DEF DatatypesMap
    <3> QED BY <2>2, <3>1 DEF getXMLNode, getXMLAttribute, Then, Return
  <2>3. CASE v.ref # None /\ v.ref.datatypeId \notin DOMAIN datatypes
    BY <2>3, NoTextAssumption DEF getXMLNode, getXMLAttribute, Then, Return, Raise, Exceptions
  <2> QED BY <2>1, <2>2, <2>3
<1> HIDE DEF call, own, ref
<1>4. CASE LacksNode(v.datatype)
  <2>1. call = ref
    BY <1>1, <1>2, <1>4 DEF Catch, noDatatype
  <2> QED BY <1>3, <1>4, <2>1, NoTextAssumption DEF Exceptions, call
<1>5. CASE ~LacksNode(v.datatype)
  <2>1. call = own
    BY <1>1, <1>2, <1>5 DEF Catch, noDatatype
  <2> QED BY <1>2, <1>5, <2>1 DEF call
<1> QED BY <1>4, <1>5

LEMMA AccessDecodes ==
  ASSUME NEW access \in AccessNode
  PROVE  decodeAccessRights(access) # None <=>
           \/ access.rights \in AccessRights
           \/ access.rights = None /\ access.restriction \in AccessRights
BY NoTextAssumption DEF decodeAccessRights

\* The value of a variable: nothing for process data.
ValueOf(v) ==
  IF LacksNode(v.datatype) THEN datatypes[v.ref.datatypeId]
  ELSE IF v.datatype.type \in ProcessDatatypes THEN None
  ELSE Decoded(v.datatype, <<file, "variable", v.id>>)
VariableOf(v) ==
  [value |-> ValueOf(v), processData |-> None, default |-> None, excluded |-> v.excluded]

LEMMA VariableDecodes ==
  ASSUME NEW v \in VariableNode
  PROVE  LET call == decodeVariable(v, file, datatypes)
         IN /\ call.raised = None <=> VariableComplete(v)
            /\ call.raised \in Exceptions \cup {None}
            /\ call.raised = None => call.value = VariableOf(v)
<1> DEFINE call == decodeVariable(v, file, datatypes)
           type == decodeVariableType(v, <<file, "variable", v.id>>, datatypes)
           typed == Catch({"ProcessDataUnionAsValue"}, type, Return(None))
           Object(value) ==
             [value |-> value, processData |-> None, default |-> None, excluded |-> v.excluded]
           body == Then(decodeLocalizedText(v.description), LAMBDA description :
                   Then(typed, LAMBDA value : Return(Object(value))))
           guarded == Catch(Exceptions, body, Raise("other"))
<1>1. CASE v.id = None \/ v.index = None
  <2>1. call.raised = "AttributeNotFound"
    BY <1>1, NoTextAssumption DEF decodeVariable, getXMLAttribute, Then, Raise, Return, Exceptions
  <2> QED BY <1>1, <2>1, NoTextAssumption DEF VariableComplete, Exceptions
<1>2. CASE v.id # None /\ v.index # None /\ v.name # "text"
  <2>1. call.raised = "other"
    BY <1>2, NoTextAssumption DEF decodeVariable, getXMLAttribute, requiredText,
       decodeLocalizedText, Then, Raise, Return, Exceptions, VariableNode, Text
  <2> QED BY <1>2, <2>1, NoTextAssumption DEF VariableComplete, Exceptions
<1>3. CASE v.id # None /\ v.index # None /\ v.name = "text"
  <2>1. call = IF decodeAccessRights(v.access) = None THEN Raise("other") ELSE guarded
    <3>1. /\ getXMLAttribute(v.id) = Return(v.id) /\ getXMLAttribute(v.index) = Return(v.index)
          /\ requiredText(v.name) = Return("text")
      BY <1>3, NoTextAssumption DEF getXMLAttribute, requiredText, decodeLocalizedText
    <3> QED BY <3>1 DEF decodeVariable, Then, Return
  <2>2. decodeAccessRights(v.access) # None <=>
           \/ v.access.rights \in AccessRights
           \/ v.access.rights = None /\ v.access.restriction \in AccessRights
    BY AccessDecodes DEF VariableNode
  <2> DEFINE accepts == IF LacksNode(v.datatype)
                        THEN v.ref # None /\ v.ref.datatypeId \in DOMAIN datatypes
                        ELSE v.datatype.type \in ProcessDatatypes \/ DatatypeComplete(v.datatype)
  <2>3. /\ typed.raised = None <=> accepts
        /\ typed.raised \in Exceptions \cup {None}
        /\ typed.raised = None => typed.value = ValueOf(v)
    <3> DEFINE loc == <<file, "variable", v.id>>
    <3>1. /\ type.raised = None <=>
               IF LacksNode(v.datatype) THEN v.ref # None /\ v.ref.datatypeId \in DOMAIN datatypes
               ELSE DatatypeComplete(v.datatype)
          /\ type.raised = "ProcessDataUnionAsValue" <=>
               ~LacksNode(v.datatype) /\ v.datatype.type \in ProcessDatatypes
          /\ type.raised \in Exceptions \cup {None}
          /\ type.raised = None =>
               type.value = IF LacksNode(v.datatype) THEN datatypes[v.ref.datatypeId]
                            ELSE Decoded(v.datatype, loc)
      BY VariableTypeDecodes
    <3> HIDE DEF type
    <3>2. /\ type.raised = "ProcessDataUnionAsValue" => typed = Return(None)
          /\ type.raised # "ProcessDataUnionAsValue" => typed = type
      BY DEF Catch
    <3> HIDE DEF typed
    <3>3. CASE type.raised = "ProcessDataUnionAsValue"
      BY <3>1, <3>2, <3>3 DEF Return, ValueOf
    <3>4. CASE type.raised # "ProcessDataUnionAsValue"
      BY <3>1, <3>2, <3>4 DEF ValueOf
    <3> QED BY <3>3, <3>4
  <2> HIDE DEF typed, accepts
  <2>4. body.raised \in Exceptions \cup {None}
        /\ (body.raised = None <=> v.description # "broken" /\ accepts)
        /\ (body.raised = None => body = Return(Object(ValueOf(v))))
    <3>1. CASE v.description = "broken"
      BY <3>1, NoTextAssumption DEF decodeLocalizedText, Then, Raise, Exceptions
    <3>2. CASE v.description # "broken"
      <4>1. body = Then(typed, LAMBDA value : Return(Object(value)))
        BY <3>2 DEF decodeLocalizedText, Then, Return
      <4>2. body = IF typed.raised = None THEN Return(Object(typed.value)) ELSE typed
        BY <4>1 DEF Then
      <4> HIDE DEF body, Object
      <4> QED BY <2>3, <3>2, <4>2 DEF Return
    <3> QED BY <3>1, <3>2
  <2> HIDE DEF body
  <2>5. /\ guarded.raised \in Exceptions \cup {None}
        /\ guarded.raised = None <=> v.description # "broken" /\ accepts
        /\ guarded.raised = None => guarded.value = VariableOf(v)
    BY <2>4, NoTextAssumption DEF Catch, Raise, Return, Exceptions, VariableOf
  <2> HIDE DEF guarded, call
  <2>6. CASE decodeAccessRights(v.access) = None
    <3>1. call.raised = "other"
      BY <2>1, <2>6 DEF Raise
    <3> QED BY <2>2, <2>6, <3>1, NoTextAssumption DEF VariableComplete, Exceptions, call
  <2>7. CASE decodeAccessRights(v.access) # None
    BY <1>3, <2>1, <2>2, <2>5, <2>7 DEF VariableComplete, call, accepts
  <2> QED BY <2>6, <2>7
<1> QED BY <1>1, <1>2, <1>3
---------------------------------------------------------------------------
(* Process data. *)

LEMMA DirectionDecodes ==
  ASSUME NEW node \in DirectionNode \cup {None}, NEW data \in ProcessDataT
  PROVE  LET call == decodeProcessDataT(node, data, datatypes)
         IN /\ call.raised = None <=> DirectionDropped(node) \/ DirectionComplete(node)
            /\ call.raised \in Exceptions \cup {None}
            /\ call.raised = None =>
                 /\ call.value \in {data, None}
                 /\ call.value = None <=> DirectionDropped(node)
<1> DEFINE call == decodeProcessDataT(node, data, datatypes)
           value == decodeDataValue(node.datatype, data, datatypes)
           block == Then(getXMLNode(node), LAMBDA xml :
                    Then(getXMLAttribute(xml.id), LAMBDA id :
                    Then(getXMLAttribute(xml.length), LAMBDA bits :
                    Then(getXMLNode(xml.datatype), LAMBDA datatype :
                    Then(decodeDataValue(datatype, data, datatypes), LAMBDA done :
                    Then(requiredText(xml.name), LAMBDA name : Bounded(bits, data)))))))
<1>1. call = Catch(noDirection, block, Return(None))
  BY DEF decodeProcessDataT
<1>2. data # None
  BY NoProcessDataAssumption
<1>3. ASSUME block.raised = "NodeNotFound"
      PROVE  call.raised = None /\ call.value = None
  <2> HIDE DEF block, call
  <2> QED BY <1>1, <1>3 DEF Catch, noDirection, Return
<1>4. ASSUME block.raised # "NodeNotFound"
      PROVE  call = block
  <2> HIDE DEF block, call
  <2> QED BY <1>1, <1>4 DEF Catch, noDirection
<1>5. CASE node = None
  <2>1. block.raised = "NodeNotFound"
    BY <1>5, NoTextAssumption DEF getXMLNode, Then, Raise, Exceptions
  <2> HIDE DEF block, call
  <2> QED BY <1>3, <1>5, <2>1 DEF DirectionDropped, call
<1>6. CASE node # None /\ (node.id = None \/ node.length = None)
  <2>1. block.raised = "AttributeNotFound"
    BY <1>6, NoTextAssumption DEF getXMLNode, getXMLAttribute, Then, Raise, Return, Exceptions
  <2> HIDE DEF block, call
  <2> QED BY <1>4, <1>6, <2>1, NoTextAssumption DEF DirectionDropped, DirectionComplete, Exceptions, call
<1>7. CASE node # None /\ node.id # None /\ node.length # None /\ node.datatype = None
  <2>1. block.raised = "NodeNotFound"
    BY <1>7, NoTextAssumption DEF getXMLNode, getXMLAttribute, Then, Raise, Return, Exceptions
  <2> HIDE DEF block, call
  <2> QED BY <1>3, <1>7, <2>1 DEF DirectionDropped, LacksNode, call
<1>8. CASE node # None /\ node.id # None /\ node.length # None /\ node.datatype # None
  <2> DEFINE rest == Then(requiredText(node.name), LAMBDA name : Bounded(node.length, data))
  <2>1. block = IF value.raised = None THEN rest ELSE value
    <3>1. block = Then(value, LAMBDA done : rest)
      BY <1>8 DEF getXMLNode, getXMLAttribute, Then, Return
    <3> QED BY <3>1 DEF Then
  <2>2. /\ value.raised = None <=> DatatypeComplete(node.datatype)
        /\ value.raised = "NodeNotFound" <=> HasBareItem(node.datatype)
        /\ value.raised \in Exceptions \cup {None}
    <3>1. node.datatype \in DatatypeNode
      BY <1>8 DEF DirectionNode
    <3> QED BY <1>8, <3>1, DataValueDecodes
  <2>3. /\ rest.raised = None <=> node.name = "text" /\ node.length = "fits"
        /\ rest.raised \in {"other", None}
        /\ rest.raised = None => rest.value = data
    <3>1. node.name \in Text /\ node.length \in Length
      BY <1>8 DEF DirectionNode
    <3>2. CASE node.name # "text"
      BY <3>1, <3>2, NoTextAssumption DEF requiredText, decodeLocalizedText, Then, Raise, Text, Exceptions
    <3>3. CASE node.name = "text"
      <4>1. rest = Bounded(node.length, data)
        BY <3>3, NoTextAssumption DEF requiredText, decodeLocalizedText, Then, Return
      <4> HIDE DEF rest
      <4> QED BY <1>8, <3>1, <3>3, <4>1, NoTextAssumption DEF Bounded, Raise, Return, Length, Exceptions
    <3> QED BY <3>2, <3>3
  <2>4. DirectionDropped(node) <=> HasBareItem(node.datatype)
    BY <1>8 DEF DirectionDropped, LacksNode
  <2>5. DirectionComplete(node) <=>
          node.length = "fits" /\ node.name = "text" /\ DatatypeComplete(node.datatype)
    BY <1>8 DEF DirectionComplete
  <2> HIDE DEF block, call, value, rest
  <2>6. CASE value.raised = "NodeNotFound"
    BY <1>3, <2>1, <2>2, <2>4, <2>6, NoTextAssumption DEF Exceptions, call
  <2>7. CASE value.raised \notin {"NodeNotFound", None}
    BY <1>4, <2>1, <2>2, <2>4, <2>5, <2>7 DEF call
  <2>8. CASE value.raised = None
    <3>1. ~DirectionDropped(node)
      BY <2>2, <2>4, <2>8, NoTextAssumption DEF Exceptions
    <3>2. call = rest
      BY <1>4, <2>1, <2>3, <2>8, NoTextAssumption DEF Exceptions
    <3> QED BY <1>2, <2>2, <2>3, <2>5, <2>8, <3>1, <3>2 DEF Exceptions, call
  <2> QED BY <2>6, <2>7, <2>8
<1> QED BY <1>5, <1>6, <1>7, <1>8

ConditionType == [id : VarIds, variable : Variable, subindex : 0..255 \cup {None}, value : 0..255]

LEMMA ConditionDecodes ==
  ASSUME NEW node \in ConditionNode \cup {None}, NEW map, VariablesMap(map)
  PROVE  LET call == decodeCondition(node, map)
         IN /\ call.raised = None <=> ConditionComplete(node, DOMAIN map)
            /\ call.raised \in Exceptions \cup {None}
            /\ call.raised = None => call.value \in ConditionType \cup {None}
<1> DEFINE call == decodeCondition(node, map)
<1>1. CASE node = None
  BY <1>1 DEF decodeCondition, Return, ConditionComplete
<1>2. CASE node # None /\ node.variableId = None
  <2>1. call.raised = "AttributeNotFound"
    BY <1>2, NoTextAssumption DEF decodeCondition, getXMLAttribute, Then, Raise, Exceptions
  <2>2. node.variableId \notin DOMAIN map
    BY <1>2, NoneAssumption DEF VariablesMap
  <2> QED BY <1>2, <2>1, <2>2, NoTextAssumption DEF ConditionComplete, Exceptions
<1>3. CASE node # None /\ node.variableId # None /\ node.variableId \notin DOMAIN map
  <2>1. call.raised = "out_of_range"
    BY <1>3, NoTextAssumption DEF decodeCondition, getXMLAttribute, findVariable, Then, Raise, Return, Exceptions
  <2> QED BY <1>3, <2>1, NoTextAssumption DEF ConditionComplete, Exceptions
<1>4. CASE node # None /\ node.variableId # None /\ node.variableId \in DOMAIN map
  <2>1. CASE node.value = None
    <3>1. call.raised = "AttributeNotFound"
      BY <1>4, <2>1, NoTextAssumption DEF decodeCondition, getXMLAttribute, findVariable, Then, Raise, Return, Exceptions
    <3> QED BY <1>4, <2>1, <3>1, NoTextAssumption DEF ConditionComplete, Exceptions
  <2>2. CASE node.value # None
    <3>1. call = Return([id |-> node.variableId, variable |-> map[node.variableId],
                         subindex |-> subindexOf(node), value |-> uint8(node.value)])
      BY <1>4, <2>2 DEF decodeCondition, getXMLAttribute, findVariable, Then, Return
    <3>2. /\ node.variableId \in VarIds /\ map[node.variableId] \in Variable
          /\ subindexOf(node) \in 0..255 \cup {None} /\ uint8(node.value) \in 0..255
      <4>1. node.variableId \in VarIds /\ node.value \in Nat
        BY <1>4, <2>2 DEF ConditionNode
      <4>2. map[node.variableId] \in Variable
        BY <1>4 DEF VariablesMap
      <4>3. subindexOf(node) \in 0..255 \cup {None}
        BY DEF subindexOf
      <4>4. uint8(node.value) \in 0..255
        BY <4>1 DEF uint8
      <4> QED BY <4>1, <4>2, <4>3, <4>4
    <3>3. call.value \in ConditionType /\ call.raised = None
      BY <3>1, <3>2 DEF Return, ConditionType
    <3> QED BY <1>4, <2>2, <3>3 DEF ConditionComplete
  <2> QED BY <2>1, <2>2
<1> QED BY <1>1, <1>2, <1>3, <1>4
---------------------------------------------------------------------------
(* Collections. *)

\* emplace.
LEMMA FirstStays ==
  ASSUME NEW f, NEW id, NEW value
  PROVE  /\ DOMAIN emplace(f, id, value) = DOMAIN f \cup {id}
         /\ \A x \in DOMAIN f : emplace(f, id, value)[x] = f[x]
         /\ id \notin DOMAIN f => emplace(f, id, value)[id] = value
         /\ \A S : f \in [DOMAIN f -> S] /\ value \in S =>
              emplace(f, id, value) \in [DOMAIN f \cup {id} -> S]
BY DEF emplace, firstStays

\* insert.
LEMMA AllStay ==
  ASSUME NEW f, NEW g
  PROVE  /\ DOMAIN firstStays(f, g) = DOMAIN f \cup DOMAIN g
         /\ \A S : f \in [DOMAIN f -> S] /\ g \in [DOMAIN g -> S] =>
              firstStays(f, g) \in [DOMAIN f \cup DOMAIN g -> S]
BY DEF firstStays

\* First is the position of the first element with an id.
LEMMA FirstIsAt ==
  ASSUME NEW S, NEW nodes \in Seq(S), NEW i \in DOMAIN nodes,
         \A j \in DOMAIN nodes : nodes[j].id = nodes[i].id => i <= j
  PROVE  First(nodes, nodes[i].id) = i
<1>1. DOMAIN nodes \in SUBSET Nat
  BY LenProperties
<1> DEFINE P(k) == /\ nodes[k].id = nodes[i].id
                   /\ \A j \in DOMAIN nodes : nodes[j].id = nodes[i].id => k <= j
<1>2. P(i)
  OBVIOUS
<1>3. \A k \in DOMAIN nodes : P(k) => k = i
  BY <1>1
<1>4. First(nodes, nodes[i].id) = CHOOSE k \in DOMAIN nodes : P(k)
  BY DEF First
<1> HIDE DEF P
<1> QED BY <1>2, <1>3, <1>4

LEMMA FirstExists ==
  ASSUME NEW S, NEW nodes \in Seq(S), NEW k \in DOMAIN nodes
  PROVE  \E i \in DOMAIN nodes :
           /\ nodes[i].id = nodes[k].id /\ i <= k /\ First(nodes, nodes[k].id) = i
           /\ \A j \in DOMAIN nodes : nodes[j].id = nodes[k].id => i <= j
<1> DEFINE I == {i \in DOMAIN nodes : nodes[i].id = nodes[k].id}
<1>1. I \in SUBSET Nat /\ I # {}
  BY LenProperties
<1>2. PICK i \in I : \A j \in I : i <= j
  <2> HIDE DEF I
  <2> QED BY <1>1, LeastElement
<1>3. \A j \in DOMAIN nodes : nodes[j].id = nodes[i].id => i <= j
  BY <1>2
<1>4. First(nodes, nodes[i].id) = i
  BY <1>2, <1>3, FirstIsAt
<1> QED BY <1>2, <1>3, <1>4

---------------------------------------------------------------------------
(* What Loader has for a variable. *)

\* A datatype with all it needs lacks no element and is none of process data.
LEMMA CompleteLacksNothing ==
  ASSUME NEW node \in DatatypeNode, DatatypeComplete(node)
  PROVE  ~LacksNode(node) /\ node.type \in Datatype \ ProcessDatatypes
<1>1. node # None /\ node.type \in Datatype \ ProcessDatatypes
  BY DEF DatatypeComplete
<1>2. /\ decodeDataValue(node, None, datatypes).raised = None
      /\ decodeDataValue(node, None, datatypes).raised = "NodeNotFound" <=> HasBareItem(node)
  BY <1>1, DataValueDecodes
<1> QED BY <1>1, <1>2, NoTextAssumption DEF LacksNode, Exceptions

\* The standard objects of a complete datatype are those of SharedBy.
LEMMA SharesAreShared ==
  ASSUME NEW node \in DatatypeNode, DatatypeComplete(node)
  PROVE  /\ Shares(node) = {datatypes[i].loc : i \in SharedBy(node) \cap DOMAIN datatypes}
         /\ node.type \notin ComplexDatatypes => Shares(node) = {}
<1>1. DOMAIN datatypes \subseteq TypeIds
  BY DatatypesAssumption DEF DatatypesMap
<1>2. CASE node.type = "Array"
  <2>1. SharedBy(node) = {ref.datatypeId : ref \in IF node.simple = None THEN {node.ref} ELSE {}} \cap TypeIds
    BY <1>2 DEF SharedBy
  <2>2. Shares(node) = ArrayShares(node) /\ node.type \in ComplexDatatypes
    BY <1>2 DEF Shares, ComplexDatatypes
  <2> QED BY <1>1, <2>1, <2>2 DEF ArrayShares
<1>3. CASE node.type = "Record"
  <2> DEFINE refs == {node.items[i].ref : i \in {j \in DOMAIN node.items : node.items[j].simple = None}}
  <2>1. SharedBy(node) = {ref.datatypeId : ref \in refs} \cap TypeIds
    BY <1>3 DEF SharedBy
  <2>2. Shares(node) = RecordShares(node) /\ node.type \in ComplexDatatypes
    BY <1>3 DEF Shares, ComplexDatatypes
  <2>3. \A i \in DOMAIN node.items : node.items[i].simple = None =>
          node.items[i].ref.datatypeId \in DOMAIN datatypes
    BY <1>3 DEF DatatypeComplete, ItemComplete, RefersToSimple
  <2>4. ASSUME NEW loc
        PROVE  loc \in RecordShares(node) <=>
                 loc \in {datatypes[i].loc : i \in SharedBy(node) \cap DOMAIN datatypes}
    <3>1. loc \in RecordShares(node) <=>
            \E i \in DOMAIN node.items :
              node.items[i].simple = None /\ loc = datatypes[node.items[i].ref.datatypeId].loc
      BY DEF RecordShares, ItemShares
    <3>2. \A id : id \in SharedBy(node) \cap DOMAIN datatypes <=>
            \E i \in DOMAIN node.items :
              node.items[i].simple = None /\ id = node.items[i].ref.datatypeId
      BY <1>1, <2>1, <2>3
    <3> QED BY <3>1, <3>2
  <2> QED BY <2>2, <2>4
<1>4. CASE node.type \notin {"Array", "Record"}
  <2>1. SharedBy(node) = {} /\ Shares(node) = {}
    BY <1>4 DEF SharedBy, Shares
  <2> QED BY <2>1
<1> QED BY <1>2, <1>3, <1>4

LEMMA LoaderReads ==
  ASSUME NEW nodes \in Seq(VariableNode), NEW i \in DOMAIN nodes, VariableComplete(nodes[i])
  PROVE  DecodedVariable(VariablesOf(nodes)[i], file, datatypes) = VariableOf(nodes[i])
<1> DEFINE v == nodes[i]
           decl == DeclarationOf(v)
<1>1. v \in VariableNode
  BY LenProperties, ElementOfSeq
<1>2. VariablesOf(nodes)[i] =
        [id |-> v.id, named |-> v.name = "text", access |-> decodeAccessRights(v.access) # None,
         excluded |-> v.excluded, decl |-> decl]
  BY DEF VariablesOf
<1> DEFINE loc == <<file, "variable", v.id>>
           value == CASE decl.kind = "reference" -> datatypes[decl.ref]
                      [] decl.kind # "reference" /\ isProcessData(decl.type) -> None
                      [] OTHER -> DecodedDataValue(decl, loc, datatypes)
<1>3. DecodedVariable(VariablesOf(nodes)[i], file, datatypes) =
        [value |-> value, processData |-> None, default |-> None, excluded |-> v.excluded]
  <2> HIDE DEF decl
  <2> QED BY <1>2 DEF DecodedVariable
<1> HIDE DEF v
<1>4. value = ValueOf(v)
  <2>1. CASE LacksNode(v.datatype)
    <3>1. v.ref # None
      BY <2>1 DEF VariableComplete, v
    <3>2. ~(v.datatype # None /\ v.datatype \in DatatypeNode /\ DatatypeComplete(v.datatype))
      BY <2>1, CompleteLacksNothing
    <3>3. ~DatatypeComplete(v.datatype)
      BY <1>1, <3>2 DEF VariableNode, DatatypeComplete
    <3>4. decl.kind = "reference" /\ decl.ref = v.ref.datatypeId
      BY <2>1, <3>1, <3>3 DEF DeclarationOf
    <3> HIDE DEF decl
    <3> QED BY <2>1, <3>4 DEF ValueOf
  <2>2. CASE ~LacksNode(v.datatype) /\ v.datatype.type \in ProcessDatatypes
    <3>1. ~DatatypeComplete(v.datatype)
      BY <2>2 DEF DatatypeComplete
    <3>2. decl.kind = "inline" /\ decl.type = v.datatype.type
      BY <2>2, <3>1 DEF DeclarationOf
    <3>3. isProcessData(decl.type)
      BY <2>2, <3>2, Kinds DEF Datatype
    <3> HIDE DEF decl
    <3> QED BY <2>2, <3>2, <3>3 DEF ValueOf
  <2>3. CASE ~LacksNode(v.datatype) /\ v.datatype.type \notin ProcessDatatypes
    <3>1. DatatypeComplete(v.datatype) /\ v.datatype \in DatatypeNode
      BY <1>1, <2>3 DEF VariableComplete, VariableNode, LacksNode, v
    <3>2. decl.kind = "inline" /\ decl.type = v.datatype.type /\ decl.items = SharedBy(v.datatype)
      BY <2>3, <3>1 DEF DeclarationOf
    <3>3. v.datatype.type \in Datatype
      BY <3>1 DEF DatatypeComplete
    <3>4. ~isProcessData(decl.type) /\ (isComplexData(decl.type) <=> decl.type \in ComplexDatatypes)
      BY <2>3, <3>2, <3>3, Kinds
    <3> HIDE DEF decl
    <3>5. value = DecodedDataValue(decl, loc, datatypes)
      BY <3>2, <3>4
    <3>6. DecodedDataValue(decl, loc, datatypes) = Decoded(v.datatype, loc)
      BY <3>1, <3>2, <3>4, SharesAreShared DEF DecodedDataValue, Decoded
    <3> QED BY <2>3, <3>5, <3>6 DEF ValueOf
  <2> QED BY <2>1, <2>2, <2>3
<1> QED BY <1>3, <1>4 DEF VariableOf, v
---------------------------------------------------------------------------
(* The inductive invariant. *)

VN == document.variables
PN == document.processData

\* decodeVariables has accepted the elements before pos, and has the first of each id.
VariablesInv ==
  stage = "variables" =>
    /\ pos <= Len(VN) + 1
    /\ \A i \in 1..pos - 1 : VariableComplete(VN[i])
    /\ DOMAIN variables = {VN[i].id : i \in 1..pos - 1}
    /\ \A id \in DOMAIN variables : variables[id] = VariableOf(VN[First(VN, id)])
    /\ processData = Nothing

\* Afterwards all are accepted and the variables stay.
ReadInv ==
  stage \in InProcessData =>
    /\ \A i \in DOMAIN VN : VariableComplete(VN[i])
    /\ IsWhatLoaderReads

Known == DOMAIN variables
Passes(node) == DirectionDropped(node) \/ DirectionComplete(node)

\* decodeProcessData has accepted the elements before pos, and of the one at pos what
\* its calls have looked at.
UnionsInv ==
  /\ stage \in InProcessData =>
       /\ pos <= Len(PN) + 1
       /\ \A i \in 1..pos - 1 : UnionComplete(PN[i], Known)
       /\ DOMAIN processData = {PN[i].id : i \in 1..pos - 1}
  /\ stage = "decoded" => pos = Len(PN) + 1
  /\ stage \in {"in", "out", "condition", "union"} => pos \in DOMAIN PN /\ NodeData.id # None
  /\ stage \in {"out", "condition", "union"} =>
       Passes(NodeData.in) /\ (dataIn = None <=> DirectionDropped(NodeData.in))
  /\ stage \in {"condition", "union"} =>
       Passes(NodeData.out) /\ (dataOut = None <=> DirectionDropped(NodeData.out))
  /\ stage = "union" => ConditionComplete(NodeData.condition, Known)

\* The exception that leaves the loops is that of an incomplete element.
FailedInv ==
  stage = "failed" =>
    \/ pos \in DOMAIN VN /\ ~VariableComplete(VN[pos])
    \/ pos \in DOMAIN PN /\ ~UnionComplete(PN[pos], Known)

Inv == /\ document \in Collections /\ TypeOK /\ condition \in ConditionType \cup {None}
       /\ VariablesInv /\ ReadInv /\ UnionsInv /\ FailedInv /\ DropsOnlyWithoutNode

LEMMA InvImplies ==
  Inv => AcceptsCompleteElements /\ DropsOnlyWithoutNode /\ IsWhatLoaderReads
<1> SUFFICES ASSUME Inv PROVE AcceptsCompleteElements /\ IsWhatLoaderReads
  BY DEF Inv
<1>1. document \in Collection
  BY CollectionsAssumption DEF Inv
<1>2. DOMAIN PN = 1..Len(PN)
  BY <1>1, LenProperties DEF Collection, PN
<1>3. AcceptsCompleteElements
  BY <1>2 DEF Inv, ReadInv, UnionsInv, FailedInv, AcceptsCompleteElements, VN, PN, Known, InProcessData
<1>4. IsWhatLoaderReads
  BY DEF Inv, ReadInv, IsWhatLoaderReads
<1> QED BY <1>3, <1>4

\* The elements have their types.
LEMMA Nodes ==
  ASSUME Inv
  PROVE  /\ VN \in Seq(VariableNode) /\ PN \in Seq(ProcessDataNode)
         /\ DOMAIN VN = 1..Len(VN) /\ Len(VN) \in Nat
         /\ DOMAIN PN = 1..Len(PN) /\ Len(PN) \in Nat
         /\ \A i \in DOMAIN VN : VN[i] \in VariableNode
         /\ \A i \in DOMAIN PN : PN[i] \in ProcessDataNode
         /\ pos \in Nat \ {0}
<1>1. VN \in Seq(VariableNode) /\ PN \in Seq(ProcessDataNode)
  BY CollectionsAssumption DEF Inv, Collection, VN, PN
<1>2. pos \in Nat \ {0}
  BY DEF Inv, TypeOK
<1> QED BY <1>1, <1>2, LenProperties, ElementOfSeq

LEMMA InitInv ==
  Init => Inv
<1> SUFFICES ASSUME Init PROVE Inv
  OBVIOUS
<1>1. document \in Collections /\ stage = "variables" /\ pos = 1 /\ variables = Nothing
      /\ processData = Nothing /\ dataIn = None /\ dataOut = None /\ condition = None /\ raised = None
  BY DEF Init
<1>2. document \in Collection
  BY <1>1, CollectionsAssumption
<1>3. Len(VN) \in Nat
  BY <1>2, LenProperties DEF Collection, VN
<1>4. DOMAIN Nothing = {} /\ VariablesMap(Nothing) /\ Nothing \in [DOMAIN Nothing -> UnionType]
  BY DEF Nothing, VariablesMap
<1>5. TypeOK
  BY <1>1, <1>4 DEF TypeOK
<1>6. VariablesInv
  BY <1>1, <1>3, <1>4 DEF VariablesInv
<1>7. ReadInv /\ UnionsInv /\ FailedInv /\ DropsOnlyWithoutNode
  BY <1>1, <1>4 DEF ReadInv, UnionsInv, FailedInv, DropsOnlyWithoutNode, InProcessData
<1> QED BY <1>1, <1>5, <1>6, <1>7 DEF Inv

\* A decoded variable has its type.
LEMMA VariableType ==
  ASSUME NEW v \in VariableNode, VariableComplete(v)
  PROVE  VariableOf(v) \in Variable
<1>1. \A id \in DOMAIN datatypes : datatypes[id] \in DataValue /\ datatypes[id].loc \in Loc
  BY DatatypesAssumption DEF DatatypesMap, DataValue
<1>2. ValueOf(v) \in DataValue \cup {None}
  <2>1. CASE LacksNode(v.datatype)
    BY <1>1, <2>1 DEF ValueOf, VariableComplete
  <2>2. CASE ~LacksNode(v.datatype) /\ v.datatype.type \in ProcessDatatypes
    BY <2>2 DEF ValueOf
  <2>3. CASE ~LacksNode(v.datatype) /\ v.datatype.type \notin ProcessDatatypes
    <3> DEFINE node == v.datatype
               loc == <<file, "variable", v.id>>
    <3>1. DatatypeComplete(node) /\ node \in DatatypeNode
      BY <2>3 DEF VariableComplete, VariableNode, LacksNode
    <3>2. node.type \in SimpleDatatypes \cup ComplexDatatypes
      BY <3>1, CompleteLacksNothing DEF Datatype
    <3>3. loc \in Loc
      BY FileAssumption DEF Loc, VariableNode, VariableComplete
    <3>4. Shares(node) \in SUBSET Loc
      BY <1>1, <3>1, SharesAreShared
    <3> HIDE DEF node, loc
    <3>5. Decoded(node, loc) \in DataValue
      BY <3>2, <3>3, <3>4 DEF Decoded, DataValue
    <3> QED BY <2>3, <3>5 DEF ValueOf, node, loc
  <2> QED BY <2>1, <2>2, <2>3
<1>3. v.excluded \in BOOLEAN
  BY DEF VariableNode
<1> QED BY <1>2, <1>3 DEF VariableOf, Variable
---------------------------------------------------------------------------
(* The actions. *)

LEMMA DecodeVariableStep ==
  ASSUME Inv, DecodeVariable
  PROVE  Inv'
<1>1. /\ stage = "variables" /\ stage' = "variables" /\ pos \in DOMAIN VN /\ pos' = pos + 1
      /\ NodeVariable = VN[pos] /\ VariableCall.raised = None
      /\ document' = document /\ processData' = processData /\ raised' = raised
      /\ dataIn' = dataIn /\ dataOut' = dataOut /\ condition' = condition
      /\ variables' = emplace(variables, NodeVariable.id, VariableCall.value)
  BY DEF DecodeVariable, VN, NodeVariable, locals
<1> DEFINE v == VN[pos]
<1>2. v \in VariableNode /\ pos \in 1..Len(VN) /\ Len(VN) \in Nat
  BY <1>1, Nodes
<1>3. VariableComplete(v) /\ VariableCall.value = VariableOf(v)
  BY <1>1, <1>2, VariableDecodes DEF VariableCall
<1>4. variables' = emplace(variables, v.id, VariableOf(v))
  BY <1>1, <1>3
<1>5. v.id \in VarIds
  BY <1>2, <1>3 DEF VariableComplete, VariableNode
<1>6. VariableOf(v) \in Variable
  BY <1>2, <1>3, VariableType
<1>7. /\ \A i \in 1..pos - 1 : VariableComplete(VN[i])
      /\ DOMAIN variables = {VN[i].id : i \in 1..pos - 1}
      /\ \A id \in DOMAIN variables : variables[id] = VariableOf(VN[First(VN, id)])
      /\ processData = Nothing
  BY <1>1 DEF Inv, VariablesInv
<1>8. VN' = VN /\ PN' = PN
  BY <1>1 DEF VN, PN
<1>9. v.id \notin DOMAIN variables => First(VN, v.id) = pos
  <2> SUFFICES ASSUME v.id \notin DOMAIN variables
               PROVE  \A j \in DOMAIN VN : VN[j].id = v.id => pos <= j
    BY <1>1, Nodes, FirstIsAt
  <2>1. \A j \in 1..pos - 1 : VN[j].id # v.id
    BY <1>7
  <2> QED BY <1>2, <2>1, Nodes
<1> HIDE DEF v
<1>10. /\ DOMAIN variables' = DOMAIN variables \cup {v.id}
       /\ \A id \in DOMAIN variables : variables'[id] = variables[id]
       /\ v.id \notin DOMAIN variables => variables'[v.id] = VariableOf(v)
  BY <1>4 DEF emplace, firstStays
<1>11. VariablesMap(variables')
  <2>1. DOMAIN variables \subseteq VarIds /\ variables \in [DOMAIN variables -> Variable]
    BY DEF Inv, TypeOK, VariablesMap
  <2>2. variables' \in [DOMAIN variables \cup {v.id} -> Variable]
    BY <1>4, <1>6, <2>1, FirstStays
  <2> QED BY <1>5, <1>10, <2>1, <2>2 DEF VariablesMap
<1>12. VariablesInv'
  <2>1. pos' - 1 = pos /\ pos' <= Len(VN) + 1
    BY <1>1, <1>2
  <2>2. \A i \in 1..pos : VariableComplete(VN[i])
    BY <1>2, <1>3, <1>7 DEF v
  <2>3. DOMAIN variables' = {VN[i].id : i \in 1..pos}
    <3>1. 1..pos = (1..pos - 1) \cup {pos}
      BY <1>2
    <3> QED BY <1>7, <1>10, <3>1 DEF v
  <2>4. \A id \in DOMAIN variables' : variables'[id] = VariableOf(VN[First(VN, id)])
    <3>1. ASSUME v.id \notin DOMAIN variables
          PROVE  variables'[v.id] = VariableOf(VN[First(VN, v.id)])
      BY <1>9, <1>10, <3>1 DEF v
    <3> QED BY <1>7, <1>10, <3>1
  <2> QED BY <1>1, <1>7, <1>8, <2>1, <2>2, <2>3, <2>4 DEF VariablesInv
<1>13. TypeOK'
  BY <1>1, <1>2, <1>11 DEF Inv, TypeOK
<1>14. ReadInv' /\ UnionsInv' /\ FailedInv'
  BY <1>1 DEF ReadInv, UnionsInv, FailedInv, InProcessData
<1>15. DropsOnlyWithoutNode'
  BY <1>1, <1>7 DEF DropsOnlyWithoutNode, Nothing
<1> QED BY <1>1, <1>12, <1>13, <1>14, <1>15 DEF Inv

\* At the end of the loop the variables are those of decodeVariables.
LEMMA LoopIsDecodeVariables ==
  ASSUME Inv, stage = "variables", pos \notin DOMAIN VN
  PROVE  /\ variables = decodeVariables(VariablesOf(VN), file, datatypes)
         /\ \A i \in DOMAIN VN : VariableComplete(VN[i])
<1> DEFINE decls == VariablesOf(VN)
<1>1. /\ pos - 1 = Len(VN) /\ DOMAIN VN = 1..Len(VN)
      /\ \A i \in DOMAIN VN : VariableComplete(VN[i])
      /\ DOMAIN variables = {VN[i].id : i \in DOMAIN VN}
      /\ \A id \in DOMAIN variables : variables[id] = VariableOf(VN[First(VN, id)])
  <2>1. pos <= Len(VN) + 1 /\ pos \notin 1..Len(VN) /\ pos \in Nat \ {0} /\ Len(VN) \in Nat
        /\ DOMAIN VN = 1..Len(VN)
    BY Nodes DEF Inv, VariablesInv
  <2>2. pos - 1 = Len(VN)
    BY <2>1
  <2> QED BY <2>1, <2>2 DEF Inv, VariablesInv
<1>2. DOMAIN decls = DOMAIN VN /\ \A i \in DOMAIN VN : decls[i].id = VN[i].id
  BY DEF VariablesOf
<1>3. Ids(decls) = DOMAIN variables
  BY <1>1, <1>2 DEF Ids
<1>4. ASSUME NEW id \in DOMAIN variables
      PROVE  DecodedVariable(decls[First(decls, id)], file, datatypes) = variables[id]
  <2>1. PICK k \in DOMAIN VN : VN[k].id = id
    BY <1>1
  <2>2. PICK i \in DOMAIN VN :
          /\ VN[i].id = id /\ First(VN, id) = i
          /\ \A j \in DOMAIN VN : VN[j].id = id => i <= j
    BY <2>1, Nodes, FirstExists
  <2>3. First(decls, id) = i
    <3>1. decls \in Seq({decls[j] : j \in DOMAIN VN})
      <4>1. decls \in [1..Len(VN) -> {decls[j] : j \in DOMAIN VN}]
        BY <1>1 DEF VariablesOf
      <4>2. Len(VN) \in Nat
        BY Nodes
      <4> HIDE DEF decls
      <4> QED BY <4>1, <4>2
    <3> HIDE DEF decls
    <3> QED BY <1>2, <2>2, <3>1, FirstIsAt
  <2>4. DecodedVariable(decls[i], file, datatypes) = VariableOf(VN[i])
    BY <1>1, Nodes, LoaderReads
  <2> HIDE DEF decls
  <2> QED BY <1>1, <2>2, <2>3, <2>4
<1> DEFINE read == decodeVariables(decls, file, datatypes)
<1>5. DOMAIN read = DOMAIN variables /\ \A id \in DOMAIN variables : read[id] = variables[id]
  <2> HIDE DEF decls
  <2> QED BY <1>3, <1>4 DEF decodeVariables
<1>6. read = [id \in DOMAIN read |-> read[id]]
  BY DEF decodeVariables
<1>7. variables = [id \in DOMAIN variables |-> variables[id]]
  BY DEF Inv, TypeOK, VariablesMap
<1> HIDE DEF read
<1>8. variables = read
  BY <1>5, <1>6, <1>7
<1> QED BY <1>1, <1>8 DEF read

LEMMA InsertVariablesStep ==
  ASSUME Inv, InsertVariables
  PROVE  Inv'
<1>1. /\ stage = "variables" /\ stage' = "id" /\ pos \notin DOMAIN VN /\ pos' = 1
      /\ document' = document /\ processData' = processData /\ raised' = raised
      /\ dataIn' = dataIn /\ dataOut' = dataOut /\ condition' = condition
      /\ variables' = firstStays(referenced, variables)
  BY DEF InsertVariables, VN, locals
<1>2. VN' = VN /\ PN' = PN
  BY <1>1 DEF VN, PN
<1>3. /\ variables = decodeVariables(VariablesOf(VN), file, datatypes)
      /\ \A i \in DOMAIN VN : VariableComplete(VN[i])
  BY <1>1, LoopIsDecodeVariables
<1>4. processData = Nothing /\ DOMAIN Nothing = {}
  BY <1>1 DEF Inv, VariablesInv, Nothing
<1>5. ReadInv'
  BY <1>1, <1>2, <1>3 DEF ReadInv, IsWhatLoaderReads, firstStays, VN
<1>6. VariablesMap(variables')
  <2>1. /\ DOMAIN variables \subseteq VarIds /\ variables \in [DOMAIN variables -> Variable]
        /\ DOMAIN referenced \subseteq VarIds /\ referenced \in [DOMAIN referenced -> Variable]
    BY ReferencedAssumption DEF Inv, TypeOK, VariablesMap
  <2>2. /\ DOMAIN variables' = DOMAIN referenced \cup DOMAIN variables
        /\ variables' \in [DOMAIN referenced \cup DOMAIN variables -> Variable]
    BY <1>1, <2>1, AllStay
  <2> QED BY <2>1, <2>2 DEF VariablesMap
<1>7. TypeOK'
  BY <1>1, <1>6 DEF Inv, TypeOK, InProcessData
<1>8. UnionsInv'
  BY <1>1, <1>2, <1>4, Nodes DEF UnionsInv
<1>9. VariablesInv' /\ FailedInv'
  BY <1>1 DEF VariablesInv, FailedInv
<1>10. DropsOnlyWithoutNode'
  BY <1>1, <1>4 DEF DropsOnlyWithoutNode
<1> QED BY <1>1, <1>5, <1>7, <1>8, <1>9, <1>10 DEF Inv

\* While decodeProcessData runs, the variables and all that is said of them stay.
LEMMA Stays ==
  ASSUME Inv, document' = document, variables' = variables,
         stage \in InProcessData, stage' \in InProcessData
  PROVE  /\ VariablesInv' /\ ReadInv' /\ FailedInv'
         /\ VN' = VN /\ PN' = PN /\ Known' = Known
         /\ processData' = processData => DropsOnlyWithoutNode'
<1>1. VN' = VN /\ PN' = PN /\ Known' = Known
  BY DEF VN, PN, Known
<1>2. stage' \notin {"variables", "failed"}
  BY DEF InProcessData
<1>3. VariablesInv' /\ FailedInv'
  BY <1>2 DEF VariablesInv, FailedInv
<1>4. ReadInv'
  <2>1. (\A i \in DOMAIN VN : VariableComplete(VN[i])) /\ IsWhatLoaderReads
    BY DEF Inv, ReadInv
  <2>2. IsWhatLoaderReads'
    BY <2>1 DEF IsWhatLoaderReads
  <2> QED BY <1>1, <2>1, <2>2 DEF ReadInv
<1>5. processData' = processData => DropsOnlyWithoutNode'
  BY DEF Inv, DropsOnlyWithoutNode
<1> QED BY <1>1, <1>3, <1>4, <1>5

LEMMA GetIdStep ==
  ASSUME Inv, GetId
  PROVE  Inv'
<1>1. /\ stage = "id" /\ stage' = "in" /\ pos \in DOMAIN PN /\ PN[pos].id # None
      /\ document' = document /\ variables' = variables /\ processData' = processData
      /\ pos' = pos /\ raised' = raised
      /\ dataIn' = dataIn /\ dataOut' = dataOut /\ condition' = condition
  BY DEF GetId, AtProcessData, PN, NodeData, locals
<1>2. /\ VariablesInv' /\ ReadInv' /\ FailedInv' /\ DropsOnlyWithoutNode'
      /\ PN' = PN /\ Known' = Known
  BY <1>1, Stays DEF InProcessData
<1>3. TypeOK'
  BY <1>1 DEF Inv, TypeOK, InProcessData
<1>4. UnionsInv'
  BY <1>1, <1>2 DEF Inv, UnionsInv, NodeData, PN, InProcessData
<1> QED BY <1>1, <1>2, <1>3, <1>4 DEF Inv

\* What a direction of the ProcessData at pos becomes.
LEMMA DirectionCall ==
  ASSUME Inv, pos \in DOMAIN PN, NodeData.id # None, NEW dir \in {"in", "out"}
  PROVE  LET call == decodeProcessDataT(NodeData[dir], Data(dir), datatypes)
         IN /\ call.raised = None <=> Passes(NodeData[dir])
            /\ call.raised \in Exceptions \cup {None}
            /\ call.raised = None =>
                 /\ call.value \in ProcessDataT \cup {None}
                 /\ call.value = None <=> DirectionDropped(NodeData[dir])
<1>1. NodeData \in ProcessDataNode
  BY Nodes DEF NodeData, PN
<1>2. NodeData[dir] \in DirectionNode \cup {None} /\ NodeData.id \in PDIds
  BY <1>1 DEF ProcessDataNode
<1>3. Data(dir) \in ProcessDataT
  BY <1>2, FileAssumption DEF Data, ProcessDataT
<1> QED BY <1>2, <1>3, DirectionDecodes DEF Passes

LEMMA DecodeInStep ==
  ASSUME Inv, DecodeIn
  PROVE  Inv'
<1>1. /\ stage = "in" /\ stage' = "out" /\ pos \in DOMAIN PN
      /\ InCall.raised = None /\ dataIn' = InCall.value
      /\ document' = document /\ variables' = variables /\ processData' = processData
      /\ pos' = pos /\ raised' = raised /\ dataOut' = dataOut /\ condition' = condition
  BY DEF DecodeIn, AtProcessData, PN
<1>2. /\ VariablesInv' /\ ReadInv' /\ FailedInv' /\ DropsOnlyWithoutNode'
      /\ PN' = PN /\ Known' = Known
  BY <1>1, Stays DEF InProcessData
<1>3. NodeData.id # None /\ NodeData' = NodeData
  BY <1>1 DEF Inv, UnionsInv, NodeData
<1>4. /\ Passes(NodeData.in) /\ dataIn' \in ProcessDataT \cup {None}
      /\ dataIn' = None <=> DirectionDropped(NodeData.in)
  BY <1>1, <1>3, DirectionCall DEF InCall
<1>5. TypeOK'
  BY <1>1, <1>4 DEF Inv, TypeOK, InProcessData
<1>6. UnionsInv'
  BY <1>1, <1>2, <1>3, <1>4 DEF Inv, UnionsInv, InProcessData
<1> QED BY <1>1, <1>2, <1>5, <1>6 DEF Inv

LEMMA DecodeOutStep ==
  ASSUME Inv, DecodeOut
  PROVE  Inv'
<1>1. /\ stage = "out" /\ stage' = "condition" /\ pos \in DOMAIN PN
      /\ OutCall.raised = None /\ dataOut' = OutCall.value
      /\ document' = document /\ variables' = variables /\ processData' = processData
      /\ pos' = pos /\ raised' = raised /\ dataIn' = dataIn /\ condition' = condition
  BY DEF DecodeOut, AtProcessData, PN
<1>2. /\ VariablesInv' /\ ReadInv' /\ FailedInv' /\ DropsOnlyWithoutNode'
      /\ PN' = PN /\ Known' = Known
  BY <1>1, Stays DEF InProcessData
<1>3. NodeData.id # None /\ NodeData' = NodeData
  BY <1>1 DEF Inv, UnionsInv, NodeData
<1>4. /\ Passes(NodeData.out) /\ dataOut' \in ProcessDataT \cup {None}
      /\ dataOut' = None <=> DirectionDropped(NodeData.out)
  BY <1>1, <1>3, DirectionCall DEF OutCall
<1>5. TypeOK'
  BY <1>1, <1>4 DEF Inv, TypeOK, InProcessData
<1>6. UnionsInv'
  BY <1>1, <1>2, <1>3, <1>4 DEF Inv, UnionsInv, InProcessData
<1> QED BY <1>1, <1>2, <1>5, <1>6 DEF Inv

LEMMA ConditionAt ==
  ASSUME Inv, pos \in DOMAIN PN
  PROVE  /\ ConditionCall.raised = None <=> ConditionComplete(NodeData.condition, Known)
         /\ ConditionCall.raised \in Exceptions \cup {None}
         /\ ConditionCall.raised = None => ConditionCall.value \in ConditionType \cup {None}
<1>1. NodeData \in ProcessDataNode
  BY Nodes DEF NodeData, PN
<1>2. NodeData.condition \in ConditionNode \cup {None}
  BY <1>1 DEF ProcessDataNode
<1>3. VariablesMap(variables)
  BY DEF Inv, TypeOK
<1> QED BY <1>2, <1>3, ConditionDecodes DEF ConditionCall, Known

LEMMA DecodeConditionStep ==
  ASSUME Inv, DecodeCondition
  PROVE  Inv'
<1>1. /\ stage = "condition" /\ stage' = "union" /\ pos \in DOMAIN PN
      /\ ConditionCall.raised = None /\ condition' = ConditionCall.value
      /\ document' = document /\ variables' = variables /\ processData' = processData
      /\ pos' = pos /\ raised' = raised /\ dataIn' = dataIn /\ dataOut' = dataOut
  BY DEF DecodeCondition, AtProcessData, PN
<1>2. /\ VariablesInv' /\ ReadInv' /\ FailedInv' /\ DropsOnlyWithoutNode'
      /\ PN' = PN /\ Known' = Known
  BY <1>1, Stays DEF InProcessData
<1>3. NodeData.id # None /\ NodeData' = NodeData
  BY <1>1 DEF Inv, UnionsInv, NodeData
<1>4. ConditionComplete(NodeData.condition, Known) /\ condition' \in ConditionType \cup {None}
  BY <1>1, ConditionAt
<1>5. TypeOK'
  BY <1>1 DEF Inv, TypeOK, InProcessData
<1>6. UnionsInv'
  BY <1>1, <1>2, <1>3, <1>4 DEF Inv, UnionsInv, InProcessData
<1> QED BY <1>1, <1>2, <1>4, <1>5, <1>6 DEF Inv

\* What makeUnion does with the directions of the ProcessData at pos.
LEMMA UnionAt ==
  ASSUME Inv, stage = "union"
  PROVE  /\ UnionCall.raised = None <=> UnionComplete(NodeData, Known)
         /\ UnionCall.raised \in Exceptions \cup {None}
         /\ UnionCall.raised = None =>
              UnionCall.value = [in |-> dataIn, out |-> dataOut, condition |-> condition]
<1>1. /\ NodeData.id # None /\ Passes(NodeData.in) /\ Passes(NodeData.out)
      /\ ConditionComplete(NodeData.condition, Known)
      /\ dataIn = None <=> DirectionDropped(NodeData.in)
      /\ dataOut = None <=> DirectionDropped(NodeData.out)
  BY DEF Inv, UnionsInv
<1>2. UnionComplete(NodeData, Known) <=> ~(dataIn = None /\ dataOut = None)
  BY <1>1 DEF UnionComplete, Passes
<1>3. CASE dataIn = None /\ dataOut = None
  BY <1>2, <1>3, NoTextAssumption DEF UnionCall, makeUnion, Raise, Exceptions
<1>4. CASE ~(dataIn = None /\ dataOut = None)
  BY <1>2, <1>4 DEF UnionCall, makeUnion, Return
<1> QED BY <1>3, <1>4

LEMMA EmplaceUnionStep ==
  ASSUME Inv, EmplaceUnion
  PROVE  Inv'
<1>1. /\ stage = "union" /\ stage' = "id" /\ pos \in DOMAIN PN /\ UnionCall.raised = None
      /\ processData' = emplace(processData, NodeData.id, UnionCall.value)
      /\ dataIn' = None /\ dataOut' = None /\ condition' = None /\ pos' = pos + 1
      /\ document' = document /\ variables' = variables /\ raised' = raised
  BY DEF EmplaceUnion, AtProcessData, PN
<1> DEFINE node == PN[pos]
           union == [in |-> dataIn, out |-> dataOut, condition |-> condition]
<1>2. /\ VariablesInv' /\ ReadInv' /\ FailedInv' /\ PN' = PN /\ Known' = Known
  BY <1>1, Stays DEF InProcessData
<1>3. /\ pos \in 1..Len(PN) /\ Len(PN) \in Nat /\ DOMAIN PN = 1..Len(PN)
      /\ node \in ProcessDataNode /\ NodeData = node
  BY <1>1, Nodes DEF NodeData, PN
<1>4. UnionComplete(node, Known) /\ UnionCall.value = union
  BY <1>1, <1>3, UnionAt
<1>5. /\ \A i \in 1..pos - 1 : UnionComplete(PN[i], Known)
      /\ DOMAIN processData = {PN[i].id : i \in 1..pos - 1}
      /\ dataIn = None <=> DirectionDropped(node.in)
      /\ dataOut = None <=> DirectionDropped(node.out)
  BY <1>1, <1>3 DEF Inv, UnionsInv, InProcessData
<1>6. node.id \in PDIds
  BY <1>3, <1>4 DEF UnionComplete, ProcessDataNode
<1>7. union \in UnionType
  BY DEF Inv, TypeOK, UnionType, ConditionType
<1>8. node.id \notin DOMAIN processData => First(PN, node.id) = pos
  <2> SUFFICES ASSUME node.id \notin DOMAIN processData
               PROVE  \A j \in DOMAIN PN : PN[j].id = node.id => pos <= j
    BY <1>1, Nodes, FirstIsAt
  <2>1. \A j \in 1..pos - 1 : PN[j].id # node.id
    BY <1>5
  <2> QED BY <1>3, <2>1
<1>9. processData' = emplace(processData, node.id, union)
  BY <1>1, <1>3, <1>4
<1> HIDE DEF node, union
<1>10. /\ DOMAIN processData' = DOMAIN processData \cup {node.id}
       /\ \A id \in DOMAIN processData : processData'[id] = processData[id]
       /\ node.id \notin DOMAIN processData => processData'[node.id] = union
  BY <1>9 DEF emplace, firstStays
<1>11. UnionsInv'
  <2>1. pos' - 1 = pos /\ pos' <= Len(PN) + 1
    BY <1>1, <1>3
  <2>2. 1..pos = (1..pos - 1) \cup {pos}
    BY <1>3
  <2>3. \A i \in 1..pos : UnionComplete(PN[i], Known)
    BY <1>4, <1>5, <2>2 DEF node
  <2>4. DOMAIN processData' = {PN[i].id : i \in 1..pos}
    BY <1>5, <1>10, <2>2 DEF node
  <2> QED BY <1>1, <1>2, <2>1, <2>3, <2>4 DEF UnionsInv
<1>12. TypeOK'
  <2>1. DOMAIN processData \subseteq PDIds /\ processData \in [DOMAIN processData -> UnionType]
    BY DEF Inv, TypeOK
  <2>2. processData' \in [DOMAIN processData \cup {node.id} -> UnionType]
    BY <1>7, <1>9, <2>1, FirstStays
  <2>3. pos' \in Nat \ {0}
    BY <1>1, <1>3
  <2> QED BY <1>1, <1>6, <1>10, <2>1, <2>2, <2>3 DEF Inv, TypeOK, InProcessData
<1>13. DropsOnlyWithoutNode'
  <2> DEFINE Drops(id, one) == \A dir \in {"in", "out"} :
               (one[dir] = None) = DirectionDropped(PN[First(PN, id)][dir])
  <2>1. \A id \in DOMAIN processData : Drops(id, processData[id])
    BY DEF Inv, DropsOnlyWithoutNode, PN
  <2>2. ASSUME node.id \notin DOMAIN processData
        PROVE  Drops(node.id, union)
    BY <1>5, <1>8, <2>2 DEF node, union, DirectionDropped
  <2>3. \A id \in DOMAIN processData' : Drops(id, processData'[id])
    <3> HIDE DEF Drops
    <3> QED BY <1>10, <2>1, <2>2
  <2>4. document' = document
    BY <1>1
  <2> QED BY <2>3, <2>4 DEF DropsOnlyWithoutNode, PN
<1> QED BY <1>1, <1>2, <1>11, <1>12, <1>13 DEF Inv

LEMMA DoneStep ==
  ASSUME Inv, Done
  PROVE  Inv'
<1>1. /\ stage = "id" /\ stage' = "decoded" /\ pos \notin DOMAIN PN
      /\ document' = document /\ variables' = variables /\ processData' = processData
      /\ pos' = pos /\ raised' = raised
      /\ dataIn' = dataIn /\ dataOut' = dataOut /\ condition' = condition
  BY DEF Done, PN, locals
<1>2. /\ VariablesInv' /\ ReadInv' /\ FailedInv' /\ DropsOnlyWithoutNode'
      /\ PN' = PN /\ Known' = Known
  BY <1>1, Stays DEF InProcessData
<1>3. TypeOK'
  BY <1>1 DEF Inv, TypeOK, InProcessData
<1>4. pos = Len(PN) + 1
  <2>1. pos <= Len(PN) + 1 /\ pos \notin 1..Len(PN) /\ pos \in Nat \ {0} /\ Len(PN) \in Nat
    BY <1>1, Nodes DEF Inv, UnionsInv, InProcessData
  <2> QED BY <2>1
<1>5. UnionsInv'
  BY <1>1, <1>2, <1>4 DEF Inv, UnionsInv, InProcessData
<1> QED BY <1>1, <1>2, <1>3, <1>5 DEF Inv

\* An exception comes from an element that lacks something.
LEMMA RaisedByIncomplete ==
  ASSUME Inv, Raises # None
  PROVE  /\ Raises \in Exceptions /\ stage \notin {"decoded", "failed"}
         /\ \/ pos \in DOMAIN VN /\ ~VariableComplete(VN[pos])
            \/ pos \in DOMAIN PN /\ ~UnionComplete(PN[pos], Known)
<1>1. CASE stage = "variables" /\ pos \in DOMAIN VN
  <2>1. Raises = VariableCall.raised
    BY <1>1 DEF Raises, AtProcessData, VN
  <2>2. NodeVariable = VN[pos] /\ VN[pos] \in VariableNode
    BY <1>1, Nodes DEF NodeVariable, VN
  <2>3. /\ VariableCall.raised \in Exceptions \cup {None}
        /\ VariableCall.raised = None <=> VariableComplete(VN[pos])
    BY <2>2, VariableDecodes DEF VariableCall
  <2> QED BY <1>1, <2>1, <2>3
<1>2. CASE pos \in DOMAIN PN /\ stage = "id"
  <2>1. Raises = getXMLAttribute(NodeData.id).raised
    BY <1>2 DEF Raises, AtProcessData, PN
  <2>2. NodeData.id = None /\ Raises \in Exceptions
    BY <2>1, NoTextAssumption DEF getXMLAttribute, Raise, Return, Exceptions
  <2> QED BY <1>2, <2>2 DEF UnionComplete, NodeData, PN
<1>3. CASE pos \in DOMAIN PN /\ stage \in {"in", "out"}
  <2>1. NodeData.id # None
    BY <1>3 DEF Inv, UnionsInv
  <2>2. PICK dir \in {"in", "out"} :
          Raises = decodeProcessDataT(NodeData[dir], Data(dir), datatypes).raised
    BY <1>3 DEF Raises, AtProcessData, PN, InCall, OutCall
  <2>3. Raises \in Exceptions /\ ~Passes(NodeData[dir])
    BY <1>3, <2>1, <2>2, DirectionCall
  <2> QED BY <1>3, <2>3 DEF UnionComplete, Passes, NodeData, PN
<1>4. CASE pos \in DOMAIN PN /\ stage = "condition"
  <2>1. Raises = ConditionCall.raised
    BY <1>4 DEF Raises, AtProcessData, PN
  <2>2. Raises \in Exceptions /\ ~ConditionComplete(NodeData.condition, Known)
    BY <1>4, <2>1, ConditionAt
  <2> QED BY <1>4, <2>2 DEF UnionComplete, NodeData, PN
<1>5. CASE pos \in DOMAIN PN /\ stage = "union"
  <2>1. Raises = UnionCall.raised
    BY <1>5 DEF Raises, AtProcessData, PN
  <2>2. Raises \in Exceptions /\ ~UnionComplete(NodeData, Known)
    BY <1>5, <2>1, UnionAt
  <2> QED BY <1>5, <2>2 DEF NodeData, PN
<1>6. \/ stage = "variables" /\ pos \in DOMAIN VN
      \/ stage \in {"id", "in", "out", "condition", "union"} /\ pos \in DOMAIN PN
  BY DEF Raises, AtProcessData, VN, PN
<1> QED BY <1>1, <1>2, <1>3, <1>4, <1>5, <1>6

LEMMA ThrowStep ==
  ASSUME Inv, Throw
  PROVE  Inv'
<1>1. /\ Raises # None /\ raised' = Raises /\ stage' = "failed"
      /\ document' = document /\ variables' = variables /\ processData' = processData
      /\ pos' = pos /\ dataIn' = dataIn /\ dataOut' = dataOut /\ condition' = condition
  BY DEF Throw, locals
<1>2. VN' = VN /\ PN' = PN /\ Known' = Known
  BY <1>1 DEF VN, PN, Known
<1>3. TypeOK'
  BY <1>1, RaisedByIncomplete DEF Inv, TypeOK
<1>4. FailedInv'
  BY <1>1, <1>2, RaisedByIncomplete DEF FailedInv
<1>5. VariablesInv' /\ ReadInv' /\ UnionsInv'
  BY <1>1 DEF VariablesInv, ReadInv, UnionsInv, InProcessData
<1>6. DropsOnlyWithoutNode'
  BY <1>1 DEF Inv, DropsOnlyWithoutNode
<1> QED BY <1>1, <1>3, <1>4, <1>5, <1>6 DEF Inv

LEMMA NextInv ==
  ASSUME Inv, [Next]_vars
  PROVE  Inv'
<1>1. CASE DecodeVariable BY <1>1, DecodeVariableStep
<1>2. CASE InsertVariables BY <1>2, InsertVariablesStep
<1>3. CASE GetId BY <1>3, GetIdStep
<1>4. CASE DecodeIn BY <1>4, DecodeInStep
<1>5. CASE DecodeOut BY <1>5, DecodeOutStep
<1>6. CASE DecodeCondition BY <1>6, DecodeConditionStep
<1>7. CASE EmplaceUnion BY <1>7, EmplaceUnionStep
<1>8. CASE Done BY <1>8, DoneStep
<1>9. CASE Throw BY <1>9, ThrowStep
<1>10. CASE UNCHANGED vars
  <2>1. /\ document' = document /\ stage' = stage /\ pos' = pos /\ variables' = variables
        /\ dataIn' = dataIn /\ dataOut' = dataOut /\ condition' = condition
        /\ processData' = processData /\ raised' = raised
    BY <1>10 DEF vars, locals
  <2>2. TypeOK' /\ DropsOnlyWithoutNode' /\ IsWhatLoaderReads' = IsWhatLoaderReads
    BY <2>1 DEF Inv, TypeOK, DropsOnlyWithoutNode, IsWhatLoaderReads
  <2>3. VN' = VN /\ PN' = PN /\ Known' = Known /\ NodeData' = NodeData
    BY <2>1 DEF VN, PN, Known, NodeData
  <2>4. VariablesInv' /\ ReadInv' /\ FailedInv'
    BY <2>1, <2>2, <2>3 DEF Inv, VariablesInv, ReadInv, FailedInv
  <2>5. UnionsInv'
    BY <2>1, <2>3 DEF Inv, UnionsInv
  <2> QED BY <2>1, <2>2, <2>4, <2>5 DEF Inv
<1> QED BY <1>1, <1>2, <1>3, <1>4, <1>5, <1>6, <1>7, <1>8, <1>9, <1>10 DEF Next, Returned

LEMMA Invariant ==
  Spec => []Inv
<1>1. Inv /\ [Next]_vars => Inv'
  BY NextInv
<1> QED BY InitInv, <1>1, PTL DEF Spec
---------------------------------------------------------------------------
(* The theorems. *)

\* The variables, the locals and the process data of decodeVariables and
\* decodeProcessData have their types, and an exception is in flight exactly when one
\* has left the loops.
THEOREM TypeCorrect ==
  Spec => []TypeOK
<1>1. Inv => TypeOK
  BY DEF Inv
<1> QED BY Invariant, <1>1, PTL

\* The catch blocks of decodeVariables, decodeRecordItem and decodeProcessDataT let no
\* element pass that lacks what its decoder needs, and the loops refuse no complete one.
THEOREM CompleteAccepted ==
  Spec => []AcceptsCompleteElements
<1>1. Inv => AcceptsCompleteElements
  BY InvImplies
<1> QED BY Invariant, <1>1, PTL

\* decodeProcessData drops a direction exactly where its element or its datatype is
\* missing, and keeps the first ProcessData of an id.
THEOREM DropsJustified ==
  Spec => []DropsOnlyWithoutNode
<1>1. Inv => DropsOnlyWithoutNode
  BY InvImplies
<1> QED BY Invariant, <1>1, PTL

\* Over any elements decodeVariables and decode's insert give the variables that Loader
\* takes them to be, with the same standard objects shared.
THEOREM ReadsWhatLoaderReads ==
  Spec => []IsWhatLoaderReads
<1>1. Inv => IsWhatLoaderReads
  BY InvImplies
<1> QED BY Invariant, <1>1, PTL
=============================================================================
