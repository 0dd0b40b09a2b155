---------------------------- MODULE VariableRefs ----------------------------
(***************************************************************************)
(* A VariableRef or RecordItemRef element of a menu, from the document to  *)
(* the client: the standard units are decoded, then the element, with the  *)
(* unit, format, gradient, offset, access right or button that it names,   *)
(* and a client such as Example/main.cpp asks the reference for all that.  *)
(* Menus has of all this only whether the element is decoded.              *)
(*                                                                         *)
(* Gradients, offsets and device values are whole numbers here, gradients   *)
(* and offsets as the document writes them; what a float makes of each is  *)
(* modelled by the 24 bits it keeps.                                       *)
(***************************************************************************)
EXTENDS ValueDecoding

CONSTANTS
  Documents,  \* pairs of a UnitCollection and a reference element
  variables,  \* the variables of the device: their datatype and access right
  Inputs      \* byte vectors a client passes to decode

VARIABLES
  document,  \* the pair at hand
  stage,     \* "units", "ready", or "refused" by an exception
  pos,       \* the Unit at hand
  units,     \* the UnitsMap decoded so far
  ref,       \* the reference object
  raised,    \* the exception that refused it
  answer     \* the last call of a client, and what it returned

vars == <<document, stage, pos, units, ref, raised, answer>>

\* The elements; "broken" is a text id that the document does not define.
UnitNode == [code : Nat \cup {None}, abbr : STRING \cup {None}, text : {"text", "broken", None}]
ButtonNode == [description : {"text", "broken", None}, message : {"text", "broken", None}]
RefNode == [element : {"VariableRef", "RecordItemRef"}, variableId : STRING \cup {None},
            subindex : Nat \cup {None}, button : ButtonNode \cup {None},
            gradient : Int \cup {None}, offset : Int \cup {None}, unitCode : Nat \cup {None},
            displayFormat : STRING \cup {None}, access : STRING \cup {None}]

Decimal == {"Dec", "Dec.0", "Dec.1", "Dec.2", "Dec.3", "Dec.4",
            "Dec.5", "Dec.6", "Dec.7", "Dec.8", "Dec.9"}
Formats == Decimal \cup {"Bin", "Hex"}

\* What is missing is no text, alternative, exception or number.
ASSUME NoneAssumption ==
  /\ None \notin Formats \cup {"bool", "uint64", "int64", "out_of_range", "other"}
  /\ None \notin Int
ASSUME DocumentsAssumption == Documents \subseteq [units : Seq(UnitNode), ref : RefNode]
\* A variable of process data has no datatype object.
ASSUME VariablesAssumption ==
  /\ None \notin DOMAIN variables
  /\ \A id \in DOMAIN variables :
       LET type == variables[id].type
       IN \/ type = None
          \/ type \in SimpleType
          \/ type.datatype = "Array" /\ type.type \in SimpleType
          \/ /\ type.datatype = "Record"
             /\ \A s \in DOMAIN type.items :
                  type.items[s].offset \in Nat /\ type.items[s].type \in SimpleType
ASSUME InputsAssumption == Inputs \subseteq Seq(Byte)

node == document.ref
AccessRights == {"ro", "wo", "rw"}
Or(attribute, default) == IF attribute = None THEN default ELSE attribute

Init ==
  /\ document \in Documents
  /\ stage = "units" /\ pos = 1 /\ units = [code \in {} |-> None]
  /\ ref = None /\ raised = None /\ answer = None

---------------------------------------------------------------------------
(* decodeUnits: the key and the unit keep 16 bits of the code; of two units *)
(* with one code the first is kept.                                         *)

uint32(n) == n  \* fault: all bits of a code
uint16(n) == n % 65536

secondStays(map, more) ==  \* fault: the last one is kept
  [x \in DOMAIN map \cup DOMAIN more |-> IF x \in DOMAIN more THEN more[x] ELSE map[x]]
firstStays(map, more) ==
  [x \in DOMAIN map \cup DOMAIN more |-> IF x \in DOMAIN map THEN map[x] ELSE more[x]]

Unit == document.units[pos]
UnitComplete(unit) == unit.code # None /\ unit.abbr # None /\ unit.text = "text"

DecodeUnit ==
  /\ stage = "units" /\ pos \in DOMAIN document.units /\ UnitComplete(Unit)
  /\ units' = firstStays(units, [code \in {uint16(Unit.code)} |-> [code |-> code, abbr |-> Unit.abbr]])
  /\ pos' = pos + 1
  /\ UNCHANGED <<document, stage, ref, raised, answer>>

findUnit(code) == IF code \in DOMAIN units THEN units[code] ELSE None
decodeUnitPtr == IF node.unitCode = None THEN None ELSE findUnit(uint16(node.unitCode))

---------------------------------------------------------------------------
(* Floats. *)

\* A float keeps 24 bits, the nearest; of two that are equally near the even one.
PRECISE == 16777216  \* 2^24
lowBits(n) == n % PRECISE  \* fault: the lowest 24 bits
ulpOf[m \in Nat] == IF m < PRECISE THEN 1 ELSE 2 * ulpOf[m \div 2]
rounded(m) ==
  LET ulp == ulpOf[m]
      q == m \div ulp
      rest == 2 * (m % ulp)
  IN (IF rest > ulp \/ (rest = ulp /\ q % 2 = 1) THEN q + 1 ELSE q) * ulp
toFloat(n) == IF n < 0 THEN -rounded(-n) ELSE rounded(n)

---------------------------------------------------------------------------
(* decodeVariableRef and decodeRecordRef. *)

\* A gradient or an offset is a float from the start.
decodeFloatAttribute(attribute) == IF attribute = None THEN None ELSE toFloat(attribute)

\* DisplayFormat, by the text of the attribute.
DisplayFormat ==
  [format \in Formats \cup {None} |->
     CASE format = None -> 30 [] format = "Bin" -> 20 [] format = "Hex" -> 21 [] format = "Dec" -> 10
       [] format = "Dec.0" -> 0 [] format = "Dec.1" -> 1 [] format = "Dec.2" -> 2 [] format = "Dec.3" -> 3
       [] format = "Dec.4" -> 4 [] format = "Dec.5" -> 5 [] format = "Dec.6" -> 6 [] format = "Dec.7" -> 7
       [] format = "Dec.8" -> 8 [] format = "Dec.9" -> 9]

\* The alternative of ButtonValue that decodeButtonValue makes.
signedOnly(datatype) ==  \* fault: every number is an int64_t
  CASE datatype = "Boolean" -> "bool" [] datatype \in {"Integer", "UInteger"} -> "int64" [] OTHER -> None
decodeButtonValue(datatype) ==
  CASE datatype = "Boolean" -> "bool" [] datatype = "Integer" -> "int64"
    [] datatype = "UInteger" -> "uint64" [] OTHER -> None

buttonValueToDatatype == [bool |-> "Boolean", uint64 |-> "UInteger", int64 |-> "Integer"]

IsRecordRef == node.element = "RecordItemRef"
Variable == variables[node.variableId]
datatypeOf(variable) == variable.type.datatype
IsUnbound(variable) == variable.type = None

\* The exceptions of a Button, in decodeButtonValue, its texts and the constructor.
ButtonFails ==
  \/ IsUnbound(Variable)
  \/ decodeButtonValue(datatypeOf(Variable)) = None
  \/ "broken" \in {node.button.description, node.button.message}
  \/ buttonValueToDatatype[decodeButtonValue(datatypeOf(Variable))] # datatypeOf(Variable)

Raises ==
  CASE stage = "units" /\ pos \in DOMAIN document.units ->
         IF UnitComplete(Unit) THEN None ELSE "other"
    [] stage = "units" /\ pos \notin DOMAIN document.units ->
         CASE node.variableId = None -> "other"
           [] node.variableId \notin DOMAIN variables \cup {None} -> "out_of_range"
           [] OTHER ->
                IF \/ IsRecordRef /\ node.subindex = None
                   \/ node.button # None /\ ButtonFails
                THEN "other"
                ELSE IF node.button = None /\ node.displayFormat \notin DOMAIN DisplayFormat
                THEN "out_of_range" ELSE None
    [] OTHER -> None

\* What access_ may be if no constructor sets it: any number, an enumerator or not.
Indeterminate == AccessRights \cup {"no enumerator"}

Reference(access) ==
  LET subindex == IF IsRecordRef THEN uint8(node.subindex) ELSE None
  IN IF node.button # None
     THEN [subindex |-> subindex, button |-> decodeButtonValue(datatypeOf(Variable)), format |-> None,
           gradient |-> 1, offset |-> 0, unit |-> None, access |-> access]
     ELSE [subindex |-> subindex, button |-> None, format |-> node.displayFormat,
           gradient |-> Or(decodeFloatAttribute(node.gradient), 1),
           offset |-> Or(decodeFloatAttribute(node.offset), 0),
           unit |-> decodeUnitPtr,
           access |-> IF node.access \in AccessRights THEN node.access ELSE access]

DecodeRef ==
  /\ stage = "units" /\ pos \notin DOMAIN document.units /\ Raises = None
  /\ \E access \in Indeterminate : ref' = Reference(access)
  /\ stage' = "ready"
  /\ UNCHANGED <<document, pos, units, raised, answer>>

Throw ==
  /\ Raises # None
  /\ raised' = Raises /\ stage' = "refused"
  /\ UNCHANGED <<document, pos, units, ref, answer>>

---------------------------------------------------------------------------
(* The calls of a client. *)

\* The offset comes after the gradient.
offsetFirst(v, gradient, offset) == toFloat(toFloat(toFloat(v) + offset) * gradient)  \* fault
scaled(v, gradient, offset) == toFloat(toFloat(toFloat(v) * gradient) + offset)

computeNumeric(result) ==
  CASE result.kind \in {"uint64", "int64"} -> Value("scaled", scaled(result.v, ref.gradient, ref.offset))
    [] result.kind = "float" -> Value("scaled", <<result.v, ref.gradient, ref.offset>>)
    [] result.kind \in {"bool", "string"} -> Throws("logic_error")
    [] OTHER -> result

belowDec(format) == DisplayFormat[format] < DisplayFormat["Dec"]  \* fault: without Dec itself
isDecimal(format) == DisplayFormat[format] <= DisplayFormat["Dec"]
isBinary(format) == DisplayFormat[format] = DisplayFormat["Bin"]

IsScaled ==
  \/ isNumericData(datatypeOf(Variable)) \/ isNumericComplexData(datatypeOf(Variable))
  \/ isProcessData(datatypeOf(Variable))

RawValue(input) == decodeValue(input, Variable.type, ref.subindex)
RefDecode(input) ==
  IF IsUnbound(Variable) THEN Throws("runtime_error")
  ELSE IF isDecimal(ref.format) /\ IsScaled THEN computeNumeric(RawValue(input)) ELSE RawValue(input)

Call(name, result) ==
  /\ stage = "ready"
  /\ answer' = [call |-> name, result |-> result, input |-> None]
  /\ UNCHANGED <<document, stage, pos, units, ref, raised>>

Decode ==
  /\ stage = "ready"
  /\ \E input \in Inputs : answer' = [call |-> "decode", result |-> RefDecode(input), input |-> input]
  /\ UNCHANGED <<document, stage, pos, units, ref, raised>>

AccessRestriction == Call("accessRestriction", ref.access)
ButtonValue == Call("buttonValue", IF ref.button = None THEN "runtime_error" ELSE ref.button)

\* printRefRepresentation, for a variable whose datatype printVariable could print.
numbersOnly(datatype) == isNumericData(datatype)  \* fault: records and arrays are left out
hasFormula(datatype) == isNumericData(datatype) \/ isNumericComplexData(datatype)

Representation ==
  CASE IsUnbound(Variable) -> "runtime_error"
    [] ~IsUnbound(Variable) /\ ref.button # None -> "button"
    [] ~IsUnbound(Variable) /\ ref.button = None /\ isDecimal(ref.format) ->
         IF hasFormula(datatypeOf(Variable)) THEN "formula" ELSE "nothing"
    [] OTHER -> IF isBinary(ref.format) THEN "binary" ELSE "hexadecimal"

PrintRef == Call("print", Representation)

\* An exception left the decoders: there is no reference to ask.
Refused == stage = "refused" /\ UNCHANGED vars

Next ==
  \/ DecodeUnit \/ DecodeRef \/ Throw
  \/ Decode \/ AccessRestriction \/ ButtonValue \/ PrintRef
  \/ Refused

Spec == Init /\ [][Next]_vars

---------------------------------------------------------------------------
(* Properties. *)

\* Types; a reference that exists is asked, a refused one has an exception.
TypeOK ==
  /\ stage \in {"units", "ready", "refused"} /\ pos \in Nat \ {0}
  /\ \A code \in DOMAIN units : code \in Nat /\ code <= 65535 /\ units[code].code = code
  /\ stage = "ready" =>
       /\ ref.subindex \in Byte \cup {None} /\ ref.button \in {None, "bool", "uint64", "int64"}
       /\ ref.format \in DOMAIN DisplayFormat /\ ref.access \in Indeterminate
       /\ ref.gradient \in Int /\ ref.offset \in Int
  /\ raised \in IF stage = "refused" THEN {"out_of_range", "other"} ELSE {None}
  /\ answer # None => stage = "ready"

\* A reference and its units are refused only for something they lack: a Boolean,
\* UInteger or Integer variable can always be a button, whatever alternative its value
\* is decoded as, and nothing else ever is.
CompleteRef ==
  /\ \A i \in DOMAIN document.units : UnitComplete(document.units[i])
  /\ node.variableId \in DOMAIN variables
  /\ IsRecordRef => node.subindex # None
  /\ IF node.button = None
     THEN node.displayFormat \in Formats \cup {None}
     ELSE /\ ~IsUnbound(Variable) /\ datatypeOf(Variable) \in {"Boolean", "UInteger", "Integer"}
          /\ node.button.description # "broken" /\ node.button.message # "broken"
AcceptsCompleteRefs == stage # "units" => (stage = "ready" <=> CompleteRef)

\* The unit of a reference is the first one in the collection with the code of its
\* element, as far as 16 bits tell codes apart, and missing only if there is none.
SameCode == {i \in DOMAIN document.units : (document.units[i].code - node.unitCode) % 65536 = 0}
RefHasItsUnit ==
  stage = "ready" /\ node.button = None /\ node.unitCode # None =>
    IF SameCode = {} THEN ref.unit = None
    ELSE ref.unit.abbr = document.units[CHOOSE i \in SameCode : \A j \in SameCode : i <= j].abbr

AskedNumber ==
  /\ stage = "ready" /\ answer # None /\ answer.call = "decode"
  /\ answer.result.kind = "scaled" /\ RawValue(answer.input).kind \in {"uint64", "int64"}
Raw == RawValue(answer.input).v
Gradient == Or(node.gradient, 1)
Offset == Or(node.offset, 0)

\* A scaled number is that of the formula the document states, if the value, both
\* numbers of the element and both steps of the formula stay within 24 bits; without
\* gradient and offset no such value is changed.
Within(n) == n \in -PRECISE..PRECISE
ScalesExactly ==
  /\ AskedNumber /\ Within(Gradient) /\ Within(Offset)
  /\ Within(Raw) /\ Within(Raw * Gradient) /\ Within(Raw * Gradient + Offset)
  => answer.result.v = Raw * Gradient + Offset

\* Beyond 24 bits values, gradients and offsets are rounded, but of two values the larger
\* one stays no less than the other, or no more if the gradient is negative.
KeepsOrder ==
  AskedNumber => \A other \in Inputs :
    RawValue(other).kind \in {"uint64", "int64"} /\ Raw <= RawValue(other).v =>
      IF Gradient >= 0 THEN answer.result.v <= RefDecode(other).v
                       ELSE answer.result.v >= RefDecode(other).v

\* decode returns a scaled number exactly if the element asks for a decimal one, and
\* the variable is a number or made of any items.
ScalesDecimalsOnly ==
  stage = "ready" /\ answer # None /\ answer.call = "decode" /\ ~IsUnbound(Variable) =>
    LET declared == /\ node.button = None /\ node.displayFormat \notin {None, "Bin", "Hex"}
                    /\ datatypeOf(Variable) \in {"UInteger", "Integer", "Float32", "Array", "Record"}
        raw == RawValue(answer.input)
    IN answer.result =
         IF ~declared \/ raw.kind \in {"throws", "undefined"} THEN raw
         ELSE IF raw.kind \in {"bool", "string"} THEN Throws("logic_error")
         ELSE Value("scaled", answer.result.v)

\* The example program prints the formula of a reference exactly if decode computes by
\* it: the two test the datatype and the format in different places.
PrintsTheFormula ==
  stage = "ready" /\ answer # None /\ answer.call = "print" /\ ref.button = None =>
    \A input \in Inputs :
      LET raw == IF IsUnbound(Variable) THEN Undefined ELSE RawValue(input)
      IN raw.kind \in {"uint64", "int64", "float"} =>
           (answer.result = "formula" <=> RefDecode(input).kind = "scaled")

\* VariableRef.hpp:109: "defaults to be same as variable".
AccessDefaultsToVariable ==
  stage = "ready" /\ answer # None /\ answer.call = "accessRestriction" =>
    answer.result = IF node.button = None /\ node.access \in AccessRights THEN node.access ELSE Variable.access
=============================================================================
