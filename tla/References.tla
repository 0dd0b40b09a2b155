----------------------------- MODULE References -----------------------------
(***************************************************************************)
(* What a client does with a variable or a process data direction that is  *)
(* shown in a menu: its datatype is decoded from the document, a           *)
(* VariableRef or RecordRef is made for it, and then the client decodes    *)
(* any bytes it receives from the device through that reference.           *)
(*                                                                         *)
(* Every bit length passes through FixedBitLength, whose constructor takes *)
(* a uint8_t: a length is narrowed before its bounds are checked.          *)
(***************************************************************************)
EXTENDS ValueDecoding

CONSTANTS
  Declarations,  \* elements that declare a datatype
  Refs,          \* VariableRef and RecordItemRef elements
  Inputs(_)      \* byte vectors a client passes to decode, for a declaration

VARIABLES
  declaration,  \* the element of the variable
  stage,        \* "declared", "typed", "ready", "decoded", or "refused" by an exception
  type,         \* the datatype object
  ref,          \* the reference object
  bytes, value  \* the last call of decode, and what it returned

vars == <<declaration, stage, type, ref, bytes, value>>

\* The elements.  A reference is a button or has a display format.
ItemElement == [subindex : Nat, offset : Nat, type : SimpleType]
TypeElement ==
  SimpleType \cup [datatype : {"Array"}, type : SimpleType, count : Nat] \cup
  [datatype : {"Record"}, bits : Nat, items : Seq(ItemElement)]
DisplayFormats == {"None", "Dec", "Hex", "Bin"}
RefElement == [subindex : Nat \cup {None}, format : DisplayFormats, button : BOOLEAN]

ASSUME NoneAssumption == None \notin Nat
ASSUME DeclarationsAssumption ==
  Declarations \subseteq [processData : Nat \cup {None}, type : TypeElement]
ASSUME RefsAssumption == Refs \subseteq RefElement
ASSUME InputsAssumption == \A decl \in Declarations : Inputs(decl) \subseteq Seq(Byte)

---------------------------------------------------------------------------
(* The datatype object. *)

FixedBitLength(min, max, n) == IF uint8(n) \in min..max THEN uint8(n) ELSE None

\* A simple datatype, or None if its constructor throws.
Simple(decl) ==
  CASE decl.datatype \in {"UInteger", "Integer"} ->
         LET bits == FixedBitLength(2, 64, decl.bits)
         IN IF bits = None THEN None ELSE [decl EXCEPT !.bits = bits]
    [] decl.datatype \in {"String", "OctetString"} -> IF decl.length > 232 THEN None ELSE decl
    [] OTHER -> decl

RecordItem(item) ==
  [offset |-> FixedBitLength(0, 1855, item.offset), type |-> Simple(item.type)]

\* RecordItems are found by the subindex that a uint8_t keeps of the declared one, the
\* first of two.
Record(decl) ==
  LET position == [s \in {uint8(decl.items[i].subindex) : i \in DOMAIN decl.items} |->
                     CHOOSE i \in DOMAIN decl.items :
                       /\ uint8(decl.items[i].subindex) = s
                       /\ \A j \in 1..i - 1 : uint8(decl.items[j].subindex) # s]
      Item(i) == RecordItem(decl.items[i])
  IN IF \/ FixedBitLength(1, 1856, decl.bits) = None
        \/ \E i \in DOMAIN decl.items : Item(i).offset = None \/ Item(i).type = None
     THEN None
     ELSE [datatype |-> "Record", items |-> [s \in DOMAIN position |-> Item(position[s])]]

DataValue(decl) ==
  CASE decl.datatype = "Record" -> Record(decl)
    [] decl.datatype = "Array" ->
         IF Simple(decl.type) = None THEN None ELSE [decl EXCEPT !.type = Simple(decl.type)]
    [] OTHER -> Simple(decl)

Init ==
  /\ declaration \in Declarations
  /\ stage = "declared"
  /\ type = None /\ ref = None /\ bytes = None /\ value = None

\* A process data direction has a bit length of its own.
Accepted ==
  /\ DataValue(declaration.type) # None
  /\ declaration.processData # None => FixedBitLength(1, 256, declaration.processData) # None

decodeDataValue ==
  /\ stage = "declared" /\ Accepted
  /\ stage' = "typed" /\ type' = DataValue(declaration.type)
  /\ UNCHANGED <<declaration, ref, bytes, value>>

---------------------------------------------------------------------------
(* The reference object. *)

\* decodeButtonValue and VariableRef's constructor: a RecordRef can be a button only
\* for a variable that is not a record.
isButtonType(datatype) == datatype \in {"Boolean", "UInteger", "Integer"}

decodeRef ==
  /\ stage = "typed"
  /\ \E r \in Refs :
       /\ r.button => isButtonType(type.datatype)
       /\ ref' = [subindex |-> IF r.subindex = None THEN None ELSE uint8(r.subindex),
                   format |-> IF r.button THEN "None" ELSE r.format]
  /\ stage' = "ready"
  /\ UNCHANGED <<declaration, type, bytes, value>>

Throw ==
  /\ \/ stage = "declared" /\ ~Accepted
     \/ stage = "typed" /\ ~isButtonType(type.datatype) /\ \E r \in Refs : r.button
  /\ stage' = "refused"
  /\ UNCHANGED <<declaration, type, ref, bytes, value>>

\* Gradient and offset are those of the reference and left out; a float holds every
\* integer of up to 24 bits.
computeNumeric(result) ==
  CASE result.kind \in {"uint64", "int64", "float"} -> Value("scaled", result.v)
    [] result.kind \in {"bool", "string"} -> Throws("logic_error")
    [] OTHER -> result

isDecimal(format) == format = "Dec"

RefDecode(input) ==
  LET result == decodeValue(input, type, ref.subindex)
      isNumeric == \/ isNumericData(type.datatype)
                   \/ isNumericComplexData(type.datatype)
                   \/ isProcessData(type.datatype)
  IN IF isDecimal(ref.format) /\ isNumeric THEN computeNumeric(result) ELSE result

Decode ==
  /\ stage \in {"ready", "decoded"}
  /\ \E input \in Inputs(declaration) : bytes' = input /\ value' = RefDecode(input)
  /\ stage' = "decoded"
  /\ UNCHANGED <<declaration, type, ref>>

\* An exception left the decoders: there is nothing to ask.
Refused == stage = "refused" /\ UNCHANGED vars

Next == decodeDataValue \/ decodeRef \/ Decode \/ Throw \/ Refused

Spec == Init /\ [][Next]_vars

---------------------------------------------------------------------------
(* Properties. *)

\* Types; a reference exists for a datatype that was decoded, and only a reference
\* that exists is asked for a value.
Kinds == {"bool", "uint64", "int64", "float", "string", "scaled", "throws", "undefined"}
TypeOK ==
  /\ declaration \in Declarations
  /\ stage \in {"declared", "typed", "ready", "decoded", "refused"}
  /\ stage \in {"ready", "decoded"} =>
       /\ type.datatype = declaration.type.datatype
       /\ ref.format \in DisplayFormats
       /\ ref.subindex \in {None} \cup Byte
  /\ IF stage = "decoded" THEN bytes \in Seq(Byte) /\ value.kind \in Kinds ELSE value = None

\* What the declaration says of the element a RecordRef reads: where it is, counted
\* from the least significant bit of the last byte, and its datatype.  An item is not
\* known if another one has the same eight bits of a subindex.
Declared(decl, subindex) ==
  IF decl.datatype = "Array"
  THEN [known |-> subindex \in 1..decl.count, type |-> decl.type,
        offset |-> (subindex - 1) * getBitLength(decl.type)]
  ELSE LET items == {i \in DOMAIN decl.items : uint8(decl.items[i].subindex) = subindex}
           item == decl.items[CHOOSE i \in items : \A j \in items : i <= j]
       IN IF items = {} \/ \E i \in items : decl.items[i].subindex # subindex
          THEN [known |-> FALSE, type |-> None, offset |-> 0]
          ELSE [known |-> TRUE, type |-> item.type, offset |-> item.offset]

ReadsElement == stage = "decoded" /\ type.datatype \in ComplexDatatypes /\ ref.subindex # None
Element == Declared(declaration.type, ref.subindex)
ElementFits == Element.known /\ Has(toBitVector(bytes), Element.offset, getBitLength(Element.type))

\* The n bits at an offset of the number the bytes are, as they were sent, the lowest first.
Field(input, offset, n) ==
  LET Bit(k) == (input[Len(input) - k \div BYTE_SIZE] \div 2^(k % BYTE_SIZE)) % 2
  IN [i \in 1..n |-> Bit(offset + i - 1)]

\* The value is negative only if it fills whole bytes: narrower fields are not extended.
IsField ==
  LET n == getBitLength(Element.type)
      field == Field(bytes, Element.offset, n)
      isNegative == value.kind = "int64" /\ n % BYTE_SIZE = 0 /\ field[n] = 1
  IN value.v = assemble(field, 2, IF isNegative THEN -1 ELSE 0)

ReadsNumber == ReadsElement /\ ElementFits /\ value.kind \in {"bool", "uint64", "int64"}

\* A number in an array or a record is the one in its bits of the whole value, if its
\* length fits eight bits, and in a record its offset.
ReadsTheField ==
  ReadsNumber /\ getBitLength(Element.type) \in Byte
    /\ (type.datatype = "Record" => Element.offset \in Byte) => IsField

\* Nothing is read past the end of bytes that hold the element, although neither the
\* views nor decode compare an offset with the size of the vector.
ReadsStayInside ==
  stage = "decoded" /\ value.kind = "undefined" => ReadsElement /\ ~ElementFits

\* An integer variable is read from the first byte up and an integer in a record from
\* the last byte up: they agree on opposite byte orders.
ScalarsAreReversedItems ==
  stage = "decoded" /\ type.datatype \in {"UInteger", "Integer"} /\ value.kind \in {"uint64", "int64"} =>
    LET item == [offset |-> 0, type |-> [type EXCEPT !.bits = BYTE_SIZE * Len(bytes)]]
    IN value = decodeValue(Reverse(bytes), [datatype |-> "Record", items |-> [s \in {1} |-> item]], 1)

\* Two values a device can send for a variable are two values to a client, if they are
\* not scaled; only BooleanT and TimeT do not look at every bit.
LosesNothing ==
  stage = "decoded" /\ type.datatype \in SimpleDatatypes \ {"Boolean", "Time"}
    /\ value.kind \notin {"throws", "scaled"} =>
      \A other \in Inputs(declaration) :
        Len(other) = Len(bytes) /\ RefDecode(other) = value => other = bytes

\* The bounds that FixedBitLength states for the lengths of a declaration.
InBounds ==
  LET decl == declaration.type
      Fits(t) == /\ t.datatype \in {"UInteger", "Integer"} => t.bits \in 2..64
                 /\ t.datatype \in {"String", "OctetString"} => t.length <= 232
  IN /\ declaration.processData = None \/ declaration.processData \in 1..256
     /\ CASE decl.datatype = "Record" ->
               /\ decl.bits \in 1..1856
               /\ \A i \in DOMAIN decl.items :
                    decl.items[i].offset \in 0..1855 /\ Fits(decl.items[i].type)
          [] decl.datatype = "Array" -> Fits(decl.type)
          [] OTHER -> Fits(decl)

\* A datatype is refused, with "Bit length can not be smaller than" or the like, only if
\* a length of its declaration is beyond its bounds; one that is accepted is within them;
\* and its items are read at the offsets that "FixedBitLength<0, 1855>(offset)" allows.
LengthsAreAsDeclared ==
  /\ stage = "refused" /\ type = None => ~InBounds
  /\ stage = "typed" => InBounds
  /\ ReadsNumber => IsField
=============================================================================
