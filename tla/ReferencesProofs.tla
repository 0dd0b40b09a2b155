-------------------------- MODULE ReferencesProofs --------------------------
(***************************************************************************)
(* Proofs about references, for all declarations and all bytes a client    *)
(* passes: that no decoding of an element that fits the bytes reads past   *)
(* their end, although nothing in the views compares the two.              *)
(***************************************************************************)
EXTENDS References, ValueDecodingProofs

Inv ==
  /\ TypeOK
  /\ declaration \in Declarations
  /\ stage \in {"typed", "ready", "decoded"} =>
       Accepted /\ type = DataValue(declaration.type)
  /\ stage = "decoded" => value = RefDecode(bytes)

\* A datatype of the declarations has an element.
LEMMA DeclarationType ==
  ASSUME NEW decl \in Declarations
  PROVE  decl.type \in TypeElement
BY DeclarationsAssumption

LEMMA DataValueDatatype ==
  ASSUME NEW decl \in TypeElement, DataValue(decl) # None
  PROVE  DataValue(decl).datatype = decl.datatype
<1>1. CASE decl.datatype = "Record"
  BY <1>1 DEF DataValue, Record
<1>2. CASE decl.datatype = "Array"
  BY <1>2 DEF DataValue, TypeElement, SimpleType
<1>3. CASE decl.datatype \notin {"Record", "Array"}
  BY <1>3 DEF DataValue, Simple, TypeElement, SimpleType
<1> QED BY <1>1, <1>2, <1>3

---------------------------------------------------------------------------
(* What decoding returns. *)

\* A decoder that is given its bytes returns a value or throws.
LEMMA DecodeKinds ==
  ASSUME NEW b, NEW t
  PROVE  decode(b, t).kind \in Kinds \ {"undefined", "scaled"}
BY DEF decode, Value, Throws, Kinds

LEMMA DecodeValueKinds ==
  ASSUME NEW b, NEW t, NEW s
  PROVE  decodeValue(b, t, s).kind \in Kinds \ {"scaled"}
<1>1. decodeArray(reversed(b), t, s).kind \in Kinds \ {"scaled"}
  BY DecodeKinds DEF decodeArray, Value, Undefined, Kinds
<1>2. decodeItem(reversed(b), t, s).kind \in Kinds \ {"scaled"}
  BY DecodeKinds DEF decodeItem, Throws, Value, Undefined, Kinds
<1> QED BY <1>1, <1>2, DecodeKinds DEF decodeValue, Throws, Value, Kinds

LEMMA RefDecodeKinds ==
  ASSUME NEW input
  PROVE  /\ RefDecode(input).kind \in Kinds
         /\ RefDecode(input).kind = "undefined" =>
              decodeValue(input, type, ref.subindex).kind = "undefined"
<1> DEFINE result == decodeValue(input, type, ref.subindex)
<1>1. result.kind \in Kinds \ {"scaled"} BY DecodeValueKinds
<1>2. /\ computeNumeric(result).kind \in Kinds
      /\ computeNumeric(result).kind = "undefined" => result.kind = "undefined"
  BY <1>1 DEF computeNumeric, Value, Throws, Kinds
<1> HIDE DEF result
<1> QED BY <1>1, <1>2 DEF RefDecode, result

---------------------------------------------------------------------------
(* The invariant. *)

LEMMA Initially == Init => Inv
BY DEF Init, Inv, TypeOK

LEMMA DecodeDataValueStep == ASSUME Inv, decodeDataValue PROVE Inv'
<1>1. type'.datatype = declaration.type.datatype
  BY DeclarationType, DataValueDatatype DEF decodeDataValue, Accepted, Inv
<1> QED BY <1>1 DEF decodeDataValue, Inv, TypeOK, Accepted

LEMMA DecodeRefStep == ASSUME Inv, decodeRef PROVE Inv'
<1>1. PICK r \in Refs :
        ref' = [subindex |-> IF r.subindex = None THEN None ELSE uint8(r.subindex),
                format |-> IF r.button THEN "None" ELSE r.format]
  BY DEF decodeRef
<1>2. r.subindex \in Nat \cup {None} /\ r.format \in DisplayFormats
  BY RefsAssumption DEF RefElement
<1>3. ref'.subindex \in {None} \cup Byte
  BY <1>1, <1>2 DEF uint8, Byte
<1>4. ref'.format \in DisplayFormats BY <1>1, <1>2 DEF DisplayFormats
<1>5. type.datatype = declaration.type.datatype
  BY DeclarationType, DataValueDatatype DEF decodeRef, Accepted, Inv
<1> QED BY <1>3, <1>4, <1>5 DEF decodeRef, Inv, TypeOK, Accepted

LEMMA DecodeStep == ASSUME Inv, Decode PROVE Inv'
<1>1. PICK input \in Inputs(declaration) : bytes' = input /\ value' = RefDecode(input)
  BY DEF Decode
<1>2. bytes' \in Seq(Byte) BY <1>1, InputsAssumption DEF Inv
<1>3. UNCHANGED <<declaration, type, ref>> BY DEF Decode
<1>4. value' = RefDecode(bytes)'
  BY <1>1, <1>3 DEF RefDecode
<1>5. value'.kind \in Kinds BY <1>1, RefDecodeKinds
<1> QED BY <1>2, <1>3, <1>4, <1>5 DEF Decode, Inv, TypeOK, Accepted

LEMMA Inductive == Spec => []Inv
<1>1. Inv /\ [Next]_vars => Inv'
  <2> SUFFICES ASSUME Inv, [Next]_vars PROVE Inv'
    OBVIOUS
  <2>1. CASE Throw BY <2>1 DEF Throw, Inv, TypeOK, Accepted
  <2>2. CASE UNCHANGED vars BY <2>2 DEF vars, Inv, TypeOK, Accepted, RefDecode
  <2> QED BY <2>1, <2>2, DecodeDataValueStep, DecodeRefStep, DecodeStep DEF Next, Refused
<1> QED BY <1>1, Initially, PTL DEF Spec

\* The types of a reference's life, and that only a reference that exists is asked.
THEOREM TypeCorrect == Spec => []TypeOK
<1>1. Inv => TypeOK BY DEF Inv
<1> QED BY <1>1, Inductive, PTL

---------------------------------------------------------------------------
(* Where decoding reads. *)

LEMMA Narrowed ==
  ASSUME NEW n \in Nat
  PROVE  /\ uint8(n) \in Nat /\ uint8(n) <= n /\ uint8(n) <= 255
         /\ n <= 255 => uint8(n) = n
BY DEF uint8

\* The bounds of an offset admit everything that a uint8_t keeps.
LEMMA NarrowedOffset ==
  ASSUME NEW n \in Nat, NEW max \in Nat, max >= 255
  PROVE  FixedBitLength(0, max, n) = uint8(n)
BY Narrowed DEF FixedBitLength

\* An object has no more bits than its element declares, and as many if it takes whole
\* bytes.
LEMMA SimpleLength ==
  ASSUME NEW decl \in SimpleType, Simple(decl) # None
  PROVE  /\ Simple(decl).datatype = decl.datatype /\ decl.datatype \in SimpleDatatypes
         /\ getBitLength(Simple(decl)) \in Nat /\ getBitLength(decl) \in Nat
         /\ getBitLength(Simple(decl)) <= getBitLength(decl)
         /\ decl.datatype \notin {"Boolean", "UInteger", "Integer"} =>
              /\ Simple(decl) = decl /\ length(decl) \in Nat
              /\ getBitLength(decl) = length(decl) * BYTE_SIZE
         /\ decl.datatype = "Boolean" => Simple(decl) = decl /\ getBitLength(decl) = 1
<1>1. CASE decl.datatype \in {"UInteger", "Integer"}
  <2>1. decl.bits \in Nat BY <1>1 DEF SimpleType
  <2>2. Simple(decl) = [decl EXCEPT !.bits = uint8(decl.bits)]
    BY <1>1 DEF Simple, FixedBitLength
  <2>3. uint8(decl.bits) \in Nat /\ uint8(decl.bits) <= decl.bits
    BY <2>1 DEF uint8
  <2>4. /\ Simple(decl).datatype = decl.datatype
        /\ getBitLength(Simple(decl)) = uint8(decl.bits)
        /\ getBitLength(decl) = decl.bits
    BY <1>1, <2>2 DEF getBitLength, SimpleType
  <2> QED BY <1>1, <2>1, <2>3, <2>4 DEF SimpleDatatypes
<1>2. CASE decl.datatype \in {"String", "OctetString"}
  <2>1. decl.length \in Nat /\ Simple(decl) = decl
    BY <1>2 DEF SimpleType, Simple
  <2>2. length(decl) = decl.length BY <1>2 DEF length
  <2>3. getBitLength(decl) = length(decl) * BYTE_SIZE BY <1>2 DEF getBitLength
  <2> QED BY <1>2, <2>1, <2>2, <2>3 DEF BYTE_SIZE, SimpleDatatypes
<1>3. CASE decl.datatype \in {"Float32", "Time", "TimeSpan"}
  <2>1. Simple(decl) = decl BY <1>3 DEF Simple
  <2>2. length(decl) \in Nat BY <1>3 DEF length
  <2>3. getBitLength(decl) = length(decl) * BYTE_SIZE BY <1>3 DEF getBitLength
  <2> QED BY <1>3, <2>1, <2>2, <2>3 DEF BYTE_SIZE, SimpleDatatypes
<1>4. CASE decl.datatype = "Boolean"
  BY <1>4 DEF Simple, getBitLength, SimpleDatatypes
<1> QED BY <1>1, <1>2, <1>3, <1>4 DEF SimpleType

\* An element of an array is undefined only if it ends beyond the bytes.
LEMMA ArrayReads ==
  ASSUME NEW b \in Seq(Byte), NEW array, NEW s \in Byte,
         NEW decl \in SimpleType, Simple(decl) # None, array.type = Simple(decl),
         decodeArray(b, array, s).kind = "undefined"
  PROVE  fromZero(s) * getBitLength(array.type) + getBitLength(array.type) > BYTE_SIZE * Len(b)
<1> DEFINE index == fromZero(s)
           t == array.type
           n == getBitLength(t)
<1>1. index \in Nat BY DEF fromZero, uint8, Byte
<1>2. n \in Nat BY SimpleLength
<1>3. \A v : decode(v, t).kind # "undefined" BY DecodeKinds
<1>4. CASE t.datatype = "Boolean"
  <2>1. ~Has(toBitVector(b), index, 1) BY <1>4 DEF decodeArray, Value
  <2>2. n = 1 BY <1>4, SimpleLength
  <2> QED BY <1>1, <2>1, <2>2, ReversedLength DEF Has
<1>5. CASE t.datatype \in {"UInteger", "Integer"}
  <2>1. ~Has(toBitVector(b), index * n, n) BY <1>3, <1>5 DEF decodeArray
  <2> HIDE DEF index, n
  <2>2. index * n \in Nat BY <1>1, <1>2
  <2>3. Len(toBitVector(b)) = BYTE_SIZE * Len(b) BY ReversedLength
  <2> QED BY <1>2, <2>1, <2>2, <2>3 DEF Has, BYTE_SIZE, index, n, t
<1>6. CASE t.datatype \notin {"Boolean", "UInteger", "Integer"}
  <2> DEFINE m == length(t)
  <2>1. ~Has(b, index * m, m) BY <1>3, <1>6 DEF decodeArray
  <2>2. m \in Nat /\ n = m * BYTE_SIZE BY <1>6, SimpleLength
  <2> HIDE DEF index, m, n
  <2>3. index * m \in Nat /\ index * n = (index * m) * 8 BY <1>1, <2>2 DEF BYTE_SIZE
  <2>4. index * m + m > Len(b) BY <2>1, <2>2, <2>3 DEF Has
  <2>5. (index * m) * 8 + m * 8 > 8 * Len(b) BY <2>2, <2>3, <2>4
  <2> QED BY <2>2, <2>3, <2>5 DEF BYTE_SIZE, index, n, t
<1> QED BY <1>4, <1>5, <1>6

\* An item of a record is undefined only if it is there and ends beyond the bytes.
LEMMA ItemReads ==
  ASSUME NEW b \in Seq(Byte), NEW record, NEW s, decodeItem(b, record, s).kind = "undefined"
  PROVE  /\ s \in DOMAIN record.items
         /\ ~Has(toBitVector(b), record.items[s].offset, getBitLength(record.items[s].type))
BY DecodeKinds DEF decodeItem, Throws, Value

\* What is undefined is an element of an array or a record.
LEMMA UndefinedElement ==
  ASSUME NEW b, NEW t, NEW s, decodeValue(b, t, s).kind = "undefined"
  PROVE  /\ t.datatype \in ComplexDatatypes /\ s # None
         /\ t.datatype = "Array" => decodeArray(reversed(b), t, s).kind = "undefined"
         /\ t.datatype = "Record" => decodeItem(reversed(b), t, s).kind = "undefined"
BY DecodeKinds DEF decodeValue, Throws, Value, ComplexDatatypes

\* A shorter element at the same index ends no later.
LEMMA ElementsEnd ==
  ASSUME NEW index \in Nat, NEW n \in Nat, NEW m \in Nat, n <= m
  PROVE  index * n \in Nat /\ index * m \in Nat /\ index * n + n <= index * m + m
<1>1. m - n \in Nat OBVIOUS
<1>2. index * (m - n) \in Nat BY <1>1
<1>3. index * m = index * n + index * (m - n) OBVIOUS
<1> QED BY <1>2, <1>3

LEMMA ArrayFits ==
  ASSUME NEW b \in Seq(Byte), NEW s \in Byte,
         NEW decl \in TypeElement, decl.datatype = "Array", DataValue(decl) # None,
         decodeArray(reversed(b), DataValue(decl), s).kind = "undefined",
         Declared(decl, s).known
  PROVE  ~Has(toBitVector(b), Declared(decl, s).offset, getBitLength(Declared(decl, s).type))
<1> DEFINE item == Simple(decl.type)
           n == getBitLength(item)
           m == getBitLength(decl.type)
           index == fromZero(s)
<1>1. decl.type \in SimpleType /\ decl.count \in Nat
  BY DEF TypeElement, SimpleType
<1>2. item # None /\ DataValue(decl) = [decl EXCEPT !.type = item]
  BY DEF DataValue
<1>3. DataValue(decl).type = item BY <1>2 DEF TypeElement, SimpleType
<1>4. n \in Nat /\ m \in Nat /\ n <= m BY <1>1, <1>2, SimpleLength
<1>5. reversed(b) \in Seq(Byte) /\ Len(reversed(b)) = Len(b) BY ReversedLength
<1>6. index * n + n > BYTE_SIZE * Len(b)
  BY <1>1, <1>2, <1>3, <1>5, ArrayReads
<1>7. /\ s \in 1..decl.count
      /\ Declared(decl, s).type = decl.type
      /\ Declared(decl, s).offset = (s - 1) * m
  BY DEF Declared
<1>8. index = s - 1 /\ index \in Nat
  <2>1. s - 1 \in Nat /\ s - 1 <= 255 BY <1>1, <1>7 DEF Byte
  <2> QED BY <2>1, Narrowed DEF fromZero
<1> HIDE DEF index, n, m
<1>9. index * m \in Nat /\ index * m + m > BYTE_SIZE * Len(b)
  BY <1>4, <1>6, <1>8, ElementsEnd DEF BYTE_SIZE
<1>10. Len(toBitVector(b)) = BYTE_SIZE * Len(b) BY ReversedLength
<1>11. ~Has(toBitVector(b), index * m, m)
  BY <1>4, <1>9, <1>10 DEF Has, BYTE_SIZE
<1> QED BY <1>7, <1>8, <1>11 DEF m

\* The object that is found under a known subindex is that of the declared item.
LEMMA RecordObject ==
  ASSUME NEW s, NEW decl \in TypeElement, decl.datatype = "Record", DataValue(decl) # None,
         s \in DOMAIN DataValue(decl).items, Declared(decl, s).known
  PROVE  /\ Declared(decl, s).type \in SimpleType /\ Simple(Declared(decl, s).type) # None
         /\ Declared(decl, s).offset \in Nat
         /\ DataValue(decl).items[s].type = Simple(Declared(decl, s).type)
         /\ DataValue(decl).items[s].offset = uint8(Declared(decl, s).offset)
<1> DEFINE items == {i \in DOMAIN decl.items : uint8(decl.items[i].subindex) = s}
           position == [x \in {uint8(decl.items[i].subindex) : i \in DOMAIN decl.items} |->
                          CHOOSE i \in DOMAIN decl.items :
                            /\ uint8(decl.items[i].subindex) = x
                            /\ \A j \in 1..i - 1 : uint8(decl.items[j].subindex) # x]
           first == CHOOSE i \in items : \A j \in items : i <= j
           item == decl.items[first]
           object == DataValue(decl).items[s]
<1>1. decl.items \in Seq(ItemElement) BY DEF TypeElement, SimpleType
<1>2. DataValue(decl) =
        [datatype |-> "Record", items |-> [x \in DOMAIN position |-> RecordItem(decl.items[position[x]])]]
  BY DEF DataValue, Record
<1>3. \A i \in DOMAIN decl.items : RecordItem(decl.items[i]).type # None
  BY DEF DataValue, Record
<1>4. s \in DOMAIN position
  <2> HIDE DEF position
  <2> QED BY <1>2
<1>5. PICK k \in DOMAIN decl.items : uint8(decl.items[k].subindex) = s
  BY <1>4
<1>6. items # {} /\ items \in SUBSET Nat BY <1>1, <1>5
<1>7. PICK m \in items : \A j \in items : m <= j
  <2> HIDE DEF items
  <2> QED BY <1>6, LeastElement
<1>8. first \in items /\ \A j \in items : first <= j BY <1>7
<1>9. /\ position[s] \in DOMAIN decl.items
      /\ uint8(decl.items[position[s]].subindex) = s
      /\ \A j \in 1..position[s] - 1 : uint8(decl.items[j].subindex) # s
  <2>1. \A j \in 1..m - 1 : j \in DOMAIN decl.items /\ j \notin items BY <1>1, <1>7
  <2>2. m \in DOMAIN decl.items /\ uint8(decl.items[m].subindex) = s
        /\ \A j \in 1..m - 1 : uint8(decl.items[j].subindex) # s
    BY <1>7, <2>1
  <2> QED BY <1>4, <2>2
<1>10. position[s] = first
  <2>1. first \in Nat /\ first >= 1 /\ position[s] \in Nat /\ position[s] >= 1
    <3>1. first \in DOMAIN decl.items BY <1>8
    <3> HIDE DEF first, position
    <3> QED BY <1>1, <1>9, <3>1
  <2>2. first <= position[s] BY <1>8, <1>9
  <2>3. ~(first <= position[s] - 1)
    <3> HIDE DEF position, first
    <3> QED BY <1>8, <1>9, <2>1
  <2> HIDE DEF position, first
  <2> QED BY <2>1, <2>2, <2>3
<1>11. item \in ItemElement /\ object = RecordItem(item)
  <2>1. first \in DOMAIN decl.items BY <1>8
  <2> HIDE DEF first, position
  <2>2. object = RecordItem(decl.items[position[s]]) BY <1>2, <1>4
  <2> QED BY <1>1, <1>10, <2>1, <2>2
<1>12. item.type \in SimpleType /\ Simple(item.type) # None /\ item.offset \in Nat
  <2>1. first \in DOMAIN decl.items BY <1>8
  <2>2. RecordItem(item).type # None BY <1>3, <2>1
  <2> HIDE DEF item
  <2> QED BY <1>11, <2>2 DEF ItemElement, RecordItem
<1>13. /\ object.type = Simple(item.type) /\ object.offset = uint8(item.offset)
  <2> HIDE DEF object, item
  <2>1. FixedBitLength(0, 1855, item.offset) = uint8(item.offset)
    BY <1>12, NarrowedOffset
  <2> QED BY <1>11, <2>1 DEF RecordItem
<1>14. /\ Declared(decl, s).type = item.type
       /\ Declared(decl, s).offset = item.offset
  BY DEF Declared
<1> HIDE DEF object, item
<1> QED BY <1>12, <1>13, <1>14 DEF object

LEMMA RecordFits ==
  ASSUME NEW b \in Seq(Byte), NEW s \in Byte,
         NEW decl \in TypeElement, decl.datatype = "Record", DataValue(decl) # None,
         decodeItem(reversed(b), DataValue(decl), s).kind = "undefined",
         Declared(decl, s).known
  PROVE  ~Has(toBitVector(b), Declared(decl, s).offset, getBitLength(Declared(decl, s).type))
<1> DEFINE object == DataValue(decl).items[s]
           item == Declared(decl, s)
<1>1. /\ s \in DOMAIN DataValue(decl).items
      /\ ~Has(toBitVector(reversed(b)), object.offset, getBitLength(object.type))
  BY ItemReads, ReversedLength
<1>2. /\ item.type \in SimpleType /\ Simple(item.type) # None /\ item.offset \in Nat
      /\ object.type = Simple(item.type) /\ object.offset = uint8(item.offset)
  BY <1>1, RecordObject
<1> HIDE DEF object, item
<1>3. object.offset \in Nat /\ object.offset <= item.offset BY <1>2, Narrowed
<1>4. Len(toBitVector(b)) = BYTE_SIZE * Len(b) /\ Len(toBitVector(reversed(b))) = BYTE_SIZE * Len(b)
  BY ReversedLength
<1> QED BY <1>1, <1>2, <1>3, <1>4, SimpleLength DEF Has, BYTE_SIZE, item

\* No element that fits the bytes is read past their end, although the views never ask
\* for their number and the lengths of the object are those of the element modulo 256:
\* what narrowing changes it makes smaller.
THEOREM ReadsInside == Spec => []ReadsStayInside
<1>1. Inv => ReadsStayInside
  <2> SUFFICES ASSUME Inv, stage = "decoded", value.kind = "undefined"
               PROVE  ReadsElement /\ ~ElementFits
    BY DEF ReadsStayInside
  <2> DEFINE decl == declaration.type
             s == ref.subindex
  <2>1. decl \in TypeElement /\ DataValue(decl) # None /\ type = DataValue(decl)
        /\ type.datatype = decl.datatype
    BY DeclarationType DEF Inv, TypeOK, Accepted
  <2>2. bytes \in Seq(Byte) /\ s \in {None} \cup Byte
    BY DEF Inv, TypeOK
  <2>3. decodeValue(bytes, type, s).kind = "undefined"
    BY RefDecodeKinds DEF Inv
  <2>4. /\ type.datatype \in ComplexDatatypes /\ s # None
        /\ type.datatype = "Array" => decodeArray(reversed(bytes), type, s).kind = "undefined"
        /\ type.datatype = "Record" => decodeItem(reversed(bytes), type, s).kind = "undefined"
    BY <2>3, UndefinedElement
  <2>5. ReadsElement BY <2>4 DEF ReadsElement
  <2>6. ASSUME Declared(decl, s).known
        PROVE  ~Has(toBitVector(bytes), Declared(decl, s).offset, getBitLength(Declared(decl, s).type))
    <3>1. CASE decl.datatype = "Array" BY <2>1, <2>2, <2>4, <2>6, <3>1, ArrayFits
    <3>2. CASE decl.datatype = "Record" BY <2>1, <2>2, <2>4, <2>6, <3>2, RecordFits
    <3> QED BY <2>1, <2>4, <3>1, <3>2 DEF ComplexDatatypes
  <2> QED BY <2>5, <2>6 DEF ElementFits, Element
<1> QED BY <1>1, Inductive, PTL

---------------------------------------------------------------------------
(* What decoding reads. *)

\* Field is what the views cut out of the reversed bytes.
LEMMA FieldIsCut ==
  ASSUME NEW b \in Seq(Byte), NEW offset \in Nat, NEW n \in Nat, Has(toBitVector(b), offset, n)
  PROVE  /\ Field(b, offset, n) = Cut(toBitVector(reversed(b)), offset, n)
         /\ Field(b, offset, n) \in Seq(Bit) /\ Len(Field(b, offset, n)) = n
         /\ n # 0 => toBitVector(reversed(b))[offset + 1] = Field(b, offset, n)[1]
<1> DEFINE r == reversed(b)
           bits == toBitVector(r)
           place(k) == (b[Len(b) - k \div 8] \div 2^(k % 8)) % 2
<1>1. r \in Seq(Byte) /\ Len(r) = Len(b) /\ \A i \in 1..Len(b) : r[i] = b[(Len(b) - i) + 1]
  BY ReversedLength
<1> HIDE DEF r
<1>2. /\ bits \in Seq(Bit) /\ Len(bits) = 8 * Len(b)
      /\ \A i \in 1..8 * Len(b) : bits[i] = (r[(i - 1) \div 8 + 1] \div 2^((i - 1) % 8)) % 2
  BY <1>1, BitVector
<1>3. offset + n <= 8 * Len(b) /\ Len(b) \in Nat
  <2>1. Len(toBitVector(b)) = 8 * Len(b) BY BitVector
  <2> QED BY <2>1 DEF Has
<1> HIDE DEF bits
<1>4. Field(b, offset, n) = [i \in 1..n |-> place(offset + i - 1)]
  BY DEF Field, BYTE_SIZE
<1>5. ASSUME NEW i \in 1..n PROVE bits[offset + i] = place(offset + i - 1) /\ offset + i \in 1..8 * Len(b)
  <2> DEFINE k == offset + i - 1
             q == k \div 8
  <2>1. k \in Nat /\ offset + i \in 1..8 * Len(b) /\ k < 8 * Len(b) BY <1>3
  <2> HIDE DEF k
  <2>2. q \in Nat /\ q + 1 \in 1..Len(b) /\ (Len(b) - (q + 1)) + 1 = Len(b) - q BY <1>3, <2>1
  <2> HIDE DEF q
  <2>3. r[q + 1] = b[Len(b) - q]
    <3>1. r[q + 1] = b[(Len(b) - (q + 1)) + 1] BY <1>1, <2>2
    <3> QED BY <2>2, <3>1
  <2>4. bits[offset + i] = (r[q + 1] \div 2^(k % 8)) % 2 BY <1>2, <2>1 DEF k, q
  <2>5. place(k) = (b[Len(b) - q] \div 2^(k % 8)) % 2 BY DEF q
  <2>6. bits[offset + i] = place(k) BY <2>3, <2>4, <2>5
  <2> QED BY <2>1, <2>6 DEF k
<1> HIDE DEF place
<1>6. /\ Cut(bits, offset, n) \in Seq(Bit) /\ Len(Cut(bits, offset, n)) = n
      /\ \A i \in 1..n : Cut(bits, offset, n)[i] = bits[offset + i]
  BY <1>2, <1>3, CutOf DEF Has
<1>7. Field(b, offset, n) = Cut(bits, offset, n)
  <2> DEFINE c == Cut(bits, offset, n)
  <2>1. c \in Seq(Bit) /\ Len(c) = n /\ \A i \in 1..n : c[i] = place(offset + i - 1) BY <1>5, <1>6
  <2> HIDE DEF c
  <2>2. c = [i \in 1..n |-> c[i]] BY <2>1
  <2> QED BY <1>4, <2>1, <2>2 DEF c
<1>8. n # 0 => bits[offset + 1] = Field(b, offset, n)[1] BY <1>6, <1>7
<1> QED BY <1>6, <1>7, <1>8 DEF bits, r

\* One bit is its own number, and the byte that it is packed in.
LEMMA OneBit ==
  ASSUME NEW bits \in Seq(Bit), Len(bits) = 1
  PROVE  assemble(bits, 2, 0) = bits[1] /\ toByteVector(bits)[1] = bits[1] /\ bits[1] \in {0, 1}
<1>1. bits \in Seq(Int) /\ bits[1] \in Bit
  <2>1. Bit \subseteq Int BY DEF Bit
  <2>2. 1 \in 1..Len(bits) OBVIOUS
  <2> QED BY <2>1, <2>2, SeqMonotonic, ElementOfSeq
<1> DEFINE d == bits[1]
<1>2. ASSUME NEW part \in Seq(Int), Len(part) = 1 PROVE assemble(part, 2, 0) = part[1]
  <2> DEFINE f == Leading(part, 2, 0)
  <2>1. Unfolds(f, part, 2, 0) /\ assemble(part, 2, 0) = f[Len(part)] BY LeadingUnfolds
  <2> HIDE DEF f
  <2>2. f[0] = 0 /\ f[1] = f[0] * 2 + part[1] BY <1>2, <2>1 DEF Unfolds
  <2>3. part[1] \in Int
    <3>1. 1 \in 1..Len(part) BY <1>2
    <3> QED BY <3>1, ElementOfSeq
  <2> QED BY <1>2, <2>1, <2>2, <2>3
<1>3. toByteVector(bits)[1] = assemble(byteOf(bits, 1), 2, 0)
  <2>1. (1 + 7) \div 8 = 1 OBVIOUS
  <2> QED BY <2>1 DEF toByteVector, BYTE_SIZE
<1>4. byteOf(bits, 1) \in Seq(Int) /\ Len(byteOf(bits, 1)) = 1 /\ byteOf(bits, 1)[1] = bits[1]
  <2>1. 1 \in Nat \ {0} /\ 8 * (1 - 1) < Len(bits) /\ ~ (8 * 1 <= Len(bits)) /\ Len(bits) - 8 * (1 - 1) = 1
        /\ 8 * (1 - 1) + 1 = 1
    OBVIOUS
  <2>2. byteOf(bits, 1) \in Seq(Int) /\ Len(byteOf(bits, 1)) = 1 BY <1>1, <2>1, ByteOf
  <2>3. \A i \in 1..Len(byteOf(bits, 1)) : byteOf(bits, 1)[i] = bits[8 * (1 - 1) + i]
    BY <1>1, <2>1, ByteOf
  <2> QED BY <2>1, <2>2, <2>3
<1>5. assemble(bits, 2, 0) = d BY <1>1, <1>2
<1>6. assemble(byteOf(bits, 1), 2, 0) = d BY <1>2, <1>4
<1> QED BY <1>1, <1>3, <1>5, <1>6 DEF Bit

\* The number in n bits.
Number(field, n, kind) ==
  assemble(field, 2, IF kind = "int64" /\ n % BYTE_SIZE = 0 /\ field[n] = 1 THEN -1 ELSE 0)

\* What is decoded from the bytes of a field.
LEMMA NumberDecoded ==
  ASSUME NEW field \in Seq(Bit), Len(field) # 0, NEW t, t.datatype = "Boolean" => Len(field) = 1,
         decode(toByteVector(field), t).kind \in {"bool", "uint64", "int64"}
  PROVE  decode(toByteVector(field), t).v = Number(field, Len(field), decode(toByteVector(field), t).kind)
<1> DEFINE b == toByteVector(field)
           n == Len(field)
<1>1. accepts(b, t) BY DEF decode, Throws, Value
<1>2. t.datatype \in {"Boolean", "UInteger", "Integer"}
  BY <1>1 DEF decode, Value
<1>3. /\ toUnsignedInteger(b) = assemble(field, 2, 0)
      /\ toSignedInteger(b) = assemble(field, 2, IF n % 8 = 0 /\ field[n] = 1 THEN -1 ELSE 0)
  BY FieldNumbers
<1>4. CASE t.datatype = "Boolean"
  <2>1. decode(b, t) = Value("bool", IF b[1] > 0 THEN 1 ELSE 0) BY <1>1, <1>4 DEF decode
  <2>2. assemble(field, 2, 0) = field[1] /\ b[1] = field[1] /\ field[1] \in {0, 1}
    BY <1>4, OneBit
  <2> HIDE DEF b
  <2>3. (IF b[1] > 0 THEN 1 ELSE 0) = assemble(field, 2, 0) BY <2>2
  <2> QED BY <2>1, <2>3 DEF Number, Value, b
<1>5. CASE t.datatype = "UInteger"
  <2>1. decode(b, t) = Value("uint64", toUnsignedInteger(b)) BY <1>1, <1>5 DEF decode
  <2> QED BY <1>3, <2>1 DEF Number, Value
<1>6. CASE t.datatype = "Integer"
  <2>1. decode(b, t) = Value("int64", toSignedInteger(b)) BY <1>1, <1>6 DEF decode
  <2> QED BY <1>3, <2>1 DEF Number, Value, BYTE_SIZE
<1> QED BY <1>2, <1>4, <1>5, <1>6

\* A length that fits eight bits is the object's.
LEMMA LengthKept ==
  ASSUME NEW decl \in SimpleType, Simple(decl) # None, getBitLength(decl) \in Byte
  PROVE  /\ getBitLength(Simple(decl)) = getBitLength(decl)
         /\ Simple(decl).datatype = decl.datatype
         /\ decl.datatype \in {"UInteger", "Integer"} => getBitLength(decl) # 0
<1>1. CASE decl.datatype \in {"UInteger", "Integer"}
  <2>1. decl.bits \in Nat BY <1>1 DEF SimpleType
  <2>2. getBitLength(decl) = decl.bits BY <1>1 DEF getBitLength
  <2>3. uint8(decl.bits) = decl.bits BY <2>1, <2>2, Narrowed DEF Byte
  <2>4. FixedBitLength(2, 64, decl.bits) \in {decl.bits, None} /\ FixedBitLength(2, 64, decl.bits) # None
    BY <1>1, <2>3 DEF Simple, FixedBitLength
  <2>5. Simple(decl) = [decl EXCEPT !.bits = decl.bits] BY <1>1, <2>4 DEF Simple
  <2>6. getBitLength(Simple(decl)) = decl.bits /\ Simple(decl).datatype = decl.datatype
    BY <1>1, <2>5 DEF getBitLength, SimpleType
  <2>7. uint8(decl.bits) \in 2..64 BY <1>1 DEF Simple, FixedBitLength
  <2> QED BY <2>1, <2>2, <2>3, <2>6, <2>7
<1>2. CASE decl.datatype \notin {"UInteger", "Integer"}
  <2>1. Simple(decl) = decl BY <1>2 DEF Simple
  <2> QED BY <1>2, <2>1
<1> QED BY <1>1, <1>2

Numeric == {"bool", "uint64", "int64"}

LEMMA ArrayNumber ==
  ASSUME NEW b \in Seq(Byte), NEW s \in Byte,
         NEW decl \in TypeElement, decl.datatype = "Array", DataValue(decl) # None,
         Declared(decl, s).known, getBitLength(Declared(decl, s).type) \in Byte,
         Has(toBitVector(b), Declared(decl, s).offset, getBitLength(Declared(decl, s).type)),
         decodeArray(reversed(b), DataValue(decl), s).kind \in Numeric
  PROVE  decodeArray(reversed(b), DataValue(decl), s).v =
           Number(Field(b, Declared(decl, s).offset, getBitLength(Declared(decl, s).type)),
                  getBitLength(Declared(decl, s).type), decodeArray(reversed(b), DataValue(decl), s).kind)
<1> DEFINE object == Simple(decl.type)
           n == getBitLength(decl.type)
           index == fromZero(s)
           r == reversed(b)
           bits == toBitVector(r)
           result == decodeArray(r, DataValue(decl), s)
<1>1. decl.type \in SimpleType /\ decl.count \in Nat
  BY DEF TypeElement, SimpleType
<1>2. object # None /\ DataValue(decl) = [decl EXCEPT !.type = object]
  BY DEF DataValue
<1>3. DataValue(decl).type = object BY <1>2 DEF TypeElement, SimpleType
<1>4. /\ s \in 1..decl.count
      /\ Declared(decl, s).type = decl.type
      /\ Declared(decl, s).offset = (s - 1) * n
  BY DEF Declared
<1>5. /\ getBitLength(object) = n /\ n \in Nat /\ object.datatype = decl.type.datatype
      /\ decl.type.datatype \in {"UInteger", "Integer"} => n # 0
      /\ decl.type.datatype = "Boolean" => n = 1
  BY <1>1, <1>2, <1>4, LengthKept, SimpleLength
<1>6. index = s - 1 /\ index \in Nat
  <2>1. s \in 0..255 BY DEF Byte
  <2>2. s - 1 \in Nat /\ s - 1 <= 255 BY <1>1, <1>4, <2>1
  <2> QED BY <2>2, Narrowed DEF fromZero
<1> DEFINE offset == index * n
           field == Field(b, offset, n)
<1>7. Declared(decl, s).offset = offset BY <1>4, <1>6
<1>8. offset \in Nat /\ Has(toBitVector(b), offset, n)
  <2>1. offset \in Nat
    <3> HIDE DEF index, n
    <3> QED BY <1>5, <1>6
  <2> QED BY <1>4, <1>7, <2>1
<1> HIDE DEF offset, index, n
<1>9. /\ field = Cut(bits, offset, n) /\ field \in Seq(Bit) /\ Len(field) = n
      /\ n # 0 => bits[offset + 1] = field[1]
  BY <1>5, <1>8, FieldIsCut
<1> HIDE DEF field, object
<1>10. CASE object.datatype = "Boolean"
  <2>1. n = 1 /\ offset = index BY <1>5, <1>6, <1>10 DEF offset
  <2>2. result \in {Value("bool", bits[index + 1]), Undefined}
    BY <1>3, <1>10 DEF decodeArray, index
  <2> HIDE DEF result
  <2>3. result = Value("bool", field[1])
    BY <1>9, <2>1, <2>2 DEF Value, Undefined, Numeric, result
  <2>4. assemble(field, 2, 0) = field[1] BY <1>9, <2>1, OneBit
  <2>5. result.kind = "bool" /\ result.v = field[1] BY <2>3 DEF Value
  <2>6. result.v = Number(field, n, result.kind) BY <2>4, <2>5 DEF Number
  <2> QED BY <1>4, <1>7, <2>6 DEF field, result, n
<1>11. CASE object.datatype \in {"UInteger", "Integer"}
  <2>1. result \in {decode(toByteVector(Cut(bits, offset, n)), object), Undefined}
    BY <1>3, <1>5, <1>11 DEF decodeArray, offset, index
  <2>2. result = decode(toByteVector(field), object)
    BY <1>9, <2>1 DEF Undefined, Value, Numeric
  <2>3. decode(toByteVector(field), object).kind \in Numeric BY <2>2
  <2>4. n # 0 BY <1>5, <1>11
  <2> HIDE DEF result
  <2>5. result.v = Number(field, n, result.kind)
    BY <1>9, <1>11, <2>2, <2>3, <2>4, NumberDecoded DEF Numeric
  <2> QED BY <1>4, <1>7, <2>5 DEF field, result, n
<1>12. CASE object.datatype \notin {"Boolean", "UInteger", "Integer"}
  <2>1. \A v : decode(v, object).kind \notin Numeric
    BY <1>12 DEF decode, Throws, Value, Numeric
  <2>2. result.kind \notin Numeric
    BY <1>3, <1>12, <2>1 DEF decodeArray, Undefined, Value, Numeric
  <2> QED BY <2>2
<1> QED BY <1>10, <1>11, <1>12

LEMMA RecordNumber ==
  ASSUME NEW b \in Seq(Byte), NEW s \in Byte,
         NEW decl \in TypeElement, decl.datatype = "Record", DataValue(decl) # None,
         Declared(decl, s).known, getBitLength(Declared(decl, s).type) \in Byte,
         Declared(decl, s).offset \in Byte,
         Has(toBitVector(b), Declared(decl, s).offset, getBitLength(Declared(decl, s).type)),
         decodeItem(reversed(b), DataValue(decl), s).kind \in Numeric
  PROVE  decodeItem(reversed(b), DataValue(decl), s).v =
           Number(Field(b, Declared(decl, s).offset, getBitLength(Declared(decl, s).type)),
                  getBitLength(Declared(decl, s).type), decodeItem(reversed(b), DataValue(decl), s).kind)
<1> DEFINE object == DataValue(decl).items[s]
           item == Declared(decl, s)
           n == getBitLength(item.type)
           bits == toBitVector(reversed(b))
           field == Field(b, item.offset, n)
           result == decodeItem(reversed(b), DataValue(decl), s)
<1>1. s \in DOMAIN DataValue(decl).items
  BY DEF decodeItem, Throws, Value, Numeric
<1>2. /\ item.type \in SimpleType /\ Simple(item.type) # None /\ item.offset \in Nat
      /\ object.type = Simple(item.type) /\ object.offset = uint8(item.offset)
  BY <1>1, RecordObject
<1>3. /\ getBitLength(object.type) = n /\ n \in Nat /\ object.type.datatype = item.type.datatype
      /\ item.type.datatype \in {"UInteger", "Integer"} => n # 0
      /\ item.type.datatype = "Boolean" => n = 1
  BY <1>2, LengthKept, SimpleLength
<1>4. object.offset = item.offset
  <2>1. item.offset \in 0..255 BY DEF Byte
  <2> HIDE DEF item
  <2>2. \A x \in 0..255 : x \in Nat /\ x <= 255 OBVIOUS
  <2>3. item.offset \in Nat /\ item.offset <= 255 BY <2>1, <2>2
  <2> QED BY <1>2, <2>3, Narrowed
<1>5. result \in {decode(toByteVector(Cut(bits, item.offset, n)), object.type), Undefined}
  BY <1>1, <1>3, <1>4 DEF decodeItem
<1>6. field = Cut(bits, item.offset, n) /\ field \in Seq(Bit) /\ Len(field) = n
  BY <1>2, <1>3, FieldIsCut
<1> HIDE DEF field, object, item
<1>7. result = decode(toByteVector(field), object.type)
  BY <1>5, <1>6 DEF Undefined, Value, Numeric
<1>8. object.type.datatype \in {"Boolean", "UInteger", "Integer"}
  BY <1>7 DEF decode, Throws, Value, Numeric
<1>9. n # 0 BY <1>3, <1>8
<1> HIDE DEF n
<1>10. decode(toByteVector(field), object.type).v =
         Number(field, n, decode(toByteVector(field), object.type).kind)
  <2>1. decode(toByteVector(field), object.type).kind \in {"bool", "uint64", "int64"}
    BY <1>7 DEF Numeric
  <2>2. object.type.datatype = "Boolean" => Len(field) = 1 BY <1>3, <1>6
  <2> QED BY <1>6, <1>9, <2>1, <2>2, NumberDecoded
<1>11. result.v = Number(field, n, result.kind) BY <1>7, <1>10
<1> QED BY <1>11 DEF field, item, n

\* A number is not scaled.
LEMMA NotScaled ==
  ASSUME NEW input, RefDecode(input).kind \notin {"scaled", "throws"}
  PROVE  /\ RefDecode(input) = decodeValue(input, type, ref.subindex)
         /\ RefDecode(input).kind # "undefined" =>
              \A other : RefDecode(other) = decodeValue(other, type, ref.subindex)
<1> DEFINE result == decodeValue(input, type, ref.subindex)
<1>1. result.kind \in Kinds \ {"scaled"} BY DecodeValueKinds
<1>2. /\ computeNumeric(result).kind \notin {"scaled", "throws"} => computeNumeric(result) = result
      /\ computeNumeric(result).kind \in {"scaled", "throws", "undefined"}
  BY <1>1 DEF computeNumeric, Value, Throws, Kinds
<1> HIDE DEF result
<1> QED BY <1>1, <1>2 DEF RefDecode, result

\* A number that is read from an array or a record is the one in the declared bits of what
\* the device sent, whichever element is asked for and however its bits lie in the bytes.
THEOREM FieldsAreRead == Spec => []ReadsTheField
<1>1. Inv => ReadsTheField
  <2> SUFFICES ASSUME Inv, ReadsNumber, getBitLength(Element.type) \in Byte,
                      type.datatype = "Record" => Element.offset \in Byte
               PROVE  IsField
    BY DEF ReadsTheField
  <2> DEFINE decl == declaration.type
             s == ref.subindex
             item == Declared(decl, s)
             n == getBitLength(item.type)
             field == Field(bytes, item.offset, n)
  <2>1. decl \in TypeElement /\ DataValue(decl) # None /\ type = DataValue(decl)
        /\ type.datatype = decl.datatype /\ bytes \in Seq(Byte) /\ s \in Byte
    BY DeclarationType DEF Inv, TypeOK, Accepted, ReadsNumber, ReadsElement
  <2>2. value.kind \in Numeric /\ value = decodeValue(bytes, type, s)
    BY NotScaled DEF Inv, ReadsNumber, ReadsElement, Numeric
  <2>3. /\ item.known /\ n \in Byte /\ Has(toBitVector(bytes), item.offset, n)
        /\ type.datatype = "Record" => item.offset \in Byte
    BY DEF ReadsNumber, ElementFits, Element
  <2>4. type.datatype \in ComplexDatatypes /\ s # None BY DEF ReadsNumber, ReadsElement
  <2>5. CASE type.datatype = "Array"
    <3>1. value = decodeArray(reversed(bytes), DataValue(decl), s)
      BY <2>1, <2>2, <2>4, <2>5 DEF decodeValue
    <3>2. value.v = Number(field, n, value.kind)
      BY <2>1, <2>2, <2>3, <2>5, <3>1, ArrayNumber
    <3> QED BY <3>2 DEF IsField, Number, Element
  <2>6. CASE type.datatype = "Record"
    <3>1. value = decodeItem(reversed(bytes), DataValue(decl), s)
      BY <2>1, <2>2, <2>4, <2>6 DEF decodeValue
    <3>2. value.v = Number(field, n, value.kind)
      BY <2>1, <2>2, <2>3, <2>6, <3>1, RecordNumber
    <3> QED BY <3>2 DEF IsField, Number, Element
  <2> QED BY <2>4, <2>5, <2>6 DEF ComplexDatatypes
<1> QED BY <1>1, Inductive, PTL

\* Bytes that are turned around twice are as they were.
LEMMA ReversedTwice ==
  ASSUME NEW b \in Seq(Byte)
  PROVE  reversed(Reverse(b)) = b
<1> DEFINE r == reversed(b)
<1>1. r \in Seq(Byte) /\ Len(r) = Len(b) /\ \A i \in 1..Len(b) : r[i] = b[(Len(b) - i) + 1]
  BY ReversedLength
<1>2. Reverse(b) = r BY DEF reversed
<1> HIDE DEF r
<1>3. /\ reversed(r) \in Seq(Byte) /\ Len(reversed(r)) = Len(b)
      /\ \A i \in 1..Len(b) : reversed(r)[i] = r[(Len(b) - i) + 1]
  BY <1>1, ReversedLength
<1>4. ASSUME NEW i \in 1..Len(b) PROVE reversed(r)[i] = b[i]
  <2>1. (Len(b) - i) + 1 \in 1..Len(b) /\ (Len(b) - ((Len(b) - i) + 1)) + 1 = i OBVIOUS
  <2> QED BY <1>1, <1>3, <2>1
<1>5. reversed(r) = b BY <1>3, <1>4, SeqEqual
<1> QED BY <1>2, <1>5

\* The datatype of an integer variable: one whose bits have been narrowed.
LEMMA IntegerObject ==
  ASSUME NEW decl \in TypeElement, DataValue(decl) # None,
         DataValue(decl).datatype \in {"UInteger", "Integer"}
  PROVE  \A n : /\ getBitLength([DataValue(decl) EXCEPT !.bits = n]) = n
                /\ [DataValue(decl) EXCEPT !.bits = n].datatype = DataValue(decl).datatype
<1>1. decl.datatype = DataValue(decl).datatype BY DataValueDatatype
<1>2. decl \in [datatype : {"UInteger", "Integer"}, bits : Nat]
  BY <1>1 DEF TypeElement, SimpleType
<1>3. DataValue(decl) = [decl EXCEPT !.bits = FixedBitLength(2, 64, decl.bits)]
  BY <1>1 DEF DataValue, Simple
<1> DEFINE object == [decl EXCEPT !.bits = FixedBitLength(2, 64, decl.bits)]
<1>4. \A n : [object EXCEPT !.bits = n].bits = n /\ [object EXCEPT !.bits = n].datatype = decl.datatype
  BY <1>2
<1> HIDE DEF object
<1> QED BY <1>1, <1>3, <1>4 DEF getBitLength, object

\* The item of a record that is as wide as the bytes is made from the bytes.
LEMMA WholeItem ==
  ASSUME NEW b \in Seq(Byte), NEW t, NEW record, record.datatype = "Record",
         1 \in DOMAIN record.items, record.items[1].offset = 0, record.items[1].type = t,
         getBitLength(t) = BYTE_SIZE * Len(b)
  PROVE  decodeValue(Reverse(b), record, 1) = decode(b, t)
<1> DEFINE bits == toBitVector(b)
           n == BYTE_SIZE * Len(b)
<1>1. bits \in Seq(Bit) /\ Len(bits) = n /\ n \in Nat BY BitVector DEF BYTE_SIZE
<1>2. reversed(Reverse(b)) = b BY ReversedTwice
<1>3. toByteVector(bits) = b BY BytesOfBits
<1> HIDE DEF bits, n
<1>4. Cut(bits, 0, n) = bits
  <2>1. SubSeq(bits, 1, n) = bits BY <1>1, SubSeqFull
  <2>2. 0 + 1 = 1 /\ 0 + n = n BY <1>1
  <2> QED BY <2>1, <2>2 DEF Cut
<1>5. Has(bits, 0, n) BY <1>1 DEF Has
<1>6. 1 # None BY NoneAssumption
<1>7. decodeItem(b, record, 1) = decode(b, t)
  BY <1>3, <1>4, <1>5 DEF decodeItem, bits, n
<1> QED BY <1>2, <1>6, <1>7 DEF decodeValue, ComplexDatatypes

\* The bytes of an integer variable and those of an integer in a record are in opposite
\* orders, whatever the width.
THEOREM ByteOrdersDiffer == Spec => []ScalarsAreReversedItems
<1>1. Inv => ScalarsAreReversedItems
  <2> SUFFICES ASSUME Inv, stage = "decoded", type.datatype \in {"UInteger", "Integer"},
                      value.kind \in {"uint64", "int64"}
               PROVE  LET item == [offset |-> 0, type |-> [type EXCEPT !.bits = BYTE_SIZE * Len(bytes)]]
                      IN value = decodeValue(Reverse(bytes),
                                   [datatype |-> "Record", items |-> [s \in {1} |-> item]], 1)
    BY DEF ScalarsAreReversedItems
  <2> DEFINE decl == declaration.type
             t == [type EXCEPT !.bits = BYTE_SIZE * Len(bytes)]
             item == [offset |-> 0, type |-> t]
             record == [datatype |-> "Record", items |-> [s \in {1} |-> item]]
  <2>1. decl \in TypeElement /\ DataValue(decl) # None /\ type = DataValue(decl)
        /\ bytes \in Seq(Byte)
    BY DeclarationType DEF Inv, TypeOK, Accepted
  <2>2. value = decodeValue(bytes, type, ref.subindex)
    BY NotScaled DEF Inv
  <2>3. value = decode(bytes, type) BY <2>2 DEF decodeValue, ComplexDatatypes
  <2>4. getBitLength(t) = BYTE_SIZE * Len(bytes) /\ t.datatype = type.datatype
    BY <2>1, IntegerObject
  <2> HIDE DEF t
  <2>5. decode(bytes, t) = decode(bytes, type) BY <2>4 DEF decode, accepts
  <2>6. /\ record.datatype = "Record" /\ 1 \in DOMAIN record.items
        /\ record.items[1].offset = 0 /\ record.items[1].type = t
    OBVIOUS
  <2> HIDE DEF record
  <2>7. decodeValue(Reverse(bytes), record, 1) = decode(bytes, t)
    BY <2>1, <2>4, <2>6, WholeItem
  <2> QED BY <2>3, <2>5, <2>7 DEF record, t
<1> QED BY <1>1, Inductive, PTL

\* A client can tell two values of a variable of one length apart.
LEMMA DecodedDiffer ==
  ASSUME NEW b \in Seq(Byte), NEW c \in Seq(Byte), Len(b) = Len(c), NEW t,
         t.datatype \in SimpleDatatypes \ {"Boolean", "Time"},
         decode(b, t).kind # "throws", decode(b, t) = decode(c, t)
  PROVE  b = c
<1>1. accepts(b, t) /\ accepts(c, t) BY DEF decode, Throws, Value
<1>2. CASE t.datatype = "UInteger"
  <2>1. toUnsignedInteger(b) = toUnsignedInteger(c) BY <1>1, <1>2 DEF decode, Value
  <2> QED BY <2>1, Different DEF toUnsignedInteger
<1>3. CASE t.datatype = "Integer"
  <2>1. toSignedInteger(b) = toSignedInteger(c) BY <1>1, <1>3 DEF decode, Value
  <2> DEFINE sign(v) == IF Last(v) >= 128 THEN -1 ELSE 0
  <2>2. sign(b) \in Int /\ sign(c) \in Int OBVIOUS
  <2>3. assemble(b, 256, sign(b)) = assemble(c, 256, sign(c)) BY <2>1 DEF toSignedInteger
  <2> HIDE DEF sign
  <2> QED BY <2>2, <2>3, Different
<1>4. CASE t.datatype \in {"Float32", "TimeSpan", "String", "OctetString"}
  BY <1>1, <1>4 DEF decode, Value
<1> QED BY <1>2, <1>3, <1>4 DEF SimpleDatatypes

\* What a client gets for a variable tells it which bytes the device sent.
THEOREM NothingIsLost == Spec => []LosesNothing
<1>1. Inv => LosesNothing
  <2> SUFFICES ASSUME Inv, stage = "decoded", type.datatype \in SimpleDatatypes \ {"Boolean", "Time"},
                      value.kind \notin {"throws", "scaled"},
                      NEW other \in Inputs(declaration), Len(other) = Len(bytes), RefDecode(other) = value
               PROVE  other = bytes
    BY DEF LosesNothing
  <2>1. bytes \in Seq(Byte) /\ other \in Seq(Byte)
    BY InputsAssumption DEF Inv, TypeOK
  <2>2. \A b : decodeValue(b, type, ref.subindex) = decode(b, type)
    BY DEF decodeValue, SimpleDatatypes, ComplexDatatypes
  <2>3. value = decode(bytes, type)
    BY <2>2, NotScaled DEF Inv
  <2>4. value.kind # "undefined" BY <2>3, DecodeKinds
  <2>5. value = decode(other, type) BY <2>2, <2>4, NotScaled DEF Inv
  <2> QED BY <2>1, <2>3, <2>5, DecodedDiffer
<1> QED BY <1>1, Inductive, PTL
=============================================================================
