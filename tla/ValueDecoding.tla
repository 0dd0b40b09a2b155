--------------------------- MODULE ValueDecoding ---------------------------
(***************************************************************************)
(* Byte vectors to values (sources/Model/Datatypes/Decoders.cpp).  A       *)
(* variable's bytes come as the device sends them, the most significant    *)
(* first.  Elements of arrays and records are cut out bit by bit, counted  *)
(* from the last byte's least significant bit; decodeValue reverses the    *)
(* bytes for them, and only for them.  Integers are assembled in the byte  *)
(* order of a little-endian processor.                                     *)
(***************************************************************************)
EXTENDS Datatypes, Integers, SequencesExt

CONSTANT None  \* an absent optional

BYTE_SIZE == 8
Byte == 0..255
wide(n) == n  \* fault: kept whole
uint8(n) == n % 256

\* A result; an exception; or bits that are not in the vector.
Value(kind, v) == [kind |-> kind, v |-> v]
Throws(exception) == Value("throws", exception)
Undefined == Value("undefined", 0)

---------------------------------------------------------------------------
(* Vectors of bits and bytes. *)

highFirst(i) == BYTE_SIZE - 1 - ((i - 1) % BYTE_SIZE)  \* fault: the other end first
bitIndex(i) == (i - 1) % BYTE_SIZE

toBitVector(bytes) ==
  [i \in 1..BYTE_SIZE * Len(bytes) |->
     (bytes[(i - 1) \div BYTE_SIZE + 1] \div 2^bitIndex(i)) % 2]

\* The number that digits make, the lowest first, under a sign: 0, or -1 for the ones
\* that the padding of a negative number has in all higher places.  leading[k] is made
\* by the k highest digits.
assemble(digits, base, sign) ==
  LET leading[k \in 0..Len(digits)] ==
        IF k = 0 THEN sign ELSE leading[k - 1] * base + digits[Len(digits) - k + 1]
  IN leading[Len(digits)]

byteOf(bits, b) == SubSeq(bits, BYTE_SIZE * (b - 1) + 1, Min({BYTE_SIZE * b, Len(bits)}))
toByteVector(bits) ==
  [b \in 1..(Len(bits) + 7) \div BYTE_SIZE |-> assemble(byteOf(bits, b), 2, 0)]

anyOrder(bytes) == assemble(bytes, 1, 0)  \* fault: no weights
toUnsignedInteger(bytes) == assemble(bytes, 256, 0)

\* A set sign bit is the last byte's highest, whatever the width of the field.
toSignedInteger(bytes) == assemble(bytes, 256, IF Last(bytes) >= 128 THEN -1 ELSE 0)

---------------------------------------------------------------------------
(* Simple datatypes. *)

SimpleType ==
  [datatype : {"UInteger", "Integer"}, bits : Nat] \cup
  [datatype : {"String", "OctetString"}, length : Nat] \cup
  [datatype : {"Boolean", "Float32", "Time", "TimeSpan"}]

length(type) ==
  CASE type.datatype = "Float32" -> 4
    [] type.datatype \in {"Time", "TimeSpan"} -> 8
    [] type.datatype \in {"String", "OctetString"} -> type.length

getBitLength(type) ==
  CASE type.datatype = "Boolean" -> 1
    [] type.datatype \in {"UInteger", "Integer"} -> type.bits
    [] OTHER -> length(type) * BYTE_SIZE

\* How many bytes a type takes; an integer does not ask for its own width.
accepts(bytes, type) ==
  CASE type.datatype = "Boolean" -> Len(bytes) = 1
    [] type.datatype \in {"UInteger", "Integer"} -> Len(bytes) \in 1..8
    [] type.datatype = "String" -> Len(bytes) <= type.length
    [] OTHER -> Len(bytes) = length(type)

\* Texts are the bytes they are made from.  TimeT takes the seconds from three bytes,
\* skips one and takes the fraction from the other four.
decode(bytes, type) ==
  IF ~accepts(bytes, type) THEN Throws("invalid_argument")
  ELSE CASE type.datatype = "Boolean" -> Value("bool", IF bytes[1] > 0 THEN 1 ELSE 0)
         [] type.datatype = "UInteger" -> Value("uint64", toUnsignedInteger(bytes))
         [] type.datatype = "Integer" -> Value("int64", toSignedInteger(bytes))
         [] type.datatype = "Float32" -> Value("float", bytes)
         [] type.datatype = "Time" ->
              Value("string", Reverse(SubSeq(bytes, 6, 8)) \o Reverse(SubSeq(bytes, 1, 4)))
         [] OTHER -> Value("string", bytes)

---------------------------------------------------------------------------
(* Arrays and records. *)

Cut(vector, offset, n) == SubSeq(vector, offset + 1, offset + n)
Has(vector, offset, n) == offset + n <= Len(vector)

\* bitwiseView, bytewiseView and the bit of a Boolean; --subindex wraps around.
sameIndex(subindex) == subindex  \* fault: indices from one
fromZero(subindex) == uint8(subindex - 1)

decodeArray(bytes, array, subindex) ==
  LET index == fromZero(subindex)
      type == array.type
      bits == toBitVector(bytes)
      n == getBitLength(type)
  IN CASE type.datatype = "Boolean" ->
            IF Has(bits, index, 1) THEN Value("bool", bits[index + 1]) ELSE Undefined
       [] type.datatype \in {"UInteger", "Integer"} ->
            IF Has(bits, index * n, n) THEN decode(toByteVector(Cut(bits, index * n, n)), type)
            ELSE Undefined
       [] OTHER ->
            IF Has(bytes, index * length(type), length(type))
            THEN decode(Cut(bytes, index * length(type), length(type)), type) ELSE Undefined

decodeItem(bytes, record, subindex) ==
  LET item == record.items[subindex]
      bits == toBitVector(bytes)
      n == getBitLength(item.type)
  IN IF subindex \notin DOMAIN record.items THEN Throws("out_of_range")
     ELSE IF Has(bits, item.offset, n) THEN decode(toByteVector(Cut(bits, item.offset, n)), item.type)
     ELSE Undefined

sentOrder(bytes) == bytes  \* fault: the most significant byte comes first
reversed(bytes) == Reverse(bytes)

decodeValue(bytes, type, subindex) ==
  CASE type.datatype \in ComplexDatatypes /\ subindex = None -> Throws("invalid_argument")
    [] type.datatype = "Array" /\ subindex # None -> decodeArray(reversed(bytes), type, subindex)
    [] type.datatype = "Record" /\ subindex # None -> decodeItem(reversed(bytes), type, subindex)
    [] OTHER -> decode(bytes, type)
=============================================================================
