---------------------------- MODULE MCReferences ----------------------------
(***************************************************************************)
(* Declarations of every datatype, with lengths at and beyond the bounds;  *)
(* references of every kind; and bytes of every length that matters.       *)
(* TLC's integers have 32 bits, so integers have at most three bytes.      *)
(***************************************************************************)
EXTENDS References, TLC

UInt(n) == [datatype |-> "UInteger", bits |-> n]
Int_(n) == [datatype |-> "Integer", bits |-> n]
Of(datatype) == [datatype |-> datatype]
Text(n) == [datatype |-> "String", length |-> n]
Octets(n) == [datatype |-> "OctetString", length |-> n]
ArrayOf(t, count) == [datatype |-> "Array", type |-> t, count |-> count]
RecordOf(n, items) == [datatype |-> "Record", bits |-> n, items |-> items]
Item_(subindex, offset, t) == [subindex |-> subindex, offset |-> offset, type |-> t]

Variable(t) == [processData |-> None, type |-> t]
ProcessData(n, t) == [processData |-> n, type |-> t]

Packed == RecordOf(24, <<Item_(1, 0, Of("Boolean")), Item_(2, 1, UInt(7)), Item_(3, 5, Int_(8)),
                         Item_(4, 8, Int_(16)), Item_(5, 20, Int_(4)), Item_(6, 0, Text(2)),
                         Item_(2, 3, UInt(2))>>)
\* Items whose subindex or offset does not fit eight bits.
Wide == RecordOf(300, <<Item_(257, 8, UInt(8)), Item_(2, 260, UInt(8)), Item_(3, 255, UInt(8)),
                        Item_(260, 250, UInt(64)), Item_(4, 0, UInt(8))>>)

Small == {UInt(2), UInt(8), Int_(24), Of("Boolean"), Of("Float32"), Text(2), Octets(3),
          Of("Time"), Of("TimeSpan"),
          ArrayOf(UInt(8), 3), ArrayOf(Int_(6), 4), ArrayOf(Int_(16), 1), ArrayOf(Of("Boolean"), 9),
          ArrayOf(Text(1), 3), ArrayOf(Int_(264), 2), Packed}
OutOfBounds == {UInt(1), UInt(256), Int_(258), Text(233), RecordOf(0, <<>>), RecordOf(256, <<>>),
                RecordOf(1857, <<>>), ArrayOf(UInt(65), 2), RecordOf(8, <<Item_(1, 0, Int_(0))>>)}
MCDeclarations ==
  {Variable(t) : t \in Small \cup OutOfBounds \cup {Wide}} \cup
  {ProcessData(n, Packed) : n \in {0, 1, 255, 256, 257}}

MCRefs == {[subindex |-> s, format |-> f, button |-> b] :
             s \in {None, 0, 1, 2, 3, 4, 5, 6, 9, 256, 258}, f \in {"None", "Dec", "Hex"}, b \in {FALSE, TRUE}}

Bytes == {0, 1, 90, 128, 255}
Short == {<<>>} \cup {<<a>> : a \in Bytes} \cup {<<a, b>> : a, b \in Bytes} \cup
         {<<a, 90, b>> : a, b \in {1, 127, 255}}
Long == {<<a, b, 0, 255>> : a, b \in Bytes} \cup {<<a, 1, 2, 3, b, 4, 5, 255>> : a, b \in {0, 128}}
Longest == {[i \in 1..36 |-> IF i \in marked THEN 90 ELSE 1] : marked \in {{}, {3}, {4, 36}}}
MCInputs(decl) ==
  IF decl.type.datatype \in {"Float32", "Time", "TimeSpan"} THEN Long \cup {<<>>}
  ELSE IF decl.type = Wide THEN Longest
  ELSE Short \cup (IF decl.type.datatype = "OctetString" THEN {<<1, 2, 3, 4>>} ELSE {})
=============================================================================
