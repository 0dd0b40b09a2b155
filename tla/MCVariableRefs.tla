--------------------------- MODULE MCVariableRefs ---------------------------
(***************************************************************************)
(* Small units, variables and reference elements for VariableRefs.         *)
(***************************************************************************)
EXTENDS VariableRefs, TLC

Number(datatype, n) == [datatype |-> datatype, bits |-> n]
Text(n) == [datatype |-> "String", length |-> n]
RecordItemOf(type, offset) == [type |-> type, offset |-> offset]
Of(type) == [type |-> type, access |-> "ro"]

MCvariables ==
  [V_UInteger |-> Of(Number("UInteger", 32)), V_Integer |-> Of(Number("Integer", 24)),
   V_Float |-> Of([datatype |-> "Float32"]), V_Boolean |-> Of([datatype |-> "Boolean"]),
   V_Text |-> Of(Text(4)),
   V_Array |-> Of([datatype |-> "Array", type |-> Number("UInteger", 16)]),
   V_Record |-> Of([datatype |-> "Record",
     items |-> 1 :> RecordItemOf(Number("UInteger", 32), 0) @@ 2 :> RecordItemOf([datatype |-> "Boolean"], 3)
                 @@ 3 :> RecordItemOf(Text(1), 8)]),
   V_ProcessDataOutput |-> Of(None)]

\* One byte; 2^24, the numbers around it in either byte order, and -2^23 + 1.
MCInputs == {<<5>>, <<200>>, <<0, 0, 0, 1>>, <<1, 0, 0, 1>>, <<2, 0, 0, 1>>, <<3, 0, 0, 1>>,
             <<1, 0, 0, 2>>, <<1, 0, 0, 3>>, <<1, 0, 128>>}

Unit1(code, abbr) == [code |-> code, abbr |-> abbr, text |-> "text"]
Units == <<Unit1(1, "m"), Unit1(2, "s"), Unit1(1, "km"), Unit1(65538, "ms")>>
OddUnits == {<<>>, <<Unit1(1, "m"), Unit1(None, "s")>>, <<Unit1(2, None)>>,
             <<[Unit1(2, "s") EXCEPT !.text = "broken"]>>}

Plain(id, subindex) ==
  [element |-> IF subindex = None THEN "VariableRef" ELSE "RecordItemRef",
   variableId |-> id, subindex |-> subindex, button |-> None, gradient |-> None, offset |-> None,
   unitCode |-> None, displayFormat |-> None, access |-> None]
PlainRefs == {Plain(id, subindex) : id \in DOMAIN MCvariables, subindex \in {None, 1, 2, 258, 3}}

Button == [description |-> None, message |-> None]
Buttons == {[plain EXCEPT !.button = Button] : plain \in PlainRefs}
\* The last offset, 2^24 + 1, is no float.
FormattedRefs == {[plain EXCEPT !.displayFormat = format, !.gradient = gradient, !.offset = offset] :
                   plain \in PlainRefs, format \in {None, "Dec", "Dec.0", "Dec.9", "Bin", "Hex"},
                   gradient \in {None, 2, -1}, offset \in {None, 1, 16777217}}
Base == Plain("V_UInteger", None)
OddRefs == {[Base EXCEPT !.displayFormat = "Oct"], [Base EXCEPT !.variableId = "V_Unknown"],
            [Base EXCEPT !.variableId = None], [Base EXCEPT !.element = "RecordItemRef"],
            [Base EXCEPT !.button = [Button EXCEPT !.description = "broken"]],
            [Base EXCEPT !.button = [Button EXCEPT !.message = "broken"]],
            [Base EXCEPT !.access = "rw"], [Base EXCEPT !.access = "malformed"],
            [Base EXCEPT !.access = "rw", !.button = Button]}
UnitRefs == {[Base EXCEPT !.unitCode = code] : code \in {None, 1, 2, 3, 65537}}

MCDocuments ==
  [units : {<<>>}, ref : Buttons \cup FormattedRefs \cup OddRefs]
    \cup [units : {Units} \cup OddUnits, ref : UnitRefs]
=============================================================================
