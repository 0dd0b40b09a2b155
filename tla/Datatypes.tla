----------------------------- MODULE Datatypes -----------------------------
(***************************************************************************)
(* The IO-Link datatypes (includes/Model/Datatypes/SimpleDataTypes.hpp)    *)
(* and the predicates that classify them by the numeric value of their     *)
(* enumerator (sources/Model/Datatypes/SimpleDataTypes.cpp).  The decoders *)
(* dispatch on these predicates, so the codes and the order in which the   *)
(* predicates are tried are part of the behaviour.                         *)
(***************************************************************************)
EXTENDS Naturals

SimpleDatatypes == {"UInteger", "Integer", "Float32", "Boolean",
                    "String", "OctetString", "Time", "TimeSpan"}
ComplexDatatypes == {"Array", "Record"}
ProcessDatatypes == {"ProcessDataIn", "ProcessDataOut"}
Datatype == SimpleDatatypes \cup ComplexDatatypes \cup ProcessDatatypes

Code == [UInteger |-> 0, Integer |-> 1, Float32 |-> 2, Boolean |-> 3,
         String |-> 4, OctetString |-> 5, Time |-> 6, TimeSpan |-> 7,
         Array |-> 10, Record |-> 20, ProcessDataIn |-> 30, ProcessDataOut |-> 31]

isNumericData(type) == Code[type] < Code["Boolean"]
isSimpleData(type) == Code[type] < Code["Array"]
isComplexData(type) == ~isSimpleData(type) /\ Code[type] < Code["ProcessDataIn"]
isNumericComplexData(type) == isComplexData(type) /\ Code[type] % 10 < Code["Boolean"]
isArray(type) == isComplexData(type) /\ Code[type] < Code["Record"]
\* True of an Array too: decodeDataValue asks isArray first.
isRecord(type) == isComplexData(type) /\ Code[type] < Code["ProcessDataIn"]
isProcessData(type) == Code[type] >= Code["ProcessDataIn"]
=============================================================================
