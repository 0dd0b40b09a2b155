---------------------------- MODULE MCValueNames ----------------------------
(***************************************************************************)
(* Variables whose values are named singly, in ranges, in overlapping and  *)
(* in empty ranges, or not at all, and three updates of each datatype.     *)
(***************************************************************************)
EXTENDS ValueNames

Single(v, name) == [value |-> v, name |-> name]
Between(lower, upper, name) == [lower |-> lower, upper |-> upper, name |-> name]
Element(d, singles, between) == [datatype |-> d, singles |-> singles, ranges |-> between]

MCDeclarations ==
  {Element("UInteger", {Single(1, "one")}, {Between(1, 4, "few")}),
   Element("UInteger", {}, {}),
   Element("Integer", {Single(-1, "minus")}, {Between(-2, 1, "around"), Between(0, 3, "above")}),
   Element("Float32", {}, {Between(3, 3, "empty"), Between(4, 2, "reversed")}),
   Element("Boolean", {Single(0, "off"), Single(1, "on")}, {}),
   Element("String", {}, {}), Element("Record", {}, {})}

MCUpdates ==
  {Element(d, {Single(1, "one")}, {Between(1, 4, "few")}) : d \in {"UInteger", "Float32"}} \cup
  {Element("UInteger", {Single(2, "two")}, {Between(2, 6, "many")}),
   Element("Integer", {Single(2, "two")}, {Between(-2, 3, "any")}),
   Element("Boolean", {Single(1, "open")}, {})}

MCAnswerables == -2..5
=============================================================================
