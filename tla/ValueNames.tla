----------------------------- MODULE ValueNames -----------------------------
(***************************************************************************)
(* The names of a variable's values.  A datatype object holds pointers to  *)
(* the SingleValue and ValueRange objects of the element it was decoded    *)
(* from; every StdVariableRef that updates the variable decodes an element *)
(* of its own and expands the object with the pointers of that one.  Both  *)
(* are kept in an unordered_set of shared_ptr: equal pointers are equal,   *)
(* not equal values, and an insertion may leave any order of iteration.    *)
(*                                                                         *)
(* In between clients ask for names: of the datatype object, or of the     *)
(* variable.  The module Loader has the values an object names as a set.   *)
(***************************************************************************)
EXTENDS Datatypes, Integers, Sequences, FiniteSets

CONSTANTS
  None,          \* no object
  Declarations,  \* elements a variable is declared with
  Updates,       \* elements of StdVariableRefs
  Answerables,   \* values a client asks for
  MaxUpdates     \* bound: references that update the variable

ASSUME UpdatesAssumption == MaxUpdates \in Nat

VARIABLES
  documents,      \* the elements decoded so far, the variable's own first
  values,         \* values_: pointers to SingleValues
  ranges,         \* ranges_: pointers to ValueRanges, in the order of iteration
  asked, answer   \* the last call of a client, and its result

vars == <<documents, values, ranges, asked, answer>>

datatype == documents[1].datatype

---------------------------------------------------------------------------
(* Decoding. *)

\* A pointer to the object that the n-th decoded element has for a child of its own.
Ptr(n, child) == [by |-> n, child |-> child]

firstElements(n, element) == {Ptr(1, child) : child \in element.ranges}  \* fault: shared
decodeSingleValues(n, element) == {Ptr(n, child) : child \in element.singles}
decodeValueRanges(n, element) == {Ptr(n, child) : child \in element.ranges}

\* The orders in which an unordered_set is iterated.
Orders(S) == {s \in [1..Cardinality(S) -> S] : \A p \in S : \E i \in 1..Cardinality(S) : s[i] = p}

Init ==
  /\ \E element \in Declarations :
       /\ documents = <<element>>
       /\ values = decodeSingleValues(1, element)
       /\ ranges \in Orders(decodeValueRanges(1, element))
  /\ asked = None /\ answer = None

Held(order) == {order[i] : i \in DOMAIN order}

\* NumberT::expand and BooleanT::expand insert what find does not find.
assign(old, new) == new  \* fault: the update's names replace the others
insertNew(old, new) == old \cup {p \in new : p \notin old}

\* getUpdatedValues decodes an update as the variable's own datatype, Boolean or a
\* number.
IsExpandable == isNumericData(datatype) \/ datatype = "Boolean"

Expand ==
  /\ Len(documents) <= MaxUpdates /\ IsExpandable
  /\ \E element \in Updates :
       LET n == Len(documents) + 1
       IN /\ element.datatype = datatype
          /\ documents' = Append(documents, element)
          /\ values' = insertNew(values, decodeSingleValues(n, element))
          /\ ranges' \in Orders(insertNew(Held(ranges), decodeValueRanges(n, element)))
  /\ asked' = None /\ answer' = None

---------------------------------------------------------------------------
(* Lookups. *)

inBounds(range, v) == v >= range.lower /\ v <= range.upper  \* fault: bounds included
inRange(range, v) == v > range.lower /\ v < range.upper

Throws(exception) == [throws |-> exception]

\* getName makes a SingleValue of the value and looks for the pointer to it.
getName(v) ==
  LET key == Ptr(0, [value |-> v, name |-> None])
      Matches == {i \in DOMAIN ranges : inRange(ranges[i].child, v)}
  IN IF key \in values THEN key
     ELSE IF Matches = {} THEN Throws("out_of_range")
     ELSE ranges[CHOOSE i \in Matches : \A j \in Matches : i <= j]

\* The values of a bool and of an unsigned integer.
IsOwn(v) == (datatype = "Boolean" => v \in 0..1) /\ (datatype = "UInteger" => v >= 0)

\* A client that has the datatype object asks it; the value has the type of the object.
GetName ==
  /\ IsExpandable
  /\ \E v \in Answerables :
       /\ IsOwn(v)
       /\ asked' = [of |-> "object", v |-> v] /\ answer' = getName(v)
  /\ UNCHANGED <<documents, values, ranges>>

\* getValueName for a value of the same type as the variable's or of another.
getValueName(v, isSameType) ==
  IF datatype = "Boolean"
  THEN IF isSameType THEN getName(v) ELSE Throws("invalid_argument")
  ELSE Throws("logic_error")

\* Variable::valueName, of the variable or of a reference to it.
ValueName ==
  /\ \E v \in Answerables, isSameType \in BOOLEAN :
       /\ isSameType => IsOwn(v)
       /\ asked' = [of |-> "variable", v |-> v] /\ answer' = getValueName(v, isSameType)
  /\ UNCHANGED <<documents, values, ranges>>

Next == Expand \/ GetName \/ ValueName

Spec == Init /\ [][Next]_vars

---------------------------------------------------------------------------
(* Properties. *)

Decoded == 1..Len(documents)

\* Types; every pointer was made for an element decoded so far.
TypeOK ==
  /\ documents \in Seq(Declarations \cup Updates)
  /\ Len(documents) \in 1..MaxUpdates + 1
  /\ \A p \in values : p \in [by : Decoded, child : documents[p.by].singles]
  /\ \A p \in Held(ranges) : p \in [by : Decoded, child : documents[p.by].ranges]

Children(pointers) == {p.child : p \in pointers}

\* However the sets are iterated, an object names what its declaration and the updates
\* name, nothing less and nothing more.
ContentIsUnion ==
  /\ Children(values) = UNION {documents[n].singles : n \in Decoded}
  /\ Children(Held(ranges)) = UNION {documents[n].ranges : n \in Decoded}

\* A name that is answered is that of a range strictly around the value, and a value is
\* refused only if no element decoded so far has such a range.
AnswersFit ==
  asked # None /\ asked.of = "object" =>
    LET Strictly(range) == range.lower < asked.v /\ asked.v < range.upper
        Fitting == {r \in UNION {documents[n].ranges : n \in Decoded} : Strictly(r)}
    IN IF answer = Throws("out_of_range") THEN Fitting = {} ELSE answer.child \in Fitting

\* "value has no assigned named": a value is refused only if no element has a
\* SingleValue for it.
NamedValuesAreFound ==
  asked # None /\ asked.of = "object" /\ answer = Throws("out_of_range") =>
    \A n \in Decoded : \A single \in documents[n].singles : single.value # asked.v

\* "does not support named value attribute lookup": this is said of no datatype that
\* getValueName has a specialisation for.
SupportedTypesAreLookedUp ==
  asked # None /\ asked.of = "variable" /\ answer = Throws("logic_error") => ~IsExpandable
=============================================================================
