-------------------------- MODULE ValueNamesProofs --------------------------
(***************************************************************************)
(* What a datatype object names, proved for all declarations, updates and  *)
(* orders of iteration.                                                    *)
(***************************************************************************)
EXTENDS ValueNames, WellFoundedInduction, TLAPS

\* Every non-empty set of naturals has a least element.
LEMMA LeastElement ==
  ASSUME NEW S \in SUBSET Nat, S # {}
  PROVE  \E m \in S : \A n \in S : m <= n
<1> DEFINE R == {ss \in Nat \X Nat : ss[1] < ss[2]}
<1>1. IsWellFoundedOn(R, Nat) BY NatLessThanWellFounded DEF OpToRel
<1>2. PICK m \in S : \A n \in S : ~(<<n, m>> \in R)
  <2> HIDE DEF R
  <2> QED BY <1>1, WFMin
<1>3. \A n \in S : ~(n < m) BY <1>2
<1> QED BY <1>3

\* Every order of iteration visits every pointer.
LEMMA OrdersHold == ASSUME NEW S, NEW order \in Orders(S) PROVE Held(order) = S
  BY DEF Orders, Held

\* Insertion keeps what is there and adds what is new.
LEMMA InsertionAdds == ASSUME NEW old, NEW new PROVE insertNew(old, new) = old \cup new
  BY DEF insertNew

LEMMA InitTypeOK == Init => TypeOK
<1> SUFFICES ASSUME Init PROVE TypeOK
  OBVIOUS
<1>1. PICK element \in Declarations :
        /\ documents = <<element>>
        /\ values = decodeSingleValues(1, element)
        /\ ranges \in Orders(decodeValueRanges(1, element))
  BY DEF Init
<1>2. documents \in Seq(Declarations \cup Updates) /\ Len(documents) = 1 /\ documents[1] = element
  BY <1>1
<1>3. Held(ranges) = decodeValueRanges(1, element)
  BY <1>1, OrdersHold
<1> QED
  BY <1>1, <1>2, <1>3, UpdatesAssumption
     DEF TypeOK, Decoded, decodeSingleValues, decodeValueRanges, Ptr

\* What one update does to the history, the values and the ranges.
LEMMA ExpandGrows ==
  ASSUME TypeOK, Expand
  PROVE  \E element \in Updates :
           /\ documents' \in Seq(Declarations \cup Updates)
           /\ Len(documents') = Len(documents) + 1
           /\ Len(documents) <= MaxUpdates
           /\ \A n \in Decoded : documents'[n] = documents[n]
           /\ documents'[Len(documents) + 1] = element
           /\ values' = values \cup decodeSingleValues(Len(documents) + 1, element)
           /\ Held(ranges)' = Held(ranges) \cup decodeValueRanges(Len(documents) + 1, element)
<1>1. PICK element \in Updates :
        /\ documents' = Append(documents, element)
        /\ values' = insertNew(values, decodeSingleValues(Len(documents) + 1, element))
        /\ ranges' \in Orders(insertNew(Held(ranges), decodeValueRanges(Len(documents) + 1, element)))
  BY DEF Expand
<1>2. documents \in Seq(Declarations \cup Updates) /\ Len(documents) <= MaxUpdates
  BY DEF TypeOK, Expand
<1>3. Held(ranges') = insertNew(Held(ranges), decodeValueRanges(Len(documents) + 1, element))
  BY <1>1, OrdersHold
<1>4. Held(ranges)' = Held(ranges')
  BY DEF Held
<1> QED
  BY <1>1, <1>2, <1>3, <1>4, InsertionAdds DEF Decoded

LEMMA NextTypeOK == TypeOK /\ [Next]_vars => TypeOK'
<1> SUFFICES ASSUME TypeOK, [Next]_vars PROVE TypeOK'
  OBVIOUS
<1>1. CASE Expand
  <2>1. PICK element \in Updates :
          /\ documents' \in Seq(Declarations \cup Updates)
          /\ Len(documents') = Len(documents) + 1
          /\ Len(documents) <= MaxUpdates
          /\ \A n \in Decoded : documents'[n] = documents[n]
          /\ documents'[Len(documents) + 1] = element
          /\ values' = values \cup decodeSingleValues(Len(documents) + 1, element)
          /\ Held(ranges)' = Held(ranges) \cup decodeValueRanges(Len(documents) + 1, element)
    BY <1>1, ExpandGrows
  <2>2. Len(documents) \in Nat \ {0}
    BY DEF TypeOK
  <2>3. Len(documents') \in 1..MaxUpdates + 1
    BY <2>1, <2>2, UpdatesAssumption
  <2>4. \A p \in values' : p \in [by : Decoded', child : documents'[p.by].singles]
    <3> TAKE p \in values'
    <3>1. CASE p \in values
      BY <3>1, <2>1, <2>2 DEF TypeOK, Decoded
    <3>2. CASE p \in decodeSingleValues(Len(documents) + 1, element)
      BY <3>2, <2>1, <2>2 DEF decodeSingleValues, Ptr, Decoded
    <3> QED
      BY <3>1, <3>2, <2>1
  <2>5. \A p \in Held(ranges)' : p \in [by : Decoded', child : documents'[p.by].ranges]
    <3> TAKE p \in Held(ranges)'
    <3>1. CASE p \in Held(ranges)
      BY <3>1, <2>1, <2>2 DEF TypeOK, Decoded
    <3>2. CASE p \in decodeValueRanges(Len(documents) + 1, element)
      BY <3>2, <2>1, <2>2 DEF decodeValueRanges, Ptr, Decoded
    <3> QED
      BY <3>1, <3>2, <2>1
  <2> QED
    BY <2>1, <2>3, <2>4, <2>5 DEF TypeOK
<1>2. CASE GetName \/ ValueName \/ UNCHANGED vars
  BY <1>2 DEF GetName, ValueName, vars, TypeOK, Decoded, Held
<1> QED
  BY <1>1, <1>2 DEF Next

\* Types; every pointer was made for an element decoded so far.
THEOREM TypeCorrect == Spec => []TypeOK
<1> QED
  BY InitTypeOK, NextTypeOK, PTL DEF Spec

---------------------------------------------------------------------------
\* The pointers that decoding makes point to the children of the element.
LEMMA DecodedChildren ==
  ASSUME NEW n, NEW element
  PROVE  /\ Children(decodeSingleValues(n, element)) = element.singles
         /\ Children(decodeValueRanges(n, element)) = element.ranges
<1>1. ASSUME NEW S PROVE Children({Ptr(n, child) : child \in S}) = S
  <2> DEFINE P == {Ptr(n, child) : child \in S}
  <2>1. ASSUME NEW c \in S PROVE \E p \in P : p.child = c
    <3>1. Ptr(n, c) \in P /\ Ptr(n, c).child = c
      BY DEF Ptr
    <3> QED
      BY <3>1
  <2>2. ASSUME NEW p \in P PROVE p.child \in S
    BY DEF Ptr
  <2> HIDE DEF P
  <2>3. Children(P) = S
    BY <2>1, <2>2 DEF Children
  <2> QED
    BY <2>3 DEF P
<1> QED
  BY <1>1 DEF decodeSingleValues, decodeValueRanges

LEMMA ChildrenOfUnion == ASSUME NEW P, NEW Q PROVE Children(P \cup Q) = Children(P) \cup Children(Q)
  BY DEF Children

LEMMA InitContent == Init => ContentIsUnion
<1> SUFFICES ASSUME Init PROVE ContentIsUnion
  OBVIOUS
<1>1. PICK element \in Declarations :
        /\ documents = <<element>>
        /\ values = decodeSingleValues(1, element)
        /\ ranges \in Orders(decodeValueRanges(1, element))
  BY DEF Init
<1>2. Held(ranges) = decodeValueRanges(1, element)
  BY <1>1, OrdersHold
<1>3. Decoded = {1} /\ documents[1] = element
  BY <1>1 DEF Decoded
<1>4. Children(values) = element.singles /\ Children(Held(ranges)) = element.ranges
  BY <1>1, <1>2, DecodedChildren
<1>5. /\ UNION {documents[n].singles : n \in {1}} = documents[1].singles
      /\ UNION {documents[n].ranges : n \in {1}} = documents[1].ranges
  OBVIOUS
<1> QED
  BY <1>3, <1>4, <1>5 DEF ContentIsUnion

LEMMA NextContent == TypeOK /\ ContentIsUnion /\ [Next]_vars => ContentIsUnion'
<1> SUFFICES ASSUME TypeOK, ContentIsUnion, [Next]_vars PROVE ContentIsUnion'
  OBVIOUS
<1>1. CASE Expand
  <2>1. PICK element \in Updates :
          /\ Len(documents') = Len(documents) + 1
          /\ \A n \in Decoded : documents'[n] = documents[n]
          /\ documents'[Len(documents) + 1] = element
          /\ values' = values \cup decodeSingleValues(Len(documents) + 1, element)
          /\ Held(ranges)' = Held(ranges) \cup decodeValueRanges(Len(documents) + 1, element)
    BY <1>1, ExpandGrows
  <2>2. Decoded' = Decoded \cup {Len(documents) + 1}
    BY <2>1 DEF Decoded, TypeOK
  <2>3. (UNION {documents[n].singles : n \in Decoded})' =
          (UNION {documents[n].singles : n \in Decoded}) \cup element.singles
    BY <2>1, <2>2
  <2>4. (UNION {documents[n].ranges : n \in Decoded})' =
          (UNION {documents[n].ranges : n \in Decoded}) \cup element.ranges
    BY <2>1, <2>2
  <2>5. Children(values)' = Children(values) \cup element.singles
    BY <2>1, DecodedChildren, ChildrenOfUnion
  <2>6. Children(Held(ranges))' = Children(Held(ranges)) \cup element.ranges
    BY <2>1, DecodedChildren, ChildrenOfUnion
  <2> QED
    BY <2>3, <2>4, <2>5, <2>6 DEF ContentIsUnion
<1>2. CASE GetName \/ ValueName \/ UNCHANGED vars
  BY <1>2 DEF GetName, ValueName, vars, ContentIsUnion, Decoded, Held
<1> QED
  BY <1>1, <1>2 DEF Next

\* An object names exactly what its declaration and the updates decoded so far name.
THEOREM ContentCorrect == Spec => []ContentIsUnion
<1> QED
  BY InitTypeOK, NextTypeOK, InitContent, NextContent, PTL DEF Spec

---------------------------------------------------------------------------
(* What a lookup answers. *)

\* Ranges are numbered in the order of iteration.
Numbered == DOMAIN ranges \in SUBSET Nat

LEMMA NumberedStep == (Init => Numbered) /\ (Numbered /\ [Next]_vars => Numbered')
<1>1. ASSUME NEW S, NEW order \in Orders(S) PROVE DOMAIN order \in SUBSET Nat
  <2>1. DOMAIN order = 1..Cardinality(S) BY DEF Orders
  <2> QED BY <2>1
<1>2. ASSUME Init PROVE Numbered BY <1>1, <1>2 DEF Init, Numbered
<1>3. ASSUME Numbered, [Next]_vars PROVE Numbered'
  <2>1. CASE Expand BY <1>1, <2>1 DEF Expand, Numbered
  <2>2. CASE GetName \/ ValueName \/ UNCHANGED vars
    BY <1>3, <2>2 DEF GetName, ValueName, vars, Numbered
  <2> QED BY <1>3, <2>1, <2>2 DEF Next
<1> QED BY <1>2, <1>3

\* No object holds the pointer that getName makes, so it answers the first range in the
\* order of iteration that is around the value.
LEMMA LookupFits ==
  ASSUME TypeOK, Numbered, NEW v
  PROVE  LET Fitting == {i \in DOMAIN ranges : inRange(ranges[i].child, v)}
         IN IF Fitting = {} THEN getName(v) = Throws("out_of_range")
            ELSE \E i \in Fitting : getName(v) = ranges[i]
<1> DEFINE key == Ptr(0, [value |-> v, name |-> None])
           Matches == {i \in DOMAIN ranges : inRange(ranges[i].child, v)}
           first == CHOOSE i \in Matches : \A j \in Matches : i <= j
<1>1. key \notin values
  <2>1. key.by = 0 BY DEF Ptr
  <2>2. \A p \in values : p.by \in 1..Len(documents) BY DEF TypeOK, Decoded
  <2> QED BY <2>1, <2>2
<1>2. getName(v) = IF Matches = {} THEN Throws("out_of_range") ELSE ranges[first]
  BY <1>1 DEF getName
<1>3. Matches # {} => first \in Matches
  <2>1. Matches \in SUBSET Nat BY DEF Numbered
  <2> HIDE DEF Matches
  <2> QED BY <2>1, LeastElement
<1> QED BY <1>2, <1>3

LEMMA NextAnswers == TypeOK /\ Numbered /\ ContentIsUnion /\ AnswersFit /\ [Next]_vars => AnswersFit'
<1> SUFFICES ASSUME TypeOK, Numbered, ContentIsUnion, AnswersFit, [Next]_vars PROVE AnswersFit'
  OBVIOUS
<1>1. CASE GetName
  <2>1. PICK v \in Answerables :
          /\ asked' = [of |-> "object", v |-> v] /\ answer' = getName(v)
          /\ UNCHANGED <<documents, values, ranges>>
    BY <1>1 DEF GetName
  <2> DEFINE All == UNION {documents[n].ranges : n \in Decoded}
             Fitting == {r \in All : r.lower < v /\ v < r.upper}
  <2>2. All = Children(Held(ranges)) BY DEF ContentIsUnion
  <2>3. \A r \in All : \E i \in DOMAIN ranges : r = ranges[i].child
    BY <2>2 DEF Children, Held
  <2>4. \A i \in DOMAIN ranges : ranges[i].child \in All
    BY <2>2 DEF Children, Held
  <2>5. \A i \in DOMAIN ranges : ranges[i] # Throws("out_of_range")
    BY DEF TypeOK, Held, Throws
  <2> HIDE DEF All
  <2>6. IF getName(v) = Throws("out_of_range") THEN Fitting = {} ELSE getName(v).child \in Fitting
    <3> DEFINE Matches == {i \in DOMAIN ranges : inRange(ranges[i].child, v)}
    <3>1. CASE Matches = {}
      <4>1. getName(v) = Throws("out_of_range") BY <3>1, LookupFits
      <4>2. Fitting = {} BY <3>1, <2>3 DEF inRange
      <4> QED BY <4>1, <4>2
    <3>2. CASE Matches # {}
      <4>1. PICK i \in Matches : getName(v) = ranges[i] BY <3>2, LookupFits
      <4>2. ranges[i].child \in Fitting BY <2>4 DEF inRange
      <4> QED BY <4>1, <4>2, <2>5
    <3> QED BY <3>1, <3>2
  <2>7. documents' = documents /\ asked'.v = v /\ answer' = getName(v) BY <2>1
  <2> QED BY <2>6, <2>7 DEF AnswersFit, All, Decoded, Throws
<1>2. CASE Expand BY <1>2 DEF Expand, AnswersFit
<1>3. CASE ValueName BY <1>3 DEF ValueName, AnswersFit
<1>4. CASE UNCHANGED vars BY <1>4 DEF vars, AnswersFit, Decoded
<1> QED BY <1>1, <1>2, <1>3, <1>4 DEF Next

\* A name that is answered is that of a range strictly around the value, in every order
\* of iteration; a value is refused only if there is none.
THEOREM AnswersCorrect == Spec => []AnswersFit
<1> DEFINE AInv == TypeOK /\ Numbered /\ ContentIsUnion /\ AnswersFit
<1>1. Init => AInv
  BY InitTypeOK, NumberedStep, InitContent DEF Init, AnswersFit
<1>2. AInv /\ [Next]_vars => AInv'
  BY NextTypeOK, NumberedStep, NextContent, NextAnswers
<1>3. AInv => AnswersFit OBVIOUS
<1> QED BY <1>1, <1>2, <1>3, PTL DEF Spec
=============================================================================
