--------------------------- MODULE LoaderProofs ---------------------------
(***************************************************************************)
(* Proofs about Loader for every directory, every set of documents and     *)
(* every order in which the file system lists them, and the lemmas about   *)
(* the pure decoders of IODDDocument that all proofs about it share.       *)
(***************************************************************************)
EXTENDS Loader, Integers, WellFoundedInduction, TLAPS

---------------------------------------------------------------------------
(* What the pure decoders of IODDDocument return, for every document. *)

\* Every non-empty set of naturals has a least element.
LEMMA LeastElement ==
  ASSUME NEW S \in SUBSET Nat, S # {}
  PROVE  \E m \in S : \A n \in S : m <= n
<1> DEFINE R == {ss \in Nat \X Nat : ss[1] < ss[2]}
<1>1. IsWellFoundedOn(R, Nat) BY NatLessThanWellFounded DEF OpToRel
<1>2. PICK m \in S : \A n \in S : ~(<<n, m>> \in R)
  <2> HIDE DEF R
  <2> QED BY <1>1, WFMin
<1>3. \A n \in S : ~(n < m) BY <1>2
<1> QED BY <1>3

\* First returns the position of the first declaration of an id that is declared.
LEMMA FirstIsDeclared ==
  ASSUME NEW S, NEW decls \in Seq(S), NEW id \in Ids(decls)
  PROVE  /\ First(decls, id) \in DOMAIN decls
         /\ decls[First(decls, id)].id = id
         /\ decls[First(decls, id)] \in S
<1> DEFINE I == {i \in DOMAIN decls : decls[i].id = id}
<1>1. I \in SUBSET Nat /\ I # {} BY DEF Ids
<1>2. PICK m \in I : \A n \in I : m <= n BY <1>1, LeastElement
<1>3. m \in DOMAIN decls /\ decls[m].id = id /\ \A j \in DOMAIN decls : decls[j].id = id => m <= j
  BY <1>2
<1>4. /\ First(decls, id) \in DOMAIN decls
      /\ decls[First(decls, id)].id = id
  BY <1>3 DEF First
<1> QED BY <1>4

\* A datatype whose code is below those of process data is simple or complex.
LEMMA NotProcessData ==
  ASSUME NEW type \in Datatype, ~isProcessData(type)
  PROVE  type \in SimpleDatatypes \cup ComplexDatatypes
BY DEF Datatype, ProcessDatatypes, isProcessData, Code

\* decodeDataValue returns an object at the location it is given.
LEMMA DecodedDataValueType ==
  ASSUME NEW decl \in TypeDecl, NEW loc \in Loc, NEW types, DatatypesMap(types),
         DecodesDataValue(decl, types)
  PROVE  DecodedDataValue(decl, loc, types) \in DataValue
<1>1. decl.type \in SimpleDatatypes \cup ComplexDatatypes
  BY NotProcessData DEF DecodesDataValue, TypeDecl
<1>2. {types[i].loc : i \in decl.items \cap DOMAIN types} \subseteq Loc
  BY DEF DatatypesMap, DataValue
<1> QED BY <1>1, <1>2 DEF DecodedDataValue, DataValue

\* decodeDatatypes maps every declared id to a datatype object of the standard
\* definitions.
LEMMA StdDatatypesType ==
  ASSUME NEW std \in StdDoc, StdDecodable(std)
  PROVE  DatatypesMap(StdDatatypes(std))
<1> DEFINE entries == std.datatypes
           Value(id) == DecodedDataValue(entries[First(entries, id)].decl,
                                         <<Std, "type", id>>, NoDatatypes)
<1>1. entries \in Seq(TypeEntry) BY DEF StdDoc
<1>2. DatatypesMap(NoDatatypes) BY DEF DatatypesMap, NoDatatypes
<1>3. ASSUME NEW id \in Ids(entries) PROVE id \in TypeIds /\ Value(id) \in DataValue
  <2>1. First(entries, id) \in DOMAIN entries /\ entries[First(entries, id)] \in TypeEntry
        /\ entries[First(entries, id)].id = id
    BY <1>1, FirstIsDeclared
  <2>2. id \in TypeIds /\ entries[First(entries, id)].decl \in TypeDecl
    BY <2>1 DEF TypeEntry
  <2>3. DecodesDataValue(entries[First(entries, id)].decl, NoDatatypes)
    BY <2>1 DEF StdDecodable
  <2>4. <<Std, "type", id>> \in Loc BY <2>2 DEF Loc
  <2> QED BY <1>2, <2>2, <2>3, <2>4, DecodedDataValueType
<1>4. StdDatatypes(std) = [id \in Ids(entries) |-> Value(id)]
  BY DEF StdDatatypes, decodeDatatypes
<1> QED BY <1>3, <1>4 DEF DatatypesMap

\* decodeVariables maps exactly the declared ids, each to a variable.
LEMMA DecodeVariablesType ==
  ASSUME NEW decls \in Seq(VariableDecl), NEW origin \in {Std} \cup Paths,
         NEW types, DatatypesMap(types),
         \A i \in DOMAIN decls : DecodesVariable(decls[i], types)
  PROVE  /\ VariablesMap(decodeVariables(decls, origin, types))
         /\ DOMAIN decodeVariables(decls, origin, types) = Ids(decls)
<1> DEFINE Value(id) == DecodedVariable(decls[First(decls, id)], origin, types)
<1>1. ASSUME NEW id \in Ids(decls) PROVE id \in VarIds /\ Value(id) \in Variable
  <2> DEFINE v == decls[First(decls, id)]
             loc == <<origin, "variable", v.id>>
  <2>1. First(decls, id) \in DOMAIN decls /\ v \in VariableDecl /\ v.id = id
    BY FirstIsDeclared
  <2>2. id \in VarIds /\ v.excluded \in BOOLEAN /\ v.decl \in TypeDecl
    BY <2>1 DEF VariableDecl
  <2>3. DecodesVariable(v, types) BY <2>1
  <2>4. loc \in Loc BY <2>1, <2>2 DEF Loc
  <2>5. Value(id).value \in DataValue \cup {None}
    <3>1. CASE v.decl.kind = "reference"
      <4>1. v.decl.ref \in DOMAIN types
        BY <2>3, <3>1 DEF DecodesVariable, DecodesDataValue
      <4>2. Value(id).value = types[v.decl.ref] BY <3>1 DEF DecodedVariable
      <4> QED BY <4>1, <4>2 DEF DatatypesMap
    <3>2. CASE v.decl.kind # "reference" /\ isProcessData(v.decl.type)
      BY <3>2 DEF DecodedVariable
    <3>3. CASE v.decl.kind # "reference" /\ ~isProcessData(v.decl.type)
      <4>1. DecodesDataValue(v.decl, types) BY <2>3, <3>3 DEF DecodesVariable
      <4>2. DecodedDataValue(v.decl, loc, types) \in DataValue
        BY <2>2, <2>4, <4>1, DecodedDataValueType
      <4>3. Value(id).value = DecodedDataValue(v.decl, loc, types)
        BY <3>3 DEF DecodedVariable
      <4> QED BY <4>2, <4>3
    <3> QED BY <3>1, <3>2, <3>3
  <2>6. Value(id) = [value |-> Value(id).value, processData |-> None,
                     default |-> None, excluded |-> v.excluded]
    BY DEF DecodedVariable
  <2> QED BY <2>2, <2>5, <2>6 DEF Variable
<1>2. decodeVariables(decls, origin, types) = [id \in Ids(decls) |-> Value(id)]
  BY DEF decodeVariables
<1> QED BY <1>1, <1>2 DEF VariablesMap

\* The standard variables are typed, one for each declared id.
LEMMA StdVariablesType ==
  ASSUME NEW std \in StdDoc, StdDecodable(std)
  PROVE  /\ VariablesMap(StdVariables(std))
         /\ DOMAIN StdVariables(std) = Ids(std.variables)
<1>1. DatatypesMap(StdDatatypes(std)) BY StdDatatypesType
<1>2. std.variables \in Seq(VariableDecl) BY DEF StdDoc
<1>3. \A i \in DOMAIN std.variables : DecodesVariable(std.variables[i], StdDatatypes(std))
  BY DEF StdDecodable
<1> QED BY <1>1, <1>2, <1>3, DecodeVariablesType DEF StdVariables

---------------------------------------------------------------------------
(* The inductive invariant. *)

\* Until the standard definitions are decoded no entry has been looked at; the
\* definitions in use are those decoded from the disk.
StdInv ==
  /\ stage \in {"units", "std"} => pending = Paths
  /\ stage \notin {"units", "std", "failed"} =>
       /\ datatypes = StdDatatypes(disk.std)
       /\ stdVariables = StdVariables(disk.std)

\* After decodeStdVariables every StdVariableRef of the open document has been
\* decoded; makeRepository returns only when no entry is left.
PosInv == stage \in FileStages \ {"stdRefs"} => pos \notin DOMAIN doc.stdRefs
ReadyInv == stage = "ready" => pending = {}

IInv == TypeOK /\ StdInv /\ PosInv /\ ReadyInv /\ NamesAreExpansions

---------------------------------------------------------------------------
(* Typing. *)

LEMMA OpenDocumentType ==
  ASSUME TypeOK, stage \in FileStages
  PROVE  file \in Paths /\ doc \in DeviceDoc
BY DeviceDocsAssumption DEF TypeOK, Documents, Disk, doc

LEMMA StdDocType ==
  ASSUME TypeOK
  PROVE  disk.std \in StdDoc
BY StdDocsAssumption DEF TypeOK, Disk

LEMMA InsertType ==
  ASSUME NEW map, VariablesMap(map), NEW more, VariablesMap(more)
  PROVE  VariablesMap(insert(map, more))
BY DEF VariablesMap, insert

LEMMA EmplaceType ==
  ASSUME NEW map, VariablesMap(map), NEW key \in VarIds, NEW value \in Variable
  PROVE  VariablesMap(emplace(map, key, value))
<1>1. VariablesMap([k \in {key} |-> value]) BY DEF VariablesMap
<1> QED BY <1>1, InsertType DEF emplace

LEMMA DeclaredType ==
  ASSUME NEW std, NEW loc, std \in StdDoc
  PROVE  Declared(std, loc) \in SUBSET NamedValue
<1>1. CASE loc[3] \in Ids(std.datatypes) /\ loc[2] = "type"
  <2>1. std.datatypes[First(std.datatypes, loc[3])] \in TypeEntry
    BY <1>1, FirstIsDeclared DEF StdDoc
  <2>2. std.datatypes[First(std.datatypes, loc[3])].decl.names \in SUBSET Values
    BY <2>1 DEF TypeEntry, TypeDecl
  <2> QED BY <1>1, <2>2 DEF Declared, NamedValue
<1>2. CASE loc[3] \in Ids(std.variables) /\ loc[2] # "type"
  <2>1. std.variables[First(std.variables, loc[3])] \in VariableDecl
    BY <1>2, FirstIsDeclared DEF StdDoc
  <2>2. std.variables[First(std.variables, loc[3])].decl.names \in SUBSET Values
    BY <2>1 DEF VariableDecl, TypeDecl
  <2> QED BY <1>2, <2>2 DEF Declared, NamedValue
<1> QED BY <1>1, <1>2 DEF Declared

LEMMA InitType == Init => TypeOK
BY DEF Init, TypeOK, Empty, Stages, FileStages, DatatypesMap, VariablesMap

LEMMA DecodeStdDefinitionsType ==
  ASSUME TypeOK, decodeStdDefinitions
  PROVE  TypeOK'
<1>1. disk.std \in StdDoc BY StdDocType
<1>2. DatatypesMap(datatypes') BY <1>1, StdDatatypesType DEF decodeStdDefinitions
<1>3. VariablesMap(stdVariables') BY <1>1, StdVariablesType DEF decodeStdDefinitions
<1>4. names' \in [StdLoc -> SUBSET NamedValue]
  BY <1>1, DeclaredType DEF decodeStdDefinitions
<1> QED
  BY <1>2, <1>3, <1>4 DEF TypeOK, decodeStdDefinitions, fileState, Stages, FileStages, Documents,
     DatatypesMap, VariablesMap

LEMMA ReferVariableType ==
  ASSUME TypeOK, ReferVariable
  PROVE  TypeOK'
<1>1. VariablesMap(variables')
  <2>1. Ref.id \in DOMAIN stdVariables BY DEF ReferVariable
  <2>2. Ref.id \in VarIds /\ stdVariables[Ref.id] \in Variable
    BY <2>1 DEF TypeOK, VariablesMap
  <2> QED BY <2>2, EmplaceType DEF TypeOK, ReferVariable
<1> QED
  BY <1>1 DEF TypeOK, ReferVariable, stdState, Stages, FileStages, Documents,
     DatatypesMap, VariablesMap

LEMMA UpdateVariableType ==
  ASSUME TypeOK, UpdateVariable
  PROVE  TypeOK'
<1> DEFINE variable == stdVariables[Ref.id]
<1>1. Ref.id \in VarIds /\ variable \in Variable
  BY DEF TypeOK, VariablesMap, UpdateVariable
<1>2. Ref \in StdVariableRef /\ file \in Paths /\ pos \in Nat
  BY OpenDocumentType DEF UpdateVariable, DeviceDoc, Ref, FileStages, TypeOK
<1>3. variable.value # None BY DEF UpdateVariable, Updates, holdsProcessData
<1>4. VariablesMap(variables')
  <2>1. Updated(Ref, variable) \in Variable
    BY <1>1, <1>2 DEF Updated, Variable, HasDefault, StdVariableRef
  <2> QED BY <1>1, <2>1, EmplaceType DEF TypeOK, UpdateVariable
<1>5. names' \in [StdLoc -> SUBSET NamedValue]
  <2>1. Expansion(file, pos, Ref) \in SUBSET NamedValue
    BY <1>2 DEF Expansion, NamedValue, StdVariableRef
  <2> QED BY <2>1 DEF TypeOK, UpdateVariable, expand
<1> QED
  BY <1>4, <1>5 DEF TypeOK, UpdateVariable, stdState, Stages, FileStages, Documents,
     DatatypesMap, VariablesMap

LEMMA DecodeVariablesStepType ==
  ASSUME TypeOK, DecodeVariables
  PROVE  TypeOK'
<1>1. file \in Paths /\ doc.variables \in Seq(VariableDecl)
  BY OpenDocumentType DEF DecodeVariables, DeviceDoc, FileStages
<1>2. VariablesMap(decodeVariables(doc.variables, file, datatypes))
  BY <1>1, DecodeVariablesType DEF DecodeVariables, TypeOK
<1>3. VariablesMap(variables') BY <1>2, InsertType DEF DecodeVariables, TypeOK
<1> QED
  BY <1>3 DEF TypeOK, DecodeVariables, stdState, Stages, FileStages, Documents,
     DatatypesMap, VariablesMap

LEMMA DecodeProcessDataType ==
  ASSUME TypeOK, decodeProcessData
  PROVE  TypeOK'
<1> DEFINE decls == doc.processData
<1>1. file \in Paths /\ decls \in Seq(ProcessDataDecl)
  BY OpenDocumentType DEF decodeProcessData, DeviceDoc, FileStages
<1>2. ASSUME NEW id \in Ids(decls)
      PROVE  id \in PDIds /\ ProcessDataUnion(decls[First(decls, id)]) \in Union
  <2> DEFINE decl == decls[First(decls, id)]
  <2>1. First(decls, id) \in DOMAIN decls /\ decl \in ProcessDataDecl /\ decl.id = id
    BY <1>1, FirstIsDeclared
  <2>2. DecodesProcessData(decl) BY <2>1 DEF decodeProcessData
  <2> HIDE DEF decl
  <2>3. decl.condition # None => variables[decl.condition] \in Variable
    BY <2>2 DEF DecodesProcessData, TypeOK, VariablesMap
  <2>4. decl.id \in PDIds /\ decl.condition \in VarIds \cup {None}
    BY <2>1 DEF ProcessDataDecl
  <2>5. ProcessDataUnion(decl) \in Union
    BY <1>1, <2>3, <2>4 DEF ProcessDataUnion, Union, ProcessDataT, found
  <2> QED BY <2>1, <2>4, <2>5 DEF decl
<1>3. DOMAIN processData' \subseteq PDIds /\ processData' \in [DOMAIN processData' -> Union]
  BY <1>2 DEF decodeProcessData
<1> QED
  BY <1>3 DEF TypeOK, decodeProcessData, stdState, Stages, FileStages, Documents,
     DatatypesMap, VariablesMap

LEMMA SetVariableProcessDataType ==
  ASSUME TypeOK, setVariableProcessData
  PROVE  TypeOK'
<1>1. PICK pd \in DOMAIN processData :
        variables' = [id \in DOMAIN variables |->
          IF id \in {ProcessDataVariable[dir] : dir \in {d \in {"in", "out"} : processData[pd][d] # None}}
          THEN Bound(variables[id], IF id = ProcessDataVariable.in THEN processData[pd].in
                                    ELSE processData[pd].out)
          ELSE variables[id]]
  BY DEF setVariableProcessData
<1>2. processData[pd].in \in ProcessDataT \cup {None} /\ processData[pd].out \in ProcessDataT \cup {None}
  BY DEF TypeOK, Union
<1>3. ASSUME NEW v \in Variable, NEW data \in ProcessDataT \cup {None}
      PROVE  Bound(v, data) \in Variable
  BY DEF Bound, Variable
<1>4. \A id \in DOMAIN variables : id \in VarIds /\ variables[id] \in Variable
  BY DEF TypeOK, VariablesMap
<1>5. VariablesMap(variables')
  BY <1>1, <1>2, <1>3, <1>4 DEF VariablesMap
<1> QED
  BY <1>5 DEF TypeOK, setVariableProcessData, stdState, Stages, FileStages, Documents,
     DatatypesMap, VariablesMap

LEMMA EmplaceDescriptorType ==
  ASSUME TypeOK, emplaceDescriptor
  PROVE  TypeOK'
<1>1. file \in Documents BY DEF TypeOK, emplaceDescriptor, FileStages
<1>2. \A id \in DOMAIN descriptors' : descriptors'[id].file \in Documents
  BY <1>1 DEF TypeOK, emplaceDescriptor, emplace, insert
<1>3. VariablesMap(variables') BY DEF emplaceDescriptor, VariablesMap, Empty
<1> QED
  BY <1>2, <1>3 DEF TypeOK, emplaceDescriptor, stdState, Stages, FileStages, Documents,
     DatatypesMap, VariablesMap, Empty

\* Every step keeps the types.
LEMMA TypeStep == TypeOK /\ [Next]_vars => TypeOK'
<1> SUFFICES ASSUME TypeOK, [Next]_vars PROVE TypeOK' OBVIOUS
<1> USE DEF TypeOK, stdState, fileState, Stages, FileStages, Documents, DatatypesMap, VariablesMap
<1>1. CASE decodeUnits BY <1>1, UnitsDocsAssumption DEF decodeUnits, Disk, UnitsDoc
<1>2. CASE decodeStdDefinitions BY <1>2, DecodeStdDefinitionsType
<1>3. ASSUME NEW p \in Paths, SkipEntry(p) PROVE TypeOK' BY <1>3 DEF SkipEntry, otherEntries
<1>4. ASSUME NEW p \in Paths, OpenDocument(p) PROVE TypeOK' BY <1>4 DEF OpenDocument, otherEntries
<1>5. CASE SkipOverlay BY <1>5 DEF SkipOverlay
<1>6. CASE ReferVariable BY <1>6, ReferVariableType
<1>7. CASE UpdateVariable BY <1>7, UpdateVariableType
<1>8. CASE DecodeVariables BY <1>8, DecodeVariablesStepType
<1>9. CASE decodeProcessData BY <1>9, DecodeProcessDataType
<1>10. CASE setVariableProcessData BY <1>10, SetVariableProcessDataType
<1>11. CASE decodeUI BY <1>11 DEF decodeUI
<1>12. CASE emplaceDescriptor BY <1>12, EmplaceDescriptorType
<1>13. CASE Publish BY <1>13 DEF Publish
<1>14. CASE Throw \/ Exhaust BY <1>14 DEF Throw, Exhaust, Empty
<1>15. CASE Returned \/ UNCHANGED vars BY <1>15 DEF Returned, vars
<1> QED
  BY <1>1, <1>2, <1>3, <1>4, <1>5, <1>6, <1>7, <1>8, <1>9, <1>10, <1>11, <1>12, <1>13, <1>14, <1>15
  DEF Next

\* TypeOK is an invariant of the loader.
THEOREM TypeCorrect == Spec => []TypeOK
<1>1. Init => TypeOK BY InitType
<1>2. TypeOK /\ [Next]_vars => TypeOK' BY TypeStep
<1> QED BY <1>1, <1>2, PTL DEF Spec

---------------------------------------------------------------------------
(* The strengthened invariant. *)

LEMMA StdStep == StdInv /\ TypeOK /\ [Next]_vars => StdInv'
<1> SUFFICES ASSUME StdInv, TypeOK, [Next]_vars PROVE StdInv' OBVIOUS
<1> USE DEF StdInv, TypeOK, stdState, FileStages
<1>1. CASE decodeUnits BY <1>1 DEF decodeUnits
<1>2. CASE decodeStdDefinitions BY <1>2 DEF decodeStdDefinitions
<1>3. ASSUME NEW p \in Paths, SkipEntry(p) PROVE StdInv' BY <1>3 DEF SkipEntry
<1>4. ASSUME NEW p \in Paths, OpenDocument(p) PROVE StdInv' BY <1>4 DEF OpenDocument
<1>5. CASE SkipOverlay \/ ReferVariable \/ UpdateVariable
  BY <1>5 DEF SkipOverlay, ReferVariable, UpdateVariable
<1>6. CASE DecodeVariables \/ decodeProcessData \/ setVariableProcessData \/ decodeUI
  BY <1>6 DEF DecodeVariables, decodeProcessData, setVariableProcessData, decodeUI
<1>7. CASE emplaceDescriptor \/ Publish \/ Throw \/ Exhaust BY <1>7 DEF emplaceDescriptor, Publish, Throw, Exhaust
<1>8. CASE Returned \/ UNCHANGED vars BY <1>8 DEF Returned, vars
<1> QED BY <1>1, <1>2, <1>3, <1>4, <1>5, <1>6, <1>7, <1>8 DEF Next

LEMMA PosStep == PosInv /\ ReadyInv /\ TypeOK /\ [Next]_vars => PosInv' /\ ReadyInv'
<1> SUFFICES ASSUME PosInv, ReadyInv, TypeOK, [Next]_vars PROVE PosInv' /\ ReadyInv' OBVIOUS
<1> USE DEF PosInv, ReadyInv, FileStages, doc
<1>1. CASE decodeUnits \/ decodeStdDefinitions BY <1>1 DEF decodeUnits, decodeStdDefinitions
<1>2. ASSUME NEW p \in Paths, SkipEntry(p) \/ OpenDocument(p) PROVE PosInv' /\ ReadyInv'
  BY <1>2 DEF SkipEntry, OpenDocument
<1>3. CASE SkipOverlay \/ ReferVariable \/ UpdateVariable
  BY <1>3 DEF SkipOverlay, ReferVariable, UpdateVariable
<1>4. CASE DecodeVariables \/ decodeProcessData \/ setVariableProcessData \/ decodeUI
  BY <1>4 DEF DecodeVariables, decodeProcessData, setVariableProcessData, decodeUI
<1>5. CASE emplaceDescriptor \/ Publish \/ Throw \/ Exhaust BY <1>5 DEF emplaceDescriptor, Publish, Throw, Exhaust
<1>6. CASE Returned \/ UNCHANGED vars BY <1>6 DEF Returned, vars
<1> QED BY <1>1, <1>2, <1>3, <1>4, <1>5, <1>6 DEF Next

---------------------------------------------------------------------------
(* The names of the shared datatype objects. *)

\* The name sets depend on the disk alone.
LEMMA DiskFixed ==
  ASSUME disk' = disk
  PROVE  /\ Documents' = Documents
         /\ \A loc : Declared(disk.std, loc)' = Declared(disk.std, loc)
         /\ \A p, loc : ExpansionsBy(p, loc)' = ExpansionsBy(p, loc)
         /\ \A p, n, loc : ExpansionsBefore(p, n, loc)' = ExpansionsBefore(p, n, loc)
BY DEF Documents, ExpansionsBy, ExpansionsBefore, Expands

\* Passing one reference adds what that reference expands, nothing else.
LEMMA NextReference ==
  ASSUME NEW p, NEW loc, NEW n \in Nat, NEW refs, refs = disk.iodds[p].stdRefs,
         DOMAIN refs \subseteq Nat
  PROVE  ExpansionsBefore(p, n + 1, loc) =
           ExpansionsBefore(p, n, loc) \cup
             (IF n \in DOMAIN refs /\ Expands(p, n, loc) THEN Expansion(p, n, refs[n]) ELSE {})
<1> DEFINE before(m) == {j \in DOMAIN refs : j < m /\ Expands(p, j, loc)}
<1>1. before(n + 1) = before(n) \cup {j \in DOMAIN refs : j = n /\ Expands(p, j, loc)}
  OBVIOUS
<1> QED BY <1>1 DEF ExpansionsBefore

\* No reference lies before the first, and all lie before a position past the end.
LEMMA FirstReference ==
  ASSUME NEW p, NEW loc, DOMAIN disk.iodds[p].stdRefs \subseteq Nat \ {0}
  PROVE  ExpansionsBefore(p, 1, loc) = {}
BY DEF ExpansionsBefore

LEMMA LastReference ==
  ASSUME NEW p, NEW loc, NEW n \in Nat \ {0},
         disk.iodds[p].stdRefs \in Seq(StdVariableRef), n \notin DOMAIN disk.iodds[p].stdRefs
  PROVE  ExpansionsBefore(p, n, loc) = ExpansionsBy(p, loc)
<1>1. \A j \in DOMAIN disk.iodds[p].stdRefs : j < n
  OBVIOUS
<1> QED BY <1>1 DEF ExpansionsBefore, ExpansionsBy

\* What names[loc] is made of: D, the documents decoded, and the open document.
LEMMA NamesAt ==
  ASSUME NamesAreExpansions, stage \in {"scan", "ready"} \cup FileStages, NEW loc \in StdLoc
  PROVE  names[loc] = Declared(disk.std, loc)
                       \cup (UNION {ExpansionsBy(p, loc) : p \in Documents \ (pending \cup {file})})
                       \cup (IF file = None THEN {} ELSE ExpansionsBefore(file, pos, loc))
BY DEF NamesAreExpansions

\* The open document lists its references in a sequence.
LEMMA OpenReferences ==
  ASSUME TypeOK, stage \in FileStages
  PROVE  /\ file \in Documents \ pending /\ file # None
         /\ doc.stdRefs \in Seq(StdVariableRef)
         /\ DOMAIN doc.stdRefs \subseteq Nat \ {0}
<1>1. doc.stdRefs \in Seq(StdVariableRef) BY OpenDocumentType DEF DeviceDoc
<1>2. file # None BY OpenDocumentType, NoneAssumption
<1> QED BY <1>1, <1>2 DEF TypeOK

\* A step that keeps the document and the position of the reader, and the names.
LEMMA NamesKept ==
  ASSUME NamesAreExpansions, stage \in {"scan", "ready"} \cup FileStages,
         UNCHANGED <<disk, names, pending, file, pos>>
  PROVE  NamesAreExpansions'
BY DiskFixed DEF NamesAreExpansions

\* A step that passes a reference: the position moves on, and names gains what the
\* reference expands.
LEMMA NamesPassed ==
  ASSUME TypeOK, NamesAreExpansions, stage = "stdRefs", pos \in DOMAIN doc.stdRefs,
         UNCHANGED <<disk, pending, file>>, pos' = pos + 1,
         \A loc \in StdLoc :
           names'[loc] = names[loc] \cup
             (IF Expands(file, pos, loc) THEN Expansion(file, pos, Ref) ELSE {})
  PROVE  NamesAreExpansions'
<1>1. file # None /\ DOMAIN doc.stdRefs \subseteq Nat
  BY OpenReferences DEF FileStages
<1> SUFFICES ASSUME NEW loc \in StdLoc
             PROVE  names'[loc] = Declared(disk.std, loc)
                       \cup (UNION {ExpansionsBy(p, loc) : p \in Documents \ (pending \cup {file})})
                       \cup ExpansionsBefore(file, pos + 1, loc)
  BY <1>1, DiskFixed DEF NamesAreExpansions
<1>2. ExpansionsBefore(file, pos + 1, loc) =
        ExpansionsBefore(file, pos, loc) \cup
          (IF Expands(file, pos, loc) THEN Expansion(file, pos, Ref) ELSE {})
  BY <1>1, NextReference DEF doc, Ref, TypeOK
<1>3. names[loc] = Declared(disk.std, loc)
                       \cup (UNION {ExpansionsBy(p, loc) : p \in Documents \ (pending \cup {file})})
                       \cup ExpansionsBefore(file, pos, loc)
  BY <1>1, NamesAt DEF FileStages
<1> QED BY <1>2, <1>3

LEMMA DecodeStdDefinitionsNames ==
  ASSUME TypeOK, StdInv, decodeStdDefinitions
  PROVE  NamesAreExpansions'
<1>1. pending = Paths /\ file = None /\ UNCHANGED <<disk, pending, file>>
  BY DEF TypeOK, StdInv, decodeStdDefinitions
<1>2. Documents \ (pending \cup {file}) = {} BY <1>1 DEF Documents
<1>3. \A loc \in StdLoc : names'[loc] = Declared(disk.std, loc)
  BY DEF decodeStdDefinitions
<1> QED BY <1>1, <1>2, <1>3, DiskFixed DEF NamesAreExpansions

LEMMA SkipEntryNames ==
  ASSUME TypeOK, NamesAreExpansions, NEW p \in Paths, SkipEntry(p)
  PROVE  NamesAreExpansions'
<1>1. file = None /\ UNCHANGED <<disk, names, file>> BY DEF TypeOK, SkipEntry
<1>2. Documents \ (pending' \cup {file}) = Documents \ (pending \cup {file})
  BY DEF Documents, SkipEntry, otherEntries
<1>3. stage \in {"scan", "ready"} \cup FileStages BY DEF SkipEntry
<1> QED BY <1>1, <1>2, <1>3, DiskFixed DEF NamesAreExpansions

\* The document leaves the directory and is open at its first reference.
LEMMA OpenDocumentNames ==
  ASSUME TypeOK, NamesAreExpansions, NEW p \in Paths, OpenDocument(p)
  PROVE  NamesAreExpansions'
<1>1. file = None /\ file' = p /\ pos' = 1 /\ UNCHANGED <<disk, names>> /\ p # None
  BY NoneAssumption DEF TypeOK, OpenDocument
<1>2. Documents \ (pending' \cup {p}) = Documents \ (pending \cup {None})
  BY NoneAssumption DEF OpenDocument, otherEntries, Documents
<1>3. DOMAIN disk.iodds[p].stdRefs \subseteq Nat \ {0}
  <2>1. disk.iodds[p] \in DeviceDoc BY DeviceDocsAssumption DEF TypeOK, Disk
  <2>2. disk.iodds[p].stdRefs \in Seq(StdVariableRef) BY <2>1 DEF DeviceDoc
  <2> QED BY <2>2
<1>4. \A loc : ExpansionsBefore(p, 1, loc) = {} BY <1>3, FirstReference
<1>5. stage \in {"scan", "ready"} \cup FileStages BY DEF OpenDocument
<1> SUFFICES ASSUME NEW loc \in StdLoc
             PROVE  names[loc] = Declared(disk.std, loc)
                       \cup (UNION {ExpansionsBy(q, loc) : q \in Documents \ (pending' \cup {p})})
                       \cup ExpansionsBefore(p, 1, loc)
  BY <1>1, DiskFixed DEF NamesAreExpansions
<1>6. names[loc] = Declared(disk.std, loc)
                       \cup (UNION {ExpansionsBy(q, loc) : q \in Documents \ (pending \cup {None})})
  BY <1>1, <1>5, NamesAt
<1> QED BY <1>2, <1>4, <1>6

LEMMA SkipOverlayNames ==
  ASSUME TypeOK, NamesAreExpansions, SkipOverlay
  PROVE  NamesAreExpansions'
<1>1. \A loc \in StdLoc : ~Expands(file, pos, loc) BY DEF SkipOverlay, Expands, Ref, doc
<1> QED BY <1>1, NamesPassed DEF SkipOverlay

LEMMA ReferVariableNames ==
  ASSUME TypeOK, StdInv, NamesAreExpansions, ReferVariable
  PROVE  NamesAreExpansions'
<1>1. \A loc \in StdLoc : ~Expands(file, pos, loc)
  BY DEF ReferVariable, Updates, Expands, Ref, doc, StdInv
<1> QED BY <1>1, NamesPassed DEF ReferVariable

\* Exactly the object of the referenced variable is expanded.
LEMMA UpdateVariableNames ==
  ASSUME TypeOK, StdInv, NamesAreExpansions, UpdateVariable
  PROVE  NamesAreExpansions'
<1> DEFINE variable == stdVariables[Ref.id]
<1>1. stdVariables = StdVariables(disk.std) BY DEF StdInv, UpdateVariable
<1>2. Ref.id \in DOMAIN stdVariables \ Overlays /\ ~holdsProcessData(variable)
  BY DEF UpdateVariable, Updates
<1>3. DOMAIN stdVariables = Ids(disk.std.variables)
  BY <1>1 DEF StdVariables, decodeVariables
<1>4. ASSUME NEW loc \in StdLoc
      PROVE  Expands(file, pos, loc) <=> HasNames(Ref, variable) /\ variable.value.loc = loc
  BY <1>1, <1>2, <1>3 DEF Expands, Ref, doc
<1>5. ASSUME NEW loc \in StdLoc
      PROVE  names'[loc] = names[loc] \cup
               (IF Expands(file, pos, loc) THEN Expansion(file, pos, Ref) ELSE {})
  <2>1. names \in [StdLoc -> SUBSET NamedValue] BY DEF TypeOK
  <2>2. names' = IF HasNames(Ref, variable)
                 THEN [names EXCEPT ![variable.value.loc] =
                         names[variable.value.loc] \cup Expansion(file, pos, Ref)]
                 ELSE names
    BY DEF UpdateVariable, expand
  <2>3. CASE Expands(file, pos, loc) BY <1>4, <2>1, <2>2, <2>3
  <2>4. CASE ~Expands(file, pos, loc) BY <1>4, <2>1, <2>2, <2>4
  <2> QED BY <2>3, <2>4
<1> QED BY <1>5, NamesPassed DEF UpdateVariable

\* The document is decoded: all of its references have been passed.
LEMMA EmplaceDescriptorNames ==
  ASSUME TypeOK, PosInv, NamesAreExpansions, emplaceDescriptor
  PROVE  NamesAreExpansions'
<1>1. /\ stage \in FileStages /\ file' = None
      /\ UNCHANGED <<disk, names, pending>> /\ pos \notin DOMAIN doc.stdRefs
  BY DEF PosInv, FileStages, emplaceDescriptor
<1>2. file \in Documents \ pending /\ file # None /\ doc.stdRefs \in Seq(StdVariableRef)
  BY <1>1, OpenReferences
<1>3. \A loc : ExpansionsBefore(file, pos, loc) = ExpansionsBy(file, loc)
  BY <1>1, <1>2, LastReference DEF doc, TypeOK
<1>4. Documents \ (pending \cup {None}) = (Documents \ (pending \cup {file})) \cup {file}
  BY <1>2, NoneAssumption DEF Documents
<1> SUFFICES ASSUME NEW loc \in StdLoc
             PROVE  names[loc] = Declared(disk.std, loc)
                       \cup (UNION {ExpansionsBy(p, loc) : p \in Documents \ (pending \cup {None})})
  BY <1>1, DiskFixed DEF NamesAreExpansions
<1>5. names[loc] = Declared(disk.std, loc)
                       \cup (UNION {ExpansionsBy(p, loc) : p \in Documents \ (pending \cup {file})})
                       \cup ExpansionsBy(file, loc)
  BY <1>1, <1>2, <1>3, NamesAt
<1> QED BY <1>4, <1>5

LEMMA NamesStep ==
  IInv /\ [Next]_vars => NamesAreExpansions'
<1> SUFFICES ASSUME IInv, [Next]_vars PROVE NamesAreExpansions' OBVIOUS
<1> USE DEF IInv
<1>1. CASE decodeUnits \/ Throw \/ Exhaust
  BY <1>1 DEF decodeUnits, Throw, Exhaust, NamesAreExpansions, FileStages
<1>2. CASE decodeStdDefinitions BY <1>2, DecodeStdDefinitionsNames
<1>3. ASSUME NEW p \in Paths, SkipEntry(p) PROVE NamesAreExpansions' BY <1>3, SkipEntryNames
<1>4. ASSUME NEW p \in Paths, OpenDocument(p) PROVE NamesAreExpansions' BY <1>4, OpenDocumentNames
<1>5. CASE SkipOverlay BY <1>5, SkipOverlayNames
<1>6. CASE ReferVariable BY <1>6, ReferVariableNames
<1>7. CASE UpdateVariable BY <1>7, UpdateVariableNames
<1>8. CASE DecodeVariables \/ decodeProcessData \/ setVariableProcessData \/ decodeUI
  BY <1>8, NamesKept
  DEF DecodeVariables, decodeProcessData, setVariableProcessData, decodeUI, FileStages
<1>9. CASE emplaceDescriptor BY <1>9, EmplaceDescriptorNames
<1>10. CASE Publish BY <1>10, NamesKept DEF Publish
<1>11. CASE Returned \/ UNCHANGED vars
  <2>1. UNCHANGED <<disk, stage, names, pending, file, pos>> BY <1>11 DEF Returned, vars
  <2> QED BY <2>1, DiskFixed DEF NamesAreExpansions
<1> QED BY <1>1, <1>2, <1>3, <1>4, <1>5, <1>6, <1>7, <1>8, <1>9, <1>10, <1>11 DEF Next

LEMMA Inductive == Spec => []IInv
<1>1. Init => IInv
  BY InitType DEF Init, IInv, StdInv, PosInv, ReadyInv, NamesAreExpansions, FileStages
<1>2. IInv /\ [Next]_vars => IInv'
  BY TypeStep, StdStep, PosStep, NamesStep DEF IInv
<1> QED BY <1>1, <1>2, PTL DEF Spec

\* At every moment a standard datatype object holds exactly the names of the standard
\* definitions, of the documents decoded and of the references decoded.
THEOREM NamesCorrect == Spec => []NamesAreExpansions
<1>1. IInv => NamesAreExpansions BY DEF IInv
<1> QED BY <1>1, Inductive, PTL

\* When makeRepository returns, they do not depend on the order of the directory.
THEOREM OrderIndependence == Spec => []NamesAreOrderIndependent
<1>1. IInv => NamesAreOrderIndependent
  <2> SUFFICES ASSUME IInv, stage = "ready", NEW loc \in StdLoc
               PROVE  names[loc] = Declared(disk.std, loc)
                                     \cup (UNION {ExpansionsBy(p, loc) : p \in Documents})
    BY DEF NamesAreOrderIndependent
  <2>1. pending = {} /\ file = None BY DEF IInv, ReadyInv, TypeOK
  <2>2. Documents \ (pending \cup {file}) = Documents
    BY <2>1, NoneAssumption DEF Documents
  <2>3. names[loc] = Declared(disk.std, loc)
                       \cup (UNION {ExpansionsBy(p, loc) : p \in Documents \ (pending \cup {file})})
    BY <2>1, NamesAt DEF IInv
  <2> QED BY <2>2, <2>3
<1> QED BY <1>1, Inductive, PTL

---------------------------------------------------------------------------
(* The descriptors makeRepository collects: that they stay, that their     *)
(* menus point to their variables, that a referenced standard variable     *)
(* keeps its datatype object, which reference decides about a variable,    *)
(* and when a condition still points to it.                                *)

\* A decoded menu points to variables of vs, by their ids.
PointsInto(menu, vs) == menu # None => \A v \in DOMAIN menu : v \in DOMAIN vs /\ menu[v] = vs[v]
MenusPointInto(us, vs) == \A role \in UserRoles, e \in Entries : PointsInto(us[role][e], vs)

\* Between decodeUI and emplaceDescriptor the menus point to the open document's
\* variables.
MenuInv == stage = "emplace" => MenusPointInto(uis, variables)

MInv == TypeOK /\ MenuInv /\ MenusPointToPublishedVariables

\* What the referenced standard variables of document p are among the variables vs.
KeepsObjects(p, vs, std) ==
  \A v \in Ids(disk.iodds[p].stdRefs) \ Overlays :
    /\ v \in DOMAIN vs
    /\ vs[v].processData = None => vs[v].value = std[v].value

\* Nothing is collected before the standard definitions are decoded and nothing is left
\* of the document before; while references are decoded every variable is over its
\* standard object and those that were passed are there; afterwards they stay.
ReferInv ==
  /\ stage \in {"units", "std"} => descriptors = Empty
  /\ stage \in {"units", "std", "scan"} => variables = Empty
  /\ stage = "stdRefs" =>
       /\ \A v \in DOMAIN variables : variables[v].value = stdVariables[v].value
       /\ \A i \in DOMAIN doc.stdRefs :
            i < pos /\ doc.stdRefs[i].id \notin Overlays => doc.stdRefs[i].id \in DOMAIN variables
  /\ stage \in FileStages \ {"stdRefs"} => KeepsObjects(file, variables, stdVariables)

\* The same for the descriptors.
CollectedInv == \A id \in DOMAIN descriptors :
                  KeepsObjects(descriptors[id].file, descriptors[id].variables, stdVariables)

RInv == TypeOK /\ ReferInv /\ CollectedInv

---------------------------------------------------------------------------
(* What emplace does to the map of descriptors. *)

LEMMA EmplaceKeeps ==
  ASSUME NEW map, NEW key, NEW value, NEW k \in DOMAIN map
  PROVE  k \in DOMAIN emplace(map, key, value) /\ emplace(map, key, value)[k] = map[k]
BY DEF emplace, insert

LEMMA EmplaceAdds ==
  ASSUME NEW map, NEW key, NEW value, NEW k \in DOMAIN emplace(map, key, value)
  PROVE  \/ k \in DOMAIN map /\ emplace(map, key, value)[k] = map[k]
         \/ k = key /\ emplace(map, key, value)[k] = value
BY DEF emplace, insert

\* Every step but three leaves the descriptors alone.
LEMMA DescriptorsKept ==
  ASSUME [Next]_vars, ~emplaceDescriptor, ~Throw
  PROVE  UNCHANGED descriptors
<1> USE DEF stdState, fileState
<1>1. CASE decodeUnits \/ decodeStdDefinitions BY <1>1 DEF decodeUnits, decodeStdDefinitions
<1>2. ASSUME NEW p \in Paths, SkipEntry(p) \/ OpenDocument(p) PROVE UNCHANGED descriptors
  BY <1>2 DEF SkipEntry, OpenDocument
<1>3. CASE SkipOverlay \/ ReferVariable \/ UpdateVariable
  BY <1>3 DEF SkipOverlay, ReferVariable, UpdateVariable
<1>4. CASE DecodeVariables \/ decodeProcessData \/ setVariableProcessData \/ decodeUI
           \/ Publish \/ Exhaust
  BY <1>4 DEF DecodeVariables, decodeProcessData, setVariableProcessData, decodeUI, Publish, Exhaust
<1>5. CASE Returned \/ UNCHANGED vars BY <1>5 DEF Returned, vars
<1> QED BY <1>1, <1>2, <1>3, <1>4, <1>5 DEF Next

\* Once a descriptor is in the map it stays as it is, unless an exception takes all away.
THEOREM DescriptorsStay == Spec => FirstDescriptorStays
<1> DEFINE Stays == stage' # "failed" =>
                      \A id \in DOMAIN descriptors :
                        id \in DOMAIN descriptors' /\ descriptors'[id] = descriptors[id]
<1>1. ASSUME [Next]_vars PROVE Stays
  <2>1. CASE emplaceDescriptor BY <2>1, EmplaceKeeps DEF emplaceDescriptor
  <2>2. CASE Throw BY <2>2 DEF Throw
  <2>3. CASE ~emplaceDescriptor /\ ~Throw BY <2>3, <1>1, DescriptorsKept
  <2> QED BY <2>1, <2>2, <2>3
<1>2. [Next]_vars => [Stays]_vars BY <1>1
<1> HIDE DEF Stays
<1>3. Spec => [][Stays]_vars BY <1>2, PTL DEF Spec
<1> QED BY <1>3 DEF FirstDescriptorStays, Stays

---------------------------------------------------------------------------
(* Menus. *)

\* A menu that is decoded has no lookup that fails, so all its variables are there.
LEMMA DecodedMenuHolds ==
  ASSUME NEW menu \in (MenuList \ {<<>>}) \cup {None},
         MenuOutcome(menu, DOMAIN variables) = "menu"
  PROVE  \E ids \in SUBSET DOMAIN variables : DecodedMenu(menu) = [id \in ids |-> variables[id]]
<1> DEFINE known == DOMAIN variables
           bad == {i \in DOMAIN menu : Fault(menu[i], known) # None}
<1>1. menu # None BY DEF MenuOutcome
<1>2. menu \in Seq(Lookup \cup {TooDeep}) BY <1>1 DEF MenuList
<1>3. bad = {}
  <2> SUFFICES ASSUME bad # {} PROVE FALSE OBVIOUS
  <2> DEFINE first == CHOOSE i \in bad : \A j \in bad : i <= j
  <2>1. bad \in SUBSET Nat BY <1>2
  <2>2. first \in bad
    <3> HIDE DEF bad
    <3> QED BY <2>1, LeastElement
  <2>3. menu[first] \in Lookup \cup {TooDeep} /\ Fault(menu[first], known) # None
    BY <1>2, <2>2
  <2>4. Fault(menu[first], known) \in {"out_of_range", "other", "overflow"}
    BY <2>3 DEF Fault, Lookup, TooDeep
  <2>5. MenuOutcome(menu, known) = Fault(menu[first], known)
    BY <1>1 DEF MenuOutcome
  <2> QED BY <2>4, <2>5
<1>4. ASSUME NEW i \in DOMAIN menu PROVE menu[i].variable \in known
  <2>1. menu[i] \in Lookup \cup {TooDeep} BY <1>2, <1>4
  <2>2. Fault(menu[i], known) = None BY <1>3
  <2> QED BY <2>1, <2>2, NoneAssumption DEF Fault, Lookup, TooDeep
<1> DEFINE ids == {menu[i].variable : i \in DOMAIN menu}
<1>5. DecodedMenu(menu) = [id \in ids |-> variables[id]] BY DEF DecodedMenu, found
<1>6. ids \in SUBSET DOMAIN variables BY <1>4
<1> QED BY <1>5, <1>6

LEMMA DecodedMenuPoints ==
  ASSUME NEW menu \in (MenuList \ {<<>>}) \cup {None}
  PROVE  PointsInto(DecodedMenu(menu), variables)
<1>1. CASE MenuOutcome(menu, DOMAIN variables) # "menu"
  BY <1>1 DEF DecodedMenu, PointsInto
<1>2. CASE MenuOutcome(menu, DOMAIN variables) = "menu"
  BY <1>2, DecodedMenuHolds DEF PointsInto
<1> QED BY <1>1, <1>2

LEMMA DecodeUIMenus ==
  ASSUME TypeOK, decodeUI
  PROVE  MenusPointInto(uis', variables')
<1>1. ASSUME NEW role \in UserRoles, NEW e \in Entries
      PROVE  PointsInto(DecodedMenu(doc.menus[role][e]), variables)
  <2>1. doc \in DeviceDoc BY OpenDocumentType DEF decodeUI, FileStages
  <2>2. doc.menus[role][e] \in (MenuList \ {<<>>}) \cup {None}
    BY <1>1, <2>1 DEF DeviceDoc
  <2> QED BY <2>2, DecodedMenuPoints
<1>2. /\ variables' = variables
      /\ uis' = [role \in UserRoles |-> [e \in Entries |-> DecodedMenu(doc.menus[role][e])]]
  BY DEF decodeUI
<1> HIDE DEF doc
<1> QED BY <1>1, <1>2 DEF MenusPointInto

LEMMA MenusStep == MInv /\ [Next]_vars => MInv'
<1> SUFFICES ASSUME MInv, [Next]_vars PROVE MInv' OBVIOUS
<1>1. TypeOK /\ TypeOK' BY TypeStep DEF MInv
<1>2. MenuInv'
  <2>1. CASE decodeUI BY <2>1, <1>1, DecodeUIMenus DEF MenuInv, MenusPointInto, PointsInto
  <2>2. CASE decodeUnits \/ decodeStdDefinitions BY <2>2 DEF decodeUnits, decodeStdDefinitions, MenuInv
  <2>3. ASSUME NEW p \in Paths, SkipEntry(p) \/ OpenDocument(p) PROVE MenuInv'
    BY <2>3 DEF SkipEntry, OpenDocument, MenuInv
  <2>4. CASE SkipOverlay \/ ReferVariable \/ UpdateVariable
    BY <2>4 DEF SkipOverlay, ReferVariable, UpdateVariable, MenuInv
  <2>5. CASE DecodeVariables \/ decodeProcessData \/ setVariableProcessData
    BY <2>5 DEF DecodeVariables, decodeProcessData, setVariableProcessData, MenuInv
  <2>6. CASE emplaceDescriptor \/ Publish \/ Throw \/ Exhaust
    BY <2>6 DEF emplaceDescriptor, Publish, Throw, Exhaust, MenuInv
  <2>7. CASE Returned \/ UNCHANGED vars
    BY <2>7 DEF Returned, vars, fileState, MInv, MenuInv, MenusPointInto
  <2> QED BY <2>1, <2>2, <2>3, <2>4, <2>5, <2>6, <2>7 DEF Next
<1>3. MenusPointToPublishedVariables'
  <2>1. CASE emplaceDescriptor
    <3> DEFINE new == [file |-> file, variables |-> variables,
                       processData |-> processData, uis |-> uis]
    <3>1. descriptors' = emplace(descriptors, Identity(doc), new) /\ stage = "emplace"
      BY <2>1 DEF emplaceDescriptor
    <3>2. MenusPointInto(new.uis, new.variables) BY <3>1 DEF MInv, MenuInv
    <3>3. \A id \in DOMAIN descriptors : MenusPointInto(descriptors[id].uis, descriptors[id].variables)
      BY DEF MInv, MenusPointToPublishedVariables, MenusPointInto, PointsInto
    <3> HIDE DEF new
    <3>4. ASSUME NEW id \in DOMAIN descriptors'
          PROVE  MenusPointInto(descriptors'[id].uis, descriptors'[id].variables)
      BY <3>1, <3>2, <3>3, EmplaceAdds
    <3> QED BY <3>4 DEF MenusPointToPublishedVariables, MenusPointInto, PointsInto
  <2>2. CASE Throw BY <2>2 DEF Throw, Empty, MenusPointToPublishedVariables
  <2>3. CASE ~emplaceDescriptor /\ ~Throw
    BY <2>3, DescriptorsKept DEF MInv, MenusPointToPublishedVariables
  <2> QED BY <2>1, <2>2, <2>3
<1> QED BY <1>1, <1>2, <1>3 DEF MInv

LEMMA MenusInit == Init => MInv
BY InitType DEF Init, Empty, MInv, MenuInv, MenusPointToPublishedVariables

\* The variables of a descriptor's menus are the ones the descriptor returns.
THEOREM MenusPoint == Spec => []MenusPointToPublishedVariables
<1>1. MInv => MenusPointToPublishedVariables BY DEF MInv
<1> QED BY <1>1, MenusInit, MenusStep, PTL DEF Spec

---------------------------------------------------------------------------
(* Referenced standard variables. *)

\* The references of the open document, by position.
LEMMA StdRefPositions ==
  ASSUME TypeOK, stage = "stdRefs"
  PROVE  doc.stdRefs \in Seq(StdVariableRef) /\ pos \in Nat \ {0}
BY OpenDocumentType DEF FileStages, DeviceDoc, TypeOK

\* A reference that is passed is there, over the object of the standard variable.
LEMMA PassReference ==
  ASSUME RInv, stage = "stdRefs", pos \in DOMAIN doc.stdRefs,
         NEW v \in Variable, v.value = stdVariables[Ref.id].value,
         variables' = emplace(variables, Ref.id, v),
         pos' = pos + 1, stage' = "stdRefs", UNCHANGED <<disk, file, stdVariables, descriptors>>
  PROVE  ReferInv'
<1>1. doc' = doc /\ doc.stdRefs \in Seq(StdVariableRef) /\ pos \in Nat \ {0}
  BY StdRefPositions DEF RInv, doc
<1>2. \A k \in DOMAIN variables' : variables'[k].value = stdVariables[k].value
  BY EmplaceAdds DEF RInv, ReferInv
<1>3. Ref.id \in DOMAIN variables' BY DEF emplace, insert
<1>4. ASSUME NEW i \in DOMAIN doc.stdRefs, i < pos + 1, doc.stdRefs[i].id \notin Overlays
      PROVE  doc.stdRefs[i].id \in DOMAIN variables'
  <2>1. CASE i = pos BY <2>1, <1>3 DEF Ref
  <2>2. CASE i < pos
    <3>1. doc.stdRefs[i].id \in DOMAIN variables BY <1>4, <2>2 DEF RInv, ReferInv
    <3> QED BY <3>1, EmplaceKeeps
  <2> QED BY <1>1, <1>4, <2>1, <2>2
<1>5. ReferInv' = (/\ \A k \in DOMAIN variables' : variables'[k].value = stdVariables'[k].value
                   /\ \A i \in DOMAIN doc'.stdRefs :
                        i < pos' /\ doc'.stdRefs[i].id \notin Overlays
                          => doc'.stdRefs[i].id \in DOMAIN variables')
  BY DEF ReferInv
<1> HIDE DEF doc
<1> QED BY <1>1, <1>2, <1>4, <1>5

\* When decodeStdVariables is over all references have been passed, and what the
\* document declares itself takes no key.
LEMMA DecodeVariablesKeeps ==
  ASSUME RInv, DecodeVariables
  PROVE  KeepsObjects(file, variables', stdVariables)
<1> DEFINE more == decodeVariables(doc.variables, file, datatypes)
<1>1. /\ stage = "stdRefs" /\ pos \notin DOMAIN doc.stdRefs
      /\ variables' = insert(variables, more)
  BY DEF DecodeVariables
<1>2. \A i \in DOMAIN doc.stdRefs : i < pos
  BY <1>1, StdRefPositions DEF RInv
<1> HIDE DEF more
<1>3. ASSUME NEW v \in Ids(disk.iodds[file].stdRefs) \ Overlays
      PROVE  v \in DOMAIN variables /\ variables[v].value = stdVariables[v].value
  <2>1. PICK i \in DOMAIN doc.stdRefs : doc.stdRefs[i].id = v BY DEF Ids, doc
  <2> QED BY <2>1, <1>1, <1>2 DEF RInv, ReferInv
<1> QED BY <1>1, <1>3 DEF KeepsObjects, insert

\* A variable that is replaced has process data.
LEMMA SetVariableProcessDataKeeps ==
  ASSUME RInv, setVariableProcessData
  PROVE  KeepsObjects(file, variables', stdVariables)
<1>1. PICK pd \in DOMAIN processData :
        variables' = [id \in DOMAIN variables |->
          IF id \in {ProcessDataVariable[dir] : dir \in {d \in {"in", "out"} : processData[pd][d] # None}}
          THEN Bound(variables[id], IF id = ProcessDataVariable.in THEN processData[pd].in
                                    ELSE processData[pd].out)
          ELSE variables[id]]
  BY DEF setVariableProcessData
<1> DEFINE target == {ProcessDataVariable[dir] : dir \in {d \in {"in", "out"} : processData[pd][d] # None}}
           data(id) == IF id = ProcessDataVariable.in THEN processData[pd].in ELSE processData[pd].out
<1>2. ASSUME NEW id \in target PROVE data(id) # None
  BY DEF ProcessDataVariable
<1>3. ASSUME NEW id \in DOMAIN variables, id \in target PROVE variables'[id].processData # None
  <2>1. variables[id] \in Variable BY <1>3 DEF RInv, TypeOK, VariablesMap
  <2>2. variables'[id] = Bound(variables[id], data(id)) BY <1>1, <1>3
  <2> HIDE DEF data
  <2>3. Bound(variables[id], data(id)).processData = data(id) BY <2>1 DEF Bound, Variable
  <2> QED BY <1>2, <1>3, <2>2, <2>3
<1>4. DOMAIN variables' = DOMAIN variables BY <1>1
<1>5. \A id \in DOMAIN variables : id \notin target => variables'[id] = variables[id] BY <1>1
<1>6. KeepsObjects(file, variables, stdVariables)
  BY DEF RInv, ReferInv, setVariableProcessData, FileStages
<1> HIDE DEF target
<1> QED BY <1>3, <1>4, <1>5, <1>6 DEF KeepsObjects

LEMMA ReferStep == RInv /\ [Next]_vars => ReferInv'
<1> SUFFICES ASSUME RInv, [Next]_vars PROVE ReferInv' OBVIOUS
<1> USE DEF stdState, fileState
<1>1. CASE decodeUnits \/ decodeStdDefinitions
  BY <1>1 DEF RInv, decodeUnits, decodeStdDefinitions, ReferInv, FileStages
<1>2. ASSUME NEW p \in Paths, SkipEntry(p) PROVE ReferInv'
  BY <1>2 DEF RInv, SkipEntry, ReferInv, FileStages
<1>3. ASSUME NEW p \in Paths, OpenDocument(p) PROVE ReferInv'
  <2>1. variables' = Empty /\ stage' = "stdRefs" /\ pos' = 1
    BY <1>3 DEF RInv, OpenDocument, ReferInv
  <2>2. doc'.stdRefs \in Seq(StdVariableRef)
    <3>1. TypeOK' BY TypeStep DEF RInv
    <3>2. disk' \in Disk /\ file' \in Paths BY <3>1, <2>1 DEF TypeOK, FileStages, Documents
    <3> QED BY <3>2, DeviceDocsAssumption DEF Disk, doc, DeviceDoc
  <2>3. \A i \in DOMAIN doc'.stdRefs : ~(i < 1) BY <2>2
  <2> QED BY <2>1, <2>3 DEF ReferInv, Empty, FileStages
<1>4. CASE SkipOverlay
  <2>1. /\ stage = "stdRefs" /\ stage' = stage /\ Ref.id \in Overlays /\ pos' = pos + 1
        /\ UNCHANGED <<disk, file, variables, stdVariables>>
    BY <1>4 DEF SkipOverlay
  <2>2. doc' = doc /\ doc.stdRefs \in Seq(StdVariableRef) /\ pos \in Nat \ {0}
    BY <2>1, StdRefPositions DEF RInv, doc
  <2>3. \A i \in DOMAIN doc.stdRefs : i < pos + 1 => i = pos \/ i < pos BY <2>2
  <2> QED BY <2>1, <2>2, <2>3 DEF RInv, ReferInv, Ref, FileStages
<1>5. CASE ReferVariable
  <2>1. Ref.id \in DOMAIN stdVariables /\ stdVariables[Ref.id] \in Variable
    BY <1>5 DEF ReferVariable, RInv, TypeOK, VariablesMap
  <2>2. /\ stage = "stdRefs" /\ stage' = "stdRefs" /\ pos \in DOMAIN doc.stdRefs /\ pos' = pos + 1
        /\ variables' = emplace(variables, Ref.id, stdVariables[Ref.id])
        /\ UNCHANGED <<disk, file, stdVariables, descriptors>>
    BY <1>5 DEF ReferVariable
  <2> QED BY <2>1, <2>2, PassReference
<1>6. CASE UpdateVariable
  <2> DEFINE v == Updated(Ref, stdVariables[Ref.id])
  <2>1. /\ stage = "stdRefs" /\ stage' = "stdRefs" /\ pos \in DOMAIN doc.stdRefs /\ pos' = pos + 1
        /\ variables' = emplace(variables, Ref.id, v)
        /\ UNCHANGED <<disk, file, stdVariables, descriptors>>
    BY <1>6 DEF UpdateVariable
  <2>2. stdVariables[Ref.id] \in Variable
    BY <1>6 DEF UpdateVariable, RInv, TypeOK, VariablesMap
  <2>3. Ref \in StdVariableRef BY <2>1, StdRefPositions DEF RInv, Ref
  <2>4. v \in Variable /\ v.value = stdVariables[Ref.id].value
    BY <2>2, <2>3 DEF Updated, Variable, StdVariableRef, HasDefault
  <2> HIDE DEF v
  <2> QED BY <2>1, <2>4, PassReference
<1>7. CASE DecodeVariables
  <2>1. stage' = "processData" /\ UNCHANGED <<disk, file, stdVariables>>
    BY <1>7 DEF DecodeVariables
  <2>2. KeepsObjects(file, variables', stdVariables) BY <1>7, DecodeVariablesKeeps
  <2> QED BY <2>1, <2>2 DEF ReferInv, KeepsObjects, FileStages
<1>8. CASE decodeProcessData \/ decodeUI
  <2>1. /\ stage \in FileStages \ {"stdRefs"} /\ stage' \in FileStages \ {"stdRefs"}
        /\ UNCHANGED <<disk, file, variables, stdVariables>>
    BY <1>8 DEF decodeProcessData, decodeUI, FileStages
  <2> QED BY <2>1 DEF RInv, ReferInv, KeepsObjects, FileStages
<1>9. CASE setVariableProcessData
  <2>1. stage' = "ui" /\ UNCHANGED <<disk, file, stdVariables>>
    BY <1>9 DEF setVariableProcessData
  <2>2. KeepsObjects(file, variables', stdVariables) BY <1>9, SetVariableProcessDataKeeps
  <2> QED BY <2>1, <2>2 DEF ReferInv, KeepsObjects, FileStages
<1>10. CASE emplaceDescriptor BY <1>10 DEF emplaceDescriptor, ReferInv, FileStages
<1>11. CASE Publish \/ Throw \/ Exhaust BY <1>11 DEF Publish, Throw, Exhaust, ReferInv, FileStages
<1>12. CASE Returned \/ UNCHANGED vars
  <2>1. UNCHANGED <<disk, stage, file, pos, variables, stdVariables, descriptors>>
    BY <1>12 DEF Returned, vars
  <2> QED BY <2>1 DEF RInv, ReferInv, KeepsObjects, doc
<1> QED
  BY <1>1, <1>2, <1>3, <1>4, <1>5, <1>6, <1>7, <1>8, <1>9, <1>10, <1>11, <1>12 DEF Next

\* No step changes a document, and the standard variables are decoded once.
LEMMA StandardStays ==
  ASSUME [Next]_vars, ~decodeStdDefinitions
  PROVE  UNCHANGED <<disk, stdVariables>>
<1> USE DEF stdState, fileState
<1>1. CASE decodeUnits BY <1>1 DEF decodeUnits
<1>2. ASSUME NEW p \in Paths, SkipEntry(p) \/ OpenDocument(p) PROVE UNCHANGED <<disk, stdVariables>>
  BY <1>2 DEF SkipEntry, OpenDocument
<1>3. CASE SkipOverlay \/ ReferVariable \/ UpdateVariable
  BY <1>3 DEF SkipOverlay, ReferVariable, UpdateVariable
<1>4. CASE DecodeVariables \/ decodeProcessData \/ setVariableProcessData \/ decodeUI
  BY <1>4 DEF DecodeVariables, decodeProcessData, setVariableProcessData, decodeUI
<1>5. CASE emplaceDescriptor \/ Publish \/ Throw \/ Exhaust BY <1>5 DEF emplaceDescriptor, Publish, Throw, Exhaust
<1>6. CASE Returned \/ UNCHANGED vars BY <1>6 DEF Returned, vars
<1> QED BY <1>1, <1>2, <1>3, <1>4, <1>5, <1>6 DEF Next

LEMMA CollectedStep == RInv /\ [Next]_vars => CollectedInv'
<1> SUFFICES ASSUME RInv, [Next]_vars PROVE CollectedInv' OBVIOUS
<1>1. CASE emplaceDescriptor
  <2> DEFINE new == [file |-> file, variables |-> variables,
                     processData |-> processData, uis |-> uis]
  <2>1. stage = "emplace" /\ descriptors' = emplace(descriptors, Identity(doc), new)
    BY <1>1 DEF emplaceDescriptor
  <2>2. UNCHANGED <<disk, stdVariables>>
    BY <1>1 DEF emplaceDescriptor, stdState
  <2>3. KeepsObjects(new.file, new.variables, stdVariables)
    BY <2>1 DEF RInv, ReferInv, FileStages
  <2> HIDE DEF new
  <2>4. ASSUME NEW id \in DOMAIN descriptors'
        PROVE  KeepsObjects(descriptors'[id].file, descriptors'[id].variables, stdVariables)
    BY <2>1, <2>3, EmplaceAdds DEF RInv, CollectedInv
  <2> QED BY <2>2, <2>4 DEF CollectedInv, KeepsObjects
<1>2. CASE Throw BY <1>2 DEF Throw, Empty, CollectedInv
<1>3. CASE decodeStdDefinitions
  <2>1. descriptors' = Empty
    BY <1>3 DEF decodeStdDefinitions, RInv, ReferInv
  <2> QED BY <2>1 DEF Empty, CollectedInv
<1>4. CASE ~emplaceDescriptor /\ ~Throw /\ ~decodeStdDefinitions
  <2>1. UNCHANGED <<disk, stdVariables, descriptors>> BY <1>4, StandardStays, DescriptorsKept
  <2> QED BY <2>1 DEF RInv, CollectedInv, KeepsObjects
<1> QED BY <1>1, <1>2, <1>3, <1>4

\* A standard variable a document refers to keeps the object of its datatype in the
\* descriptor, unless setVariableProcessData bound it.
THEOREM ReferencesKeep == Spec => []ReferencesKeepStandardObject
<1>1. Init => RInv
  BY InitType DEF Init, Empty, RInv, ReferInv, CollectedInv, FileStages
<1>2. RInv => ReferencesKeepStandardObject
  BY DEF RInv, CollectedInv, KeepsObjects, ReferencesKeepStandardObject
<1>3. RInv /\ [Next]_vars => RInv'
  BY TypeStep, ReferStep, CollectedStep DEF RInv
<1> QED BY <1>1, <1>2, <1>3, PTL DEF Spec

---------------------------------------------------------------------------
(* What is published of a variable: which of its references decides its    *)
(* default and its flag, and when a condition still points to it.          *)

\* The condition of every union points to the variable, or points to what it was
\* before it was bound.
Points(pds, vs) ==
  \A pd \in DOMAIN pds : pds[pd].id # None => pds[pd].condition = vs[pds[pd].id]
StaleWhenBound(pds, vs) ==
  \A pd \in DOMAIN pds :
    LET union == pds[pd]
        bound == \E dir \in {"in", "out"} :
                   union[dir] # None /\ ProcessDataVariable[dir] = union.id
    IN union.id # None => (union.condition # vs[union.id]) = bound

\* What the reference ref to the standard variable std decides about the variable v.
DecidedBy(ref, std, v) ==
  /\ v.excluded = (Updates(ref, std) \/ std.excluded)
  /\ v.default = IF Updates(ref, std) /\ HasDefault(ref, std) /\ v.processData = None
                 THEN ref.default ELSE None
Decided(refs, vs, std) ==
  \A v \in Ids(refs) \ Overlays : DecidedBy(refs[First(refs, v)], std[v], vs[v])

\* No standard variable has process data or a default, and no variable has process data
\* before it is bound.
FreshInv ==
  /\ \A v \in DOMAIN stdVariables :
       stdVariables[v].processData = None /\ stdVariables[v].default = None
  /\ stage \in {"stdRefs", "processData", "bind"} =>
       \A v \in DOMAIN variables : variables[v].processData = None

\* Conditions point to the variables until these are bound.
ConditionInv ==
  /\ stage = "bind" => \A pd \in DOMAIN processData : processData[pd].id \in DOMAIN variables \cup {None}
  /\ stage = "bind" => Points(processData, variables)
  /\ stage \in {"ui", "emplace"} => StaleWhenBound(processData, variables)

\* A variable that is there while references are decoded is there from the first of
\* its references.
DecidedInv ==
  /\ stage = "stdRefs" =>
       \A v \in DOMAIN variables :
         /\ v \in Ids(doc.stdRefs)
         /\ DecidedBy(doc.stdRefs[First(doc.stdRefs, v)], stdVariables[v], variables[v])
  /\ stage \in FileStages \ {"stdRefs"} => Decided(doc.stdRefs, variables, stdVariables)

\* The same for the descriptors.
PublishedInv ==
  \A id \in DOMAIN descriptors :
    LET d == descriptors[id]
    IN StaleWhenBound(d.processData, d.variables) /\ Decided(disk.iodds[d.file].stdRefs, d.variables, stdVariables)

PInv == RInv /\ FreshInv /\ ConditionInv /\ DecidedInv /\ PublishedInv

---------------------------------------------------------------------------
(* Fresh variables. *)

\* A variable that is decoded has neither process data nor a default.
LEMMA DecodedIsFresh ==
  ASSUME NEW decls, NEW origin, NEW types, NEW v \in Ids(decls)
  PROVE  /\ decodeVariables(decls, origin, types)[v].processData = None
         /\ decodeVariables(decls, origin, types)[v].default = None
BY DEF decodeVariables, DecodedVariable

LEMMA FreshStep == PInv /\ [Next]_vars => FreshInv'
<1> SUFFICES ASSUME PInv, [Next]_vars PROVE FreshInv' OBVIOUS
<1> USE DEF stdState, fileState
<1>1. CASE decodeUnits BY <1>1 DEF decodeUnits, PInv, FreshInv
<1>2. CASE decodeStdDefinitions
  <2>1. stdVariables' = StdVariables(disk.std) /\ stage' = "scan"
    BY <1>2 DEF decodeStdDefinitions
  <2>2. DOMAIN stdVariables' = Ids(disk.std.variables)
    BY <2>1 DEF StdVariables, decodeVariables
  <2> QED BY <2>1, <2>2, DecodedIsFresh DEF StdVariables, FreshInv
<1>3. ASSUME NEW p \in Paths, SkipEntry(p) PROVE FreshInv'
  BY <1>3 DEF SkipEntry, PInv, FreshInv
<1>4. ASSUME NEW p \in Paths, OpenDocument(p) PROVE FreshInv'
  BY <1>4 DEF OpenDocument, PInv, RInv, ReferInv, Empty, FreshInv
<1>5. CASE SkipOverlay BY <1>5 DEF SkipOverlay, PInv, FreshInv
<1>6. CASE ReferVariable
  <2>1. stdVariables[Ref.id].processData = None BY <1>6 DEF ReferVariable, PInv, FreshInv
  <2>2. /\ variables' = emplace(variables, Ref.id, stdVariables[Ref.id])
        /\ stage = "stdRefs" /\ UNCHANGED <<stage, stdVariables>>
    BY <1>6 DEF ReferVariable
  <2> QED BY <2>1, <2>2, EmplaceAdds DEF PInv, FreshInv
<1>7. CASE UpdateVariable
  <2> DEFINE new == Updated(Ref, stdVariables[Ref.id])
  <2>1. Ref.id \in DOMAIN stdVariables BY <1>7 DEF UpdateVariable
  <2>2. /\ variables' = emplace(variables, Ref.id, new)
        /\ stage = "stdRefs" /\ UNCHANGED <<stage, stdVariables>>
    BY <1>7 DEF UpdateVariable
  <2>3. stdVariables[Ref.id] \in Variable BY <2>1 DEF PInv, RInv, TypeOK, VariablesMap
  <2>4. new.processData = None BY <2>1, <2>3 DEF PInv, FreshInv, Updated, Variable
  <2> HIDE DEF new
  <2> QED BY <2>2, <2>4, EmplaceAdds DEF PInv, FreshInv
<1>8. CASE DecodeVariables
  <2> DEFINE more == decodeVariables(doc.variables, file, datatypes)
  <2>1. /\ variables' = insert(variables, more) /\ stage = "stdRefs"
        /\ UNCHANGED stdVariables
    BY <1>8 DEF DecodeVariables
  <2>2. \A v \in DOMAIN more : more[v].processData = None
    <3>1. DOMAIN more = Ids(doc.variables) BY DEF decodeVariables
    <3> QED BY <3>1, DecodedIsFresh
  <2> HIDE DEF more
  <2>3. \A v \in DOMAIN variables' : variables'[v].processData = None
    BY <2>1, <2>2 DEF insert, PInv, FreshInv
  <2> QED BY <2>1, <2>3 DEF PInv, FreshInv
<1>9. CASE decodeProcessData BY <1>9 DEF decodeProcessData, PInv, FreshInv
<1>10. CASE setVariableProcessData BY <1>10 DEF setVariableProcessData, PInv, FreshInv
<1>11. CASE decodeUI BY <1>11 DEF decodeUI, PInv, FreshInv
<1>12. CASE emplaceDescriptor BY <1>12 DEF emplaceDescriptor, PInv, FreshInv
<1>13. CASE Publish \/ Throw \/ Exhaust BY <1>13 DEF Publish, Throw, Exhaust, PInv, FreshInv
<1>14. CASE Returned \/ UNCHANGED vars BY <1>14 DEF Returned, vars, PInv, FreshInv
<1> QED
  BY <1>1, <1>2, <1>3, <1>4, <1>5, <1>6, <1>7, <1>8, <1>9, <1>10, <1>11, <1>12, <1>13, <1>14
  DEF Next

---------------------------------------------------------------------------
(* Conditions. *)

\* The condition of a union is looked up in the variables decoded so far.
LEMMA DecodedConditions ==
  ASSUME TypeOK, decodeProcessData
  PROVE  /\ \A pd \in DOMAIN processData' : processData'[pd].id \in DOMAIN variables \cup {None}
         /\ Points(processData', variables)
<1> DEFINE decls == doc.processData
           decl(pd) == decls[First(decls, pd)]
<1>1. /\ \A i \in DOMAIN decls : DecodesProcessData(decls[i])
      /\ processData' = [pd \in Ids(decls) |-> ProcessDataUnion(decl(pd))]
  BY DEF decodeProcessData
<1>2. decls \in Seq(ProcessDataDecl)
  BY OpenDocumentType DEF decodeProcessData, FileStages, DeviceDoc
<1>3. ASSUME NEW pd \in Ids(decls) PROVE decl(pd).condition \in DOMAIN variables \cup {None}
  <2>1. First(decls, pd) \in DOMAIN decls BY <1>2, <1>3, FirstIsDeclared
  <2> QED BY <1>1, <2>1 DEF DecodesProcessData
<1>4. ASSUME NEW pd \in Ids(decls)
      PROVE  /\ processData'[pd].id = decl(pd).condition
             /\ decl(pd).condition # None
                  => processData'[pd].condition = variables[decl(pd).condition]
  BY <1>1, <1>4 DEF ProcessDataUnion, found
<1>5. DOMAIN processData' = Ids(decls) BY <1>1
<1> HIDE DEF decls, decl
<1> QED BY <1>3, <1>4, <1>5 DEF Points

\* Binding changes a variable: it had no process data.
LEMMA BoundDiffers ==
  ASSUME NEW v \in Variable, v.processData = None, NEW data, data # None
  PROVE  Bound(v, data).processData = data /\ Bound(v, data) # v
<1>1. Bound(v, data).processData = data BY DEF Bound, Variable
<1> QED BY <1>1

LEMMA BindMakesStale ==
  ASSUME PInv, setVariableProcessData
  PROVE  StaleWhenBound(processData, variables')
<1>1. PICK pd \in DOMAIN processData :
        variables' = [id \in DOMAIN variables |->
          IF id \in {ProcessDataVariable[dir] : dir \in {d \in {"in", "out"} : processData[pd][d] # None}}
          THEN Bound(variables[id], IF id = ProcessDataVariable.in THEN processData[pd].in
                                    ELSE processData[pd].out)
          ELSE variables[id]]
  BY DEF setVariableProcessData
<1> DEFINE union == processData[pd]
           target == {ProcessDataVariable[dir] : dir \in {d \in {"in", "out"} : union[d] # None}}
           data(id) == IF id = ProcessDataVariable.in THEN union.in ELSE union.out
<1>2. DOMAIN processData = {pd} BY DEF setVariableProcessData, isSingle
<1>3. /\ union.id \in DOMAIN variables \cup {None}
      /\ union.id # None => union.condition = variables[union.id]
      /\ \A v \in DOMAIN variables : variables[v] \in Variable /\ variables[v].processData = None
  BY DEF setVariableProcessData, PInv, ConditionInv, Points, FreshInv, RInv, TypeOK, VariablesMap
<1>4. ASSUME NEW id \in target PROVE data(id) # None BY DEF ProcessDataVariable
<1>5. ASSUME NEW id \in DOMAIN variables
      PROVE  (variables[id] # variables'[id]) = (id \in target)
  <2>1. CASE id \in target
    <3>1. variables'[id] = Bound(variables[id], data(id)) BY <1>1, <2>1
    <3>2. data(id) # None BY <1>4, <2>1
    <3> HIDE DEF data, target
    <3> QED BY <1>3, <2>1, <3>1, <3>2, BoundDiffers
  <2>2. CASE id \notin target
    <3>1. variables'[id] = variables[id] BY <1>1, <2>2
    <3> QED BY <2>2, <3>1
  <2> QED BY <2>1, <2>2
<1>6. union.id \in target <=>
        \E dir \in {"in", "out"} : union[dir] # None /\ ProcessDataVariable[dir] = union.id
  OBVIOUS
<1>7. ASSUME union.id # None
      PROVE  (union.condition # variables'[union.id])
             = (\E dir \in {"in", "out"} : union[dir] # None /\ ProcessDataVariable[dir] = union.id)
  <2>1. union.id \in DOMAIN variables /\ union.condition = variables[union.id] BY <1>3, <1>7
  <2>2. (variables[union.id] # variables'[union.id]) = (union.id \in target) BY <1>5, <2>1
  <2> HIDE DEF target
  <2> QED BY <1>6, <2>1, <2>2
<1> QED BY <1>2, <1>7 DEF StaleWhenBound

LEMMA ConditionStep == PInv /\ [Next]_vars => ConditionInv'
<1> SUFFICES ASSUME PInv, [Next]_vars PROVE ConditionInv' OBVIOUS
<1> USE DEF stdState, fileState
<1>1. CASE decodeProcessData
  <2>1. stage' = "bind" /\ UNCHANGED variables BY <1>1 DEF decodeProcessData
  <2>2. TypeOK BY DEF PInv, RInv
  <2> QED BY <1>1, <2>1, <2>2, DecodedConditions DEF ConditionInv, Points
<1>2. CASE setVariableProcessData
  <2>1. stage' = "ui" /\ UNCHANGED processData BY <1>2 DEF setVariableProcessData
  <2> QED BY <1>2, <2>1, BindMakesStale DEF ConditionInv, StaleWhenBound
<1>3. CASE decodeUI
  <2>1. stage = "ui" /\ stage' = "emplace" /\ UNCHANGED <<processData, variables>>
    BY <1>3 DEF decodeUI
  <2> QED BY <2>1 DEF PInv, ConditionInv, StaleWhenBound
<1>4. CASE decodeUnits \/ decodeStdDefinitions
  BY <1>4 DEF decodeUnits, decodeStdDefinitions, ConditionInv
<1>5. ASSUME NEW p \in Paths, SkipEntry(p) \/ OpenDocument(p) PROVE ConditionInv'
  BY <1>5 DEF SkipEntry, OpenDocument, ConditionInv
<1>6. CASE SkipOverlay \/ ReferVariable \/ UpdateVariable
  BY <1>6 DEF SkipOverlay, ReferVariable, UpdateVariable, ConditionInv
<1>7. CASE DecodeVariables \/ emplaceDescriptor \/ Publish \/ Throw \/ Exhaust
  BY <1>7 DEF DecodeVariables, emplaceDescriptor, Publish, Throw, Exhaust, ConditionInv
<1>8. CASE Returned \/ UNCHANGED vars
  <2>1. UNCHANGED <<stage, processData, variables>> BY <1>8 DEF Returned, vars
  <2> QED BY <2>1 DEF PInv, ConditionInv, StaleWhenBound, Points
<1> QED BY <1>1, <1>2, <1>3, <1>4, <1>5, <1>6, <1>7, <1>8 DEF Next
---------------------------------------------------------------------------
(* The first reference. *)

\* First returns the position with no earlier declaration of its id.
LEMMA FirstIs ==
  ASSUME NEW S, NEW decls \in Seq(S), NEW i \in DOMAIN decls,
         \A j \in DOMAIN decls : j < i => decls[j].id # decls[i].id
  PROVE  First(decls, decls[i].id) = i
<1> DEFINE id == decls[i].id
           f == First(decls, id)
<1>1. id \in Ids(decls) BY DEF Ids
<1>2. \A j \in DOMAIN decls : decls[j].id = id => i <= j OBVIOUS
<1>3. \E k \in DOMAIN decls : decls[k].id = id /\ \A j \in DOMAIN decls : decls[j].id = id => k <= j
  BY <1>2
<1>4. f \in DOMAIN decls /\ decls[f].id = id /\ \A j \in DOMAIN decls : decls[j].id = id => f <= j
  BY <1>3 DEF First
<1>5. i <= f /\ f <= i BY <1>2, <1>4
<1> QED BY <1>4, <1>5

\* A reference that is passed decides the variable if it is the first one to it, and
\* changes nothing if it is not.
LEMMA PassDecides ==
  ASSUME PInv, stage = "stdRefs", pos \in DOMAIN doc.stdRefs, Ref.id \notin Overlays,
         NEW v, DecidedBy(Ref, stdVariables[Ref.id], v),
         variables' = emplace(variables, Ref.id, v),
         stage' = "stdRefs", UNCHANGED <<disk, file, stdVariables>>
  PROVE  DecidedInv'
<1> DEFINE refs == doc.stdRefs
<1>1. refs \in Seq(StdVariableRef) /\ pos \in Nat \ {0} BY StdRefPositions DEF PInv, RInv
<1>2. doc' = doc BY DEF doc
<1>3. ASSUME NEW k \in DOMAIN variables'
      PROVE  k \in Ids(refs) /\ DecidedBy(refs[First(refs, k)], stdVariables[k], variables'[k])
  <2>1. CASE k \in DOMAIN variables
    <3>1. variables'[k] = variables[k] BY <2>1, EmplaceKeeps
    <3> QED BY <2>1, <3>1 DEF PInv, DecidedInv
  <2>2. CASE k \notin DOMAIN variables
    <3>1. k = Ref.id /\ variables'[k] = v BY <2>2, <1>3, EmplaceAdds
    <3>2. \A j \in DOMAIN refs : j < pos => refs[j].id # Ref.id
      BY <2>2, <3>1 DEF PInv, RInv, ReferInv
    <3>3. First(refs, Ref.id) = pos BY <1>1, <3>2, FirstIs DEF Ref
    <3>4. k \in Ids(refs) BY <3>1 DEF Ids, Ref
    <3> QED BY <3>1, <3>3, <3>4 DEF Ref
  <2> QED BY <2>1, <2>2
<1> HIDE DEF refs
<1>4. DecidedInv' = \A k \in DOMAIN variables' :
                      /\ k \in Ids(refs)
                      /\ DecidedBy(refs[First(refs, k)], stdVariables[k], variables'[k])
  BY <1>2 DEF DecidedInv, refs, FileStages, DecidedBy, Updates, HasDefault, HasNames, holdsProcessData
<1> QED BY <1>3, <1>4

\* What the document declares itself decides nothing about a referenced variable.
LEMMA DecodeVariablesDecided ==
  ASSUME PInv, DecodeVariables
  PROVE  Decided(doc.stdRefs, variables', stdVariables)
<1> DEFINE more == decodeVariables(doc.variables, file, datatypes)
           refs == doc.stdRefs
<1>1. /\ stage = "stdRefs" /\ pos \notin DOMAIN refs
      /\ variables' = insert(variables, more)
  BY DEF DecodeVariables
<1>2. \A i \in DOMAIN refs : i < pos BY <1>1, StdRefPositions DEF PInv, RInv
<1> HIDE DEF more
<1>3. ASSUME NEW v \in Ids(refs) \ Overlays
      PROVE  DecidedBy(refs[First(refs, v)], stdVariables[v], variables'[v])
  <2>1. PICK i \in DOMAIN refs : refs[i].id = v BY DEF Ids
  <2>2. v \in DOMAIN variables BY <2>1, <1>1, <1>2 DEF PInv, RInv, ReferInv
  <2>3. variables'[v] = variables[v] BY <1>1, <2>2 DEF insert
  <2> QED BY <1>1, <2>2, <2>3 DEF PInv, DecidedInv
<1> QED BY <1>3 DEF Decided, doc

\* Binding takes the default away and leaves the flag.
LEMMA BindDecided ==
  ASSUME PInv, setVariableProcessData
  PROVE  Decided(doc.stdRefs, variables', stdVariables)
<1>1. PICK pd \in DOMAIN processData :
        variables' = [id \in DOMAIN variables |->
          IF id \in {ProcessDataVariable[dir] : dir \in {d \in {"in", "out"} : processData[pd][d] # None}}
          THEN Bound(variables[id], IF id = ProcessDataVariable.in THEN processData[pd].in
                                    ELSE processData[pd].out)
          ELSE variables[id]]
  BY DEF setVariableProcessData
<1> DEFINE target == {ProcessDataVariable[dir] : dir \in {d \in {"in", "out"} : processData[pd][d] # None}}
           data(id) == IF id = ProcessDataVariable.in THEN processData[pd].in ELSE processData[pd].out
           refs == doc.stdRefs
<1>2. ASSUME NEW id \in target PROVE data(id) # None BY DEF ProcessDataVariable
<1>3. Decided(doc.stdRefs, variables, stdVariables) /\ KeepsObjects(file, variables, stdVariables)
  BY DEF PInv, RInv, ReferInv, DecidedInv, setVariableProcessData, FileStages
<1>4. ASSUME NEW v \in Ids(refs) \ Overlays
      PROVE  DecidedBy(refs[First(refs, v)], stdVariables[v], variables'[v])
  <2>1. v \in DOMAIN variables /\ DecidedBy(refs[First(refs, v)], stdVariables[v], variables[v])
    BY <1>3 DEF Decided, KeepsObjects, doc
  <2>2. variables[v] \in Variable BY <2>1 DEF PInv, RInv, TypeOK, VariablesMap
  <2>3. CASE v \in target
    <3>1. variables'[v] = Bound(variables[v], data(v)) BY <1>1, <2>1, <2>3
    <3>2. data(v) # None BY <1>2, <2>3
    <3> HIDE DEF data, target
    <3>3. /\ variables'[v].processData # None
          /\ variables'[v].default = None
          /\ variables'[v].excluded = variables[v].excluded
      BY <2>2, <3>1, <3>2 DEF Bound, Variable
    <3> QED BY <2>1, <3>3 DEF DecidedBy
  <2>4. CASE v \notin target
    <3>1. variables'[v] = variables[v] BY <1>1, <2>1, <2>4
    <3> QED BY <2>1, <3>1
  <2> QED BY <2>3, <2>4
<1> QED BY <1>4 DEF Decided

LEMMA DecidedStep == PInv /\ [Next]_vars => DecidedInv'
<1> SUFFICES ASSUME PInv, [Next]_vars PROVE DecidedInv' OBVIOUS
<1> USE DEF stdState, fileState
<1>1. CASE decodeUnits \/ decodeStdDefinitions
  BY <1>1 DEF decodeUnits, decodeStdDefinitions, DecidedInv, FileStages
<1>2. ASSUME NEW p \in Paths, SkipEntry(p) PROVE DecidedInv'
  BY <1>2 DEF SkipEntry, DecidedInv, FileStages
<1>3. ASSUME NEW p \in Paths, OpenDocument(p) PROVE DecidedInv'
  <2>1. variables' = Empty /\ stage' = "stdRefs"
    BY <1>3 DEF OpenDocument, PInv, RInv, ReferInv
  <2> QED BY <2>1 DEF Empty, DecidedInv, FileStages
<1>4. CASE SkipOverlay
  <2>1. UNCHANGED <<disk, file, stage, variables, stdVariables>> /\ stage = "stdRefs"
    BY <1>4 DEF SkipOverlay
  <2>2. doc' = doc BY <2>1 DEF doc
  <2> QED BY <2>1, <2>2 DEF PInv, DecidedInv, FileStages
<1>5. CASE ReferVariable
  <2> DEFINE v == stdVariables[Ref.id]
  <2>1. /\ stage = "stdRefs" /\ stage' = "stdRefs" /\ pos \in DOMAIN doc.stdRefs
        /\ Ref.id \in DOMAIN stdVariables \ Overlays /\ ~Updates(Ref, v)
        /\ variables' = emplace(variables, Ref.id, v)
        /\ UNCHANGED <<disk, file, stdVariables>>
    BY <1>5 DEF ReferVariable
  <2>2. v \in Variable /\ v.default = None
    BY <2>1 DEF PInv, FreshInv, RInv, TypeOK, VariablesMap
  <2>3. DecidedBy(Ref, v, v) BY <2>1, <2>2 DEF DecidedBy, Variable
  <2> QED BY <2>1, <2>3, PassDecides
<1>6. CASE UpdateVariable
  <2> DEFINE std == stdVariables[Ref.id]
             v == Updated(Ref, std)
  <2>1. /\ stage = "stdRefs" /\ stage' = "stdRefs" /\ pos \in DOMAIN doc.stdRefs
        /\ Ref.id \in DOMAIN stdVariables \ Overlays /\ Updates(Ref, std)
        /\ variables' = emplace(variables, Ref.id, v)
        /\ UNCHANGED <<disk, file, stdVariables>>
    BY <1>6 DEF UpdateVariable
  <2>2. std \in Variable /\ std.default = None /\ std.processData = None
    BY <2>1 DEF PInv, FreshInv, RInv, TypeOK, VariablesMap
  <2>3. DecidedBy(Ref, std, v)
    <3>1. v.excluded = TRUE /\ v.processData = None
      BY <2>2 DEF Updated, Variable
    <3>2. v.default = IF HasDefault(Ref, std) THEN Ref.default ELSE None
      BY <2>2 DEF Updated, Variable
    <3> QED BY <2>1, <3>1, <3>2 DEF DecidedBy
  <2> HIDE DEF v
  <2> QED BY <2>1, <2>3, PassDecides
<1>7. CASE DecodeVariables
  <2>1. stage' = "processData" /\ UNCHANGED <<disk, file, stdVariables>>
    BY <1>7 DEF DecodeVariables
  <2>2. Decided(doc.stdRefs, variables', stdVariables) BY <1>7, DecodeVariablesDecided
  <2>3. doc' = doc BY <2>1 DEF doc
  <2> QED BY <2>1, <2>2, <2>3 DEF DecidedInv, FileStages
<1>8. CASE decodeProcessData \/ decodeUI
  <2>1. /\ stage \in FileStages \ {"stdRefs"} /\ stage' \in FileStages \ {"stdRefs"}
        /\ UNCHANGED <<disk, file, variables, stdVariables>>
    BY <1>8 DEF decodeProcessData, decodeUI, FileStages
  <2>2. doc' = doc BY <2>1 DEF doc
  <2> QED BY <2>1, <2>2 DEF PInv, DecidedInv, FileStages
<1>9. CASE setVariableProcessData
  <2>1. stage' = "ui" /\ UNCHANGED <<disk, file, stdVariables>>
    BY <1>9 DEF setVariableProcessData
  <2>2. Decided(doc.stdRefs, variables', stdVariables) BY <1>9, BindDecided
  <2>3. doc' = doc BY <2>1 DEF doc
  <2> QED BY <2>1, <2>2, <2>3 DEF DecidedInv, FileStages
<1>10. CASE emplaceDescriptor BY <1>10 DEF emplaceDescriptor, DecidedInv, FileStages
<1>11. CASE Publish \/ Throw \/ Exhaust BY <1>11 DEF Publish, Throw, Exhaust, DecidedInv, FileStages
<1>12. CASE Returned \/ UNCHANGED vars
  <2>1. UNCHANGED <<disk, stage, file, variables, stdVariables>> BY <1>12 DEF Returned, vars
  <2>2. doc' = doc BY <2>1 DEF doc
  <2> QED BY <2>1, <2>2 DEF PInv, DecidedInv
<1> QED
  BY <1>1, <1>2, <1>3, <1>4, <1>5, <1>6, <1>7, <1>8, <1>9, <1>10, <1>11, <1>12 DEF Next

---------------------------------------------------------------------------
(* Publishing. *)

LEMMA PublishedStep == PInv /\ [Next]_vars => PublishedInv'
<1> SUFFICES ASSUME PInv, [Next]_vars PROVE PublishedInv' OBVIOUS
<1>1. CASE emplaceDescriptor
  <2> DEFINE new == [file |-> file, variables |-> variables,
                     processData |-> processData, uis |-> uis]
             Fit(d) == /\ StaleWhenBound(d.processData, d.variables)
                       /\ Decided(disk.iodds[d.file].stdRefs, d.variables, stdVariables)
  <2>1. stage = "emplace" /\ descriptors' = emplace(descriptors, Identity(doc), new)
        /\ UNCHANGED <<disk, stdVariables>>
    BY <1>1 DEF emplaceDescriptor, stdState
  <2>2. Fit(new) BY <2>1 DEF PInv, ConditionInv, DecidedInv, FileStages, doc
  <2>3. \A id \in DOMAIN descriptors : Fit(descriptors[id]) BY DEF PInv, PublishedInv
  <2> HIDE DEF new, Fit
  <2>4. ASSUME NEW id \in DOMAIN descriptors' PROVE Fit(descriptors'[id])
    BY <2>1, <2>2, <2>3, EmplaceAdds
  <2> QED BY <2>1, <2>4 DEF Fit, PublishedInv
<1>2. CASE Throw BY <1>2 DEF Throw, Empty, PublishedInv
<1>3. CASE decodeStdDefinitions
  <2>1. descriptors' = Empty BY <1>3 DEF decodeStdDefinitions, PInv, RInv, ReferInv
  <2> QED BY <2>1 DEF Empty, PublishedInv
<1>4. CASE ~emplaceDescriptor /\ ~Throw /\ ~decodeStdDefinitions
  <2>1. UNCHANGED <<disk, stdVariables, descriptors>> BY <1>4, StandardStays, DescriptorsKept
  <2> QED BY <2>1 DEF PInv, PublishedInv
<1> QED BY <1>1, <1>2, <1>3, <1>4

LEMMA PInit == Init => PInv
BY InitType DEF Init, Empty, PInv, RInv, ReferInv, CollectedInv, FreshInv, ConditionInv,
   DecidedInv, PublishedInv, FileStages

LEMMA PStep == PInv /\ [Next]_vars => PInv'
BY TypeStep, ReferStep, CollectedStep, FreshStep, ConditionStep, DecidedStep, PublishedStep
DEF PInv, RInv

LEMMA PublishedInductive == Spec => []PInv
BY PInit, PStep, PTL DEF Spec

\* The condition of a published union points to the published variable unless that was
\* bound after the condition was decoded.
THEOREM ConditionsGoStale == Spec => []ConditionsAreStaleOnlyWhenBound
<1>1. PInv => ConditionsAreStaleOnlyWhenBound
  BY DEF PInv, PublishedInv, StaleWhenBound, ConditionsAreStaleOnlyWhenBound
<1> QED BY <1>1, PublishedInductive, PTL

\* The first reference to a standard variable decides its default and its flag.
THEOREM FirstDecides == Spec => []FirstReferenceDecides
<1>1. PInv => FirstReferenceDecides
  BY DEF PInv, PublishedInv, Decided, DecidedBy, FirstReferenceDecides
<1> QED BY <1>1, PublishedInductive, PTL

---------------------------------------------------------------------------
(* The refinement of RepositorySpec: what makeRepository publishes has one     *)
(* descriptor per identity, each decoded from a document with that identity;   *)
(* it throws only if the standard documents or one of the others is refused,   *)
(* whatever was decoded before; and it exhausts the call stack only on a       *)
(* document whose own menus do.                                                *)

Loaded == {"scan", "ready"} \cup FileStages
Finished == Documents \ (pending \cup {file})

\* What is in use is what the standard documents say.
SourcesInv ==
  /\ stage \in {"std"} \cup Loaded => disk.units.wellFormed /\ units = disk.units.codes
  /\ stage \in Loaded => StdDecodable(disk.std)
  /\ stage \in {"ready"} \cup FileStages => disk.dir

\* As far as the open document has been decoded it is decodable, and the variables found
\* are those the document names.
ProgressInv ==
  stage \in FileStages =>
    /\ doc.wellFormed
    /\ stage = "stdRefs" =>
         LET passed == {i \in DOMAIN doc.stdRefs : i < pos}
         IN /\ \A i \in passed : doc.stdRefs[i].id \in Overlays \cup DOMAIN stdVariables
            /\ DOMAIN variables = {doc.stdRefs[i].id : i \in passed} \ Overlays
    /\ stage # "stdRefs" =>
         /\ DOMAIN variables = Abs!VariableIds(doc)
         /\ Abs!ReferencesKnown(doc) /\ Abs!VariablesDecodable(doc)
    /\ stage \in {"bind", "ui", "emplace"} => Abs!ProcessDataDecodable(doc)
    /\ stage = "bind" =>
         /\ DOMAIN processData = Ids(doc.processData)
         /\ \A id \in DOMAIN processData, dir \in {"in", "out"} :
              (processData[id][dir] # None) <=>
                doc.processData[First(doc.processData, id)][dir] = "type"
    /\ stage \in {"ui", "emplace"} => Abs!Bindable(doc)
    /\ stage = "emplace" => Abs!MenusDecodable(doc)

\* The descriptors stand for the documents that are finished.
Stands(map, docs) ==
  /\ \A p \in docs : Abs!Decodable(disk.iodds[p])
  /\ DOMAIN map = {Identity(disk.iodds[p]) : p \in docs}
  /\ \A id \in DOMAIN map : map[id].file \in docs /\ Identity(disk.iodds[map[id].file]) = id
FinishedInv == stage \in Loaded => Stands(descriptors, Finished)

RefInv == RInv /\ StdInv /\ PosInv /\ ReadyInv /\ SourcesInv /\ ProgressInv /\ FinishedInv

---------------------------------------------------------------------------
(* RepositorySpec says the same of a document with the same words. *)

LEMMA SameNames ==
  /\ Abs!Overlays = Overlays /\ Abs!UserRoles = UserRoles
  /\ Abs!ProcessDataVariable = ProcessDataVariable
  /\ \A decls : Abs!Ids(decls) = Ids(decls)
  /\ \A decls, id : Abs!First(decls, id) = First(decls, id)
  /\ Abs!Documents = Documents
  /\ \A d : Abs!Identity(d) = Identity(d)
BY DEF Overlays, Abs!Overlays, UserRoles, Abs!UserRoles, RoleOrder, Abs!RoleOrder,
  ProcessDataVariable, Abs!ProcessDataVariable, Ids, Abs!Ids, First, Abs!First,
  Documents, Abs!Documents, Identity, Abs!Identity

LEMMA SameDatatypes == \A std : Abs!StdDatatypes(std) = StdDatatypes(std)
BY SameNames DEF StdDatatypes, Abs!StdDatatypes, decodeDatatypes, Abs!decodeDatatypes,
  DecodedDataValue, Abs!DecodedDataValue, NoDatatypes, Abs!NoDatatypes, Std, Abs!Std,
  isComplexData, Abs!isComplexData, Code, Abs!Code

LEMMA SameDataValues ==
  \A decl, map : Abs!DecodesDataValue(decl, map) <=> DecodesDataValue(decl, map)
BY DEF DecodesDataValue, Abs!DecodesDataValue, isProcessData, Abs!isProcessData,
  isComplexData, Abs!isComplexData, isSimpleData, Abs!isSimpleData, Code, Abs!Code

LEMMA SameVariables ==
  \A v, map : Abs!DecodesVariable(v, map) <=> DecodesVariable(v, map)
BY SameDataValues DEF DecodesVariable, Abs!DecodesVariable, isProcessData, Abs!isProcessData,
  Code, Abs!Code

LEMMA SameStd == \A std : Abs!StdDecodable(std) <=> StdDecodable(std)
BY SameDatatypes, SameDataValues, SameVariables
DEF StdDecodable, Abs!StdDecodable, NoDatatypes, Abs!NoDatatypes

LEMMA SameOutcomes ==
  /\ \A menu, known : Abs!MenuOutcome(menu, known) = MenuOutcome(menu, known)
  /\ \A role, e, known : Abs!Decodes(role, e, known) <=> Decodes(role, e, known)
<1>1. \A menu, known : Abs!MenuOutcome(menu, known) = MenuOutcome(menu, known)
  BY DEF MenuOutcome, Abs!MenuOutcome, Fault, Abs!Fault
<1> QED BY <1>1 DEF Decodes, Abs!Decodes, Absorbed, Abs!Absorbed

LEMMA SameMenus == \A role, known : Abs!DecodesRoleUI(role, known) <=> DecodesRoleUI(role, known)
BY SameOutcomes DEF DecodesRoleUI, Abs!DecodesRoleUI,
  Entries, Abs!Entries, EntryOrder, Abs!EntryOrder

LEMMA SameExhausts == \A menus, known : Abs!Exhausts(menus, known) <=> Exhausts(menus, known)
BY SameOutcomes, SameMenus DEF Exhausts, Abs!Exhausts,
  RoleOrder, Abs!RoleOrder, EntryOrder, Abs!EntryOrder

\* A user interface that is decoded does not exhaust the call stack.
LEMMA DecodedNotExhausted ==
  ASSUME NEW menus, NEW known, Exhausts(menus, known)
  PROVE  \E role \in UserRoles : ~DecodesRoleUI(menus[role], known)
<1>1. PICK r \in DOMAIN RoleOrder, e \in DOMAIN EntryOrder :
        MenuOutcome(menus[RoleOrder[r]][EntryOrder[e]], known) = "overflow"
  BY DEF Exhausts
<1>2. RoleOrder[r] \in UserRoles /\ EntryOrder[e] \in Entries BY DEF UserRoles, Entries
<1>3. ~Decodes(menus[RoleOrder[r]], EntryOrder[e], known) BY <1>1 DEF Decodes, Absorbed
<1> QED BY <1>2, <1>3 DEF DecodesRoleUI

LEMMA VariableIdsAre ==
  \A d : Abs!VariableIds(d) = (Ids(d.stdRefs) \ Overlays) \cup Ids(d.variables)
BY SameNames DEF Abs!VariableIds

LEMMA KnownAre ==
  \A d : Abs!ReferencesKnown(d) <=> Ids(d.stdRefs) \ Overlays \subseteq Ids(disk.std.variables)
BY SameNames DEF Abs!ReferencesKnown

LEMMA DecodableVariablesAre ==
  \A d : Abs!VariablesDecodable(d) <=>
           \A i \in DOMAIN d.variables : DecodesVariable(d.variables[i], StdDatatypes(disk.std))
BY SameVariables, SameDatatypes DEF Abs!VariablesDecodable

LEMMA BindableIs ==
  \A d : Abs!Bindable(d) <=>
    /\ \E id \in PDIds : Ids(d.processData) = {id}
    /\ \A dir \in {"in", "out"} :
         Abs!HasDirection(d, dir) => ProcessDataVariable[dir] \in Abs!VariableIds(d)
BY SameNames DEF Abs!Bindable

LEMMA DirectionIs ==
  \A d, dir : Abs!HasDirection(d, dir) <=>
    \E i \in DOMAIN d.processData :
      First(d.processData, d.processData[i].id) = i /\ d.processData[i][dir] = "type"
BY SameNames DEF Abs!HasDirection

LEMMA DecodableMenusAre ==
  \A d : Abs!MenusDecodable(d) <=>
           \A role \in UserRoles : DecodesRoleUI(d.menus[role], Abs!VariableIds(d))
BY SameMenus, SameNames DEF Abs!MenusDecodable

LEMMA ExhaustingIs ==
  \A d : Abs!Exhausting(d) <=> Abs!ReachesMenus(d) /\ Exhausts(d.menus, Abs!VariableIds(d))
BY SameExhausts DEF Abs!Exhausting

---------------------------------------------------------------------------
(* The open document and the standard definitions. *)

LEMMA OpenParts ==
  ASSUME TypeOK, stage \in FileStages
  PROVE  /\ file \in Documents /\ doc \in DeviceDoc /\ doc = disk.iodds[file]
         /\ doc.stdRefs \in Seq(StdVariableRef)
         /\ doc.variables \in Seq(VariableDecl)
         /\ doc.processData \in Seq(ProcessDataDecl)
         /\ pos \in Nat \ {0}
BY OpenDocumentType DEF TypeOK, DeviceDoc, doc

LEMMA StandardParts ==
  ASSUME RefInv, stage \in FileStages
  PROVE  /\ datatypes = StdDatatypes(disk.std)
         /\ DOMAIN stdVariables = Ids(disk.std.variables)
<1>1. datatypes = StdDatatypes(disk.std) /\ stdVariables = StdVariables(disk.std)
  BY DEF RefInv, StdInv, FileStages
<1>2. disk.std \in StdDoc /\ StdDecodable(disk.std)
  BY StdDocType DEF RefInv, RInv, SourcesInv, Loaded
<1> QED BY <1>1, <1>2, StdVariablesType

LEMMA SourcesStep == RefInv /\ [Next]_vars => SourcesInv'
<1> SUFFICES ASSUME RefInv, [Next]_vars PROVE SourcesInv' OBVIOUS
<1> USE DEF RefInv, SourcesInv, Loaded, FileStages, stdState, fileState
<1>1. CASE decodeUnits BY <1>1 DEF decodeUnits
<1>2. CASE decodeStdDefinitions BY <1>2 DEF decodeStdDefinitions
<1>3. ASSUME NEW p \in Paths, SkipEntry(p) \/ OpenDocument(p) PROVE SourcesInv'
  BY <1>3 DEF SkipEntry, OpenDocument
<1>4. CASE SkipOverlay \/ ReferVariable \/ UpdateVariable
  BY <1>4 DEF SkipOverlay, ReferVariable, UpdateVariable
<1>5. CASE DecodeVariables \/ decodeProcessData \/ setVariableProcessData \/ decodeUI
  BY <1>5 DEF DecodeVariables, decodeProcessData, setVariableProcessData, decodeUI
<1>6. CASE emplaceDescriptor \/ Publish BY <1>6 DEF emplaceDescriptor, Publish
<1>7. CASE Throw \/ Exhaust BY <1>7 DEF Throw, Exhaust
<1>8. CASE Returned \/ UNCHANGED vars BY <1>8 DEF Returned, vars
<1> QED BY <1>1, <1>2, <1>3, <1>4, <1>5, <1>6, <1>7, <1>8 DEF Next

---------------------------------------------------------------------------
(* Progress in the open document, one decoder at a time. *)

\* What a document is, besides the disk, does not change.
LEMMA SameDocument ==
  ASSUME UNCHANGED <<disk, file>>
  PROVE  /\ doc' = doc
         /\ Abs!VariableIds(doc)' = Abs!VariableIds(doc)
         /\ Abs!ReferencesKnown(doc)' = Abs!ReferencesKnown(doc)
         /\ Abs!VariablesDecodable(doc)' = Abs!VariablesDecodable(doc)
         /\ Abs!ProcessDataDecodable(doc)' = Abs!ProcessDataDecodable(doc)
         /\ Abs!Bindable(doc)' = Abs!Bindable(doc)
         /\ Abs!MenusDecodable(doc)' = Abs!MenusDecodable(doc)
BY DEF doc, Abs!VariableIds, Abs!ReferencesKnown, Abs!VariablesDecodable,
       Abs!ProcessDataDecodable, Abs!Bindable, Abs!HasDirection, Abs!MenusDecodable

\* A reference that is passed.
LEMMA PassProgress ==
  ASSUME RefInv, stage = "stdRefs", stage' = "stdRefs", pos \in DOMAIN doc.stdRefs,
         pos' = pos + 1, UNCHANGED <<disk, file, stdVariables>>,
         Ref.id \in Overlays \cup DOMAIN stdVariables,
         DOMAIN variables' = DOMAIN variables \cup ({Ref.id} \ Overlays)
  PROVE  ProgressInv'
<1> DEFINE passed(n) == {i \in DOMAIN doc.stdRefs : i < n}
<1>1. doc' = doc /\ doc.stdRefs \in Seq(StdVariableRef) /\ pos \in Nat \ {0}
  BY SameDocument, OpenParts DEF RefInv, RInv, FileStages
<1>2. /\ doc.wellFormed
      /\ \A i \in passed(pos) : doc.stdRefs[i].id \in Overlays \cup DOMAIN stdVariables
      /\ DOMAIN variables = {doc.stdRefs[i].id : i \in passed(pos)} \ Overlays
  BY DEF RefInv, ProgressInv, FileStages
<1>3. passed(pos + 1) = passed(pos) \cup {pos} BY <1>1
<1>4. doc.stdRefs[pos].id = Ref.id BY DEF Ref
<1>5. \A i \in passed(pos + 1) : doc.stdRefs[i].id \in Overlays \cup DOMAIN stdVariables
  BY <1>2, <1>3, <1>4
<1>6. DOMAIN variables' = {doc.stdRefs[i].id : i \in passed(pos + 1)} \ Overlays
  <2> HIDE DEF passed
  <2> QED BY <1>2, <1>3, <1>4
<1>7. ProgressInv' = (/\ doc'.wellFormed
                      /\ \A i \in {j \in DOMAIN doc'.stdRefs : j < pos'} :
                           doc'.stdRefs[i].id \in Overlays \cup DOMAIN stdVariables'
                      /\ DOMAIN variables' =
                           {doc'.stdRefs[i].id : i \in {j \in DOMAIN doc'.stdRefs : j < pos'}} \ Overlays)
  BY DEF ProgressInv, FileStages
<1> HIDE DEF doc
<1> QED BY <1>1, <1>2, <1>5, <1>6, <1>7

LEMMA OpenProgress ==
  ASSUME RefInv, NEW p \in Paths, OpenDocument(p)
  PROVE  ProgressInv'
<1>1. variables' = Empty /\ stage' = "stdRefs" /\ pos' = 1 /\ doc' = disk.iodds[p]
  BY DEF RefInv, RInv, OpenDocument, ReferInv, fileState, doc
<1>2. doc'.stdRefs \in Seq(StdVariableRef)
  <2>1. disk \in Disk BY DEF RefInv, RInv, TypeOK
  <2> QED BY <2>1, <1>1, DeviceDocsAssumption DEF Disk, DeviceDoc
<1>3. {i \in DOMAIN doc'.stdRefs : i < 1} = {} BY <1>2
<1>4. doc'.wellFormed BY <1>1 DEF OpenDocument
<1> QED BY <1>1, <1>3, <1>4 DEF ProgressInv, Empty

LEMMA DecodeVariablesProgress ==
  ASSUME RefInv, DecodeVariables
  PROVE  ProgressInv'
<1>1. /\ stage = "stdRefs" /\ stage' = "processData" /\ pos \notin DOMAIN doc.stdRefs
      /\ variables' = insert(variables, decodeVariables(doc.variables, file, datatypes))
      /\ UNCHANGED <<disk, file>>
  BY DEF DecodeVariables
<1>2. doc.stdRefs \in Seq(StdVariableRef) /\ pos \in Nat \ {0}
  BY <1>1, OpenParts DEF RefInv, RInv, FileStages
<1>3. {i \in DOMAIN doc.stdRefs : i < pos} = DOMAIN doc.stdRefs BY <1>1, <1>2
<1>4. /\ doc.wellFormed
      /\ \A i \in DOMAIN doc.stdRefs : doc.stdRefs[i].id \in Overlays \cup DOMAIN stdVariables
      /\ DOMAIN variables = {doc.stdRefs[i].id : i \in DOMAIN doc.stdRefs} \ Overlays
  BY <1>1, <1>3 DEF RefInv, ProgressInv, FileStages
<1>5. datatypes = StdDatatypes(disk.std) /\ DOMAIN stdVariables = Ids(disk.std.variables)
  BY <1>1, StandardParts DEF FileStages
<1>6. Abs!ReferencesKnown(doc) BY <1>4, <1>5, KnownAre DEF Ids
<1>7. Abs!VariablesDecodable(doc) BY <1>5, DecodableVariablesAre DEF DecodeVariables
<1>8. DOMAIN variables' = Abs!VariableIds(doc)
  <2>1. DOMAIN decodeVariables(doc.variables, file, datatypes) = Ids(doc.variables)
    BY DEF decodeVariables
  <2>2. DOMAIN variables = Ids(doc.stdRefs) \ Overlays BY <1>4 DEF Ids
  <2> QED BY <1>1, <2>1, <2>2, VariableIdsAre DEF insert
<1> QED BY <1>1, <1>4, <1>6, <1>7, <1>8, SameDocument DEF ProgressInv

LEMMA DecodeProcessDataProgress ==
  ASSUME RefInv, decodeProcessData
  PROVE  ProgressInv'
<1> DEFINE decls == doc.processData
<1>1. /\ stage = "processData" /\ stage' = "bind" /\ UNCHANGED <<disk, file, variables>>
      /\ processData' = [id \in Ids(decls) |-> ProcessDataUnion(decls[First(decls, id)])]
  BY DEF decodeProcessData
<1>2. /\ doc.wellFormed /\ DOMAIN variables = Abs!VariableIds(doc)
      /\ Abs!ReferencesKnown(doc) /\ Abs!VariablesDecodable(doc)
  BY <1>1 DEF RefInv, ProgressInv, FileStages
<1>3. Abs!ProcessDataDecodable(doc)
  BY <1>2 DEF decodeProcessData, DecodesProcessData, Abs!ProcessDataDecodable
<1>4. file \in Paths BY <1>1 DEF RefInv, RInv, TypeOK, FileStages, Documents
<1>5. ASSUME NEW id \in DOMAIN processData', NEW dir \in {"in", "out"}
      PROVE  (processData'[id][dir] # None) <=> decls[First(decls, id)][dir] = "type"
  <2> DEFINE decl == decls[First(decls, id)]
  <2>1. processData'[id] = ProcessDataUnion(decl) BY <1>1, <1>5
  <2>2. decl.id \in PDIds
    <3>1. decls \in Seq(ProcessDataDecl) BY <1>1, OpenParts DEF RefInv, RInv, FileStages
    <3>2. id \in Ids(decls) BY <1>1, <1>5
    <3>3. decl \in ProcessDataDecl BY <3>1, <3>2, FirstIsDeclared
    <3> QED BY <3>3 DEF ProcessDataDecl
  <2> SUFFICES (processData'[id][dir] # None) <=> decl[dir] = "type" OBVIOUS
  <2> HIDE DEF decl
  <2>3. \A d \in {"in", "out"} : <<file, decl.id, d>> # None
    BY <1>4, <2>2, NoProcessDataAssumption DEF ProcessDataT
  <2> QED BY <2>1, <2>3 DEF ProcessDataUnion
<1>6. DOMAIN processData' = Ids(decls) BY <1>1
<1> QED BY <1>1, <1>2, <1>3, <1>5, <1>6, SameDocument DEF ProgressInv

\* Bound to process data: the document has one, and variables for its directions.
LEMMA SetVariableProcessDataProgress ==
  ASSUME RefInv, setVariableProcessData
  PROVE  ProgressInv'
<1> DEFINE decls == doc.processData
<1>1. /\ stage = "bind" /\ stage' = "ui" /\ UNCHANGED <<disk, file, processData>>
      /\ isSingle(processData)
  BY DEF setVariableProcessData
<1>2. /\ doc.wellFormed /\ DOMAIN variables = Abs!VariableIds(doc)
      /\ Abs!ReferencesKnown(doc) /\ Abs!VariablesDecodable(doc) /\ Abs!ProcessDataDecodable(doc)
      /\ DOMAIN processData = Ids(decls)
      /\ \A id \in DOMAIN processData, dir \in {"in", "out"} :
           (processData[id][dir] # None) <=> decls[First(decls, id)][dir] = "type"
  BY <1>1 DEF RefInv, ProgressInv, FileStages
<1>3. PICK pd \in PDIds : Ids(decls) = {pd}
  BY <1>1, <1>2 DEF isSingle, RefInv, RInv, TypeOK
<1>4. PICK pd1 \in DOMAIN processData :
        /\ {ProcessDataVariable[dir] : dir \in {d \in {"in", "out"} : processData[pd1][d] # None}}
             \subseteq DOMAIN variables
        /\ DOMAIN variables' = DOMAIN variables
  BY DEF setVariableProcessData
<1>5. pd1 = pd BY <1>2, <1>3, <1>4
<1>6. ASSUME NEW dir \in {"in", "out"}, Abs!HasDirection(doc, dir)
      PROVE  ProcessDataVariable[dir] \in Abs!VariableIds(doc)
  <2>1. PICK i \in DOMAIN decls : First(decls, decls[i].id) = i /\ decls[i][dir] = "type"
    BY <1>6, DirectionIs
  <2>2. decls[i].id = pd BY <1>3 DEF Ids
  <2>3. processData[pd][dir] # None BY <1>2, <1>3, <2>1, <2>2
  <2> QED BY <1>2, <1>4, <1>5, <2>3
<1>7. Abs!Bindable(doc) BY <1>3, <1>6, BindableIs
<1> QED BY <1>1, <1>2, <1>4, <1>7, SameDocument DEF ProgressInv

LEMMA DecodeUIProgress ==
  ASSUME RefInv, decodeUI
  PROVE  ProgressInv'
<1>1. /\ stage = "ui" /\ stage' = "emplace" /\ UNCHANGED <<disk, file, variables>>
      /\ \A role \in UserRoles : DecodesRoleUI(doc.menus[role], DOMAIN variables)
  BY DEF decodeUI
<1>2. /\ doc.wellFormed /\ DOMAIN variables = Abs!VariableIds(doc)
      /\ Abs!ReferencesKnown(doc) /\ Abs!VariablesDecodable(doc)
      /\ Abs!ProcessDataDecodable(doc) /\ Abs!Bindable(doc)
  BY <1>1 DEF RefInv, ProgressInv, FileStages
<1>3. Abs!MenusDecodable(doc) BY <1>1, <1>2, DecodableMenusAre
<1> QED BY <1>1, <1>2, <1>3, SameDocument DEF ProgressInv

LEMMA ProgressStep == RefInv /\ [Next]_vars => ProgressInv'
<1> SUFFICES ASSUME RefInv, [Next]_vars PROVE ProgressInv' OBVIOUS
<1>1. CASE decodeUnits \/ decodeStdDefinitions
  BY <1>1 DEF decodeUnits, decodeStdDefinitions, ProgressInv, FileStages
<1>2. ASSUME NEW p \in Paths, SkipEntry(p) PROVE ProgressInv'
  BY <1>2 DEF SkipEntry, ProgressInv, FileStages
<1>3. ASSUME NEW p \in Paths, OpenDocument(p) PROVE ProgressInv' BY <1>3, OpenProgress
<1>4. CASE SkipOverlay
  BY <1>4, PassProgress DEF SkipOverlay, stdState, fileState
<1>5. CASE ReferVariable
  <2>1. Ref.id \in DOMAIN stdVariables \ Overlays BY <1>5 DEF ReferVariable
  <2>2. DOMAIN variables' = DOMAIN variables \cup {Ref.id}
    BY <1>5 DEF ReferVariable, emplace, insert
  <2> QED BY <1>5, <2>1, <2>2, PassProgress DEF ReferVariable, stdState
<1>6. CASE UpdateVariable
  <2>1. Ref.id \in DOMAIN stdVariables \ Overlays BY <1>6 DEF UpdateVariable
  <2>2. DOMAIN variables' = DOMAIN variables \cup {Ref.id}
    BY <1>6 DEF UpdateVariable, emplace, insert
  <2> QED BY <1>6, <2>1, <2>2, PassProgress DEF UpdateVariable, stdState
<1>7. CASE DecodeVariables BY <1>7, DecodeVariablesProgress
<1>8. CASE decodeProcessData BY <1>8, DecodeProcessDataProgress
<1>9. CASE setVariableProcessData BY <1>9, SetVariableProcessDataProgress
<1>10. CASE decodeUI BY <1>10, DecodeUIProgress
<1>11. CASE emplaceDescriptor \/ Publish \/ Throw \/ Exhaust
  BY <1>11 DEF emplaceDescriptor, Publish, Throw, Exhaust, ProgressInv, FileStages
<1>12. CASE Returned \/ UNCHANGED vars
  <2>1. UNCHANGED <<disk, file, stage, pos, stdVariables, variables, processData>>
    BY <1>12 DEF Returned, vars, stdState, fileState
  <2> QED BY <2>1, SameDocument DEF RefInv, ProgressInv
<1> QED
  BY <1>1, <1>2, <1>3, <1>4, <1>5, <1>6, <1>7, <1>8, <1>9, <1>10, <1>11, <1>12 DEF Next

---------------------------------------------------------------------------
(* The finished documents. *)

\* Nothing is finished when the scan begins.
LEMMA BeginFinished ==
  ASSUME RefInv, decodeStdDefinitions
  PROVE  FinishedInv'
<1>1. pending = Paths /\ descriptors = Empty /\ UNCHANGED <<disk, pending, file, descriptors>>
  BY DEF decodeStdDefinitions, RefInv, RInv, ReferInv, StdInv
<1>2. Finished' = {} BY <1>1 DEF Finished, Documents
<1>3. descriptors' = Empty BY <1>1
<1> QED BY <1>2, <1>3 DEF FinishedInv, Stands, Empty

LEMMA SameDecodable ==
  ASSUME UNCHANGED disk, NEW p
  PROVE  Abs!Decodable(disk.iodds[p])' <=> Abs!Decodable(disk.iodds[p])
BY DEF Abs!Decodable, Abs!ReachesMenus, Abs!VariableIds, Abs!ReferencesKnown,
       Abs!VariablesDecodable, Abs!ProcessDataDecodable, Abs!Bindable, Abs!HasDirection,
       Abs!MenusDecodable

\* Steps that finish no document.
LEMMA FinishedKept ==
  ASSUME RefInv, stage \in Loaded, Finished' = Finished, UNCHANGED <<disk, descriptors>>
  PROVE  FinishedInv'
<1> HIDE DEF Finished
<1>1. /\ \A p \in Finished : Abs!Decodable(disk.iodds[p])
      /\ DOMAIN descriptors = {Identity(disk.iodds[p]) : p \in Finished}
      /\ \A id \in DOMAIN descriptors :
           descriptors[id].file \in Finished /\ Identity(disk.iodds[descriptors[id].file]) = id
  BY DEF RefInv, FinishedInv, Stands
<1>2. \A p \in Finished : Abs!Decodable(disk.iodds[p])' BY <1>1, SameDecodable
<1>3. DOMAIN descriptors' = {Identity(disk.iodds[p])' : p \in Finished'}
  BY <1>1 DEF Identity
<1>a. disk' = disk /\ descriptors' = descriptors /\ Finished' = Finished OBVIOUS
<1>4. ASSUME NEW id \in DOMAIN descriptors'
      PROVE  /\ descriptors'[id].file \in Finished'
             /\ Identity(disk.iodds[descriptors[id].file])' = id
  <2>1. descriptors[id].file \in Finished /\ Identity(disk.iodds[descriptors[id].file]) = id
    BY <1>1, <1>a
  <2>2. Identity(disk.iodds[descriptors[id].file])' = Identity(disk.iodds[descriptors[id].file])
    BY <1>a DEF Identity
  <2> QED BY <2>1, <2>2, <1>a
<1> QED BY <1>2, <1>3, <1>4 DEF FinishedInv, Stands

\* The document that is emplaced is decodable, and stands for its identity unless another
\* one does already.
LEMMA EmplaceFinished ==
  ASSUME RefInv, emplaceDescriptor
  PROVE  FinishedInv'
<1> DEFINE new == [file |-> file, variables |-> variables,
                   processData |-> processData, uis |-> uis]
<1>1. /\ stage = "emplace" /\ units # {} /\ file' = None /\ UNCHANGED <<disk, pending>>
      /\ descriptors' = emplace(descriptors, Identity(doc), new)
  BY DEF emplaceDescriptor
<1>2. file \in Documents \ pending /\ file \in Paths /\ doc = disk.iodds[file]
  BY <1>1 DEF RefInv, RInv, TypeOK, FileStages, Documents, doc
<1>3. Finished' = Finished \cup {file}
  BY <1>1, <1>2, NoneAssumption DEF Finished, Documents
<1>4. Stands(descriptors, Finished) BY <1>1 DEF RefInv, FinishedInv, Loaded, FileStages
<1>5. Abs!Decodable(disk.iodds[file])
  BY <1>1, <1>2 DEF RefInv, ProgressInv, SourcesInv, Loaded, FileStages,
     Abs!Decodable, Abs!ReachesMenus
<1>6. \A p \in Finished \cup {file} : Abs!Decodable(disk.iodds[p])'
  BY <1>1, <1>4, <1>5, SameDecodable DEF Stands
<1>7. DOMAIN descriptors' = DOMAIN descriptors \cup {Identity(doc)} BY <1>1 DEF emplace, insert
<1>8. new.file = file OBVIOUS
<1> HIDE DEF new, Finished
<1>9. ASSUME NEW id \in DOMAIN descriptors'
      PROVE  /\ descriptors'[id].file \in Finished \cup {file}
             /\ Identity(disk.iodds[descriptors'[id].file]) = id
  BY <1>1, <1>2, <1>4, <1>8, EmplaceAdds DEF Stands
<1>10. DOMAIN descriptors' = {Identity(disk.iodds[p]) : p \in Finished \cup {file}}
  BY <1>2, <1>4, <1>7 DEF Stands
<1> QED BY <1>1, <1>3, <1>6, <1>9, <1>10 DEF FinishedInv, Stands, Identity

LEMMA FinishedStep == RefInv /\ [Next]_vars => FinishedInv'
<1> SUFFICES ASSUME RefInv, [Next]_vars PROVE FinishedInv' OBVIOUS
<1> USE DEF stdState, fileState
<1>1. CASE decodeUnits \/ Throw \/ Exhaust BY <1>1 DEF decodeUnits, Throw, Exhaust, FinishedInv, Loaded, FileStages
<1>2. CASE decodeStdDefinitions BY <1>2, BeginFinished
<1>3. ASSUME NEW p \in Paths, SkipEntry(p) PROVE FinishedInv'
  <2>1. /\ stage = "scan" /\ ~disk.iodds[p].xml /\ pending' = pending \ {p}
        /\ UNCHANGED <<disk, file, descriptors>>
    BY <1>3 DEF SkipEntry, otherEntries
  <2>2. Finished' = Finished BY <2>1 DEF Finished, Documents
  <2> QED BY <2>1, <2>2, FinishedKept DEF Loaded
<1>4. ASSUME NEW p \in Paths, OpenDocument(p) PROVE FinishedInv'
  <2>1. /\ stage = "scan" /\ p \in pending /\ pending' = pending \ {p} /\ file' = p /\ file = None
        /\ UNCHANGED <<disk, descriptors>>
    BY <1>4 DEF OpenDocument, otherEntries, RefInv, RInv, TypeOK
  <2>2. Finished' = Finished BY <2>1, NoneAssumption DEF Finished, Documents
  <2> QED BY <2>1, <2>2, FinishedKept DEF Loaded
<1>5. CASE SkipOverlay \/ ReferVariable \/ UpdateVariable
  <2>1. stage \in Loaded /\ UNCHANGED <<disk, pending, file, descriptors>>
    BY <1>5 DEF SkipOverlay, ReferVariable, UpdateVariable, Loaded, FileStages
  <2> QED BY <2>1, FinishedKept DEF Finished, Documents
<1>6. CASE DecodeVariables \/ decodeProcessData \/ setVariableProcessData \/ decodeUI \/ Publish
  <2>1. stage \in Loaded /\ UNCHANGED <<disk, pending, file, descriptors>>
    BY <1>6 DEF DecodeVariables, decodeProcessData, setVariableProcessData, decodeUI, Publish,
       Loaded, FileStages
  <2> QED BY <2>1, FinishedKept DEF Finished, Documents
<1>7. CASE emplaceDescriptor BY <1>7, EmplaceFinished
<1>8. CASE Returned \/ UNCHANGED vars
  <2>1. UNCHANGED <<disk, stage, pending, file, descriptors>> BY <1>8 DEF Returned, vars
  <2>2. CASE stage \in Loaded BY <2>1, <2>2, FinishedKept DEF Finished, Documents
  <2> QED BY <2>1, <2>2 DEF FinishedInv
<1> QED BY <1>1, <1>2, <1>3, <1>4, <1>5, <1>6, <1>7, <1>8 DEF Next

LEMMA RefInit == Init => RefInv
BY InitType DEF Init, Empty, RefInv, RInv, ReferInv, CollectedInv, StdInv, PosInv, ReadyInv,
   SourcesInv, ProgressInv, FinishedInv, Loaded, FileStages

LEMMA RefStep == RefInv /\ [Next]_vars => RefInv'
BY TypeStep, ReferStep, CollectedStep, StdStep, PosStep, SourcesStep, ProgressStep, FinishedStep
DEF RefInv, RInv

LEMMA RefInductive == Spec => []RefInv
BY RefInit, RefStep, PTL DEF Spec

---------------------------------------------------------------------------
(* The mapping: what is published, and when an exception leaves the loader. *)

LEMMA StandardIs ==
  Abs!Standard <=> disk.units.wellFormed /\ StdDecodable(disk.std) /\ disk.dir
BY SameStd DEF Abs!Standard

LEMMA RefusedBy ==
  ASSUME NEW p \in Documents,
         ~Abs!Decodable(disk.iodds[p]), ~Abs!Exhausting(disk.iodds[p])
  PROVE  Abs!Refused
BY SameNames DEF Abs!Refused

\* A document that can be bound has a variable.
LEMMA BindableHasVariable ==
  ASSUME NEW d, d.processData \in Seq(ProcessDataDecl),
         Abs!ProcessDataDecodable(d), Abs!Bindable(d)
  PROVE  Abs!VariableIds(d) # {}
<1> DEFINE decls == d.processData
<1>1. PICK id \in PDIds : Ids(decls) = {id} BY BindableIs
<1>2. First(decls, id) \in DOMAIN decls /\ decls[First(decls, id)].id = id
  BY <1>1, FirstIsDeclared
<1> DEFINE i == First(decls, id)
<1>3. "type" \in {decls[i].in, decls[i].out} BY <1>2 DEF Abs!ProcessDataDecodable
<1>4. PICK dir \in {"in", "out"} : decls[i][dir] = "type" BY <1>3
<1>5. Abs!HasDirection(d, dir) BY <1>2, <1>4, DirectionIs
<1> QED BY <1>5, BindableIs

\* An exception out of the loop of setVariableProcessData: the document cannot be bound.
LEMMA ThrowAtBind ==
  ASSUME RefInv, stage = "bind",
         \/ ~isSingle(processData)
         \/ \E pd \in DOMAIN processData, dir \in {"in", "out"} :
              processData[pd][dir] # None /\ ProcessDataVariable[dir] \notin DOMAIN variables
  PROVE  ~Abs!Bindable(doc)
<1> DEFINE decls == doc.processData
<1> SUFFICES ASSUME Abs!Bindable(doc) PROVE FALSE OBVIOUS
<1>1. /\ DOMAIN variables = Abs!VariableIds(doc) /\ DOMAIN processData = Ids(decls)
      /\ \A id \in DOMAIN processData, dir \in {"in", "out"} :
           (processData[id][dir] # None) <=> decls[First(decls, id)][dir] = "type"
  BY DEF RefInv, ProgressInv, FileStages
<1>2. PICK id \in PDIds : Ids(decls) = {id} BY BindableIs
<1>3. isSingle(processData) BY <1>1, <1>2 DEF isSingle
<1>4. PICK pd \in DOMAIN processData, dir \in {"in", "out"} :
        processData[pd][dir] # None /\ ProcessDataVariable[dir] \notin DOMAIN variables
  BY <1>3
<1>5. decls \in Seq(ProcessDataDecl) BY OpenParts DEF RefInv, RInv, FileStages
<1>6. First(decls, pd) \in DOMAIN decls /\ decls[First(decls, pd)].id = pd
  BY <1>1, <1>4, <1>5, FirstIsDeclared
<1>7. decls[First(decls, pd)][dir] = "type" BY <1>1, <1>4
<1>8. Abs!HasDirection(doc, dir) BY <1>6, <1>7, DirectionIs
<1> QED BY <1>1, <1>4, <1>8, BindableIs

\* A document the decoders leave before its menus is neither decodable nor exhausting.
LEMMA LeftBeforeMenus ==
  ASSUME NEW d, ~Abs!ReachesMenus(d)
  PROVE  ~Abs!Decodable(d) /\ ~Abs!Exhausting(d)
BY ExhaustingIs DEF Abs!Decodable

\* An exception out of any decoder of the open document: the document is not decodable,
\* and its menus are not what ends the loader.
LEMMA ThrowInDocument ==
  ASSUME RefInv, stage \in FileStages, Throws
  PROVE  ~Abs!Decodable(doc) /\ ~Abs!Exhausting(doc)
<1>1. /\ doc.stdRefs \in Seq(StdVariableRef) /\ doc.processData \in Seq(ProcessDataDecl)
      /\ datatypes = StdDatatypes(disk.std) /\ DOMAIN stdVariables = Ids(disk.std.variables)
  BY OpenParts, StandardParts DEF RefInv, RInv
<1>2. CASE stage = "stdRefs" /\ pos \in DOMAIN doc.stdRefs
  <2>1. Ref.id \notin DOMAIN stdVariables \cup Overlays BY <1>2 DEF Throws
  <2>2. Ref.id \in Ids(doc.stdRefs) BY <1>2 DEF Ref, Ids
  <2>3. ~Abs!ReachesMenus(doc) BY <1>1, <2>1, <2>2, KnownAre DEF Abs!ReachesMenus
  <2> QED BY <2>3, LeftBeforeMenus
<1>3. CASE stage = "stdRefs" /\ pos \notin DOMAIN doc.stdRefs
  <2>1. \E i \in DOMAIN doc.variables : ~DecodesVariable(doc.variables[i], datatypes)
    BY <1>3 DEF Throws
  <2>2. ~Abs!ReachesMenus(doc) BY <1>1, <2>1, DecodableVariablesAre DEF Abs!ReachesMenus
  <2> QED BY <2>2, LeftBeforeMenus
<1>4. CASE stage = "processData"
  <2>1. \E i \in DOMAIN doc.processData : ~DecodesProcessData(doc.processData[i])
    BY <1>4 DEF Throws
  <2>2. DOMAIN variables = Abs!VariableIds(doc) BY <1>4 DEF RefInv, ProgressInv, FileStages
  <2>3. ~Abs!ReachesMenus(doc)
    BY <2>1, <2>2 DEF DecodesProcessData, Abs!ProcessDataDecodable, Abs!ReachesMenus
  <2> QED BY <2>3, LeftBeforeMenus
<1>5. CASE stage = "bind"
  <2>1. ~Abs!ReachesMenus(doc) BY <1>5, ThrowAtBind DEF Throws, Abs!ReachesMenus
  <2> QED BY <2>1, LeftBeforeMenus
<1>6. CASE stage = "ui"
  <2>1. /\ \E role \in UserRoles : ~DecodesRoleUI(doc.menus[role], DOMAIN variables)
        /\ ~Exhausts(doc.menus, DOMAIN variables)
    BY <1>6 DEF Throws
  <2>2. DOMAIN variables = Abs!VariableIds(doc) BY <1>6 DEF RefInv, ProgressInv, FileStages
  <2> QED BY <2>1, <2>2, DecodableMenusAre, ExhaustingIs DEF Abs!Decodable
<1>7. CASE stage = "emplace"
  <2>1. /\ DOMAIN variables = Abs!VariableIds(doc) /\ Abs!ProcessDataDecodable(doc)
        /\ Abs!Bindable(doc) /\ Abs!MenusDecodable(doc) /\ units = disk.units.codes
    BY <1>7 DEF RefInv, ProgressInv, SourcesInv, Loaded, FileStages
  <2>2. DOMAIN variables # {} BY <1>1, <2>1, BindableHasVariable
  <2>3. units = {} BY <1>7, <2>2 DEF Throws
  <2>4. ~Abs!Exhausting(doc) BY <2>1, DecodableMenusAre, DecodedNotExhausted, ExhaustingIs
  <2> QED BY <2>1, <2>3, <2>4 DEF Abs!Decodable
<1> QED BY <1>2, <1>3, <1>4, <1>5, <1>6, <1>7 DEF FileStages

\* An exception leaves makeRepository only if something on disk is refused.
LEMMA ThrowsOnlyIfBad ==
  ASSUME RefInv, Throws
  PROVE  Abs!Refused
<1>1. CASE stage \in {"units", "std"} \/ (stage = "scan" /\ ~disk.dir)
  BY <1>1, StandardIs DEF Throws, Abs!Refused
<1>2. CASE stage = "scan" /\ disk.dir
  <2>1. PICK p \in pending : disk.iodds[p].xml /\ ~disk.iodds[p].wellFormed
    BY <1>2 DEF Throws
  <2>2. p \in Documents BY <2>1 DEF RefInv, RInv, TypeOK, Documents
  <2>3. ~Abs!ReachesMenus(disk.iodds[p]) BY <2>1 DEF Abs!ReachesMenus
  <2> QED BY <2>2, <2>3, LeftBeforeMenus, RefusedBy
<1>3. CASE stage \in FileStages
  <2>1. file \in Documents /\ doc = disk.iodds[file] BY <1>3, OpenParts DEF RefInv, RInv
  <2>2. ~Abs!Decodable(doc) /\ ~Abs!Exhausting(doc) BY <1>3, ThrowInDocument
  <2> QED BY <2>1, <2>2, RefusedBy
<1> QED BY <1>1, <1>2, <1>3 DEF Throws, FileStages

\* The call stack is exhausted only by the menus of a document that is reached.
LEMMA ExhaustsOnlyIfTooDeep ==
  ASSUME RefInv, Exhaust
  PROVE  Abs!Overflows
<1>1. stage = "ui" /\ Exhausts(doc.menus, DOMAIN variables) BY DEF Exhaust
<1>2. file \in Documents /\ doc = disk.iodds[file]
  BY <1>1, OpenParts DEF RefInv, RInv, FileStages
<1>3. /\ DOMAIN variables = Abs!VariableIds(doc)
      /\ doc.wellFormed /\ Abs!ReferencesKnown(doc) /\ Abs!VariablesDecodable(doc)
      /\ Abs!ProcessDataDecodable(doc) /\ Abs!Bindable(doc)
  BY <1>1 DEF RefInv, ProgressInv, FileStages
<1>4. Abs!Exhausting(doc) BY <1>1, <1>3, ExhaustingIs DEF Abs!ReachesMenus
<1>5. Abs!Standard BY <1>1, StandardIs DEF RefInv, SourcesInv, Loaded, FileStages
<1> QED BY <1>2, <1>4, <1>5, SameNames DEF Abs!Overflows

\* What is published is one descriptor per identity, of one of its documents.
LEMMA PublishesCatalog ==
  ASSUME RefInv, Publish
  PROVE  /\ Abs!Loadable
         /\ DOMAIN descriptors = {Identity(disk.iodds[p]) : p \in Documents}
         /\ \A id \in DOMAIN descriptors :
              descriptors[id].file \in Documents /\ Identity(disk.iodds[descriptors[id].file]) = id
<1>1. stage = "scan" /\ disk.dir /\ pending = {} /\ file = None
  BY DEF Publish, RefInv, RInv, TypeOK
<1>2. Finished = Documents BY <1>1, NoneAssumption DEF Finished, Documents
<1>3. Stands(descriptors, Documents) BY <1>1, <1>2 DEF RefInv, FinishedInv, Loaded
<1>4. disk.units.wellFormed /\ StdDecodable(disk.std)
  BY <1>1 DEF RefInv, SourcesInv, Loaded
<1>5. Abs!Loadable BY <1>1, <1>3, <1>4, SameNames, StandardIs DEF Abs!Loadable, Stands
<1> QED BY <1>3, <1>5 DEF Stands

LEMMA PublishMaps ==
  ASSUME RefInv, Publish
  PROVE  Abs!Publish
<1> DEFINE published == [id \in DOMAIN descriptors |-> descriptors[id].file]
<1>1. /\ stage = "scan" /\ stage' = "ready" /\ UNCHANGED <<disk, descriptors>> BY DEF Publish
<1>2. /\ Abs!Loadable
      /\ DOMAIN descriptors = {Identity(disk.iodds[p]) : p \in Documents}
      /\ \A id \in DOMAIN descriptors :
           descriptors[id].file \in Documents /\ Identity(disk.iodds[descriptors[id].file]) = id
  BY PublishesCatalog
<1>3. Abs!Identities = DOMAIN descriptors BY <1>2, SameNames DEF Abs!Identities
<1>4. /\ published \in [Abs!Identities -> Abs!Documents]
      /\ \A id \in Abs!Identities : Abs!Identity(disk.iodds[published[id]]) = id
  BY <1>2, <1>3, SameNames
<1>5. [id \in DOMAIN descriptors' |-> descriptors'[id].file] = published BY <1>1
<1> HIDE DEF published
<1> QED BY <1>1, <1>2, <1>4, <1>5 DEF Abs!Publish

LEMMA ThrowMaps ==
  ASSUME RefInv, Throw
  PROVE  Abs!Abort
<1>1. Abs!Refused BY ThrowsOnlyIfBad DEF Throw
<1>2. /\ stage \notin {"ready", "failed", "exhausted"} /\ stage' = "failed" /\ UNCHANGED disk
  BY DEF Throw, Throws
<1> QED BY <1>1, <1>2 DEF Abs!Abort

LEMMA ExhaustMaps ==
  ASSUME RefInv, Exhaust
  PROVE  Abs!Exhaust
<1>1. Abs!Overflows BY ExhaustsOnlyIfTooDeep
<1>2. stage = "ui" /\ stage' = "exhausted" /\ UNCHANGED disk BY DEF Exhaust
<1> QED BY <1>1, <1>2 DEF Abs!Exhaust

\* Only Publish, Throw and Exhaust end the call.
LEMMA LoadingStages ==
  ASSUME Next, ~Publish, ~Throw, ~Exhaust, ~Returned
  PROVE  /\ stage \notin {"ready", "failed", "exhausted"}
         /\ stage' \notin {"ready", "failed", "exhausted"}
         /\ UNCHANGED disk
<1> DEFINE Loading == /\ stage \notin {"ready", "failed", "exhausted"}
                      /\ stage' \notin {"ready", "failed", "exhausted"}
                      /\ UNCHANGED disk
<1> SUFFICES Loading OBVIOUS
<1> USE DEF stdState, fileState
<1>1. CASE decodeUnits \/ decodeStdDefinitions BY <1>1 DEF decodeUnits, decodeStdDefinitions
<1>2. ASSUME NEW p \in Paths, SkipEntry(p) \/ OpenDocument(p) PROVE Loading
  BY <1>2 DEF SkipEntry, OpenDocument
<1>3. CASE SkipOverlay \/ ReferVariable \/ UpdateVariable
  BY <1>3 DEF SkipOverlay, ReferVariable, UpdateVariable
<1>4. CASE DecodeVariables \/ decodeProcessData \/ setVariableProcessData
  BY <1>4 DEF DecodeVariables, decodeProcessData, setVariableProcessData
<1>5. CASE decodeUI \/ emplaceDescriptor BY <1>5 DEF decodeUI, emplaceDescriptor
<1> QED BY <1>1, <1>2, <1>3, <1>4, <1>5 DEF Next

\* Every step of the loader is a step of RepositorySpec or changes nothing there.
LEMMA StepMaps == RefInv /\ [Next]_vars => [Abs!AbsNext]_(Abs!absVars)
<1> SUFFICES ASSUME RefInv, [Next]_vars PROVE Abs!AbsNext \/ UNCHANGED Abs!absVars OBVIOUS
<1>1. CASE Publish BY <1>1, PublishMaps DEF Abs!AbsNext
<1>2. CASE Throw BY <1>2, ThrowMaps DEF Abs!AbsNext
<1>3. CASE Exhaust BY <1>3, ExhaustMaps DEF Abs!AbsNext
<1>4. CASE Returned \/ UNCHANGED vars
  BY <1>4 DEF Returned, vars, Abs!absVars
<1>5. CASE ~Publish /\ ~Throw /\ ~Exhaust /\ ~Returned /\ Next
  BY <1>5, LoadingStages DEF Abs!absVars
<1> QED BY <1>1, <1>2, <1>3, <1>4, <1>5

\* makeRepository returns one descriptor per identity, from a document with that identity,
\* only if every document is decodable by itself; it throws only if something on disk is
\* refused; and it exhausts the call stack only on the menus of a document that reaches
\* them.  It is the safety half of Implements.
THEOREM LoaderImplements == Spec => Abs!AbsInit /\ [][Abs!AbsNext]_(Abs!absVars)
<1>1. Init => Abs!AbsInit
  BY DEF Init, Abs!AbsInit, Empty, Disk, Abs!Disk
<1>2. RefInv /\ [Next]_vars => [Abs!AbsNext]_(Abs!absVars) BY StepMaps
<1> QED BY <1>1, <1>2, RefInductive, PTL DEF Spec
=============================================================================
