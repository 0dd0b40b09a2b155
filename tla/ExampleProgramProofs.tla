------------------------ MODULE ExampleProgramProofs ------------------------
(***************************************************************************)
(* Proofs about the example program, for every directory and every set of  *)
(* documents: which variables of a published descriptor have a type, that  *)
(* no role is without its identification menu, and how the program ends,   *)
(* whatever the documents say of the menu it asks for and of its item.     *)
(***************************************************************************)
EXTENDS ExampleProgram, LoaderProofs

\* A variable that stands for process data.
Placeholder(document, id) ==
  LET decl == Declaration(document, id) IN decl.kind = "inline" /\ isProcessData(decl.type)

\* The types of the variables of the open document: none before it is bound, for a
\* placeholder, and none afterwards, for a placeholder without process data.
TypedInv ==
  /\ stage \in {"processData", "bind"} =>
       \A v \in DOMAIN variables : (variables[v].value = None) <=> Placeholder(doc, v)
  /\ stage \in {"ui", "emplace"} =>
       \A v \in DOMAIN variables : HasType(variables[v]) = ~LacksProcessData(doc, v)

\* No role of a user interface is without its identification menu.
HasIdentification(us) == \A role \in UserRoles : us[role]["IdentificationMenu"] # None
IdentifiedInv ==
  /\ stage = "emplace" => HasIdentification(uis)
  /\ \A id \in DOMAIN descriptors : HasIdentification(descriptors[id].uis)

\* A menu of a user interface is there exactly if its tree is decoded.
ShownAs(us, document) ==
  \A role \in UserRoles, e \in Entries :
    (us[role][e] # None)
      <=> MenuOutcome(document.menus[role][e], Abs!VariableIds(document)) = "menu"
ShownInv ==
  /\ stage = "emplace" => ShownAs(uis, doc)
  /\ \A id \in DOMAIN descriptors :
       ShownAs(descriptors[id].uis, disk.iodds[descriptors[id].file])

\* makeRepository returns if the documents can be loaded, throws only if something is
\* refused, and exhausts the call stack only on menus that do.
OutcomeInv ==
  /\ stage = "ready" => Abs!Loadable
  /\ stage = "failed" => Abs!Refused
  /\ stage = "exhausted" => Abs!Overflows

\* What ExitIsDecided says of the documents.
DocumentsOf(id) == {p \in Documents : Identity(disk.iodds[p]) = id}
ShownWith(decode) ==
  \E p \in DocumentsOf(Wanted) :
    /\ Complete(disk.iodds[p]) /\ Shows(disk.iodds[p])
    /\ Observe(disk.std, disk.iodds[p]).decode = decode
Succeeds(decode) ==
  /\ Abs!Loadable
  /\ \A id \in Abs!Identities : \E p \in DocumentsOf(id) : Complete(disk.iodds[p])
  /\ ShownWith(decode)
Fails ==
  \/ Abs!Refused \/ Wanted \notin Abs!Identities
  \/ \E p \in Documents : ~Complete(disk.iodds[p])
  \/ \E p \in DocumentsOf(Wanted) : ~Shows(disk.iodds[p])
  \/ ShownWith("exception")

\* Whether the program can end in a phase is what ExitIsDecided says of the documents;
\* until then it has printed what does not remain, and found what it asked for.
PhaseInv ==
  /\ phase \in Phases \ {"crashed"}
  /\ phase # "loading" => stage \in {"ready", "failed", "exhausted"}
  /\ phase \in {"printing", "found", "observing"} =>
       /\ stage = "ready"
       /\ remaining \subseteq DOMAIN descriptors
       /\ \A id \in DOMAIN descriptors \ remaining : PrintsVariables(descriptors[id])
  /\ phase \in {"found", "observing"} => remaining = {} /\ Wanted \in DOMAIN descriptors
  /\ phase = "observing" => getMenu(descriptors[Wanted])
  /\ phase = "succeeded" => Succeeds("value")
  /\ phase = "undefined" => Succeeds("undefined")
  /\ phase = "failed" => Fails
  /\ phase = "exhausted" => Abs!Overflows

\* What the steps of the loader keep, and what those of the program keep as well.
LInv == /\ RefInv /\ PInv /\ MInv
        /\ TypedInv /\ UntypedOnlyWithoutProcessData /\ IdentifiedInv
        /\ ShownInv /\ OutcomeInv
ProgInv == LInv /\ PhaseInv

---------------------------------------------------------------------------
(* Types of decoded variables. *)

\* A decoded variable is without a datatype object exactly if it is a placeholder.
LEMMA DecodedIsTyped ==
  ASSUME NEW decls \in Seq(VariableDecl), NEW origin \in {Std} \cup Paths,
         NEW types, DatatypesMap(types),
         \A i \in DOMAIN decls : DecodesVariable(decls[i], types),
         NEW v \in Ids(decls)
  PROVE  LET decl == decls[First(decls, v)].decl
         IN (decodeVariables(decls, origin, types)[v].value = None)
              <=> (decl.kind = "inline" /\ isProcessData(decl.type))
<1> DEFINE var == decls[First(decls, v)]
           value == DecodedVariable(var, origin, types).value
           loc == <<origin, "variable", var.id>>
<1>1. First(decls, v) \in DOMAIN decls /\ var \in VariableDecl /\ var.id = v
  BY FirstIsDeclared
<1>2. DecodesVariable(var, types) /\ var.decl \in TypeDecl /\ var.id \in VarIds
  BY <1>1 DEF VariableDecl
<1>3. decodeVariables(decls, origin, types)[v].value = value
  BY DEF decodeVariables
<1>4. loc \in Loc BY <1>2 DEF Loc
<1> HIDE DEF var
<1>5. CASE var.decl.kind = "reference"
  <2>1. var.decl.ref \in DOMAIN types BY <1>2, <1>5 DEF DecodesVariable, DecodesDataValue
  <2>2. value = types[var.decl.ref] BY <1>5 DEF DecodedVariable
  <2>3. value # None BY <2>1, <2>2, NoObjectAssumption DEF DatatypesMap
  <2> QED BY <1>3, <1>5, <2>3 DEF var
<1>6. CASE var.decl.kind # "reference" /\ isProcessData(var.decl.type)
  <2>1. var.decl.kind = "inline" BY <1>2, <1>6 DEF DecodesVariable, DecodesDataValue
  <2>2. value = None BY <1>6 DEF DecodedVariable
  <2> QED BY <1>3, <1>6, <2>1, <2>2 DEF var
<1>7. CASE var.decl.kind # "reference" /\ ~isProcessData(var.decl.type)
  <2>1. DecodesDataValue(var.decl, types) BY <1>2, <1>7 DEF DecodesVariable
  <2>2. DecodedDataValue(var.decl, loc, types) \in DataValue
    BY <1>2, <1>4, <2>1, DecodedDataValueType
  <2>3. value = DecodedDataValue(var.decl, loc, types) BY <1>7 DEF DecodedVariable
  <2>4. value # None BY <2>2, <2>3, NoObjectAssumption
  <2> QED BY <1>3, <1>7, <2>4 DEF var
<1> QED BY <1>5, <1>6, <1>7

\* What the loader has decoded when it is through with the references.
LEMMA DecodeVariablesTyped ==
  ASSUME LInv, DecodeVariables
  PROVE  \A v \in DOMAIN variables' : (variables'[v].value = None) <=> Placeholder(doc, v)
<1> DEFINE own == decodeVariables(doc.variables, file, datatypes)
           refs == Ids(doc.stdRefs) \ Overlays
<1>1. /\ stage = "stdRefs" /\ variables' = insert(variables, own)
      /\ \A i \in DOMAIN doc.variables : DecodesVariable(doc.variables[i], datatypes)
  BY DEF DecodeVariables
<1>2. /\ file \in Documents /\ doc.variables \in Seq(VariableDecl)
      /\ DatatypesMap(datatypes) /\ datatypes = StdDatatypes(disk.std)
      /\ stdVariables = StdVariables(disk.std)
      /\ disk.std \in StdDoc /\ StdDecodable(disk.std)
  BY <1>1, OpenParts, StdDocType
  DEF LInv, RefInv, RInv, TypeOK, StdInv, SourcesInv, Loaded, FileStages
<1>3. DOMAIN variables' = DOMAIN variables \cup Ids(doc.variables)
  BY <1>1 DEF insert, decodeVariables
<1>4. refs = DOMAIN variables
  <2>1. doc.stdRefs \in Seq(StdVariableRef) /\ pos \in Nat \ {0} /\ pos \notin DOMAIN doc.stdRefs
    BY <1>1, OpenParts DEF LInv, RefInv, RInv, FileStages, DecodeVariables
  <2>2. {i \in DOMAIN doc.stdRefs : i < pos} = DOMAIN doc.stdRefs BY <2>1
  <2> QED BY <1>1, <2>2 DEF LInv, RefInv, ProgressInv, Ids, FileStages
<1>5. ASSUME NEW v \in DOMAIN variables
      PROVE  (variables'[v].value = None) <=> Placeholder(doc, v)
  <2>1. variables'[v].value = stdVariables[v].value
    BY <1>1 DEF insert, LInv, RefInv, RInv, ReferInv
  <2>2. v \in Ids(disk.std.variables)
    <3>1. v \in DOMAIN stdVariables
      BY <1>1, <1>4 DEF LInv, RefInv, ProgressInv, FileStages, Ids, DecodeVariables
    <3> QED BY <3>1, <1>2, StdVariablesType
  <2>3. Declaration(doc, v) = disk.std.variables[First(disk.std.variables, v)].decl
    BY <1>4 DEF Declaration
  <2>4. disk.std.variables \in Seq(VariableDecl) BY <1>2 DEF StdDoc
  <2>5. \A i \in DOMAIN disk.std.variables : DecodesVariable(disk.std.variables[i], datatypes)
    BY <1>2 DEF StdDecodable
  <2> DEFINE decl == disk.std.variables[First(disk.std.variables, v)].decl
  <2>a. Std \in {Std} \cup Paths OBVIOUS
  <2>6. (decodeVariables(disk.std.variables, Std, datatypes)[v].value = None)
          <=> (decl.kind = "inline" /\ isProcessData(decl.type))
    BY <1>2, <2>2, <2>4, <2>5, <2>a, DecodedIsTyped
  <2>7. stdVariables[v] = decodeVariables(disk.std.variables, Std, datatypes)[v]
    BY <1>2 DEF StdVariables
  <2> HIDE DEF decl
  <2> QED BY <2>1, <2>3, <2>6, <2>7 DEF Placeholder, decl
<1>6. ASSUME NEW v \in Ids(doc.variables), v \notin DOMAIN variables
      PROVE  (variables'[v].value = None) <=> Placeholder(doc, v)
  <2>1. variables'[v] = own[v] BY <1>1, <1>6, <1>3 DEF insert
  <2>2. Declaration(doc, v) = doc.variables[First(doc.variables, v)].decl
    BY <1>4, <1>6 DEF Declaration
  <2>3. file \in Paths BY <1>2 DEF Documents
  <2> QED BY <1>1, <1>2, <2>1, <2>2, <2>3, DecodedIsTyped DEF Placeholder
<1> QED BY <1>3, <1>5, <1>6

\* Binding gives a type to the placeholders of the directions the document has.
LEMMA SetVariableProcessDataTyped ==
  ASSUME LInv, setVariableProcessData
  PROVE  \A v \in DOMAIN variables' : HasType(variables'[v]) = ~LacksProcessData(doc, v)
<1> DEFINE decls == doc.processData
<1>1. PICK pd \in DOMAIN processData :
        variables' = [id \in DOMAIN variables |->
          IF id \in {ProcessDataVariable[dir] : dir \in {d \in {"in", "out"} : processData[pd][d] # None}}
          THEN Bound(variables[id], IF id = ProcessDataVariable.in THEN processData[pd].in
                                    ELSE processData[pd].out)
          ELSE variables[id]]
  BY DEF setVariableProcessData
<1> DEFINE target == {ProcessDataVariable[dir] : dir \in {d \in {"in", "out"} : processData[pd][d] # None}}
           data(id) == IF id = ProcessDataVariable.in THEN processData[pd].in ELSE processData[pd].out
<1>2. stage = "bind" /\ DOMAIN processData = {pd} BY DEF setVariableProcessData, isSingle
<1>3. /\ Ids(decls) = {pd}
      /\ \A dir \in {"in", "out"} :
           (processData[pd][dir] # None) <=> decls[First(decls, pd)][dir] = "type"
  BY <1>2 DEF LInv, RefInv, ProgressInv, FileStages
<1>4. decls[1].id = pd
  <2>1. decls \in Seq(ProcessDataDecl) BY <1>2, OpenParts DEF LInv, RefInv, RInv, FileStages
  <2>2. 1 \in DOMAIN decls BY <1>3, <2>1 DEF Ids
  <2> QED BY <1>3, <2>2 DEF Ids
<1>5. \A v \in DOMAIN variables :
        /\ variables[v] \in Variable /\ variables[v].processData = None
        /\ (variables[v].value = None) <=> Placeholder(doc, v)
  BY <1>2 DEF LInv, PInv, FreshInv, RInv, TypeOK, VariablesMap, TypedInv
<1>6. ASSUME NEW v \in DOMAIN variables
      PROVE  v \in target <=> \E dir \in {"in", "out"} :
               ProcessDataVariable[dir] = v /\ decls[First(decls, decls[1].id)][dir] = "type"
  BY <1>3, <1>4
<1>7. ASSUME NEW v \in DOMAIN variables
      PROVE  LacksProcessData(doc, v) = (Placeholder(doc, v) /\ v \notin target)
  <2> HIDE DEF target
  <2> QED BY <1>6 DEF LacksProcessData, Placeholder
<1>8. ASSUME NEW v \in DOMAIN variables
      PROVE  HasType(variables'[v]) = ~LacksProcessData(doc, v)
  <2>1. CASE v \in target
    <3>1. data(v) # None BY <2>1 DEF ProcessDataVariable
    <3>2. variables'[v] = Bound(variables[v], data(v)) BY <1>1, <2>1
    <3> HIDE DEF data, target
    <3>3. HasType(variables'[v]) BY <1>5, <3>1, <3>2, BoundDiffers DEF HasType
    <3> QED BY <1>7, <2>1, <3>3
  <2>2. CASE v \notin target
    <3>1. variables'[v] = variables[v] BY <1>1, <2>2
    <3> HIDE DEF target
    <3> QED BY <1>5, <1>7, <2>2, <3>1 DEF HasType
  <2> QED BY <2>1, <2>2
<1>9. DOMAIN variables' = DOMAIN variables BY <1>1
<1> QED BY <1>8, <1>9

LEMMA TypedStep == LInv /\ [Next]_vars => TypedInv'
<1> SUFFICES ASSUME LInv, [Next]_vars PROVE TypedInv' OBVIOUS
<1> USE DEF stdState, fileState
<1>1. CASE DecodeVariables
  <2>1. stage' = "processData" /\ UNCHANGED <<disk, file>> BY <1>1 DEF DecodeVariables
  <2> QED BY <1>1, <2>1, DecodeVariablesTyped DEF TypedInv, Placeholder, Declaration, doc
<1>2. CASE decodeProcessData
  <2>1. stage = "processData" /\ stage' = "bind" /\ UNCHANGED <<disk, file, variables>>
    BY <1>2 DEF decodeProcessData
  <2> QED BY <2>1 DEF LInv, TypedInv, Placeholder, Declaration, doc
<1>3. CASE setVariableProcessData
  <2>1. stage' = "ui" /\ UNCHANGED <<disk, file>> BY <1>3 DEF setVariableProcessData
  <2> QED BY <1>3, <2>1, SetVariableProcessDataTyped
      DEF TypedInv, LacksProcessData, Declaration, doc
<1>4. CASE decodeUI
  <2>1. stage = "ui" /\ stage' = "emplace" /\ UNCHANGED <<disk, file, variables>>
    BY <1>4 DEF decodeUI
  <2> QED BY <2>1 DEF LInv, TypedInv, LacksProcessData, Declaration, doc
<1>5. CASE decodeUnits \/ decodeStdDefinitions
  BY <1>5 DEF decodeUnits, decodeStdDefinitions, TypedInv
<1>6. ASSUME NEW p \in Paths, SkipEntry(p) \/ OpenDocument(p) PROVE TypedInv'
  BY <1>6 DEF SkipEntry, OpenDocument, TypedInv
<1>7. CASE SkipOverlay \/ ReferVariable \/ UpdateVariable
  BY <1>7 DEF SkipOverlay, ReferVariable, UpdateVariable, TypedInv
<1>8. CASE emplaceDescriptor \/ Publish \/ Throw \/ Exhaust
  BY <1>8 DEF emplaceDescriptor, Publish, Throw, Exhaust, TypedInv
<1>9. CASE Returned \/ UNCHANGED vars
  <2>1. UNCHANGED <<disk, stage, file, variables>> BY <1>9 DEF Returned, vars
  <2>2. doc' = doc BY <2>1 DEF doc
  <2>3. \A v : Placeholder(doc, v)' <=> Placeholder(doc, v)
    BY <2>1, <2>2 DEF Placeholder, Declaration
  <2>4. \A v : LacksProcessData(doc, v)' <=> LacksProcessData(doc, v)
    BY <2>1, <2>2 DEF LacksProcessData, Declaration
  <2> QED BY <2>1, <2>3, <2>4 DEF LInv, TypedInv
<1> QED BY <1>1, <1>2, <1>3, <1>4, <1>5, <1>6, <1>7, <1>8, <1>9 DEF Next

\* How the variables of a descriptor are to be typed depends on its document alone.
TypedAs(vs, document) ==
  /\ DOMAIN vs = Abs!VariableIds(document)
  /\ \A v \in DOMAIN vs : HasType(vs[v]) = ~LacksProcessData(document, v)

LEMMA SameTyping ==
  ASSUME UNCHANGED disk,
         \A id \in DOMAIN descriptors' :
           TypedAs(descriptors'[id].variables, disk.iodds[descriptors'[id].file])
  PROVE  UntypedOnlyWithoutProcessData'
<1> SUFFICES ASSUME NEW id \in DOMAIN descriptors'
    PROVE  LET d == descriptors[id]
           IN (/\ DOMAIN d.variables = Abs!VariableIds(disk.iodds[d.file])
               /\ \A v \in DOMAIN d.variables :
                    HasType(d.variables[v]) = ~LacksProcessData(disk.iodds[d.file], v))'
  BY DEF UntypedOnlyWithoutProcessData
<1>1. Abs!VariableIds(disk.iodds[descriptors[id].file])'
        = Abs!VariableIds(disk.iodds[descriptors'[id].file])
  BY DEF Abs!VariableIds
<1>2. ASSUME NEW v
      PROVE  LacksProcessData(disk.iodds[descriptors[id].file], v)'
               = LacksProcessData(disk.iodds[descriptors'[id].file], v)
  BY DEF LacksProcessData, Declaration
<1> QED BY <1>1, <1>2 DEF TypedAs

LEMMA UntypedStep == LInv /\ [Next]_vars => UntypedOnlyWithoutProcessData'
<1> SUFFICES ASSUME LInv, [Next]_vars PROVE UntypedOnlyWithoutProcessData' OBVIOUS
<1>1. \A id \in DOMAIN descriptors :
        TypedAs(descriptors[id].variables, disk.iodds[descriptors[id].file])
  BY DEF LInv, UntypedOnlyWithoutProcessData, TypedAs
<1>2. CASE emplaceDescriptor
  <2> DEFINE new == [file |-> file, variables |-> variables,
                     processData |-> processData, uis |-> uis]
  <2>1. stage = "emplace" /\ descriptors' = emplace(descriptors, Identity(doc), new)
        /\ UNCHANGED disk
    BY <1>2 DEF emplaceDescriptor
  <2>2. TypedAs(new.variables, disk.iodds[new.file])
    BY <2>1 DEF LInv, TypedInv, TypedAs, RefInv, ProgressInv, FileStages, doc
  <2> HIDE DEF new
  <2>3. \A id \in DOMAIN descriptors' :
          TypedAs(descriptors'[id].variables, disk.iodds[descriptors'[id].file])
    BY <1>1, <2>1, <2>2, EmplaceAdds
  <2> QED BY <2>1, <2>3, SameTyping
<1>3. CASE Throw BY <1>3 DEF Throw, Empty, UntypedOnlyWithoutProcessData
<1>4. CASE decodeStdDefinitions
  <2>1. descriptors' = Empty BY <1>4 DEF decodeStdDefinitions, LInv, RefInv, RInv, ReferInv
  <2> QED BY <2>1 DEF Empty, UntypedOnlyWithoutProcessData
<1>5. CASE ~emplaceDescriptor /\ ~Throw /\ ~decodeStdDefinitions
  <2>1. UNCHANGED <<disk, descriptors>> BY <1>5, StandardStays, DescriptorsKept
  <2> QED BY <1>1, <2>1, SameTyping
<1> QED BY <1>2, <1>3, <1>4, <1>5

---------------------------------------------------------------------------
(* Identification menus. *)

\* A menu that is decoded is not null: it is a map, if only an empty one.
LEMMA DecodedMenuExists ==
  ASSUME TypeOK, NEW menu \in (MenuList \ {<<>>}) \cup {None},
         MenuOutcome(menu, DOMAIN variables) = "menu"
  PROVE  DecodedMenu(menu) # None
<1>1. VariablesMap(variables) BY DEF TypeOK
<1>2. PICK ids \in SUBSET DOMAIN variables : DecodedMenu(menu) = [id \in ids |-> variables[id]]
  BY DecodedMenuHolds
<1>3. ids \in SUBSET VarIds /\ [id \in ids |-> variables[id]] \in [ids -> Variable]
  BY <1>1 DEF VariablesMap
<1>4. None \notin [ids -> Variable] BY <1>3, NoObjectAssumption
<1> QED BY <1>2, <1>3, <1>4

LEMMA DecodeUIIdentified ==
  ASSUME LInv, decodeUI
  PROVE  HasIdentification(uis')
<1>1. ASSUME NEW role \in UserRoles PROVE uis'[role]["IdentificationMenu"] # None
  <2> DEFINE menu == doc.menus[role]["IdentificationMenu"]
  <2>1. "IdentificationMenu" \in Entries BY DEF Entries, EntryOrder
  <2>2. menu \in (MenuList \ {<<>>}) \cup {None}
    <3>1. doc \in DeviceDoc
      BY OpenDocumentType DEF decodeUI, FileStages, LInv, RefInv, RInv
    <3> QED BY <3>1, <2>1 DEF DeviceDoc
  <2>3. MenuOutcome(menu, DOMAIN variables) = "menu" 
    BY <2>1 DEF decodeUI, DecodesRoleUI, Decodes, Absorbed
  <2>4. uis'[role]["IdentificationMenu"] = DecodedMenu(menu) BY <2>1 DEF decodeUI
  <2> HIDE DEF menu
  <2> QED BY <2>2, <2>3, <2>4, DecodedMenuExists DEF LInv, RefInv, RInv
<1> QED BY <1>1 DEF HasIdentification

\* decodeUI leaves a null pointer for a tree it gives up, and for no other.
LEMMA DecodeUIShown ==
  ASSUME LInv, decodeUI
  PROVE  ShownAs(uis', doc)
<1> SUFFICES ASSUME NEW role \in UserRoles, NEW e \in Entries
             PROVE  (uis'[role][e] # None)
                      <=> MenuOutcome(doc.menus[role][e], Abs!VariableIds(doc)) = "menu"
  BY DEF ShownAs
<1> DEFINE menu == doc.menus[role][e]
<1>1. menu \in (MenuList \ {<<>>}) \cup {None}
  <2>1. doc \in DeviceDoc
    BY OpenDocumentType DEF decodeUI, FileStages, LInv, RefInv, RInv
  <2> QED BY <2>1 DEF DeviceDoc
<1>2. uis'[role][e] = DecodedMenu(menu) BY DEF decodeUI
<1>3. DOMAIN variables = Abs!VariableIds(doc)
  BY DEF decodeUI, LInv, RefInv, ProgressInv, FileStages
<1> HIDE DEF menu
<1>4. DecodedMenu(menu) # None <=> MenuOutcome(menu, DOMAIN variables) = "menu"
  BY <1>1, DecodedMenuExists DEF DecodedMenu, LInv, RefInv, RInv
<1> QED BY <1>2, <1>3, <1>4 DEF menu

LEMMA IdentifiedStep == LInv /\ [Next]_vars => IdentifiedInv'
<1> SUFFICES ASSUME LInv, [Next]_vars PROVE IdentifiedInv' OBVIOUS
<1> USE DEF stdState, fileState
<1>1. stage' = "emplace" => HasIdentification(uis')
  <2>1. CASE decodeUI BY <2>1, DecodeUIIdentified
  <2>2. CASE decodeUnits \/ decodeStdDefinitions BY <2>2 DEF decodeUnits, decodeStdDefinitions
  <2>3. ASSUME NEW p \in Paths, SkipEntry(p) \/ OpenDocument(p) PROVE stage' # "emplace"
    BY <2>3 DEF SkipEntry, OpenDocument
  <2>4. CASE SkipOverlay \/ ReferVariable \/ UpdateVariable
    BY <2>4 DEF SkipOverlay, ReferVariable, UpdateVariable
  <2>5. CASE DecodeVariables \/ decodeProcessData \/ setVariableProcessData
    BY <2>5 DEF DecodeVariables, decodeProcessData, setVariableProcessData
  <2>6. CASE emplaceDescriptor \/ Publish \/ Throw \/ Exhaust
    BY <2>6 DEF emplaceDescriptor, Publish, Throw, Exhaust
  <2>7. CASE Returned \/ UNCHANGED vars BY <2>7 DEF Returned, vars, LInv, IdentifiedInv
  <2> QED BY <2>1, <2>2, <2>3, <2>4, <2>5, <2>6, <2>7 DEF Next
<1>2. \A id \in DOMAIN descriptors' : HasIdentification(descriptors'[id].uis)
  <2>1. CASE emplaceDescriptor
    <3> DEFINE new == [file |-> file, variables |-> variables,
                       processData |-> processData, uis |-> uis]
    <3>1. stage = "emplace" /\ descriptors' = emplace(descriptors, Identity(doc), new)
      BY <2>1 DEF emplaceDescriptor
    <3>2. HasIdentification(new.uis) BY <3>1 DEF LInv, IdentifiedInv
    <3> HIDE DEF new
    <3> QED BY <3>1, <3>2, EmplaceAdds DEF LInv, IdentifiedInv
  <2>2. CASE Throw BY <2>2 DEF Throw, Empty
  <2>3. CASE ~emplaceDescriptor /\ ~Throw
    BY <2>3, DescriptorsKept DEF LInv, IdentifiedInv
  <2> QED BY <2>1, <2>2, <2>3
<1> QED BY <1>1, <1>2 DEF IdentifiedInv, HasIdentification

---------------------------------------------------------------------------
(* Menus that are there. *)

LEMMA SameShown ==
  ASSUME UNCHANGED disk,
         stage' = "emplace" => ShownAs(uis', doc'),
         \A id \in DOMAIN descriptors' :
           ShownAs(descriptors'[id].uis, disk.iodds[descriptors'[id].file])
  PROVE  ShownInv'
<1>1. ShownAs(uis, doc)' <=> ShownAs(uis', doc') BY DEF ShownAs, Abs!VariableIds
<1>2. ASSUME NEW id \in DOMAIN descriptors'
      PROVE  ShownAs(descriptors[id].uis, disk.iodds[descriptors[id].file])'
               <=> ShownAs(descriptors'[id].uis, disk.iodds[descriptors'[id].file])
  BY DEF ShownAs, Abs!VariableIds
<1> QED BY <1>1, <1>2 DEF ShownInv

LEMMA ShownStep == LInv /\ [Next]_vars => ShownInv'
<1> SUFFICES ASSUME LInv, [Next]_vars PROVE ShownInv' OBVIOUS
<1> USE DEF stdState, fileState
<1>1. UNCHANGED disk BY StandardStays DEF decodeStdDefinitions
<1>2. stage' = "emplace" => ShownAs(uis', doc')
  <2>1. CASE decodeUI
    <3>1. doc' = doc BY <2>1 DEF decodeUI, doc
    <3> QED BY <2>1, <3>1, DecodeUIShown
  <2>2. CASE decodeUnits \/ decodeStdDefinitions BY <2>2 DEF decodeUnits, decodeStdDefinitions
  <2>3. ASSUME NEW p \in Paths, SkipEntry(p) \/ OpenDocument(p) PROVE stage' # "emplace"
    BY <2>3 DEF SkipEntry, OpenDocument
  <2>4. CASE SkipOverlay \/ ReferVariable \/ UpdateVariable
    BY <2>4 DEF SkipOverlay, ReferVariable, UpdateVariable
  <2>5. CASE DecodeVariables \/ decodeProcessData \/ setVariableProcessData
    BY <2>5 DEF DecodeVariables, decodeProcessData, setVariableProcessData
  <2>6. CASE emplaceDescriptor \/ Publish \/ Throw \/ Exhaust
    BY <2>6 DEF emplaceDescriptor, Publish, Throw, Exhaust
  <2>7. CASE Returned \/ UNCHANGED vars
    <3>1. UNCHANGED <<stage, uis, doc>> BY <2>7 DEF Returned, vars, doc
    <3> QED BY <3>1 DEF LInv, ShownInv
  <2> QED BY <2>1, <2>2, <2>3, <2>4, <2>5, <2>6, <2>7 DEF Next
<1>3. \A id \in DOMAIN descriptors' :
        ShownAs(descriptors'[id].uis, disk.iodds[descriptors'[id].file])
  <2>1. CASE emplaceDescriptor
    <3> DEFINE new == [file |-> file, variables |-> variables,
                       processData |-> processData, uis |-> uis]
    <3>1. stage = "emplace" /\ descriptors' = emplace(descriptors, Identity(doc), new)
      BY <2>1 DEF emplaceDescriptor
    <3>2. ShownAs(new.uis, disk.iodds[new.file]) BY <3>1 DEF LInv, ShownInv, doc
    <3> HIDE DEF new
    <3> QED BY <3>1, <3>2, EmplaceAdds DEF LInv, ShownInv
  <2>2. CASE Throw BY <2>2 DEF Throw, Empty
  <2>3. CASE ~emplaceDescriptor /\ ~Throw
    BY <2>3, DescriptorsKept DEF LInv, ShownInv
  <2> QED BY <2>1, <2>2, <2>3
<1> QED BY <1>1, <1>2, <1>3, SameShown

---------------------------------------------------------------------------
(* The outcome of makeRepository. *)

\* What the documents decide does not change.
LEMMA SameDocuments ==
  ASSUME UNCHANGED disk, NEW p
  PROVE  /\ Abs!Decodable(disk.iodds[p])' <=> Abs!Decodable(disk.iodds[p])
         /\ Abs!Exhausting(disk.iodds[p])' <=> Abs!Exhausting(disk.iodds[p])
<1>1. Abs!ReachesMenus(disk.iodds[p])' <=> Abs!ReachesMenus(disk.iodds[p])
  BY DEF Abs!ReachesMenus, Abs!VariableIds, Abs!ReferencesKnown,
     Abs!VariablesDecodable, Abs!ProcessDataDecodable, Abs!Bindable, Abs!HasDirection
<1>2. Abs!VariableIds(disk.iodds[p])' = Abs!VariableIds(disk.iodds[p]) BY DEF Abs!VariableIds
<1> QED BY <1>1, <1>2, SameDecodable DEF Abs!Exhausting

LEMMA SameLoadable ==
  ASSUME UNCHANGED disk
  PROVE  /\ Abs!Loadable' <=> Abs!Loadable
         /\ Abs!Refused' <=> Abs!Refused
         /\ Abs!Overflows' <=> Abs!Overflows
<1>1. Abs!Documents' = Abs!Documents BY DEF Abs!Documents
<1>2. Abs!Standard' <=> Abs!Standard BY DEF Abs!Standard, Abs!StdDecodable
<1> QED BY <1>1, <1>2, SameDocuments DEF Abs!Loadable, Abs!Refused, Abs!Overflows

LEMMA OutcomeStep == LInv /\ [Next]_vars => OutcomeInv'
<1> SUFFICES ASSUME LInv, [Next]_vars PROVE OutcomeInv' OBVIOUS
<1>1. UNCHANGED disk BY StandardStays DEF decodeStdDefinitions
<1>2. CASE Publish
  <2>1. Abs!Loadable BY <1>2, PublishesCatalog DEF LInv
  <2>2. stage' = "ready" BY <1>2 DEF Publish
  <2> QED BY <1>1, <2>1, <2>2, SameLoadable DEF OutcomeInv
<1>3. CASE Throw
  <2>1. Abs!Refused BY <1>3, ThrowsOnlyIfBad DEF Throw, LInv
  <2>2. stage' = "failed" BY <1>3 DEF Throw
  <2> QED BY <1>1, <2>1, <2>2, SameLoadable DEF OutcomeInv
<1>4. CASE Exhaust
  <2>1. Abs!Overflows BY <1>4, ExhaustsOnlyIfTooDeep DEF LInv
  <2>2. stage' = "exhausted" BY <1>4 DEF Exhaust
  <2> QED BY <1>1, <2>1, <2>2, SameLoadable DEF OutcomeInv
<1>5. CASE Returned \/ UNCHANGED vars
  <2>1. UNCHANGED stage BY <1>5 DEF Returned, vars
  <2> QED BY <1>1, <2>1, SameLoadable DEF LInv, OutcomeInv
<1>6. CASE ~Publish /\ ~Throw /\ ~Exhaust /\ ~Returned /\ Next
  <2>1. stage' \notin {"ready", "failed", "exhausted"} BY <1>6, LoadingStages
  <2> QED BY <2>1 DEF OutcomeInv
<1> QED BY <1>2, <1>3, <1>4, <1>5, <1>6

LEMMA LoaderStep == LInv /\ [Next]_vars => LInv'
BY RefStep, PStep, MenusStep, TypedStep, UntypedStep, IdentifiedStep, ShownStep, OutcomeStep
DEF LInv

---------------------------------------------------------------------------
(* What the program has printed and how it ends. *)

\* Every descriptor has a document and every document's identity a descriptor.
LEMMA ReadyStands ==
  ASSUME LInv, stage = "ready"
  PROVE  /\ Abs!Loadable
         /\ DOMAIN descriptors = Abs!Identities
         /\ \A id \in DOMAIN descriptors :
              /\ descriptors[id].file \in Documents
              /\ Identity(disk.iodds[descriptors[id].file]) = id
              /\ TypedAs(descriptors[id].variables, disk.iodds[descriptors[id].file])
<1>1. pending = {} /\ file = None /\ Stands(descriptors, Finished)
  BY DEF LInv, RefInv, ReadyInv, RInv, TypeOK, FinishedInv, Loaded
<1>2. Finished = Documents BY <1>1, NoneAssumption DEF Finished, Documents
<1>3. /\ DOMAIN descriptors = {Identity(disk.iodds[p]) : p \in Documents}
      /\ \A id \in DOMAIN descriptors :
           descriptors[id].file \in Documents /\ Identity(disk.iodds[descriptors[id].file]) = id
  BY <1>1, <1>2 DEF Stands
<1>4. DOMAIN descriptors = Abs!Identities BY <1>3, SameNames DEF Abs!Identities
<1>5. \A id \in DOMAIN descriptors :
        TypedAs(descriptors[id].variables, disk.iodds[descriptors[id].file])
  BY DEF LInv, UntypedOnlyWithoutProcessData, TypedAs
<1> QED BY <1>3, <1>4, <1>5 DEF LInv, OutcomeInv

\* A descriptor whose variables can be printed is of a complete document, and the other
\* way round.
LEMMA PrintsComplete ==
  ASSUME LInv, stage = "ready", NEW id \in DOMAIN descriptors
  PROVE  PrintsVariables(descriptors[id]) <=> Complete(disk.iodds[descriptors[id].file])
BY ReadyStands DEF TypedAs, PrintsVariables, Complete

\* A menu that cannot be printed has a variable of the descriptor that cannot.
LEMMA PrintsMenusToo ==
  ASSUME LInv, NEW id \in DOMAIN descriptors, PrintsVariables(descriptors[id])
  PROVE  PrintsMenus(descriptors[id])
BY DEF LInv, MInv, MenusPointToPublishedVariables, PrintsVariables, PrintsMenus

LEMMA AllIdentified ==
  ASSUME LInv, NEW id \in DOMAIN descriptors
  PROVE  Identified(descriptors[id])
BY DEF LInv, IdentifiedInv, HasIdentification, Identified

\* What the descriptor main asks for says of its document, once all are printed.
LEMMA FoundStands ==
  ASSUME ProgInv, phase \in {"found", "observing"}
  PROVE  LET p == descriptors[Wanted].file
         IN /\ p \in DocumentsOf(Wanted) /\ Complete(disk.iodds[p])
            /\ getMenu(descriptors[Wanted]) <=> Shows(disk.iodds[p])
<1> DEFINE d == descriptors[Wanted]
           document == disk.iodds[d.file]
<1>1. /\ stage = "ready" /\ Wanted \in DOMAIN descriptors /\ remaining = {}
      /\ \A id \in DOMAIN descriptors \ remaining : PrintsVariables(descriptors[id])
  BY DEF ProgInv, PhaseInv
<1>2. d.file \in Documents /\ Identity(document) = Wanted
  BY <1>1, ReadyStands DEF ProgInv
<1>3. PrintsVariables(d) BY <1>1
<1>4. Complete(document) BY <1>1, <1>3, PrintsComplete DEF ProgInv
<1>5. Observe(disk.std, document).entries \subseteq Entries
  <2>1. disk.std \in StdDocs /\ document \in DeviceDocs
    BY <1>2 DEF ProgInv, LInv, RefInv, RInv, TypeOK, Disk, Documents
  <2> QED BY <2>1, ObserveAssumption
<1>6. "Observation" \in UserRoles BY DEF UserRoles, RoleOrder
<1>7. \A e \in Entries : (d.uis["Observation"][e] # None)
        <=> MenuOutcome(document.menus["Observation"][e], Abs!VariableIds(document)) = "menu"
  BY <1>1, <1>6 DEF ProgInv, LInv, ShownInv, ShownAs
<1>8. getMenu(d) <=> Shows(document) BY <1>5, <1>7 DEF getMenu, Shows
<1> QED BY <1>2, <1>4, <1>8 DEF DocumentsOf

\* When main decodes the item, everything has been found and printed.
LEMMA ObservingStands ==
  ASSUME ProgInv, phase = "observing"
  PROVE  Succeeds(Item.decode)
<1>1. /\ stage = "ready" /\ remaining = {} /\ getMenu(descriptors[Wanted])
      /\ \A id \in DOMAIN descriptors \ remaining : PrintsVariables(descriptors[id])
  BY DEF ProgInv, PhaseInv
<1>2. ASSUME NEW id \in Abs!Identities
      PROVE  \E p \in DocumentsOf(id) : Complete(disk.iodds[p])
  <2>1. /\ id \in DOMAIN descriptors
        /\ descriptors[id].file \in Documents
        /\ Identity(disk.iodds[descriptors[id].file]) = id
    BY <1>1, <1>2, ReadyStands DEF ProgInv
  <2>2. Complete(disk.iodds[descriptors[id].file])
    BY <1>1, <2>1, PrintsComplete DEF ProgInv
  <2> QED BY <2>1, <2>2 DEF DocumentsOf
<1>3. ShownWith(Item.decode) BY <1>1, FoundStands DEF ShownWith, Item
<1>4. Abs!Loadable BY <1>1, ReadyStands DEF ProgInv
<1> QED BY <1>2, <1>3, <1>4 DEF Succeeds

\* An exception that ends the program comes from the documents.
LEMMA ThrownIsDecided ==
  ASSUME ProgInv, Thrown
  PROVE  Fails
<1>1. CASE phase = "loading" /\ stage = "failed" BY <1>1 DEF ProgInv, LInv, OutcomeInv, Fails
<1>2. CASE phase = "printing" /\ remaining = {} /\ Wanted \notin DOMAIN descriptors
  BY <1>2, ReadyStands DEF ProgInv, PhaseInv, Fails
<1>3. ASSUME phase = "printing", NEW id \in remaining,
             ~PrintsVariables(descriptors[id]) \/ ~PrintsMenus(descriptors[id])
      PROVE  Fails
  <2>1. stage = "ready" /\ id \in DOMAIN descriptors BY <1>3 DEF ProgInv, PhaseInv
  <2>2. ~PrintsVariables(descriptors[id]) BY <1>3, <2>1, PrintsMenusToo DEF ProgInv
  <2> QED BY <2>1, <2>2, PrintsComplete, ReadyStands DEF ProgInv, Fails
<1>4. CASE phase = "found" /\ ~getMenu(descriptors[Wanted])
  BY <1>4, FoundStands DEF Fails
<1>5. CASE phase = "observing" /\ Item.decode = "exception"
  BY <1>5, ObservingStands DEF Succeeds, Fails
<1> QED BY <1>1, <1>2, <1>3, <1>4, <1>5 DEF Thrown

\* What the documents say of the end of the program does not change.
LEMMA SameCauses ==
  ASSUME UNCHANGED disk
  PROVE  /\ Fails' <=> Fails
         /\ \A decode : Succeeds(decode)' <=> Succeeds(decode)
<1>1. Abs!Identities' = Abs!Identities /\ Documents' = Documents
  BY DEF Abs!Identities, Abs!Documents, Documents
<1>2. ASSUME NEW id PROVE DocumentsOf(id)' = DocumentsOf(id)
  BY <1>1 DEF DocumentsOf
<1>3. ASSUME NEW p PROVE Complete(disk.iodds[p])' <=> Complete(disk.iodds[p])
  BY DEF Complete, Abs!VariableIds, LacksProcessData, Declaration
<1>4. ASSUME NEW p PROVE Shows(disk.iodds[p])' <=> Shows(disk.iodds[p])
  BY DEF Shows, Abs!VariableIds
<1>5. ASSUME NEW decode PROVE ShownWith(decode)' <=> ShownWith(decode)
  BY <1>2, <1>3, <1>4 DEF ShownWith
<1>6. Fails' <=> Fails BY <1>1, <1>2, <1>3, <1>4, <1>5, SameLoadable DEF Fails
<1>7. ASSUME NEW decode PROVE Succeeds(decode)' <=> Succeeds(decode)
  BY <1>1, <1>2, <1>3, <1>5, SameLoadable DEF Succeeds
<1> QED BY <1>6, <1>7

LEMMA PhaseStep == ProgInv /\ [ProgramNext]_programVars => PhaseInv'
<1> SUFFICES ASSUME ProgInv, [ProgramNext]_programVars PROVE PhaseInv' OBVIOUS
<1>1. CASE MakeRepository BY <1>1 DEF MakeRepository, ProgInv, PhaseInv
<1>2. CASE UNCHANGED vars
  <2>1. /\ UNCHANGED <<disk, stage, descriptors>>
        /\ Fails' <=> Fails
        /\ \A decode : Succeeds(decode)' <=> Succeeds(decode)
        /\ Abs!Overflows' <=> Abs!Overflows
    BY <1>2, SameCauses, SameLoadable DEF vars
  <2>2. getMenu(descriptors[Wanted])' <=> getMenu(descriptors[Wanted]) BY <2>1 DEF getMenu
  <2>3. CASE GetDescriptors BY <2>1, <2>3 DEF GetDescriptors, ProgInv, PhaseInv, Phases
  <2>4. ASSUME NEW id \in remaining, PrintDescriptor(id) PROVE PhaseInv'
    <3>1. /\ phase = "printing" /\ id \in DOMAIN descriptors
          /\ PrintsVariables(descriptors[id])
          /\ remaining' = remaining \ {id}
      BY <2>4 DEF PrintDescriptor, ProgInv, PhaseInv
    <3>2. phase' = phase BY <2>4, <3>1, AllIdentified DEF PrintDescriptor, ProgInv
    <3> QED BY <2>1, <3>1, <3>2 DEF ProgInv, PhaseInv
  <2>5. CASE GetDescriptor BY <2>1, <2>5 DEF GetDescriptor, ProgInv, PhaseInv, Phases
  <2>6. CASE GetMenu BY <2>1, <2>2, <2>6 DEF GetMenu, ProgInv, PhaseInv, Phases
  <2>7. CASE Decode
    <3>1. /\ phase = "observing" /\ stage = "ready"
          /\ phase' = IF Item.decode = "value" THEN "succeeded" ELSE "undefined"
      BY <2>7 DEF Decode, ProgInv, PhaseInv
    <3>2. Succeeds(Item.decode) BY <3>1, ObservingStands
    <3>3. Item.decode \in {"value", "undefined"}
      <4>1. descriptors[Wanted].file \in Documents BY <3>1, FoundStands DEF DocumentsOf
      <4>2. disk.std \in StdDocs /\ disk.iodds[descriptors[Wanted].file] \in DeviceDocs
        BY <4>1 DEF ProgInv, LInv, RefInv, RInv, TypeOK, Disk, Documents
      <4>3. Item.decode \in {"value", "exception", "undefined"}
        BY <4>2, ObserveAssumption DEF Item
      <4> QED BY <2>7, <4>3 DEF Decode
    <3> QED BY <2>1, <3>1, <3>2, <3>3 DEF PhaseInv, Phases, Ends
  <2>8. CASE ExitFailure
    <3>1. phase' = "failed" /\ stage \in {"ready", "failed"}
      BY <2>8 DEF ExitFailure, Thrown, ProgInv, PhaseInv
    <3>2. Fails BY <2>8, ThrownIsDecided DEF ExitFailure
    <3> QED BY <2>1, <3>1, <3>2 DEF PhaseInv, Phases, Ends
  <2>9. CASE StackExhausted
    BY <2>1, <2>9 DEF StackExhausted, ProgInv, LInv, OutcomeInv, PhaseInv, Phases, Ends
  <2>10. CASE UNCHANGED <<phase, remaining>> BY <2>1, <2>2, <2>10 DEF ProgInv, PhaseInv
  <2> QED BY <2>3, <2>4, <2>5, <2>6, <2>7, <2>8, <2>9, <2>10, <1>1
      DEF ProgramNext, Exited, programVars
<1> QED BY <1>1, <1>2
    DEF ProgramNext, GetDescriptors, PrintDescriptor, GetDescriptor, GetMenu, Decode,
        ExitFailure, StackExhausted, Exited, programVars

LEMMA ProgramInductive == ProgramSpec => []ProgInv
<1>1. ProgramInit => ProgInv
  <2> SUFFICES ASSUME ProgramInit PROVE ProgInv OBVIOUS
  <2>1. RefInv /\ PInv /\ MInv BY RefInit, PInit, MenusInit DEF ProgramInit
  <2> QED BY <2>1 DEF ProgramInit, Init, Empty, ProgInv, LInv, TypedInv,
    UntypedOnlyWithoutProcessData, IdentifiedInv, ShownInv, OutcomeInv, PhaseInv, Phases
<1>2. ProgInv /\ [ProgramNext]_programVars => ProgInv'
  <2> SUFFICES ASSUME ProgInv, [ProgramNext]_programVars PROVE ProgInv' OBVIOUS
  <2>1. [Next]_vars
    BY DEF ProgramNext, MakeRepository, GetDescriptors, PrintDescriptor, GetDescriptor,
       GetMenu, Decode, ExitFailure, StackExhausted, Exited, programVars
  <2> QED BY <2>1, LoaderStep, PhaseStep DEF ProgInv
<1> QED BY <1>1, <1>2, PTL DEF ProgramSpec

\* A published variable is without a type exactly if it stands for process data that its
\* own document does not have.
THEOREM UntypedCorrect == ProgramSpec => []UntypedOnlyWithoutProcessData
<1>1. ProgInv => UntypedOnlyWithoutProcessData BY DEF ProgInv, LInv
<1> QED BY <1>1, ProgramInductive, PTL

\* printUI follows no null pointer: every role of every published descriptor has its
\* identification menu.
THEOREM ProgramNeverCrashes == ProgramSpec => []NeverCrashes
<1>1. ProgInv => NeverCrashes BY DEF ProgInv, PhaseInv, NeverCrashes
<1> QED BY <1>1, ProgramInductive, PTL

\* How the program ends is decided by the documents, up to its last exception: with
\* success only if main finds and decodes what it asks for, with a failure only if
\* makeRepository, a descriptor to print, the menu or the item gives it a reason, and
\* by an exhausted call stack only if menus nest too deep.
THEOREM ExitDecided == ProgramSpec => []ExitIsDecided
<1>1. ASSUME ProgInv PROVE ExitIsDecided
  <2>1. PhaseInv BY <1>1 DEF ProgInv
  <2> QED BY <2>1 DEF PhaseInv, ExitIsDecided, Succeeds, Fails, ShownWith, DocumentsOf
<1> QED BY <1>1, ProgramInductive, PTL
=============================================================================
