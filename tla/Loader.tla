------------------------------ MODULE Loader ------------------------------
(***************************************************************************)
(* makeRepository, step by step: the standard units, the standard          *)
(* definitions, then every device document of the iodds directory in the   *)
(* order the file system lists it, each through decodeStdVariables,        *)
(* decodeVariables, decodeProcessData, setVariableProcessData and decodeUI *)
(* to a DeviceDescriptor.                                                  *)
(*                                                                         *)
(* The datatype objects of the standard definitions are shared by pointer  *)
(* between the standard variables, the devices' variables and each other;  *)
(* decoding a StdVariableRef expands them in place.  `names` is that       *)
(* shared heap: the named values each standard datatype object holds.      *)
(***************************************************************************)
EXTENDS IODDDocument

VARIABLES
  disk,         \* the documents makeRepository is given
  stage,        \* the decoder that runs next
  units,        \* the UnitsMap: the codes it holds
  datatypes,    \* the DatatypesMap of the standard definitions
  stdVariables, \* the VariablesMap of the standard definitions
  names,        \* the values_ of every standard datatype object
  pending,      \* directory entries the iterator has not returned yet
  file,         \* the document being decoded, None between two documents
  pos,          \* the next StdVariableRef of that document
  variables,    \* the VariablesMap of that document so far
  processData,  \* its ProcessDataCollection
  uis,          \* its UserInterfaces
  descriptors   \* the DescriptorsMap: identity -> descriptor

stdState == <<units, datatypes, stdVariables>>
fileState == <<variables, processData, uis>>
vars == <<disk, stage, stdState, names, pending, file, pos, fileState, descriptors>>

Stages == {"units", "std", "scan", "stdRefs", "processData", "bind", "ui",
           "emplace", "ready", "failed", "exhausted"}
Empty == [x \in {} |-> None]
doc == disk.iodds[file]
Ref == doc.stdRefs[pos]

Init ==
  /\ disk \in Disk
  /\ stage = "units"
  /\ units = {} /\ datatypes = Empty /\ stdVariables = Empty
  /\ names = [l \in StdLoc |-> {}]
  /\ pending = Paths /\ file = None /\ pos = 1
  /\ variables = Empty /\ processData = Empty /\ uis = Empty
  /\ descriptors = Empty

---------------------------------------------------------------------------
(* The standard documents. *)

decodeUnits ==
  /\ stage = "units" /\ disk.units.wellFormed
  /\ units' = disk.units.codes
  /\ stage' = "std"
  /\ UNCHANGED <<disk, datatypes, stdVariables, names, pending, file, pos, fileState, descriptors>>

\* The named values the standard definitions declare for the object at loc.
Declared(std, loc) ==
  LET of(decls, i) == {[by |-> Std, at |-> 0, value |-> v] : v \in decls[i].decl.names}
      decls == IF loc[2] = "type" THEN std.datatypes ELSE std.variables
  IN IF loc[3] \in Ids(decls) THEN of(decls, First(decls, loc[3])) ELSE {}

decodeStdDefinitions ==
  /\ stage = "std" /\ StdDecodable(disk.std)
  /\ datatypes' = StdDatatypes(disk.std)
  /\ stdVariables' = StdVariables(disk.std)
  /\ names' = [l \in StdLoc |-> Declared(disk.std, l)]
  /\ stage' = "scan"
  /\ UNCHANGED <<disk, units, pending, file, pos, fileState, descriptors>>

---------------------------------------------------------------------------
(* decodeDescriptors: one directory entry at a time. *)

allEntries(p) == pending  \* fault: the entry is not consumed
otherEntries(p) == pending \ {p}

SkipEntry(p) ==
  /\ stage = "scan" /\ disk.dir /\ p \in pending
  /\ ~disk.iodds[p].xml
  /\ pending' = otherEntries(p)
  /\ UNCHANGED <<disk, stage, stdState, names, file, pos, fileState, descriptors>>

OpenDocument(p) ==
  /\ stage = "scan" /\ disk.dir /\ p \in pending
  /\ disk.iodds[p].xml /\ disk.iodds[p].wellFormed
  /\ pending' = otherEntries(p)
  /\ file' = p /\ pos' = 1
  /\ stage' = "stdRefs"
  /\ UNCHANGED <<disk, stdState, names, fileState, descriptors>>

Publish ==
  /\ stage = "scan" /\ disk.dir /\ pending = {}
  /\ stage' = "ready"
  /\ UNCHANGED <<disk, stdState, names, pending, file, pos, fileState, descriptors>>

---------------------------------------------------------------------------
(* decodeStdVariables: one StdVariableRef at a time. *)

\* The default, the flag and the value names the reference overrides.  A default
\* is read for simple types only, names only for those isNamedType accepts.
HasDefault(ref, variable) == ref.default # None /\ isSimpleData(variable.value.type)
HasNames(ref, variable) == ref.children /\ isNamedType(variable.value.type)
Updates(ref, variable) ==
  /\ ~holdsProcessData(variable)
  /\ HasDefault(ref, variable) \/ ref.excluded # None \/ HasNames(ref, variable)

\* Variable's updating constructor: the flag is set from the presence of an
\* optional<bool>, so an updated variable is always excluded; the value is the
\* pointer of the original.
Updated(ref, variable) ==
  [variable EXCEPT !.default = IF HasDefault(ref, variable) THEN ref.default ELSE @,
                   !.excluded = TRUE]

\* NumberT::expand, BooleanT::expand: the sets compare pointers, so every new
\* named value is inserted.
Expansion(p, i, ref) == {[by |-> p, at |-> i, value |-> v] : v \in ref.names}

\* unordered_map: a key that is taken keeps its value.
insertOrAssign(map, more) ==  \* fault: it does not
  [k \in DOMAIN map \cup DOMAIN more |-> IF k \in DOMAIN more THEN more[k] ELSE map[k]]
insert(map, more) ==
  [k \in DOMAIN map \cup DOMAIN more |-> IF k \in DOMAIN map THEN map[k] ELSE more[k]]
emplaceLast(map, key, value) == insertOrAssign(map, [k \in {key} |-> value])  \* fault
emplace(map, key, value) == insert(map, [k \in {key} |-> value])

assign(loc, added) == added  \* fault: the names are replaced
expandOnce(loc, added) ==     \* fault: a duplicate reference does not expand
  IF Ref.id \in DOMAIN variables THEN names[loc] ELSE names[loc] \cup added
expand(loc, added) == names[loc] \cup added

SkipOverlay ==
  /\ stage = "stdRefs" /\ pos \in DOMAIN doc.stdRefs
  /\ Ref.id \in Overlays
  /\ pos' = pos + 1
  /\ UNCHANGED <<disk, stage, stdState, names, pending, file, fileState, descriptors>>

\* The reference shares the standard variable.
ReferVariable ==
  /\ stage = "stdRefs" /\ pos \in DOMAIN doc.stdRefs
  /\ Ref.id \in DOMAIN stdVariables \ Overlays
  /\ ~Updates(Ref, stdVariables[Ref.id])
  /\ variables' = emplace(variables, Ref.id, stdVariables[Ref.id])
  /\ pos' = pos + 1
  /\ UNCHANGED <<disk, stage, stdState, names, pending, file, processData, uis, descriptors>>

\* The reference makes its own variable, over the shared datatype object.
UpdateVariable ==
  /\ stage = "stdRefs" /\ pos \in DOMAIN doc.stdRefs
  /\ Ref.id \in DOMAIN stdVariables \ Overlays
  /\ LET variable == stdVariables[Ref.id]
     IN /\ Updates(Ref, variable)
        /\ variables' = emplace(variables, Ref.id, Updated(Ref, variable))
        /\ names' = IF HasNames(Ref, variable)
                    THEN [names EXCEPT ![variable.value.loc] =
                            expand(variable.value.loc, Expansion(file, pos, Ref))]
                    ELSE names
  /\ pos' = pos + 1
  /\ UNCHANGED <<disk, stage, stdState, pending, file, processData, uis, descriptors>>

---------------------------------------------------------------------------
(* The rest of decode. *)

\* The document's own variables never replace a referenced standard one.
DecodeVariables ==
  /\ stage = "stdRefs" /\ pos \notin DOMAIN doc.stdRefs
  /\ \A i \in DOMAIN doc.variables : DecodesVariable(doc.variables[i], datatypes)
  /\ variables' = insert(variables, decodeVariables(doc.variables, file, datatypes))
  /\ stage' = "processData"
  /\ UNCHANGED <<disk, stdState, names, pending, file, pos, processData, uis, descriptors>>

DecodesProcessData(decl) ==
  /\ "error" \notin {decl.in, decl.out}
  /\ "type" \in {decl.in, decl.out}
  /\ decl.condition \in DOMAIN variables \cup {None}

foundStd(id) ==  \* fault: the standard variables are searched first
  IF id \in DOMAIN stdVariables THEN stdVariables[id] ELSE variables[id]
found(id) == variables[id]

\* The condition holds the variable as it is before setVariableProcessData.
ProcessDataUnion(decl) ==
  [in |-> IF decl.in = "type" THEN <<file, decl.id, "in">> ELSE None,
   out |-> IF decl.out = "type" THEN <<file, decl.id, "out">> ELSE None,
   id |-> decl.condition,
   condition |-> IF decl.condition = None THEN None ELSE found(decl.condition)]

decodeProcessData ==
  /\ stage = "processData"
  /\ \A i \in DOMAIN doc.processData : DecodesProcessData(doc.processData[i])
  /\ processData' = [id \in Ids(doc.processData) |->
                       ProcessDataUnion(doc.processData[First(doc.processData, id)])]
  /\ stage' = "bind"
  /\ UNCHANGED <<disk, stdState, names, pending, file, pos, variables, uis, descriptors>>

\* Variable's process data constructor: value and default stay behind.
Bound(variable, data) ==
  [variable EXCEPT !.value = None, !.processData = data, !.default = None]

isNotEmpty(collection) == collection # Empty  \* fault: any number is accepted
isSingle(collection) == \E id \in DOMAIN collection : DOMAIN collection = {id}

setVariableProcessData ==
  /\ stage = "bind" /\ isSingle(processData)
  /\ \E pd \in DOMAIN processData :
       LET union == processData[pd]
           target == {ProcessDataVariable[dir] : dir \in {d \in {"in", "out"} : union[d] # None}}
           data(id) == IF id = ProcessDataVariable.in THEN union.in ELSE union.out
       IN /\ target \subseteq DOMAIN variables
          /\ variables' = [id \in DOMAIN variables |->
                             IF id \in target THEN Bound(variables[id], data(id))
                             ELSE variables[id]]
  /\ stage' = "ui"
  /\ UNCHANGED <<disk, stdState, names, pending, file, pos, processData, uis, descriptors>>

\* The variables a decoded menu tree points to, by id; None when an optional menu
\* was given up.
DecodedMenu(menu) ==
  IF MenuOutcome(menu, DOMAIN variables) # "menu" THEN None
  ELSE [id \in {menu[i].variable : i \in DOMAIN menu} |-> found(id)]

decodeUI ==
  /\ stage = "ui"
  /\ \A role \in UserRoles : DecodesRoleUI(doc.menus[role], DOMAIN variables)
  /\ uis' = [role \in UserRoles |-> [e \in Entries |-> DecodedMenu(doc.menus[role][e])]]
  /\ stage' = "emplace"
  /\ UNCHANGED <<disk, stdState, names, pending, file, pos, variables, processData, descriptors>>

emplaceDescriptor ==
  /\ stage = "emplace"
  /\ units # {} /\ DOMAIN variables # {}
  /\ descriptors' = emplace(descriptors, Identity(doc),
                      [file |-> file, variables |-> variables,
                       processData |-> processData, uis |-> uis])
  /\ variables' = Empty /\ processData' = Empty /\ uis' = Empty
  /\ file' = None
  /\ stage' = "scan"
  /\ UNCHANGED <<disk, stdState, names, pending, pos>>

---------------------------------------------------------------------------
(* Any exception of a decoder leaves makeRepository; the map of descriptors   *)
(* is a local of decodeDescriptors and goes with it.                          *)

Throws ==
  \/ stage = "units" /\ ~disk.units.wellFormed
  \/ stage = "std" /\ ~StdDecodable(disk.std)
  \/ stage = "scan" /\ ~disk.dir
  \/ stage = "scan" /\ \E p \in pending : disk.iodds[p].xml /\ ~disk.iodds[p].wellFormed
  \/ /\ stage = "stdRefs" /\ pos \in DOMAIN doc.stdRefs
     /\ Ref.id \notin DOMAIN stdVariables \cup Overlays
  \/ /\ stage = "stdRefs" /\ pos \notin DOMAIN doc.stdRefs
     /\ \E i \in DOMAIN doc.variables : ~DecodesVariable(doc.variables[i], datatypes)
  \/ /\ stage = "processData"
     /\ \E i \in DOMAIN doc.processData : ~DecodesProcessData(doc.processData[i])
  \/ /\ stage = "bind"
     /\ \/ ~isSingle(processData)
        \/ \E pd \in DOMAIN processData, dir \in {"in", "out"} :
             processData[pd][dir] # None /\ ProcessDataVariable[dir] \notin DOMAIN variables
  \/ /\ stage = "ui" /\ ~Exhausts(doc.menus, DOMAIN variables)
     /\ \E role \in UserRoles : ~DecodesRoleUI(doc.menus[role], DOMAIN variables)
  \/ stage = "emplace" /\ (units = {} \/ DOMAIN variables = {})

Throw ==
  /\ Throws
  /\ stage' = "failed"
  /\ descriptors' = Empty
  /\ UNCHANGED <<disk, stdState, names, pending, file, pos, fileState>>

ExhaustUnordered ==  \* fault: whatever is decoded before the menu that is too deep
  /\ stage = "ui"
  /\ \E role \in UserRoles, e \in Entries :
       MenuOutcome(doc.menus[role][e], DOMAIN variables) = "overflow"
  /\ stage' = "exhausted"
  /\ UNCHANGED <<disk, stdState, names, pending, file, pos, fileState, descriptors>>
\* decodeMenu calls itself until the call stack is exhausted, which nothing catches.
Exhaust ==
  /\ stage = "ui" /\ Exhausts(doc.menus, DOMAIN variables)
  /\ stage' = "exhausted"
  /\ UNCHANGED <<disk, stdState, names, pending, file, pos, fileState, descriptors>>

\* The call has returned, an exception has left it, or the process has ended.
Returned ==
  /\ stage \in {"ready", "failed", "exhausted"}
  /\ UNCHANGED vars

Next ==
  \/ decodeUnits \/ decodeStdDefinitions
  \/ \E p \in Paths : SkipEntry(p) \/ OpenDocument(p)
  \/ SkipOverlay \/ ReferVariable \/ UpdateVariable
  \/ DecodeVariables \/ decodeProcessData \/ setVariableProcessData
  \/ decodeUI \/ emplaceDescriptor \/ Publish \/ Throw \/ Exhaust \/ Returned

Spec == Init /\ [][Next]_vars /\ WF_vars(Next)

---------------------------------------------------------------------------
(* Properties. *)

FileStages == {"stdRefs", "processData", "bind", "ui", "emplace"}
Documents == {p \in Paths : disk.iodds[p].xml}
Union == [in : ProcessDataT \cup {None}, out : ProcessDataT \cup {None},
          id : VarIds \cup {None}, condition : Variable \cup {None}]

\* Types of the loader's state; a document is open exactly in the stages that
\* decode one.
TypeOK ==
  /\ disk \in Disk
  /\ stage \in Stages
  /\ units \subseteq UnitCodes
  /\ DatatypesMap(datatypes)
  /\ VariablesMap(stdVariables) /\ VariablesMap(variables)
  /\ names \in [StdLoc -> SUBSET NamedValue]
  /\ pending \subseteq Paths
  /\ file \in Paths \cup {None}
  /\ stage \in FileStages => file \in Documents \ pending
  /\ stage \in {"units", "std", "scan", "ready"} => file = None
  /\ pos \in Nat \ {0}
  /\ DOMAIN processData \subseteq PDIds /\ processData \in [DOMAIN processData -> Union]
  /\ DOMAIN uis \in {{}, UserRoles}
  /\ \A id \in DOMAIN descriptors : descriptors[id].file \in Documents

\* The StdVariableRef at position i of p adds value names to the object at loc.
Expands(p, i, loc) ==
  LET ref == disk.iodds[p].stdRefs[i]
      variable == StdVariables(disk.std)[ref.id]
  IN /\ ref.id \in Ids(disk.std.variables) \ Overlays
     /\ ~holdsProcessData(variable)
     /\ HasNames(ref, variable)
     /\ variable.value.loc = loc

\* The value names a document adds to the object at loc with its references
\* before position n.
ExpansionsBefore(p, n, loc) ==
  UNION {Expansion(p, i, disk.iodds[p].stdRefs[i]) :
           i \in {j \in DOMAIN disk.iodds[p].stdRefs : j < n /\ Expands(p, j, loc)}}

ExpansionsBy(p, loc) ==
  UNION {Expansion(p, i, disk.iodds[p].stdRefs[i]) :
           i \in {j \in DOMAIN disk.iodds[p].stdRefs : Expands(p, j, loc)}}

\* At every moment a standard datatype object holds exactly the names the standard
\* definitions declare, those of the documents decoded so far and those of the
\* references of the open document that have been decoded: expanding never loses a
\* name, never touches another object, and a reference that is refused as a
\* duplicate by emplace has expanded its object all the same.
NamesAreExpansions ==
  stage \in {"scan", "ready"} \cup FileStages =>
    \A loc \in StdLoc :
      names[loc] = Declared(disk.std, loc)
                     \cup (UNION {ExpansionsBy(p, loc) : p \in Documents \ (pending \cup {file})})
                     \cup (IF file = None THEN {} ELSE ExpansionsBefore(file, pos, loc))

\* When makeRepository returns, the names of a standard datatype do not depend on
\* the order in which the file system listed the documents.
NamesAreOrderIndependent ==
  stage = "ready" =>
    \A loc \in StdLoc :
      names[loc] = Declared(disk.std, loc) \cup (UNION {ExpansionsBy(p, loc) : p \in Documents})

\* Once a descriptor is in the map, a later document with the same identity neither
\* replaces nor changes it; only an exception takes it away.
FirstDescriptorStays ==
  [][stage' # "failed" =>
       \A id \in DOMAIN descriptors :
         id \in DOMAIN descriptors' /\ descriptors'[id] = descriptors[id]]_vars

\* A variable a descriptor's menus point to is the variable the descriptor returns
\* for that id, with its process data: decodeUI runs after setVariableProcessData.
MenusPointToPublishedVariables ==
  \A id \in DOMAIN descriptors, role \in UserRoles, e \in Entries :
    LET d == descriptors[id]
        menu == d.uis[role][e]
    IN menu # None => \A v \in DOMAIN menu : v \in DOMAIN d.variables /\ menu[v] = d.variables[v]

\* The condition of a published process data union points to the published variable,
\* except when that variable was bound to process data after the condition was
\* decoded: then it points to the variable as it was before.
ConditionsAreStaleOnlyWhenBound ==
  \A id \in DOMAIN descriptors :
    LET d == descriptors[id]
    IN \A pd \in DOMAIN d.processData :
         LET union == d.processData[pd]
             bound == \E dir \in {"in", "out"} :
                        union[dir] # None /\ ProcessDataVariable[dir] = union.id
         IN union.id # None => (union.condition # d.variables[union.id]) = bound

\* A standard variable that a document refers to keeps the standard datatype object
\* in the descriptor, even if the document declares a variable with the same id;
\* unless it was bound to process data.
ReferencesKeepStandardObject ==
  \A id \in DOMAIN descriptors :
    LET d == descriptors[id]
    IN \A v \in Ids(disk.iodds[d.file].stdRefs) \ Overlays :
         d.variables[v].processData = None => d.variables[v].value = stdVariables[v].value

\* The first of the references to a standard variable decides alone what becomes of its
\* default and of its exclusion from the data storage, whatever follows in the document:
\* an update excludes the variable, even one that says it is not excluded, and the
\* default of a variable is lost when it is bound.
FirstReferenceDecides ==
  \A id \in DOMAIN descriptors :
    LET d == descriptors[id]
        refs == disk.iodds[d.file].stdRefs
    IN \A v \in Ids(refs) \ Overlays :
         LET ref == refs[First(refs, v)]
             updates == Updates(ref, stdVariables[v])
         IN /\ d.variables[v].excluded = (updates \/ stdVariables[v].excluded)
            /\ d.variables[v].default =
                 IF /\ updates /\ HasDefault(ref, stdVariables[v])
                    /\ d.variables[v].processData = None
                 THEN ref.default ELSE None

\* The loader implements RepositorySpec: one descriptor per identity, from one of the
\* documents with that identity; or, when some document is not decodable, none, by an
\* exception or by an exhausted call stack that such a document accounts for, whatever
\* the order.
Abs == INSTANCE RepositorySpec WITH
         status <- IF stage \in {"ready", "failed", "exhausted"} THEN stage ELSE "loading",
         catalog <- IF stage = "ready"
                    THEN [id \in DOMAIN descriptors |-> descriptors[id].file] ELSE Empty
Implements == Abs!AbsSpec

\* makeRepository returns or throws, unless the menus of a document nest deeper than the
\* call stack, as menus in a circle always do: decodeMenu's recursion has no guard, and
\* nothing else keeps the loader from ending.
Terminates ==
  (\A p \in Documents : ~Abs!Exhausting(disk.iodds[p])) => <>(stage \in {"ready", "failed"})

\* VariablesDecoder.cpp:164,171: a referenced variable that needs no update is
\* appended as it is, the standard variable: its value names are the standard ones.
UnchangedReferencesAreStandard ==
  \A id \in DOMAIN descriptors :
    \A v \in DOMAIN descriptors[id].variables \cap DOMAIN stdVariables :
      LET variable == descriptors[id].variables[v]
      IN (variable = stdVariables[v] /\ ~holdsProcessData(variable) /\ variable.value.loc \in StdLoc)
           => \A n \in names[variable.value.loc] : n.by = Std
=============================================================================
