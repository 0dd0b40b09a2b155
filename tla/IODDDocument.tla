--------------------------- MODULE IODDDocument ---------------------------
(***************************************************************************)
(* What the loader reads from disk, reduced to what decides its control    *)
(* flow, and the pure decoders that turn one construct into one model      *)
(* object.  A document is already parsed: an XML file that cannot be       *)
(* loaded, or that lacks one of the sections `decode` asks for, is a       *)
(* document with wellFormed = FALSE.                                       *)
(*                                                                         *)
(* A datatype object (the target of a shared_ptr inside a DataValue        *)
(* variant) is named by its location <<origin, kind, id>>: the document it *)
(* was declared in, whether it is an entry of the DatatypeCollection or    *)
(* the inline type of a variable, and the id of that entry or variable.    *)
(***************************************************************************)
EXTENDS Naturals, Sequences, Datatypes, Menus

CONSTANTS
  Paths,      \* the entries of the iodds directory
  TypeIds,    \* ids of the DatatypeCollection
  PDIds,      \* ids of ProcessData elements and of their directions
  Values,     \* values a SingleValue or a defaultValue carries
  UnitCodes,  \* codes of the standard units
  UnitsDocs, StdDocs, DeviceDocs  \* the documents a disk may hold

Std == "IODD-StandardDefinitions.xml"
Overlays == {"V_DirectParameters_1", "V_DirectParameters_2"}
ProcessDataVariable == [in |-> "V_ProcessDataInput", out |-> "V_ProcessDataOutput"]

ASSUME PathsAssumption == Std \notin Paths
ASSUME VarIdsAssumption == Overlays \cup {ProcessDataVariable.in, ProcessDataVariable.out} \subseteq VarIds
ASSUME NoneAssumption ==
  /\ None \notin Paths \cup VarIds \cup TypeIds \cup PDIds
  /\ None \notin Values
  /\ None \notin BOOLEAN
  /\ None \notin {"out_of_range", "other", "overflow"}

Loc == ({Std} \cup Paths) \X {"type", "variable"} \X (TypeIds \cup VarIds)
StdLoc == {Std} \X {"type", "variable"} \X (TypeIds \cup VarIds)

---------------------------------------------------------------------------
(* The documents. *)

TypeDecl == [kind : {"inline", "unknown", "reference", "missing"},
             type : Datatype, ref : TypeIds \cup {None},
             names : SUBSET Values, items : SUBSET TypeIds]
TypeEntry == [id : TypeIds, decl : TypeDecl]
VariableDecl == [id : VarIds, named : BOOLEAN, access : BOOLEAN,
                 excluded : BOOLEAN, decl : TypeDecl]
StdVariableRef == [id : VarIds, default : Values \cup {None},
                   excluded : BOOLEAN \cup {None},
                   children : BOOLEAN, names : SUBSET Values]
\* What decodeProcessDataT makes of the element: a type, nullptr, or an exception.
ProcessDataDecl == [id : PDIds, in : {"type", "absent", "error"},
                    out : {"type", "absent", "error"}, condition : VarIds \cup {None}]

UnitsDoc == [wellFormed : BOOLEAN, codes : SUBSET UnitCodes]
StdDoc == [wellFormed : BOOLEAN, datatypes : Seq(TypeEntry), variables : Seq(VariableDecl)]
DeviceDoc == [xml : BOOLEAN, wellFormed : BOOLEAN, vendor : Nat, device : Nat,
              stdRefs : Seq(StdVariableRef), variables : Seq(VariableDecl),
              processData : Seq(ProcessDataDecl),
              menus : [UserRoles -> [Entries -> (MenuList \ {<<>>}) \cup {None}]]]

ASSUME UnitsDocsAssumption == UnitsDocs \subseteq UnitsDoc
ASSUME StdDocsAssumption == StdDocs \subseteq StdDoc
ASSUME DeviceDocsAssumption == DeviceDocs \subseteq DeviceDoc

\* The directory given to makeRepository; dir says whether it has an "iodds".
Disk == [units : UnitsDocs, std : StdDocs, dir : BOOLEAN, iodds : [Paths -> DeviceDocs]]

Ids(decls) == {decls[i].id : i \in DOMAIN decls}
First(decls, id) == CHOOSE i \in DOMAIN decls :
                      /\ decls[i].id = id
                      /\ \A j \in DOMAIN decls : decls[j].id = id => i <= j

---------------------------------------------------------------------------
(* The decoded objects. *)

DataValue == [loc : Loc, type : SimpleDatatypes \cup ComplexDatatypes, items : SUBSET Loc]
ProcessDataT == Paths \X PDIds \X {"in", "out"}
ASSUME NoProcessDataAssumption == None \notin ProcessDataT
Variable == [value : DataValue \cup {None}, processData : ProcessDataT \cup {None},
             default : Values \cup {None}, excluded : BOOLEAN]
\* A null pointer is no datatype object and no menu.
ASSUME NoObjectAssumption ==
  None \notin DataValue /\ \A ids \in SUBSET VarIds : None \notin [ids -> Variable]
DatatypesMap(map) == DOMAIN map \subseteq TypeIds /\ map \in [DOMAIN map -> DataValue]
VariablesMap(map) == DOMAIN map \subseteq VarIds /\ map \in [DOMAIN map -> Variable]
\* A NamedAttribute held by a datatype: the document and the position of the
\* element that declared it (0 in the standard definitions) and its value.
\* Two declarations of the same value are two objects.
NamedValue == [by : {Std} \cup Paths, at : Nat, value : Values]

\* decodeDataValue, for the types a variable or a datatype can hold.  An Array
\* silently accepts an unknown item type, a Record does not.
DecodesDataValue(decl, datatypes) ==
  /\ decl.kind = "inline"
  /\ ~isProcessData(decl.type)
  /\ decl.type = "Record" => decl.items \subseteq DOMAIN datatypes
  /\ isComplexData(decl.type) =>
       \A i \in decl.items \cap DOMAIN datatypes : isSimpleData(datatypes[i].type)

DecodedDataValue(decl, loc, datatypes) ==
  [loc |-> loc, type |-> decl.type,
   items |-> IF isComplexData(decl.type)
             THEN {datatypes[i].loc : i \in decl.items \cap DOMAIN datatypes} ELSE {}]

\* The body of the loop of decodeVariables.
DecodesVariable(v, datatypes) ==
  /\ v.named /\ v.access
  /\ \/ v.decl.kind = "inline" /\ isProcessData(v.decl.type)
     \/ DecodesDataValue(v.decl, datatypes)
     \/ v.decl.kind = "reference" /\ v.decl.ref \in DOMAIN datatypes

DecodedVariable(v, origin, datatypes) ==
  [value |-> CASE v.decl.kind = "reference" -> datatypes[v.decl.ref]
               [] v.decl.kind # "reference" /\ isProcessData(v.decl.type) -> None
               [] OTHER -> DecodedDataValue(v.decl, <<origin, "variable", v.id>>, datatypes),
   processData |-> None, default |-> None, excluded |-> v.excluded]

decodeVariables(decls, origin, datatypes) ==
  [id \in Ids(decls) |-> DecodedVariable(decls[First(decls, id)], origin, datatypes)]

NoDatatypes == [i \in {} |-> None]

decodeDatatypes(entries) ==
  [id \in Ids(entries) |->
     DecodedDataValue(entries[First(entries, id)].decl, <<Std, "type", id>>, NoDatatypes)]

\* decodeStdDefinitions: what it builds, and when it returns at all.
StdDatatypes(std) == decodeDatatypes(std.datatypes)
StdVariables(std) == decodeVariables(std.variables, Std, StdDatatypes(std))
StdDecodable(std) ==
  /\ std.wellFormed
  /\ \A i \in DOMAIN std.datatypes : DecodesDataValue(std.datatypes[i].decl, NoDatatypes)
  /\ \A i \in DOMAIN std.variables : DecodesVariable(std.variables[i], StdDatatypes(std))

holdsProcessData(variable) == variable.value = None

\* The types getUpdatedValues decodes new value names for.
isNamedType(type) == type = "Boolean" \/ isNumericData(type)

\* DeviceIdentity: the vendor id is narrowed to 16 bits.  Device ids are 32 bits
\* wide in the schema and in the code.
Identity(doc) == <<doc.vendor % 65536, doc.device>>
=============================================================================
