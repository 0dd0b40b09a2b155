----------------------------- MODULE MCLoader -----------------------------
(***************************************************************************)
(* Small disks for Loader and the program that calls it: one standard      *)
(* definitions file whose system command object is shared by two variables *)
(* and by an overlay, and device documents that reach every branch of the  *)
(* decoders.                                                               *)
(***************************************************************************)
EXTENDS ExampleProgram

CONSTANTS p1, p2, v0, v1

MCVarIds == Overlays \cup {"V_ProcessDataInput", "V_ProcessDataOutput",
                           "V_SystemCommand", "V_ApplicationTag", "V_Own"}
MCTypeIds == {"STD_D_SystemCommand", "STD_D_Tag", "D_Unknown"}

Inline(type, values) ==
  [kind |-> "inline", type |-> type, ref |-> None, names |-> values, items |-> {}]
Items(type, items) == [Inline(type, {}) EXCEPT !.items = items]
Reference(id) == [Inline("UInteger", {}) EXCEPT !.kind = "reference", !.ref = id]
Missing == [Inline("UInteger", {}) EXCEPT !.kind = "missing"]
Var(id, decl) == [id |-> id, named |-> TRUE, access |-> TRUE, excluded |-> FALSE, decl |-> decl]

MCUnitsDocs == {[wellFormed |-> TRUE, codes |-> {"A"}]}
MCBadUnitsDocs == {[wellFormed |-> TRUE, codes |-> {}], [wellFormed |-> FALSE, codes |-> {"A"}]}

StdTypes == <<[id |-> "STD_D_SystemCommand", decl |-> Inline("UInteger", {v0})],
              [id |-> "STD_D_Tag", decl |-> Inline("String", {})]>>
StdVars == <<Var("V_DirectParameters_1", Items("Record", {"STD_D_SystemCommand"})),
             Var("V_SystemCommand", Reference("STD_D_SystemCommand")),
             Var("V_ApplicationTag", Reference("STD_D_Tag")),
             Var("V_ProcessDataInput", Inline("ProcessDataIn", {})),
             Var("V_ProcessDataOutput", Inline("ProcessDataOut", {}))>>
StdOk == [wellFormed |-> TRUE, datatypes |-> StdTypes, variables |-> StdVars]
MCStdDocs == {StdOk}
MCBadStdDocs == {[StdOk EXCEPT !.wellFormed = FALSE],
                 [StdOk EXCEPT !.variables = <<Var("V_Own", Reference("D_Unknown"))>>],
                 [StdOk EXCEPT !.datatypes =
                    <<[id |-> "STD_D_Tag", decl |-> Items("Record", {"D_Unknown"})]>>]}

Plain(id) == [id |-> id, default |-> None, excluded |-> None, children |-> FALSE, names |-> {}]
Named(id, values) == [Plain(id) EXCEPT !.children = TRUE, !.names = values]
ProcessIn == [id |-> "PD", in |-> "type", out |-> "absent", condition |-> None]
Look(v) == [variable |-> v, fault |-> None]
Menus(ident, parameter) ==
  [r \in UserRoles |-> [e \in Entries |->
     CASE e = "IdentificationMenu" -> ident
       [] e = "ParameterMenu" -> parameter
       [] OTHER -> None]]
\* The last role has an identification menu of its own: the other two are decoded first.
SpecialistMenus(ident) ==
  [Menus(<<Look("V_ProcessDataInput")>>, None) EXCEPT
     !["Specialist"]["IdentificationMenu"] = ident]

\* The documents.
Good == [xml |-> TRUE, wellFormed |-> TRUE, vendor |-> 310, device |-> 1,
         stdRefs |-> <<Plain("V_ProcessDataInput"), Plain("V_SystemCommand")>>,
         variables |-> <<>>, processData |-> <<ProcessIn>>,
         menus |-> Menus(<<Look("V_ProcessDataInput")>>, None)]
\* Names the shared object, twice through one id, once with an update of its own
\* and once refused as a duplicate, next to an overlay and a default.
Namer == [Good EXCEPT
  !.device = 2,
  !.stdRefs = <<Plain("V_ProcessDataInput"),
                Named("V_DirectParameters_1", {v1}),
                Named("V_SystemCommand", {v0}),
                Named("V_SystemCommand", {v1}),
                [Named("V_ApplicationTag", {v1}) EXCEPT !.default = v0],
                [Plain("V_ApplicationTag") EXCEPT !.default = v1]>>]
\* The same identity as Good once the vendor id is narrowed; a variable with the id
\* of a referenced standard one; a condition on a variable that is bound afterwards.
Twin == [Good EXCEPT
  !.vendor = 310 + 65536,
  !.variables = <<Var("V_Own", Items("Array", {"STD_D_SystemCommand", "D_Unknown"})),
                  Var("V_SystemCommand", Inline("Boolean", {v0})),
                  Var("V_Own", Inline("ProcessDataIn", {}))>>,
  !.processData = <<[ProcessIn EXCEPT !.condition = "V_ProcessDataInput"]>>,
  !.menus = Menus(<<Look("V_Own"), Look("V_ProcessDataInput")>>, <<Look("V_ApplicationTag")>>)]
Excluder == [Good EXCEPT
  !.device = 3,
  !.stdRefs = @ \o <<[Plain("V_ProcessDataOutput") EXCEPT !.default = v1],
                     [Plain("V_ApplicationTag") EXCEPT !.excluded = FALSE]>>,
  !.processData = <<[ProcessIn EXCEPT !.out = "type", !.condition = "V_ApplicationTag"]>>]
\* A placeholder that stays one, in spite of a declaration of its id with a type, with
\* the identity of Good; and placeholders of its own.
Blind == [Good EXCEPT !.vendor = 310 + 2 * 65536,
                      !.stdRefs = Append(@, Plain("V_ProcessDataOutput")),
                      !.variables = <<Var("V_ProcessDataOutput", Inline("Boolean", {v0}))>>]
Holder == [Good EXCEPT !.device = 4,
  !.stdRefs = <<Plain("V_SystemCommand")>>,
  !.variables = <<Var("V_ProcessDataInput", Inline("ProcessDataIn", {})),
                  Var("V_Own", Inline("ProcessDataOut", {}))>>]
\* A parameter menu in a circle that is given up before, and two items that cannot be
\* decoded, all with the identity of Good.
Circle == [Good EXCEPT !.vendor = 310 + 3 * 65536,
                       !.menus = Menus(<<Look("V_SystemCommand")>>, <<Look("V_Own"), TooDeep>>)]
Thrower == [Good EXCEPT !.vendor = 310 + 4 * 65536]
Overreader == [Good EXCEPT !.vendor = 310 + 5 * 65536]
NotXml == [Good EXCEPT !.xml = FALSE, !.wellFormed = FALSE]

\* The documents no repository is made from.
BadDocs == {
  [Good EXCEPT !.wellFormed = FALSE],
  [Namer EXCEPT !.stdRefs = Append(@, Plain("V_Own"))],
  [Good EXCEPT !.variables = <<Var("V_Own", Missing)>>],
  [Good EXCEPT !.variables = <<Var("V_Own", Items("Record", {"D_Unknown"}))>>],
  [Good EXCEPT !.variables = <<[Var("V_Own", Inline("String", {})) EXCEPT !.access = FALSE]>>],
  [Good EXCEPT !.processData = <<>>],
  [Good EXCEPT !.processData = <<ProcessIn, [ProcessIn EXCEPT !.id = "PD2"]>>],
  [Good EXCEPT !.processData = <<[ProcessIn EXCEPT !.in = "absent"]>>],
  [Good EXCEPT !.processData = <<ProcessIn, [ProcessIn EXCEPT !.out = "error"]>>],
  [Good EXCEPT !.processData = <<[ProcessIn EXCEPT !.condition = "V_Own"]>>],
  [Good EXCEPT !.processData = <<[ProcessIn EXCEPT !.out = "type"]>>],
  [Good EXCEPT !.menus = SpecialistMenus(None)],
  [Good EXCEPT !.menus = SpecialistMenus(<<[variable |-> None, fault |-> "other"]>>)],
  [Good EXCEPT !.menus = Menus(<<Look("V_SystemCommand")>>,
     <<Look("V_SystemCommand"), [Look("V_SystemCommand") EXCEPT !.fault = "other"]>>)],
  \* An exception before the circle, and menus that exhaust the call stack.
  [Good EXCEPT !.menus = Menus(<<Look("V_Own"), TooDeep>>, <<TooDeep>>)],
  [Good EXCEPT !.menus = SpecialistMenus(<<Look("V_SystemCommand"), TooDeep>>)],
  [Good EXCEPT !.menus = Menus(<<Look("V_SystemCommand")>>, <<Look("V_SystemCommand"), TooDeep>>)]}
GoodDocs == {Good, Namer, Twin, Excluder, Blind, Holder, Circle, Thrower, Overreader, NotXml}
MCWanted == <<310, 1>>
\* The menu is below the identification menu, or below a parameter menu that is given up.
MCObserve(std, document) ==
  [entries |-> IF document.vendor \in {Twin.vendor, Circle.vendor} THEN {"ParameterMenu"}
               ELSE {"IdentificationMenu"},
   decode |-> CASE document.vendor = Thrower.vendor -> "exception"
                [] document.vendor = Overreader.vendor -> "undefined"
                [] OTHER -> "value"]
MCPDIds == {"PD", "PD2"}

MCAllUnitsDocs == MCUnitsDocs \cup MCBadUnitsDocs
MCAllStdDocs == MCStdDocs \cup MCBadStdDocs
MCAllDocs == GoodDocs \cup BadDocs
MCFewDocs == {Namer, Twin, Good}
=============================================================================
