--------------------------- MODULE ExampleProgram ---------------------------
(***************************************************************************)
(* The example program, a client of the repository: it calls               *)
(* makeRepository, prints every descriptor with its variables and menus,   *)
(* looks up one device, one menu of its observer interface by id, and      *)
(* decodes two bytes as the first item of that menu.  Any exception on the *)
(* way ends it with EXIT_FAILURE.                                          *)
(*                                                                         *)
(* The ids in a tree of menus and the decoding of bytes are modelled in    *)
(* MenuDecoder and References; Observe is what the documents say of them.  *)
(***************************************************************************)
EXTENDS Loader

CONSTANTS
  Wanted,        \* the identity that main asks for
  Observe(_, _)  \* what standard definitions and a device document have of its menu

\* The entries of the observation role whose trees contain the menu, and what its first
\* reference makes of the bytes: a value, also if it is no RecordRef and nothing is
\* decoded; an exception; or a read past their end.
ASSUME ObserveAssumption ==
  \A std \in StdDocs, document \in DeviceDocs :
    Observe(std, document) \in [entries : SUBSET Entries,
                               decode : {"value", "exception", "undefined"}]

VARIABLES
  phase,     \* where main is
  remaining  \* the descriptors that are not printed yet

programVars == <<vars, phase, remaining>>

\* The program ends with EXIT_SUCCESS or EXIT_FAILURE, by a null pointer, by bytes that
\* are not there, or because the call stack is exhausted.
Ends == {"succeeded", "failed", "crashed", "undefined", "exhausted"}
Phases == {"loading", "printing", "found", "observing"} \cup Ends

ProgramInit == Init /\ phase = "loading" /\ remaining = {}

MakeRepository ==
  /\ phase = "loading" /\ Next
  /\ UNCHANGED <<phase, remaining>>

GetDescriptors ==
  /\ phase = "loading" /\ stage = "ready"
  /\ phase' = "printing" /\ remaining' = DOMAIN descriptors
  /\ UNCHANGED vars

\* Variable::type, which printVariable calls, throws for a variable without any.
HasType(variable) == variable.value # None \/ variable.processData # None

PrintsVariables(d) == \A v \in DOMAIN d.variables : HasType(d.variables[v])

\* printUI does not ask whether there is an identification menu, only for the others.
Identified(d) == \A role \in UserRoles : d.uis[role]["IdentificationMenu"] # None
PrintsMenus(d) ==
  \A role \in UserRoles, e \in Entries :
    LET menu == d.uis[role][e]
    IN menu # None => \A v \in DOMAIN menu : HasType(menu[v])

\* Following the null pointer of a role without an identification menu is undefined.
PrintDescriptor(id) ==
  /\ phase = "printing" /\ id \in remaining
  /\ LET d == descriptors[id]
     IN /\ PrintsVariables(d) /\ (Identified(d) => PrintsMenus(d))
        /\ phase' = IF Identified(d) THEN phase ELSE "crashed"
  /\ remaining' = remaining \ {id}
  /\ UNCHANGED vars

\* The key of the map is the text of both numbers, and so is makeDeviceIdentity.
GetDescriptor ==
  /\ phase = "printing" /\ remaining = {} /\ Wanted \in DOMAIN descriptors
  /\ phase' = "found"
  /\ UNCHANGED <<vars, remaining>>

\* getMenu finds the menu in the trees that are there; a tree that was given up is not
\* indexed.
byNamedId(d) ==  \* fault: the trees that the role names are indexed, decoded or not
  Observe(disk.std, disk.iodds[d.file]).entries # {}
getMenu(d) ==
  \E e \in Observe(disk.std, disk.iodds[d.file]).entries : d.uis["Observation"][e] # None
GetMenu ==
  /\ phase = "found" /\ getMenu(descriptors[Wanted])
  /\ phase' = "observing"
  /\ UNCHANGED <<vars, remaining>>

\* The item's variable has been printed: it has a datatype.
Item == Observe(disk.std, disk.iodds[descriptors[Wanted].file])
Decode ==
  /\ phase = "observing" /\ Item.decode # "exception"
  /\ phase' = IF Item.decode = "value" THEN "succeeded" ELSE "undefined"
  /\ UNCHANGED <<vars, remaining>>

Thrown ==
  \/ phase = "loading" /\ stage = "failed"
  \/ /\ phase = "printing"
     /\ \E id \in remaining :
          LET d == descriptors[id]
          IN ~PrintsVariables(d) \/ (Identified(d) /\ ~PrintsMenus(d))
  \/ phase = "printing" /\ remaining = {} /\ Wanted \notin DOMAIN descriptors
  \/ phase = "found" /\ ~getMenu(descriptors[Wanted])
  \/ phase = "observing" /\ Item.decode = "exception"

ExitFailure ==
  /\ Thrown
  /\ phase' = "failed"
  /\ UNCHANGED <<vars, remaining>>

StackExhausted ==
  /\ phase = "loading" /\ stage = "exhausted"
  /\ phase' = "exhausted"
  /\ UNCHANGED <<vars, remaining>>

Exited == phase \in Ends /\ UNCHANGED programVars

ProgramNext ==
  \/ MakeRepository \/ GetDescriptors
  \/ \E id \in remaining : PrintDescriptor(id)
  \/ GetDescriptor \/ GetMenu \/ Decode \/ ExitFailure \/ StackExhausted \/ Exited

ProgramSpec == ProgramInit /\ [][ProgramNext]_programVars /\ WF_programVars(ProgramNext)

---------------------------------------------------------------------------
(* Which variables have a type and whether the menu is there, read from the *)
(* documents alone.                                                         *)

\* The declaration behind a variable of a document: the standard one if the document
\* refers to it, else its own first.
Declaration(document, id) ==
  LET decls == IF id \in Ids(document.stdRefs) \ Overlays THEN disk.std.variables
               ELSE document.variables
  IN decls[First(decls, id)].decl

\* A placeholder for process data that the document has no process data for.
LacksProcessData(document, id) ==
  LET decl == Declaration(document, id)
      pd == document.processData
  IN /\ decl.kind = "inline" /\ isProcessData(decl.type)
     /\ ~\E dir \in {"in", "out"} :
           ProcessDataVariable[dir] = id /\ pd[First(pd, pd[1].id)][dir] = "type"

Complete(document) ==
  \A id \in Abs!VariableIds(document) : ~LacksProcessData(document, id)

\* One of the trees with the menu is decoded, not given up.
Shows(document) ==
  \E e \in Observe(disk.std, document).entries :
    MenuOutcome(document.menus["Observation"][e], Abs!VariableIds(document)) = "menu"

---------------------------------------------------------------------------
(* Properties. *)

\* A variable of a published descriptor has no type exactly if it stands for process
\* data of a direction that its own document does not have, whatever was shared with
\* other documents and whatever the directions are named.
UntypedOnlyWithoutProcessData ==
  \A id \in DOMAIN descriptors :
    LET d == descriptors[id]
    IN /\ DOMAIN d.variables = Abs!VariableIds(disk.iodds[d.file])
       /\ \A v \in DOMAIN d.variables :
            HasType(d.variables[v]) = ~LacksProcessData(disk.iodds[d.file], v)

\* How the program ends is decided by the documents.  It succeeds only if all are
\* decodable, every identity has a complete document, and one with the identity main asks
\* for shows the menu and an item that decodes the bytes.  It fails only if a document is
\* not decodable or incomplete, or none has the identity, or one that has it does not show
\* the menu, which makeRepository gives up in silence, or an item that throws.  The
\* directory order matters only between documents of one identity, and between two that
\* end the loading in different ways.
ExitIsDecided ==
  LET documents(id) == {p \in Documents : Identity(disk.iodds[p]) = id}
      shown(decode) == \E p \in documents(Wanted) :
                         /\ Complete(disk.iodds[p]) /\ Shows(disk.iodds[p])
                         /\ Observe(disk.std, disk.iodds[p]).decode = decode
  IN /\ phase \in {"succeeded", "undefined"} =>
          /\ Abs!Loadable
          /\ \A id \in Abs!Identities : \E p \in documents(id) : Complete(disk.iodds[p])
          /\ shown(IF phase = "succeeded" THEN "value" ELSE "undefined")
     /\ phase = "failed" =>
          \/ Abs!Refused \/ Wanted \notin Abs!Identities
          \/ \E p \in Documents : ~Complete(disk.iodds[p])
          \/ \E p \in documents(Wanted) : ~Shows(disk.iodds[p])
          \/ shown("exception")
     /\ phase = "exhausted" => Abs!Overflows

\* printUI asks a user interface for its identification menu and does not ask whether
\* there is one: no role of any published descriptor is without it, though the other
\* menus are given up silently.
NeverCrashes == phase # "crashed"
=============================================================================
