-------------------------- MODULE RepositorySpec --------------------------
(***************************************************************************)
(* What makeRepository promises its caller, without the decoders: from the *)
(* documents on disk it publishes, in one step, a repository that has      *)
(* exactly one descriptor per device identity, each decoded from one of    *)
(* the documents with that identity; or, if any document is not decodable, *)
(* it publishes nothing: it throws, or it ends the process when the menus  *)
(* of a document nest deeper than the call stack, as menus in a circle do. *)
(***************************************************************************)
EXTENDS IODDDocument

VARIABLES
  disk,     \* the documents makeRepository is given
  status,   \* "loading", "ready", "failed" or "exhausted"
  catalog   \* identity -> the document its descriptor was decoded from

absVars == <<disk, status, catalog>>

Documents == {p \in Paths : disk.iodds[p].xml}
Identities == {Identity(disk.iodds[p]) : p \in Documents}

\* The variables a document declares or refers to.
VariableIds(doc) == (Ids(doc.stdRefs) \ Overlays) \cup Ids(doc.variables)

ReferencesKnown(doc) == Ids(doc.stdRefs) \ Overlays \subseteq Ids(disk.std.variables)
VariablesDecodable(doc) ==
  \A i \in DOMAIN doc.variables : DecodesVariable(doc.variables[i], StdDatatypes(disk.std))

ProcessDataDecodable(doc) ==
  \A i \in DOMAIN doc.processData :
    LET decl == doc.processData[i]
    IN /\ "error" \notin {decl.in, decl.out}
       /\ "type" \in {decl.in, decl.out}
       /\ decl.condition \in VariableIds(doc) \cup {None}

\* There is one ProcessData, as far as ids tell, and its first element has a direction dir.
HasDirection(doc, dir) ==
  \E i \in DOMAIN doc.processData :
    /\ First(doc.processData, doc.processData[i].id) = i
    /\ doc.processData[i][dir] = "type"
Bindable(doc) ==
  /\ \E id \in PDIds : Ids(doc.processData) = {id}
  /\ \A dir \in {"in", "out"} :
       HasDirection(doc, dir) => ProcessDataVariable[dir] \in VariableIds(doc)

MenusDecodable(doc) ==
  \A role \in UserRoles : DecodesRoleUI(doc.menus[role], VariableIds(doc))

\* What is decoded before the menus.
ReachesMenus(doc) ==
  /\ doc.wellFormed
  /\ ReferencesKnown(doc) /\ VariablesDecodable(doc)
  /\ ProcessDataDecodable(doc) /\ Bindable(doc)

\* A document the decoders accept, whatever was decoded before it; and one whose menus
\* exhaust the call stack.
Decodable(doc) == ReachesMenus(doc) /\ MenusDecodable(doc) /\ disk.units.codes # {}
Exhausting(doc) == ReachesMenus(doc) /\ Exhausts(doc.menus, VariableIds(doc))

\* The standard documents and the directory of the device documents.
Standard == disk.units.wellFormed /\ StdDecodable(disk.std) /\ disk.dir

Loadable == Standard /\ \A p \in Documents : Decodable(disk.iodds[p])
\* Something throws; and something exhausts the call stack.  Where documents do both, the
\* order of the directory decides.
Refused ==
  \/ ~Standard
  \/ \E p \in Documents : ~Decodable(disk.iodds[p]) /\ ~Exhausting(disk.iodds[p])
Overflows == Standard /\ \E p \in Documents : Exhausting(disk.iodds[p])

AbsInit == disk \in Disk /\ status = "loading" /\ catalog = [id \in {} |-> None]

Publish ==
  /\ status = "loading" /\ Loadable
  /\ catalog' \in {c \in [Identities -> Documents] :
                     \A id \in Identities : Identity(disk.iodds[c[id]]) = id}
  /\ status' = "ready"
  /\ UNCHANGED disk

Abort ==
  /\ status = "loading" /\ Refused
  /\ status' = "failed"
  /\ UNCHANGED <<disk, catalog>>

Exhaust ==
  /\ status = "loading" /\ Overflows
  /\ status' = "exhausted"
  /\ UNCHANGED <<disk, catalog>>

AbsNext == Publish \/ Abort \/ Exhaust
AbsSpec == AbsInit /\ [][AbsNext]_absVars /\ WF_absVars(AbsNext)
=============================================================================
