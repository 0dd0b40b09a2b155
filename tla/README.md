# IODD-Model in TLA+

IODD-Model reads a directory of IO-Link device descriptions (XML) and builds an
in-memory repository of device descriptors: variables, process data and user
interface menus, over the datatypes and variables of the IO-Link standard
definitions. The library is single-threaded and keeps nothing on disk. What is
hard in it is *sharing and order*: objects are shared by `shared_ptr` between
documents, decoders change them in place, maps silently keep the first of two
values, and the documents come in whatever order the file system lists them.

## Inventory

| Component | Source | State | Operations | Correct when |
|---|---|---|---|---|
| Loader | `Repo/Repository.cpp`, `Repo/Decoders/XML_Decoder.cpp` | the units, the standard datatypes and variables, the descriptors map | `makeRepository`, `decodeDescriptors`, `decode`, `setVariableProcessData` | returns one descriptor per identity or throws, whatever the directory order, unless menus exhaust the call stack; never hands out half a repository |
| Variable decoders | `VariablesDecoder.cpp`, `Model/Variable.cpp` | the variables of the open document; the shared datatype objects | `decodeVariables`, `decodeStdVariables`, `getUpdatedValues`, `Variable`'s four constructors, `findVariable` | a reference resolves to the standard variable, overridden where it says so |
| Datatype decoders | `DataValueDecoder.cpp`, `NumericsDecoder.cpp`, `Model/Datatypes/*` | none (pure) | `decodeDataValue`, `decodeDatatypes`, `expand`, the classification predicates | a declaration decodes exactly when it is well formed; objects are shared only where a reference says so |
| Process data decoder | `ProcessDataDecoder.cpp`, `ConditionDecoder.cpp`, `Model/ProcessDataUnion.cpp` | the process data of the open document | `decodeProcessData`, `decodeCondition` | a union has a direction; its condition points to the right variable |
| User interface decoder | `UserInterfaceDecoder.cpp`, `Model/Menu.cpp`, `Model/UserInterface.cpp` | the menu tree under construction, the role's menu index | `decodeMenu`, `decodeOptionalMenu`, `decodeRoleUI`, `decodeUI`, `addMenu`, `getMenu` | fits the call stack unless menus are nested too deeply; only a missing or dangling optional menu is given up; menus point to the descriptor's variables; `getMenu` returns a menu of the tree with that id |
| Unit decoder | `UnitDecoder.cpp` | the units map | `decodeUnits`, `findUnit` | a code is known exactly when the file declares it |
| Value names | `Number.cpp`, `Boolean.cpp`, `Datatypes.cpp`, `ValueTypes.cpp` | the `values_` and `ranges_` sets | `getName`, `expand`, `getValueName` | a declared value has its name |
| Value decoding | `Model/Datatypes/Decoders.cpp` | none (pure) | `decode*` of bytes and bits | an element is the number in its bits; nothing is read past the end |
| References | `Model/VariableRef.cpp`, `Model/RecordRef.cpp` | none after construction | construction, `decode`, units, access right, buttons | bytes are decoded as the datatype the variable has, and scaled as the element says |
| Bit lengths | `FixedBitLength.hpp`, `Record.cpp`, `Array.cpp` | a length, a set of record items | constructors, `expand`, `item` | bounds are checked on the value that is kept |
| XML access | `XML_Helper.cpp`, `XML_Helper.hpp`, `PrimitivesDecoder.cpp` | none | `getXMLNode`, `getXMLAttribute`, texts, access rights | what is missing raises the exception its callers expect |
| Example program | `Example/main.cpp` | the repository | `main`, `printDescriptor`, `printUI`, `printRef` | ends with a status; prints only what every published descriptor has |

Interactions. `makeRepository` calls `decodeUnits`, `decodeStdDefinitions` and
`decodeDescriptors` in this order; the last calls `decode` per document, which
calls the decoders in a fixed order and passes the variables map from one to the
next. The decoders share state in two ways: the map (`decodeStdVariables` fills
it, `decodeVariables` adds what is missing, `setVariableProcessData` replaces
two entries, `decodeProcessData` and `decodeUI` look pointers up in it, before
and after that replacement), and the *datatype objects* of the standard
definitions, which every document can reach and a `StdVariableRef` expands.
Failures are exceptions; two catch blocks absorb some (`NodeNotFound` around
optional elements, `out_of_range` around optional menus), all others leave
`makeRepository`.

`PROJECT.json` lists the hazards at their lines.

## Modules

| Module | What it is |
|---|---|
| `Datatypes` | the enumeration codes and the predicates that classify them |
| `IODDDocument` | the documents a disk may hold, and the decoders that are functions of a document |
| `RepositorySpec` | what `makeRepository` promises: in one step, a repository, an exception or the end of the process |
| `Loader` | `makeRepository` step by step |
| `Menus` | roles, entries and variable lookups, shared by `Loader` and the menu modules |
| `MenuCollection` | `Menu` elements that refer to each other, and the objects made of them |
| `MenuSpec` | what `decodeUI` promises: in one step, the trees and the index, or an exception |
| `MenuDecoder` | `decodeUI` call by call |
| `Elements` | one XML element at a time: datatype, variable, direction, condition, with exceptions and catch blocks |
| `ElementDecoders` | the loops of `decodeVariables` and `decodeProcessData` over these elements |
| `ValueNames` | the named values of one datatype object, expanded and asked for |
| `ValueDecoding` | bytes to values, as operators |
| `References` | a datatype object and a reference to it, from their elements to decoded values |
| `VariableRefs` | units and a reference element, from the document to the answers a client gets |
| `ExampleProgram` | `main`: `Loader`, and the client that prints what it returns |
| `MCLoader`, `MCMenuDecoder`, `MCElementDecoders`, `MCValueNames`, `MCReferences`, `MCVariableRefs` | what TLC is given, with the `.cfg` files |
| `LoaderProofs`, `ExampleProgramProofs`, `MenuDecoderProofs`, `ElementDecodersProofs`, `ValueNamesProofs`, `ValueDecodingProofs`, `ReferencesProofs`, `VariableRefsProofs` | lemmas and proofs; `ExampleProgramProofs` extends `LoaderProofs`, and `ReferencesProofs` and `VariableRefsProofs` extend `ValueDecodingProofs` |

`Loader` composes the decoders, and `ExampleProgram` composes `Loader` with its
client. Three modules look into what `Loader` has as functions: `MenuDecoder`
into the menu trees (a list of lookups per menu), `ElementDecoders` into the
declarations of variables and process data (`TypeDecl` and `ProcessDataDecl`),
`ValueNames` into the named values of an object (a set); the first two check
that `Loader`'s abstraction decides. `References` and `VariableRefs` start where
the loader ends, with what a client does with a reference in a menu: the first
with bytes and lengths, the second with units, formats and access rights.

### From the code to Loader

`stage` is the program counter: which decoder runs next. `pending` is what the
directory iterator has not returned. `file` and `pos` are the document and the
`StdVariableRef` at hand. `variables`, `processData` and `uis` are the locals of
`decode`; `descriptors` that of `decodeDescriptors`. A `Variable` record stands
for a `Variable` object; it is immutable in the code, so a pointer to it is
modelled by its value. A datatype object is *not* immutable, so a `DataValue`
holds its location and `names` maps the locations of the standard definitions to
the named values the object holds. A named value carries the document and the
element that created it, because `values_` compares pointers: two declarations
of one value are two members.

One action is one decoder call, except `decodeStdVariables`, whose loop changes
shared objects and is one action per `StdVariableRef`. `Throw` is every way out
by exception: it drops `descriptors`, a local of `decodeDescriptors`; the other
variables keep what the unwound frames left, which nothing can read.

What is abstracted:

- A document that cannot be parsed, or lacks an element or attribute that is
  required wherever it stands, is `wellFormed = FALSE`; the code finds that out
  at different moments, always with an exception out of `makeRepository`.
- Texts, indices, access rights, bit lengths and ranges are left out; `TypeDecl`
  says whether a declaration decodes. `IsWhatLoaderReads` of `ElementDecoders`
  shows how an element determines its `TypeDecl`.
- A menu tree is the list of its variable lookups in the order `decodeMenu`
  meets them, with the exception each raises; the lookup without a variable is a
  tree that is refused there for another reason (a menu without references, a
  missing menu). A call of `decodeMenu` for which the call stack has no room is in
  the list, too (`TooDeep`): menus that refer to each other in a circle are a list
  with such an entry, and `Exhaust` is the step that meets it before any exception
  and ends the process, in stage `exhausted`. `LookupsDecide` of `MenuDecoder` shows
  that the list decides, circles included.
- Device ids have 32 bits in the schema and in the code; the vendor id is
  narrowed to 16 bits, and modelled so.
- Only the datatype objects of the standard definitions can be shared between
  documents; those of a device are born with its variables and never change.

### From the code to MenuDecoder

`decodeMenu` recurses along `MenuRef`, so the call stack is a variable: a frame
is a call, with the menu's id, the condition it was called with, the position of
its loop and the `refs` vector. `Call` pushes a frame, `Return` makes the `Menu`
and hands it to the caller, `Raise` unwinds to `decodeOptionalMenu` (which turns
`out_of_range` into a null pointer, from whatever depth it comes) or out of
`decodeUI`. `StackLimit` bounds the stack, and the call that does not fit is
`Overflow`, the end of the process. `menus` has the menus of the role at hand that
have been decoded. `makeUserInterface` begins the constructor of `UserInterface`,
`addEntry` takes its four menus in turn, `addMenu` and `skipRef` walk through a
tree in preorder and index what is a menu, and `emplaceUI` puts the interface into
the map of roles. Names of menus are left out; a name without a text is a lookup
with a fault.

### From the code to Elements and ElementDecoders

An element is a record of its attributes and children, `None` for what is
missing, and a call is its result: `Return(value)` or `Raise(exception)`. `Then`
is the rest of a block, `Catch` a handler; they are nested as the calls and the
`try` blocks are. This is the part of the code where a catch block may absorb
more than it was written for: `NodeNotFound` stands for "there is no such child"
in `decodeVariables`, `decodeRecordItem` and `decodeProcessDataT`, and is raised
by every `getXMLNode` below them. `ElementDecoders` runs the loops: one action
per variable; `GetId`, `DecodeIn`, `DecodeOut`, `DecodeCondition` and
`EmplaceUnion` per process data element; `Throw` leaves both.

Attributes that do not matter to the control are left out. A length is missing,
within or beyond its bounds; the children of a number are the exception they
raise, if any. `Collection` is the type of the two lists of elements; nothing is
assumed of them but that type.

### From the code to VariableRefs

`DecodeUnit` is one iteration of `decodeUnits`, `DecodeRef` is
`decodeVariableRef` or `decodeRecordRef` with the constructor it ends in, and
`Decode`, `AccessRestriction`, `ButtonValue` and `PrintRef` are a client's calls.
`access_` is set by no constructor that is not given a right, so `DecodeRef`
chooses it among the enumerators and a value that is none of them. Gradients,
offsets and device values are whole numbers in the document and on the device;
`toFloat` is what a `float` keeps of them: `ulpOf` is the weight of its last bit, and
`rounded` the nearest multiple of that, the even one of two. `decodeFloatAttribute`
rounds a gradient or an offset when it is read, `scaled` the value, the product and
the sum. `UnitNode`, `ButtonNode` and `RefNode` are the types of
the elements.

### From the code to ExampleProgram

`phase` is where `main` is, `remaining` the descriptors its loop has not
printed. `GetDescriptor`, `GetMenu` and `Decode` are the calls behind the loop, in
the phases `found` and `observing`. An exception of the loader, of `type()` while
printing, of `getDescriptor`, of `getMenu` or of the reference's `decode` ends it
with `EXIT_FAILURE` (`Thrown` has all five). The other ends are `succeeded`;
`exhausted`, with the loader; `undefined`, if the item reads past the two bytes it is
given; and `crashed`, which would be to follow the null pointer of an identification
menu.

Menu ids and bytes are not in `Loader`'s documents. The constant `Observe` has, for a
device document, the entries of the observation role whose trees contain the menu,
and whether its first reference makes a value, an exception or an undefined read of
the bytes; `getMenu` finds the menu if one of these trees has been decoded.
`MenuDecoder` (`IdentificationIsIndexed`, the index of `Implements`) and `References`
(`ReadsStayInside`) are about what stands behind it.

### From the code to ValueNames

One datatype object and what happens to it in its life: `Init` decodes its own
element, `Expand` decodes the element of a `StdVariableRef` and expands the
object, `GetName` and `ValueName` are a client's calls, on the object and on the
variable. A pointer is the number of the element it was made for and the child:
decoding the same element twice makes different pointers. `ranges` is the order
in which the `unordered_set` is iterated, chosen anew whenever it may change.

### From the code to References

`decodeDataValue` makes the datatype object, with every length through
`FixedBitLength` and its `uint8_t`; `decodeRef` makes the `VariableRef` or
`RecordRef`; `Decode` is one call of `decode`. The outcome `Undefined` stands for
a read past the end of the vector: what the program does then is not defined, and
the property is that it does not happen. Texts are the bytes they are formatted
from; gradient and offset are in `VariableRefs`. Integers
are assembled as on a little-endian processor: `assemble` makes a number of digits,
bits or bytes, from the highest down, under a sign of 0 or -1 for what the loop of
`toSignedInteger` puts above them.

## Checks

**`loader`** checks `ExampleProgram`, with `Loader` in it, on two directory
entries, each one of 27 documents: ten good ones (plain; one that names the
shared system command object twice through one id and an application tag with two
different defaults; one with the first one's identity after narrowing, its own
variables, an optional menu that is given up and a condition on a variable that is
bound later; one with both process data directions and updates without names; one
with the first one's identity again, whose referenced placeholder has no process
data; one with placeholders of its own; three more with the first one's identity: one
with menus in a circle behind a failing lookup, so that an optional menu is given up
before the circle is met, one whose item throws, and one whose item reads past the
bytes; one that is not XML), and seventeen that fail: fourteen at one decoder each,
one with an exception before its circle of menus, and two that exhaust the stack, in
the identification menu of the last role and in an optional menu. The units and standard files are good or
bad in every way the decoders distinguish. Two documents are enough for every
property: each relates the document being decoded, or a descriptor, to one
earlier or later document.

- `TypeOK`: types, and a document is open exactly in the stages that decode one.
- `NamesAreExpansions`: at every step a standard datatype object holds exactly
  the names declared for it, those of the references of finished documents, and
  those of the references of the open one that have been passed, including a
  reference whose variable `emplace` refuses.
- `NamesAreOrderIndependent`: when `makeRepository` returns, that does not depend
  on the directory order.
- `MenusPointToPublishedVariables`: what a menu shows is what `getVariable`
  returns. True because `decodeUI` runs after `setVariableProcessData`.
- `ConditionsAreStaleOnlyWhenBound`: the same for conditions fails exactly for a
  condition on a variable that `setVariableProcessData` replaces afterwards.
- `ReferencesKeepStandardObject`: no other declaration of the document takes the
  place of a referenced standard variable.
- `FirstDescriptorStays`: of two documents with one identity the first listed wins.
- `FirstReferenceDecides`: of several references to one standard variable the
  first alone decides its default and its exclusion from the data storage, and an
  update always excludes, whatever its flag says.
- `Terminates`: the load returns or throws, unless the menus of some document exhaust
  the call stack. That is the precondition: `decodeMenu` recurses without a guard,
  and nothing else keeps the loader from ending.
- `UntypedOnlyWithoutProcessData`: a published variable has no type exactly if the
  documents declare it as a placeholder for process data they do not have.
- `ExitIsDecided`: how `main` ends follows from the documents. It succeeds only if all
  are decodable, every identity has a document without such a placeholder, and one with
  the identity it asks for shows the menu and an item that decodes the bytes. It fails
  only if a document is not decodable, one has such a placeholder, none has the
  identity, or one that has it does not show the menu (because its tree was given up
  in silence) or has an item that throws. It exhausts the stack only if the menus of a
  document do.
- `NeverCrashes`: no published role lacks the identification menu that `printUI`
  follows without asking.
- `Implements`: `Loader` implements `RepositorySpec` through a refinement mapping:
  it returns a repository with one descriptor per identity, each from a document
  with that identity, exactly when all documents are decodable, each *on its own*:
  whether a document decodes depends on no other. Otherwise it throws, if something
  that fails with an exception accounts for it (`Refused`), or exhausts the stack, if a
  document with such menus does (`Overflows`); between two documents that fail in
  different ways the order of the directory decides.

Liveness needs the fairness `WF_vars(Next)`, or that of `ProgramNext` for the
program as a whole: a single thread that is not stopped takes its next step. No loop waits for anything else. Deadlock is checked;
`Returned` is the state after the call.

**`menu_decoder`** checks `MenuDecoder` on 2268 documents: every collection of
three menus made of a few children each (variables that are known, unknown or
faulty; references to every menu, with and without conditions), and role sets
that share, lack and repeat menus. Three menus and a stack of three calls: a
chain of references without a circle has at most three menus, so only circles
overflow the stack.

- `TypeOK`: an exception leaves no call behind.
- `LayeredMenusFit`: if the menus descend in as many levels as the stack has
  room for, the stack is not exhausted; `decodeMenu` has no guard of its own.
- `SameIdSameReferences`: every `MenuRef` decodes its menu anew, and all objects
  for one menu differ in their conditions only.
- `IdentificationIsIndexed`: `getMenu` of the identification menu's id returns
  it, not a conditional object for the same element.
- `LookupsDecide`: the list of lookups, `Loader`'s abstraction, decides whether
  `decodeUI` returns, throws or exhausts the stack, on every collection, those in a
  circle included.
- `Implements`: `MenuDecoder` implements `MenuSpec`, a recursive definition over
  trees: same trees, same index, same exceptions, and it ends. The fairness is
  that of `Loader`: one thread that takes its next step.

**`element_decoders`** checks `ElementDecoders` on some 1500 `Variable` elements
(every datatype with every length and failing children, arrays and records with
every combination of `SimpleDatatype` and `DatatypeRef`, every missing or broken
attribute) and some 2000 `ProcessData` elements (every pair of directions with
every condition). An element is decoded on its own, so one odd element next to
complete ones is enough, except for duplicates, which are in the documents too.

- `TypeOK`: types, and an exception is in flight exactly after one left the loops.
- `AcceptsCompleteElements`: what is decoded is complete, what is refused is not,
  said without exceptions; the two exceptions, a direction that is dropped and a
  `DatatypeRef` that takes the place of an incomplete record, are named in
  `LacksNode` and `DirectionDropped`.
- `DropsOnlyWithoutNode`: a direction is dropped only then.
- `IsWhatLoaderReads`: the variables are those `IODDDocument` has for the
  declarations of the elements, over the same objects: `Loader`'s abstraction.

**`variable_refs`** checks `VariableRefs` on some 1500 reference elements over
variables of every kind of datatype, and on unit collections with duplicate,
congruent and broken units. Values are those around 2^24, where a `float` starts
to round, in either byte order; one offset, 2^24 + 1, is no `float` itself. Larger
gradients would exceed the 32 bits of TLC's integers; the theorems are about all.

- `TypeOK`: types; only a reference that exists is asked.
- `AcceptsCompleteRefs`: the two checks of a button, of the text and in the
  constructor, never disagree on a complete element.
- `RefHasItsUnit`: the unit is the first one with the code, as far as 16 bits go.
- `ScalesExactly`: with gradient, offset, value, product and sum within 24 bits the
  result is gradient times value plus offset, as the document has them.
- `KeepsOrder`: beyond them all five are rounded, but order is kept.
- `ScalesDecimalsOnly`: what is scaled is what the element asks to be decimal.
- `PrintsTheFormula`: the example program prints a formula exactly for values that
  `decode` scales, although it decides by a condition of its own.

**`value_names`** checks `ValueNames` on seven declarations (singly named,
overlapping, empty and reversed ranges, no names, types without names) with up
to two updates of each; two are enough to interleave updates with questions and
to decode one element twice.

- `TypeOK`: every pointer was made for an element decoded so far.
- `ContentIsUnion`: whatever the order of iteration, an object holds what its
  elements declare, no less and no more: why `Loader` may have it as a set.
- `AnswersFit`: an answered range is strictly around the value; a refused value
  has no such range in any element decoded so far.

**`references`** checks `References` on thirty declarations with every datatype,
lengths at and beyond the bounds, items that overlap, straddle bytes and repeat a
subindex, and references with subindices that exist, do not exist, are 0 or do
not fit eight bits. TLC's integers have 32 bits, so integers are read from at most
three bytes; what depends on the width are the positions of bits and of the sign,
which three bytes show.

- `TypeOK`: a reference has a datatype that was decoded and a subindex of eight bits.
- `ReadsTheField`: a number in an array or a record is the one in its bits of
  the whole value, for lengths and, in a record, offsets of eight bits; a longer one
  is another one after narrowing (`references_lengths`).
- `ReadsStayInside`: no element that fits the bytes is read past their end, unless
  another item has the same eight bits of a subindex.
- `ScalarsAreReversedItems`: a variable is read in the opposite byte order to an
  element of a record, which is what `decodeValue` reverses bytes for.
- `LosesNothing`: different bytes are different values, except for Booleans and
  times; scaled values are left out.

Six runs are expected to fail; each checks what the code says of itself.

**`loader_isolation`**. `decodeStdVariables` makes a variable of its own for a
reference that updates something ("check if variable needs to be updated") and
appends the standard variable for one that does not. The updated variable shares
the datatype object with the standard one, and `Variable.cpp:43` expands that
object, so a reference that updates nothing shows the value names of other
references, in other devices too.

**`references_lengths`**. `FixedBitLength` takes a `uint8_t`, so lengths are
compared modulo 256: process data of 256 bits are refused as too small, an
integer of 258 bits is accepted as one of 2, and a record item at bit 260 is read
from bit 4.

**`element_conditions`**. `ConditionDecoder.cpp:20` reads the subindex if its
attribute is empty: a condition that names a subindex has none, one that names
none has 0.

**`variable_refs_access`**. `accessRestriction()` of a reference without an access
right of its own, or of a button, is uninitialised, not "same as variable".

**`value_names_found`**. `getName` looks for a fresh pointer in a set of
pointers, so a value with a `SingleValue` of its own "has no assigned named".

**`value_names_dispatch`**. Every branch of `getValueName` asks for a `BooleanT`,
so a variable of any other type "does not support named value attribute lookup".

## Proofs

`LoaderProofs` begins with the lemmas about the decoders that are functions of a
document: `First` returns a declared position (there is a least one:
`LeastElement` has it by well-foundedness of `<`), what a decoded variable's type
is, what the decoded maps range over. It proves, for all constants that satisfy
the named assumptions of `IODDDocument` (`None` is none of the things that may be
missing: no id, value, process data, datatype object or variables map; the
documents are of their types):

- `TypeCorrect`: `Spec => []TypeOK`.
- `NamesCorrect`: `Spec => []NamesAreExpansions`.
- `OrderIndependence`: `Spec => []NamesAreOrderIndependent`.

The inductive invariant `IInv` adds to `TypeOK` and `NamesAreExpansions` what
they need: `StdInv` (the decoded standard maps are those of the disk, so that an
expansion recorded through `stdVariables` is the one `Expands` predicts from the
disk; nothing has been listed before that), `PosInv` (past `decodeStdVariables`
every reference of the document has been passed, so that when the document is
finished its partial expansions are all its expansions) and `ReadyInv` (the
directory is exhausted when the call returns). The argument is one lemma per
action; `NextReference`, `FirstReference` and `LastReference` say how the set of
expanded names grows along a document.

About the descriptors that are collected:

- `DescriptorsStay`: `Spec => FirstDescriptorStays`.
- `MenusPoint`: `Spec => []MenusPointToPublishedVariables`. The invariant adds
  `MenuInv`: between `decodeUI` and `emplaceDescriptor` the menus point to the
  variables of the open document. It holds because a tree that is returned had no
  failing lookup (`DecodedMenuPoints`) and nothing replaces a variable after
  `decodeUI`; it would not if binding came later.
- `ReferencesKeep`: `Spec => []ReferencesKeepStandardObject`. `ReferInv` says that
  while references are decoded every variable is over the object of its standard
  variable and each reference passed is there, and that afterwards the document
  keeps these objects or has process data in their place (`KeepsObjects`);
  `CollectedInv` says so of every descriptor. `DecodeVariablesKeeps` and
  `SetVariableProcessDataKeeps` are the two steps that could break it.

- `ConditionsGoStale`: `Spec => []ConditionsAreStaleOnlyWhenBound`. `ConditionInv`
  follows a condition from `decodeProcessData`, where it points to the variable, over
  `setVariableProcessData`, where it stays behind. A bound variable differs from
  what it was because `FreshInv` says that it had no process data before.
- `FirstDecides`: `Spec => []FirstReferenceDecides`. `DecidedInv` says it of the
  variables of the open document; a reference that `emplace` lets in is the first
  one to its variable (`FirstIs`), because `ReferInv` has all that were passed.

- `LoaderImplements`: `Spec => Abs!AbsInit /\ [][Abs!AbsNext]_(Abs!absVars)`, the
  safety half of `Loader`'s `Implements`. Its invariant `RefInv` is `RInv`, `StdInv`, `PosInv`
  and `ReadyInv` of the proofs above with `SourcesInv` (the standard documents in
  use were decodable), `ProgressInv` (as far as the open document has been decoded
  it is decodable by `RepositorySpec`, and the variables found are those it names)
  and `FinishedInv` (the descriptors stand for the documents that are finished:
  one for each of their identities, from one of them). `Publish`, `Throw` and
  `Exhaust` map to the steps of `RepositorySpec`, all others to stutters: `Publish`
  because `FinishedInv` is then about all documents, `Throw` because each disjunct of
  `Throws` contradicts one conjunct of `Decodable` in a document that does not exhaust
  the stack (`ThrowsOnlyIfBad`), `Exhaust` because the open document has passed all
  that comes before its menus (`ExhaustsOnlyIfTooDeep`). A document that is decodable
  does not exhaust the stack (`DecodedNotExhausted`). The
  `Same...` lemmas say that `RepositorySpec`'s copies of the decoders, which an
  `INSTANCE` makes, are the same functions.

`ExampleProgramProofs`, about the loader and its client together
(`ProgramSpec`):

- `UntypedCorrect`: `[]UntypedOnlyWithoutProcessData`. `TypedInv` follows it through
  the open document: a placeholder has no type when it is decoded and keeps none
  until `setVariableProcessData` gives it process data, if there are any.
- `ProgramNeverCrashes`: `[]NeverCrashes`. `IdentifiedInv` says that every role of
  `uis` has its identification menu as soon as `decodeUI` has returned.
- `ExitDecided`: `[]ExitIsDecided`. `OutcomeInv` is what `Loader`'s refinement says
  of its last stage (published: everything is loadable; failed or exhausted: something
  accounts for it). `ShownInv` says that a tree of a descriptor is there exactly if
  the list of its document has no failure, so that `getMenu` finds the menu exactly if
  the document shows it. `PhaseInv` is what the program has established by then: a
  descriptor that it has printed is complete, so `found` needs all of them, `observing`
  needs a document that shows the menu, and `failed` has a reason.

The invariant `ProgInv` joins these to `RefInv`, `PInv` and `MInv`; a step of the
program that is one of the loader's keeps the latter by the lemmas above.

`MenuDecoderProofs`, for every collection of documents and every stack:

- `TypeCorrect`: `Spec => []TypeOK`.
- `MenusFit`: `Spec => []LayeredMenusFit`. The invariant adds to `TypeOK` the
  shape of the frames (`StackInv`) and `DepthInv`: for every rank of the menus
  that falls along references, the rank of the frame at depth d is at most
  `StackLimit - d`. So the frame that fills the stack has rank 0 and no reference
  left to follow.
- `SameReferences`: `Spec => []SameIdSameReferences`. Two objects for one menu are
  made by different calls, so an invariant about each of them does not do: `RefsInv`
  says that *one* function from menus to references has those of every object, and
  of every frame those up to its position. It is a solution of `decodeMenu`'s own
  recursion (`Canonical`) for the menus that have been returned from; `Return`
  extends it, or finds the menu in it, and then the frame has the same references
  because they solve the same equations child by child. `CallsInv` is what a frame
  is waiting for: the menu above it on the stack.
- `IdentificationFound`: `Spec => []IdentificationIsIndexed`. `IdentInv`: the
  identification menu is decoded before the others, walked before the others, and
  an index keeps what it has.
- `MenuDecoderImplements`: `Spec => Abs!AbsInit /\ [][Abs!Decode]_(Abs!absVars)`, the
  safety half of `MenuDecoder`'s `Implements`.
- `ListsSuffice`: `Spec => []LookupsDecide`.

The last two are about recursive definitions over trees of any height. They are
written as functions of the room on the stack, and read by their equations: two
functions that satisfy the equations of `Walk`, `Below` or `Lookups` agree
(`TableIsDefined`, `TablesAre`, by a least counterexample, `LeastElement`). What
`FlattenSeq` does is proved the same way from its definition (`FlattenAppend`,
`FlattenConcat`). The invariant `AbsInv` adds to the above:

- `CallsAreFine`: no child that a frame has passed raises an exception in `Walk`.
  So an exception that is raised at a frame is that of its call in `Walk`, and it
  rises to the exception of every frame below (`FaultRises`), which is that of the
  entry (`ThrowIs`, `OverflowIs`); and a menu that is returned with all its children
  passed has the references of `Decoded` (`ReturnsDecoded`), because these solve
  the same equations as `RefsInv`'s function (`CanonicalIsDecoded`);
- `EntriesInv`: `menus` has the entries passed that could be decoded, and none of
  the others leaves `decodeRoleUI`;
- `IndexInv`: what has been indexed and what is still to be, in the preorder in
  which `addMenu` walks, are the trees of the entries passed, one behind the other;
- `RolesInv` and `OutcomeInv`: the same for the roles, and when `decodeUI` has ended,
  `Verdict` says how.

`ListsSuffice` follows without a further invariant: `OutcomeInv` has the end of
`decodeUI`, and whatever room the stack has left, the exception or the overflow of a
call is the first failure in its list (`AgreeStep`, `AllAgree`, from a full stack
upwards, so that circles need no argument of their own): a list is as good as its parts one
behind the other (`OutcomeConcat`, `OutcomeFlatten`). Assumed is
`MenuNoneAssumption`: `None` is no menu, no exception and no list of lookups.

`ElementDecodersProofs`, for every two lists of elements, and all maps of standard
datatypes and referenced variables:

- `TypeCorrect`: `[]TypeOK`.
- `CompleteAccepted`: `[]AcceptsCompleteElements`.
- `DropsJustified`: `[]DropsOnlyWithoutNode`.
- `ReadsWhatLoaderReads`: `[]IsWhatLoaderReads`.

Most of it is about the functions that `Elements` is made of: which exception each
raises and for which elements (`VariableDecodes`, `DirectionDecodes`,
`ConditionDecodes`), through nested handlers, where a `NodeNotFound` of an inner
call is taken for that of the outer one. `RaisedByIncomplete` is the other
direction: what leaves a loop was raised by an incomplete element. The invariant
follows the loops: `VariablesInv` (the variables so far are those of the elements
so far, the first of each id), `ReadInv` (an element that has been passed is
complete), `UnionsInv` (each union has the directions and the condition of its
element), `FailedInv` (the element at hand is incomplete).
`LoopIsDecodeVariables` identifies the result of the loop with `Loader`'s
`decodeVariables`, which takes the first declaration of each id at once.

`ValueNamesProofs`, for all declarations, updates and orders of iteration:
`TypeCorrect`, `ContentCorrect` (`[]ContentIsUnion`) and `AnswersCorrect`
(`[]AnswersFit`). `ExpandGrows` is the
lemma they share: what an update inserts, and that an order of iteration visits
all of it. `LookupFits` says what `getName` returns: never a `SingleValue`, since
no object holds the pointer it makes, but the first range around the value.

`VariableRefsProofs`, for all units, elements, variables and bytes:

- `TypeCorrect` (`[]TypeOK`) and `CompleteAccepted` (`[]AcceptsCompleteRefs`).
- `UnitsFit`: `[]RefHasItsUnit`. `UnitsInv`: a code is in the map exactly if a unit
  has been passed with it, and belongs to the first such unit.
- `ScalingIsAsked` (`[]ScalesDecimalsOnly`) and `FormulaIsComputed`
  (`[]PrintsTheFormula`) rest on `Decimals`, what the codes of the formats make of
  `isDecimal`, and `Scaled`, what those of the datatypes make of the classification
  predicates.
- `SmallValuesExact`: `[]ScalesExactly`, from `FloatIsExact`: an integer of 24 bits
  is a `float`, be it a gradient, an offset or a value.
- `OrderIsKept`: `[]KeepsOrder`. Rounding is monotone (`RoundedKeepsOrder`): within
  one weight of the last bit because the nearest multiple is, and across two because
  the heavier one is at least twice the lighter (`UlpGrows`), so the smaller number is
  rounded to at most 2^24 of its weights and the larger to at least 2^23 of its own. It is applied to the product and to the sum;
  that the number decoded is a whole number comes from `ValueDecodingProofs`.

The invariant adds to `TypeOK` what the reference has of its element (`RefInv`) and
that the last answer is that of the reference as it is (`AnswerInv`): no call
changes it. Assumed are the types of the elements, that `None` is no text, and that
a variable has a simple or complex datatype or none.

`ValueDecodingProofs` has what `assemble` computes for digits of any base and
vectors of any length. `assemble` is a recursive function, which has a solution
(`LeadingExists`) and no second one (`LeadingIs`); what the lemmas say of k digits is
proved by `LeastElement`. `LeadingPart` is what the others come from: the digits of a
part go on from the number that those above it have made. So eight bits are one digit of
base 256 (`LeadingByte`), packing bits into bytes keeps the number
(`PackedNumber`), unpacked bytes are packed as they were (`BytesOfBits`), and
different bytes of one length are different numbers (`Different`).

`ReferencesProofs`, for all declarations, references and bytes of their types:

- `TypeCorrect`: `[]TypeOK`.
- `ReadsInside`: `[]ReadsStayInside`. What is undefined is an element of an array or
  a record (`UndefinedElement`) that ends beyond the bytes (`ArrayReads`,
  `ItemReads`). Its offset and length are not those of the declaration but what is
  left of them in eight bits, and that is never more (`SimpleLength`, `Narrowed`), so
  the declared element ends beyond the bytes, too. For an item of a record the
  first of equal subindices must be the one that was declared (`RecordFits`): the
  property therefore says nothing of an item whose subindex is confused with
  another one's after narrowing.

- `FieldsAreRead`: `[]ReadsTheField`. The field is what the views cut out of the
  reversed bytes (`FieldIsCut`), its bytes make its number (`FieldNumbers`), and the
  length and the offset that are left in eight bits are the declared ones
  (`LengthKept`, `NarrowedOffset`). A sign is seen only where the last byte is full
  (`SignBit`): that is the condition in `IsField`.
- `ByteOrdersDiffer`: `[]ScalarsAreReversedItems`, since an item of all bits is the
  bytes as they are in the record (`WholeItem`), and reversing twice changes nothing.
- `NothingIsLost`: `[]LosesNothing`, by `Different` for integers; texts and floats keep their bytes.

Every invariant and action property of a passing run is stated by a theorem. Only
model-checked are

- `Terminates` and the liveness of both `Implements`: liveness under
  fairness and `ENABLED` are beyond the prover;
- the six disagreements, which are counterexamples.

## Not modelled

The build and the package test keep no state. The hash and comparison operators of
the datatypes and `checkValueType` are not used by the library. Texts, names and
descriptions, and the abbreviations of units, are carried from the document to the
objects unchanged; what the example program prints of them is left out. Expanding
arrays and records is not reached by any decoder. pugixml is external: a document
that it cannot parse is not well formed. The arithmetic of gradients that are not
whole numbers is left out.

## Plan

1. Done: `Datatypes`, `IODDDocument`, `RepositorySpec`, `Loader`, `ExampleProgram`;
   `MenuDecoder` with its specification; `Elements` and `ElementDecoders`;
   `ValueNames`; `ValueDecoding`, `References` and `VariableRefs`; their checks and
   the theorems above: every safety property, and the safety half of both
   refinements.
2. `Loader` composed with `MenuDecoder` in place of the list of lookups, and with
   `ValueNames` in place of the set (a refinement mapping of `names`).
3. Expanding arrays and records, as the public interface has it.
4. Theorems: `Loader` over `MenuDecoder`, from `ListsSuffice`; the conversion of `TimeT`,
   once the epoch it means is settled.
