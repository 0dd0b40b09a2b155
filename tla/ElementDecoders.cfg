CONSTANTS
  p1 = p1  None = None
  Paths = {p1}
  VarIds <- MCVarIds
  TypeIds <- MCTypeIds
  PDIds = {"PD", "PDI"}
  Values = {}
  UnitCodes = {}
  UnitsDocs = {}
  StdDocs = {}
  DeviceDocs = {}
  Collections <- MCCollections
  file = p1
  datatypes <- MCDatatypes
  referenced <- MCReferenced
SPECIFICATION Spec
INVARIANTS
  TypeOK
  AcceptsCompleteElements
  DropsOnlyWithoutNode
  IsWhatLoaderReads
