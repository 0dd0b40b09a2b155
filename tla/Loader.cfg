CONSTANTS
  p1 = p1  p2 = p2  v0 = v0  v1 = v1  None = None
  Paths = {p1, p2}
  VarIds <- MCVarIds
  TypeIds <- MCTypeIds
  PDIds <- MCPDIds
  Values = {v0, v1}
  UnitCodes = {"A"}
  UnitsDocs <- MCAllUnitsDocs
  StdDocs <- MCAllStdDocs
  DeviceDocs <- MCAllDocs
  Wanted <- MCWanted
  Observe <- MCObserve
SPECIFICATION ProgramSpec
INVARIANTS
  TypeOK
  NamesAreExpansions
  NamesAreOrderIndependent
  MenusPointToPublishedVariables
  ConditionsAreStaleOnlyWhenBound
  ReferencesKeepStandardObject
  FirstReferenceDecides
  UntypedOnlyWithoutProcessData
  ExitIsDecided
  NeverCrashes
PROPERTIES
  FirstDescriptorStays
  Terminates
  Implements
