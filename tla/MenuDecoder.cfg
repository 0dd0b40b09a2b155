CONSTANTS
  m1 = m1  m2 = m2  m3 = m3  known = known  dangling = dangling  None = None
  VarIds <- MCVarIds
  MenuIds = {m1, m2, m3}
  StackLimit = 3
  Documents <- MCDocuments
SPECIFICATION Spec
INVARIANTS
  TypeOK
  LayeredMenusFit
  SameIdSameReferences
  IdentificationIsIndexed
  LookupsDecide
PROPERTY Implements
