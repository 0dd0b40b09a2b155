CONSTANTS
  None = None
  Declarations <- MCDeclarations
  Refs <- MCRefs
  Inputs <- MCInputs
SPECIFICATION Spec
INVARIANTS
  TypeOK
  ReadsTheField
  ReadsStayInside
  ScalarsAreReversedItems
  LosesNothing
