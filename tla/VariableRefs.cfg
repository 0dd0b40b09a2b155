CONSTANTS
  None = None
  Documents <- MCDocuments
  variables <- MCvariables
  Inputs <- MCInputs
SPECIFICATION Spec
INVARIANTS
  TypeOK
  AcceptsCompleteRefs
  RefHasItsUnit
  ScalesExactly
  KeepsOrder
  ScalesDecimalsOnly
  PrintsTheFormula
