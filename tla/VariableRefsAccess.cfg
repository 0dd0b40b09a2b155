CONSTANTS
  None = None
  Documents <- MCDocuments
  variables <- MCvariables
  Inputs <- MCInputs
SPECIFICATION Spec
INVARIANTS
  AccessDefaultsToVariable
