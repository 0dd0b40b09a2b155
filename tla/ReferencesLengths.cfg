CONSTANTS
  None = None
  Declarations <- MCDeclarations
  Refs <- MCRefs
  Inputs <- MCInputs
SPECIFICATION Spec
INVARIANT
  LengthsAreAsDeclared
