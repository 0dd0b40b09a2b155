CONSTANTS
  None = None
  Declarations <- MCDeclarations
  Updates <- MCUpdates
  Answerables <- MCAnswerables
  MaxUpdates = 2
SPECIFICATION Spec
INVARIANTS
  TypeOK
  ContentIsUnion
  AnswersFit
