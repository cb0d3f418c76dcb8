SPECIFICATION Spec
CONSTANTS
  N = 4
  Inputs <- MCParserInputs
INVARIANT AnswerRight
CHECK_DEADLOCK FALSE
