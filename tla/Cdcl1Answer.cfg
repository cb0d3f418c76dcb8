SPECIFICATION Spec
CONSTANTS
  N = 3
  MAX_QUEUE_SIZE = 8
  NLEARNT_CLAUSES = 2
  Unit = 8
  MaxTable = 30
  Word = 256
  Inputs <- MCWrongUnsat
INVARIANT AnswerRight
CHECK_DEADLOCK FALSE
