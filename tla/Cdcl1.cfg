SPECIFICATION Spec
CONSTANTS
  N = 4
  MAX_QUEUE_SIZE = 3
  NLEARNT_CLAUSES = 2
  Unit = 8
  MaxTable = 30
  Word = 256
  Inputs <- MCInputs
INVARIANTS
  TypeOK
  LevelInv
  WatchInv
  TableInv
  LearntImplied
  LearntAssignable
PROPERTIES
  PromiseKept
CHECK_DEADLOCK FALSE
