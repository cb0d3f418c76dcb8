SPECIFICATION FairSpec
CONSTANTS
  N = 4
  Inputs <- MCInputs
INVARIANTS
  TypeOK
  TrailInv
  QueueIsTail
  ReasonInv
  WatchInv
  PropagationComplete
  AnalysisSound
  LearntAsserts
  NeverStuck
PROPERTIES
  Terminates
CHECK_DEADLOCK FALSE
