SPECIFICATION FairSpec
CONSTANTS
  N = 2
  InputSets <- MCFiles
  Garbage <- MCGarbage
  MaxLines = 3
  MaxWidth = 1
  MaxFailures = 1
INVARIANTS
  TypeOK
  LabelSound
  CountKeepsError
  UndefinedCause
PROPERTY RoundRobin
CHECK_DEADLOCK FALSE
