SPECIFICATION FairSpec
CONSTANTS
  MaxSignals = 4
INVARIANTS
  TypeOK
  DoneAfterSolver
PROPERTIES
  SignalStopsSolver
  ScriptEnds
CHECK_DEADLOCK FALSE
