SPECIFICATION FairSpec
CONSTANTS
  N = 3
  Inputs <- MCInputs
  Junk <- MCJunk
INVARIANTS
  IInv
  SatSound
  UnsatSound
  StaticModelFree
  PendingModelIntact
PROPERTIES
  Terminates
  PromiseKept
CHECK_DEADLOCK FALSE
