SPECIFICATION FairSpec
CONSTANTS
  Inputs <- MCInputs
  Reporting <- MCReporting
  Hanging <- MCHanging
  EducatedInputs <- MCEducated
  InputFiles = 2
  MaxIterations = 2
  MaxFuncTests = 2
  MaxStops = 2
  MaxFaults = 1
  MaxCampaigns = 3
INVARIANTS
  TypeOK
  SavedTriggers
  NothingMissed
  WrongTestsBounded
  TempFilesRemoved
PROPERTY UbPhaseEnds
CHECK_DEADLOCK FALSE
