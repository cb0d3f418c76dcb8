SPECIFICATION Spec
CONSTANTS
  Inputs <- MCInputs
  Reporting <- MCReporting
  Hanging <- MCHanging
  EducatedInputs <- MCEducated
  InputFiles = 1
  MaxIterations = 2
  MaxFuncTests = 2
  MaxStops = 1
  MaxFaults = 0
  MaxCampaigns = 2
INVARIANT EachTriggers
CHECK_DEADLOCK FALSE
