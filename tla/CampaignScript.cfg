SPECIFICATION SpecRun
CONSTANTS
  Inputs <- MCInputs
  Reporting <- MCReporting
  Hanging <- MCHanging
  EducatedInputs <- MCEducated
  InputFiles = 1
  MaxIterations = 1
  MaxFuncTests = 1
  MaxStops = 2
  MaxFaults = 1
  MaxCampaigns = 2
  MaxSignals = 2
PROPERTY CampaignKept
CHECK_DEADLOCK FALSE
