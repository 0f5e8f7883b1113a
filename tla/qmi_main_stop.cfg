SPECIFICATION FairSpec
CONSTANTS
  Enabled <- v4only
  MainLoop = TRUE
  SigCap = 1
  MaxInds = 1
  MaxFaults = 1
PROPERTY EverySignalQuits
CHECK_DEADLOCK FALSE
