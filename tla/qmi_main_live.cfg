SPECIFICATION FairSpec
CONSTANTS
  Enabled <- v4only
  MainLoop = TRUE
  SigCap = 2
  MaxInds = 1
  MaxFaults = 2
PROPERTIES Redials StopQuits
CHECK_DEADLOCK FALSE
