SPECIFICATION Spec
CONSTANTS
  Enabled <- v4only
  MainLoop = TRUE
  SigCap = 1
  MaxInds = 1
  MaxFaults = 1
INVARIANT ResetNeverKills
CHECK_DEADLOCK FALSE
