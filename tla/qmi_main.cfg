SPECIFICATION Spec
CONSTANTS
  Enabled <- v4v6
  MainLoop = TRUE
  SigCap = 1
  MaxInds = 1
  MaxFaults = 2
INVARIANTS TypeOK NetDownAtExit
PROPERTIES NoDhcpOnStaleCall StopNearer
CHECK_DEADLOCK FALSE
