CONSTANTS
  ctl = ctl
  wds = wds
  nas = nas
  NULL = NULL
  Ctl = ctl
  Services = {ctl}
  Clients = {ctl}
  MaxCtlTid = 1
  MaxMuxTid = 2
  Slices = 4
  EventCap = 2
  MaxCalls = 1
  MaxInds = 1
SPECIFICATION Spec
INVARIANTS ExitReleasesMain

CHECK_DEADLOCK FALSE
