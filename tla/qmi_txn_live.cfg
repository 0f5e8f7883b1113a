CONSTANTS
  ctl = ctl
  wds = wds
  nas = nas
  NULL = NULL
  Ctl = ctl
  Services = {ctl, wds}
  Clients = {wds}
  MaxCtlTid = 1
  MaxMuxTid = 2
  Slices = 4
  EventCap = 3
  MaxCalls = 2
  MaxInds = 1
SPECIFICATION FairSpec

PROPERTIES CallReturns
CHECK_DEADLOCK FALSE
