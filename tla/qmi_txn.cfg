CONSTANTS
  ctl = ctl
  wds = wds
  nas = nas
  NULL = NULL
  Ctl = ctl
  Services = {ctl, wds, nas}
  Clients = {ctl, wds}
  MaxCtlTid = 1
  MaxMuxTid = 2
  Slices = 2
  EventCap = 2
  MaxCalls = 2
  MaxInds = 1
SPECIFICATION Spec
INVARIANTS TypeOK AnswerMatchesCall RequestAlive AnsweredCallsLeakNothing ExitReleasesMainInSlice
PROPERTIES AnswerKept ImplementsRpc CallProgress
CHECK_DEADLOCK FALSE
