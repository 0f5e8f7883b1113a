SPECIFICATION Spec
CONSTANTS
  wds = wds
  Services = {wds}
  Fds = {1, 2}
  Ids = {1}
  MaxPeers = 2
  MaxReqs = 2
  MaxPipe = 1
INVARIANT ResetRestarts
CHECK_DEADLOCK FALSE
