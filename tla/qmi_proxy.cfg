SPECIFICATION Spec
CONSTANTS
  wds = wds
  Services = {wds}
  Fds = {1, 2}
  Ids = {1, 2}
  MaxPeers = 2
  MaxReqs = 3
  MaxPipe = 2
INVARIANTS TypeOK OneInFlight RegistryAgrees ToOwnerOnly
PROPERTIES RequestsServed LeavesWithAnswer
CHECK_DEADLOCK FALSE
