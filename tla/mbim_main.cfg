SPECIFICATION FairSpec
CONSTANTS
  NULL = NULL
  Slices = 2
  MaxChanges = 1
  MaxSignals = 1
INVARIANTS TypeOK NetNeedsCall BeliefAgrees NetDownAtExit
PROPERTIES SignalQuits Redials Reopens QuitProgress
CHECK_DEADLOCK FALSE
