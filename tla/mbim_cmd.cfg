SPECIFICATION FairSpec
CONSTANTS
  NULL = NULL
  Slices = 2
  Discards = TRUE
  MaxCalls = 9
INVARIANTS TypeOK RequestAlive AnswerMatchesCall
PROPERTIES AnswerKept ImplementsRpc CallReturns
CHECK_DEADLOCK FALSE
