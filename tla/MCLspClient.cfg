SPECIFICATION FairSpec
CONSTANTS
  Requests = {r1}
  MaxAsks = 1
  Scenarios = {{}, {"timeout", "exit", "slow"}, {"cancel", "timeout", "exit", "slow"}}
CHECK_DEADLOCK FALSE
INVARIANTS
  TypeOK
  StoppedLeavesNobodyWaiting
  NoAbandonedFuture
PROPERTIES
  RequestsAreAnswered
  StopEndsProcess
