SPECIFICATION DelegationSpec
CONSTANTS
  Main = op
  Delegations = {d1}
  MaxRounds = 2
  DelegationScenarios <- LostScenarios
CHECK_DEADLOCK FALSE
INVARIANT MarkedIsReturned
