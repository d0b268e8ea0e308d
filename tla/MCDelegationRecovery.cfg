SPECIFICATION DelegationFairSpec
CONSTANTS
  Main = op
  Delegations = {d1}
  MaxRounds = 2
  DelegationScenarios <- RecoveryScenarios
CHECK_DEADLOCK FALSE
PROPERTY EveryResultReturns
