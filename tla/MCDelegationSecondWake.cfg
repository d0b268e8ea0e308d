SPECIFICATION DelegationSpec
CONSTANTS
  Main = op
  Delegations = {d1}
  MaxRounds = 2
  DelegationScenarios <- SecondScenarios
CHECK_DEADLOCK FALSE
INVARIANT MarkedIsWoken
