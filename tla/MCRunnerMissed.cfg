SPECIFICATION FairSpec
CONSTANTS
  Msgs = {m1}
  MaxTurns = 2
  Scenarios <- MissedScenarios
PROPERTY MissedCompletionIsReconciled
