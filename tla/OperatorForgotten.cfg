SPECIFICATION OperatorSpec
CONSTANTS
  Users = {1}
  MaxMade = 2
  MaxRestarts = 2
  MaxConfigs = 1
  MaxCrashes = 0
  MaxLost = 0
CHECK_DEADLOCK FALSE
INVARIANT MessagesGoToMain
