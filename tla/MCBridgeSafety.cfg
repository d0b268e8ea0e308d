SPECIFICATION PartsSpec
CONSTANTS
    Msgs = {m1, m2}
    MaxTurns = 3
    Scenarios <- RunnerScenarios
    Main = op
    Delegations = {d1, d2}
    MaxRounds = 2
    DelegationScenarios <- DelegationScenes
INVARIANTS
    PartsTypeOK AnswerPostedOnce OneTurnPerMessage QueueIsSound ProcessedIsAnswered
    NothingRepeats MarkedIsReturned MarkedIsWoken GroupWakeWaits ManualWaits
SYMMETRY Swap
PROPERTIES
    SavedMessageIsKept
CHECK_DEADLOCK FALSE
