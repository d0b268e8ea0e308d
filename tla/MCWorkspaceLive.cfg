SPECIFICATION PartsSpec
CONSTANTS
    Patience <- Waits
    Peers = {p1, p2}
    Everyone = everyone
    MaxLines = 3
    MaxExits = 1
    Spoken = {a1, a2, a3}
    Urgent = {a2}
    MaxQueued = 2
    MaxSeen = 3
    MaxHeard = 4
    MaxLosses = 1
    Msgs = {m1}
    MaxTurns = 3
    Scenarios <- RunnerScenarios
INVARIANTS
    PartsTypeOK EndIsNotMissed PeersHearInOrder SaidOnce NothingWithoutTimer
PROPERTIES
    WaitSettles  SpeechFlows PendingMessageSettles ActiveTurnEnds
CHECK_DEADLOCK FALSE
