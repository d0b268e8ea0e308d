SPECIFICATION LocalSpec
CONSTANTS
    LocalClients = {k1}
    LocalCallers = {l1, l2}
    LocalEvents = {event}
    LocalSteps <- TwoSteps
    StateKind = "file"
    MaxCalls = 2
    MaxDeaths = 0
INVARIANT DispatchIsIdempotent
CHECK_DEADLOCK FALSE
