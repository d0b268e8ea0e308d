SPECIFICATION Spec
CONSTANTS
    e1 = e1
    e2 = e2
    g1 = g1
    Events = {e1, e2}
    EventTypes = {t1}
    Slugs = {g1}
    SafeId <- SharedSlug
    Flows = {f1}
    Steps = {s1}
    ManifestSteps <- AllOrNone
    Workers = {w1}
    LeaseRequests <- TooShort
    MinLease = 1
    MaxLease = 2
    NoType = NoType
    NoWorker = NoWorker
    MaxNow = 2
    ReplayTimes = {}
    MaxAttempts = 2
    MaxReplays = 0
PROPERTY NewEventGetsItsRuns
CHECK_DEADLOCK FALSE
