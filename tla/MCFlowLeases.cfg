SPECIFICATION Spec
CONSTANTS
    e1 = e1
    e2 = e2
    g1 = g1
    Events = {e1}
    EventTypes = {t1}
    Slugs = {g1}
    SafeId <- SingleSlug
    Flows = {f1}
    Steps = {s1}
    ManifestSteps <- AllOrNone
    Workers = {w1, w2}
    LeaseRequests <- TooShortOrLong
    MinLease = 1
    MaxLease = 2
    NoType = NoType
    NoWorker = NoWorker
    MaxNow = 3
    ReplayTimes = {0}
    MaxAttempts = 2
    MaxReplays = 1
INVARIANTS
    TypeOK
    TablesAgree
    OneValidLease
PROPERTIES
    CompletedIsFinal
    LeaseLastsMinimum
    OutputIsFromTheHolder
    DispatchRunsOnce
    ImplementsLifecycle
SYMMETRY Symmetry
CHECK_DEADLOCK FALSE
