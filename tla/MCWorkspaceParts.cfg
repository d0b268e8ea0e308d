SPECIFICATION Spec
CONSTANTS
    FlowEvents = {e1}
    FlowMatches <- Matches
    ServerCalls = {s1}
    CommandLines = {c1}
    MaxReplays = 1
    MaxStops = 1
    LocalClients = {k1, k2}
    LocalCallers = {l1, l2}
    LocalEvents = {event}
    LocalSteps <- TwoSteps
    StateKind = "file"
    MaxCalls = 3
    MaxDeaths = 1
    OldFiles = {o1}
    NewFiles = {n1, n2}
    TornFiles = {n2}
    VoiceTurns = {1, 2}
    MaxOwn = 3
    Codex = {t1}
    Delegated = {t1}
    Starts = {m1}
    Jobs = {j1, j2}
    MaxChannels = 3
    MaxJobs = 3
    MaxBoots = 1
    Listed = {t1}
    Commands = {c1}
    MaxPickers = 3
    Users = {1}
    MaxMade = 3
    MaxRestarts = 4
    MaxConfigs = 2
    MaxCrashes = 1
    MaxLost = 1
    Guilds = {g1, g2}
    Chats = {c1}
    TaskThreads = {k1}
    Sweeps = {w1, w2}
    Authors = {h1, man}
    Webhooks = {h1}
    PageSize = 2
    MaxRefusals = 1
    FolderOrder <- TwoFolders
    Surfaces = {"s1", "s2"}
    Delegate = t1
    Stranger = t2
    Workplace = "f1"
    Routings <- TwoRoutings
    MaxCauses = 3
    Plain = {p1}
    Mentions = {n1}
    Starter = st1
    Replies = {r1}
    SeenTtl = 1
    MaxProcessed = 1
    MaxClock = 1
    MaxComing = 2
    Legacy <- OldRecords
    Watched = {w1, w2}
    MaxHooks = 3
    MaxMessages = 1
    MaxObserved = 1
    MaxChanges = 5
    MaxRecords = 2
    MaxLate = 1
    Inputs <- HookInputs
    Main = "main"
    MaxTroubles = 1
INVARIANTS
    TypeOK  DiscordIsSound VoiceIsSound BridgeIsSound
PROPERTIES
    MemoryIsKept
CHECK_DEADLOCK FALSE
