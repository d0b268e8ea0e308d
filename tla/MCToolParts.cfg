SPECIFICATION Spec
CONSTANTS
    MaxProcs = 3
    MaxRequests = 3
    MaxCloses = 2
    Requests = {r1, r2, r3}
    MaxSockets = 3
    MaxShuts = 2
    Own = own
    Others = {other}
    Nobody = nobody
    MaxChecks = 2
    Tasks <- Configured
    Enabled = {"brief"}
    Schedule <- Cron
    Threshold = 2
    Processes = {p1, p2}
    MinutesPerDay = 2
    MaxTime = 2
    MaxStarts = 2
    MaxKills = 1
    Items <- PackItems
    Plugins = {"plug"}
    Hooks = {"hookA", "hookB"}
    Contents = {"v1", "v2"}
    HookGroups <- Groups
    UserGroup = "user"
    MaxAdds = 2
    MaxEdits = 1
    MaxAborts = 1
    OfferedItems <- Offered
    MaxParts = 2
    MaxChunks <- Chunks
    MaxSummaries = 2
    MaxDeltas = 2
    MaxFailures = 1
    MaxDowns = 1
    Releases = {1, 2}
    Settings <- Published
    MaxPipelines = 2
    MaxTroubles = 1
    Listed = {t1, t2}
    Fresh = t3
    Nothing = none
    MaxClients = 2
    MaxAsked = 5
    MaxWishes = 4
    MaxNews = 1
    MaxFaults = 1
    Arguments <- LineArguments
    Numerals = {"2", "90"}
    DefaultTimeout = "90"
    ProbeTimeout = "1"
    Services <- Started
    FlagNumerals <- Numbers
    Folders <- SurfaceFolders
    Files <- SurfaceFiles
    DefaultKey = "default"
    NoChannel = "-"
    Installs = {i1, i2}
    CommandLines <- InstallLines
    ConfigFiles <- TomlFiles
    HookFiles <- HooksFiles
INVARIANTS
    TypeOK ConnectionsAreSound CommandsAreSound ProgressIsTold
CHECK_DEADLOCK FALSE
