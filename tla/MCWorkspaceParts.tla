--------------------------- MODULE MCWorkspaceParts ---------------------------
(***************************************************************************)
(* The parts of the workspace that share no state, model checked in one    *)
(* run: a behaviour is one of the part that was chosen for it.             *)
(***************************************************************************)
EXTENDS Integers, Sequences, FiniteSets

CONSTANTS
    FlowEvents, FlowMatches, ServerCalls, CommandLines, MaxReplays, MaxStops,
    LocalClients, LocalCallers, LocalEvents, LocalSteps, StateKind, MaxCalls, MaxDeaths,
    OldFiles, NewFiles, TornFiles,
    VoiceTurns, MaxOwn,
    Codex, Delegated, Starts, Jobs, MaxChannels, MaxJobs, MaxBoots,
    Listed, Commands, MaxPickers,
    Users, MaxMade, MaxRestarts, MaxConfigs, MaxCrashes, MaxLost,
    Guilds, Chats, TaskThreads,
    Sweeps, Authors, Webhooks, PageSize, MaxRefusals,
    FolderOrder, Surfaces, Delegate, Stranger, Workplace, Routings, MaxCauses,
    Plain, Mentions, Starter, Replies, SeenTtl, MaxProcessed, MaxClock, MaxComing,
    Legacy, Watched, MaxHooks, MaxMessages, MaxObserved, MaxChanges, MaxRecords, MaxLate,
    Inputs, Main, MaxTroubles

VARIABLES
    part,
    flowEvents, flowRuns, flowCalls, executors, serverUp, nonces, spawned, stops,
    localState, localFile, localCalls, calls, deaths, executed, overlapped, stale,
    pendingFiles, seenFiles, scanTimer, hookScan, heardHooks, writtenHooks, dropped,
    completions, completed, polish, flowMade, announcer, ownThreads, ownTurns, announced,
    heardItself,
    sessions, byChannel, byThread, taskOf, posts, busy, jobs, channels, made, started,
    saved, begun, boots, crossed, paired,
    pickers, shownAs, screen, goal, inDiscord, acting, taken, rebooted,
    bridge, homeSessions, operator, stateFile, homeRunner, heardBy, asking, mainThreadId,
    homeExists, homeMade, lost, homeBoots, configs, crashes,
    phase, configured, resolved, left, globalSet, guildSet, connected, opened, turn,
    activeTurns, watched, starting, starts, failures,
    author, channel, sweep, swept, refusals,
    routing, state, disk, dashboardsPosts, strands, spool, settled, cleared, causes,
    reboots, dashboardsRefusals, dashboardsCrossed,
    clock, again, seen, inboundStarting, inboundOpened, mailbox, steering, inTurn,
    processed, kept, coming, handled, inboundDropped, inboundStops, outlived, outrun,
    memory, stateFileDisk, image, saving, up, counts,
    hook, answered, pending, order, drain, due, spoolMemory, spoolDisk, wake, archived,
    times, spoolUp, trouble

Flows == INSTANCE WorkspaceFlows
Local == INSTANCE LocalFlows
Hook == INSTANCE HookObserver
Announcer == INSTANCE VoiceAnnouncer
Discord == INSTANCE WorkspaceThreads
Choices == INSTANCE WorkspacePickers
HomeChannel == INSTANCE OperatorSession WITH sessions <- homeSessions, made <- homeMade, boots
                    <- homeBoots
BridgeStart == INSTANCE BridgeStart WITH MaxStarts <- 3, MaxFailures <- 2
Sweep == INSTANCE WebhookSweep WITH MaxPosts <- 3
Dashboards == INSTANCE WorkspaceDashboards WITH posts <- dashboardsPosts, refusals <-
                    dashboardsRefusals, crossed <- dashboardsCrossed, MaxPosts <- 5
Inbound == INSTANCE InboundMessages WITH starting <- inboundStarting, opened <- inboundOpened,
                    dropped <- inboundDropped, stops <- inboundStops, MaxSeen <- 1, MaxStops <-
                    1
File == INSTANCE StateFile WITH disk <- stateFileDisk, MaxStops <- 1, MaxStarts <- 2
Spool == INSTANCE HookSpool WITH memory <- spoolMemory, disk <- spoolDisk, up <- spoolUp

\* What the discovery of flows answers: no step, one, two, or two named alike.
Matches == {<<>>, <<"first">>, <<"first", "second">>, <<"first", "first">>}

TwoSteps == <<"first", "second">>

\* Every folder goes to the first surface, or the first folder to the second one.
TwoFolders == <<"f1", "f2">>
TwoRoutings == <<[f \in {"f1", "f2"} |-> "s1"], [f \in {"f1", "f2"} |-> IF f = "f1" THEN "s2" ELSE "s1"]>>

\* Records of a state file that an older bridge left: an unknown mode or origin, a
\* message without a field, and a kind of wake nobody knows.
Old(type, tag, mode, whole) == [type |-> type, tag |-> tag, mode |-> mode, whole |-> whole]
OldRecords ==
    {Old("session", "unset", "gateway", TRUE), Old("turn", "unset", "unknown", TRUE),
     Old("queue", "pending", "unset", FALSE), Old("wake", "thread", "unset", TRUE)}

\* Two uses of a tool that are alike, a Stop of the main thread, and an event of another
\* kind.
OfTurn(n, t, u) == [name |-> n, thread |-> t, turn |-> u, tool |-> "-", from |-> "resume", whole |-> TRUE]
HookInputs == <<OfTurn("PreToolUse", "t1", "u1"), OfTurn("PreToolUse", "t1", "u1"), OfTurn("Stop", "main", "u2"), OfTurn("PreCompact", "t1", "u1")>>

flowsVars == <<flowEvents, flowRuns, flowCalls, executors, serverUp, nonces, spawned, stops>>
localVars == <<localState, localFile, localCalls, calls, deaths, executed, overlapped, stale>>
hookVars == <<pendingFiles, seenFiles, scanTimer, hookScan, heardHooks, writtenHooks, dropped>>
announcerVars == <<completions, completed, polish, flowMade, announcer, ownThreads, ownTurns,
                   announced, heardItself>>
threadsVars == <<sessions, byChannel, byThread, taskOf, posts, busy, jobs, channels, made,
                 started, saved, begun, boots, crossed, paired>>
pickersVars == <<pickers, shownAs, screen, goal, inDiscord, acting, taken, rebooted>>
homeVars == <<bridge, homeSessions, operator, stateFile, homeRunner, heardBy, asking,
              mainThreadId, homeExists, homeMade, lost, homeBoots, configs, crashes>>
startVars == <<phase, configured, resolved, left, globalSet, guildSet, connected, opened, turn,
               activeTurns, watched, starting, starts, failures>>
sweepVars == <<author, channel, sweep, swept, refusals>>
dashboardsVars == <<routing, state, disk, dashboardsPosts, strands, spool, settled, cleared,
                    causes, reboots, dashboardsRefusals, dashboardsCrossed>>
inboundVars == <<clock, again, seen, inboundStarting, inboundOpened, mailbox, steering, inTurn,
                 processed, kept, coming, handled, inboundDropped, inboundStops, outlived,
                 outrun>>
stateFileVars == <<memory, stateFileDisk, image, saving, up, counts>>
spoolVars == <<hook, answered, pending, order, drain, due, spoolMemory, spoolDisk, wake,
               archived, times, spoolUp, trouble>>
vars == <<part, flowsVars, localVars, hookVars, announcerVars, threadsVars, pickersVars,
          homeVars, startVars, sweepVars, dashboardsVars, inboundVars, stateFileVars,
          spoolVars>>

Init ==
    /\ part \in {"flows", "local", "hook", "announcer", "threads", "pickers", "home", "start",
                 "sweep", "dashboards", "inbound", "stateFile", "spool"}
    /\ Flows!FlowInit /\ Local!LocalInit /\ Hook!HookInit /\ Announcer!AnnouncerInit
    /\ Discord!ThreadInit /\ Choices!PickerInit
    /\ part # "pickers" => \A t \in Listed : goal[t] = "none"
    /\ HomeChannel!OperatorInit
    /\ part # "home" => stateFile = HomeChannel!Nothing
    /\ BridgeStart!StartInit /\ Sweep!SweepInit /\ Dashboards!DashboardInit
    /\ part # "dashboards" => dashboardsPosts = <<>>
    /\ Inbound!InboundInit
    /\ part # "inbound" => again = Starter
    /\ File!StateInit
    /\ part # "stateFile" => stateFileDisk = File!Empty
    /\ Spool!SpoolInit
    /\ part # "spool" => pending = {} /\ order = Spool!SetToSeq(Spool!Ids)

FlowsNext ==
    /\ part = "flows" /\ Flows!FlowNext
    /\ UNCHANGED <<part, localVars, hookVars, announcerVars, threadsVars, pickersVars, homeVars,
                   startVars, sweepVars, dashboardsVars, inboundVars, stateFileVars, spoolVars>>
LocalNext ==
    /\ part = "local" /\ Local!LocalNext
    /\ UNCHANGED <<part, flowsVars, hookVars, announcerVars, threadsVars, pickersVars, homeVars,
                   startVars, sweepVars, dashboardsVars, inboundVars, stateFileVars, spoolVars>>
HookNext ==
    /\ part = "hook" /\ Hook!HookNext
    /\ UNCHANGED <<part, flowsVars, localVars, announcerVars, threadsVars, pickersVars,
                   homeVars, startVars, sweepVars, dashboardsVars, inboundVars, stateFileVars,
                   spoolVars>>
AnnouncerNext ==
    /\ part = "announcer" /\ Announcer!AnnouncerNext
    /\ UNCHANGED <<part, flowsVars, localVars, hookVars, threadsVars, pickersVars, homeVars,
                   startVars, sweepVars, dashboardsVars, inboundVars, stateFileVars, spoolVars>>
ThreadsNext ==
    /\ part = "threads" /\ Discord!ThreadNext
    /\ UNCHANGED <<part, flowsVars, localVars, hookVars, announcerVars, pickersVars, homeVars,
                   startVars, sweepVars, dashboardsVars, inboundVars, stateFileVars, spoolVars>>
PickersNext ==
    /\ part = "pickers" /\ Choices!PickerNext
    /\ UNCHANGED <<part, flowsVars, localVars, hookVars, announcerVars, threadsVars, homeVars,
                   startVars, sweepVars, dashboardsVars, inboundVars, stateFileVars, spoolVars>>
HomeNext ==
    /\ part = "home" /\ HomeChannel!OperatorNext
    /\ UNCHANGED <<part, flowsVars, localVars, hookVars, announcerVars, threadsVars,
                   pickersVars, startVars, sweepVars, dashboardsVars, inboundVars,
                   stateFileVars, spoolVars>>
StartNext ==
    /\ part = "start" /\ BridgeStart!StartNext
    /\ UNCHANGED <<part, flowsVars, localVars, hookVars, announcerVars, threadsVars,
                   pickersVars, homeVars, sweepVars, dashboardsVars, inboundVars, stateFileVars,
                   spoolVars>>
SweepNext ==
    /\ part = "sweep" /\ Sweep!SweepNext
    /\ UNCHANGED <<part, flowsVars, localVars, hookVars, announcerVars, threadsVars,
                   pickersVars, homeVars, startVars, dashboardsVars, inboundVars, stateFileVars,
                   spoolVars>>
DashboardsNext ==
    /\ part = "dashboards" /\ Dashboards!DashboardNext
    /\ UNCHANGED <<part, flowsVars, localVars, hookVars, announcerVars, threadsVars,
                   pickersVars, homeVars, startVars, sweepVars, inboundVars, stateFileVars,
                   spoolVars>>
InboundNext ==
    /\ part = "inbound" /\ Inbound!InboundNext
    /\ UNCHANGED <<part, flowsVars, localVars, hookVars, announcerVars, threadsVars,
                   pickersVars, homeVars, startVars, sweepVars, dashboardsVars, stateFileVars,
                   spoolVars>>
StateFileNext ==
    /\ part = "stateFile" /\ File!StateNext
    /\ UNCHANGED <<part, flowsVars, localVars, hookVars, announcerVars, threadsVars,
                   pickersVars, homeVars, startVars, sweepVars, dashboardsVars, inboundVars,
                   spoolVars>>
SpoolNext ==
    /\ part = "spool" /\ Spool!SpoolNext
    /\ UNCHANGED <<part, flowsVars, localVars, hookVars, announcerVars, threadsVars,
                   pickersVars, homeVars, startVars, sweepVars, dashboardsVars, inboundVars,
                   stateFileVars>>
Next ==
    \/ FlowsNext \/ LocalNext \/ HookNext \/ AnnouncerNext \/ ThreadsNext
    \/ PickersNext \/ HomeNext \/ StartNext \/ SweepNext \/ DashboardsNext
    \/ InboundNext \/ StateFileNext \/ SpoolNext

Spec == Init /\ [][Next]_vars

\* The type invariants of the parts: one that was not chosen stays as it began, which
\* the behaviours that choose it check.
TypeOK ==
    /\ part = "flows" => Flows!FlowTypeOK
    /\ part = "local" => Local!LocalTypeOK
    /\ part = "hook" => Hook!HookTypeOK
    /\ part = "announcer" => Announcer!AnnouncerTypeOK
    /\ part = "threads" => Discord!ThreadTypeOK
    /\ part = "pickers" => Choices!PickerTypeOK
    /\ part = "home" => HomeChannel!OperatorTypeOK
    /\ part = "start" => BridgeStart!StartTypeOK
    /\ part = "sweep" => Sweep!SweepTypeOK
    /\ part = "dashboards" => Dashboards!DashboardTypeOK
    /\ part = "inbound" => Inbound!InboundTypeOK
    /\ part = "stateFile" => File!StateTypeOK
    /\ part = "spool" => Spool!SpoolTypeOK

\* The properties of the parts, for the configuration.
RowsTellTheRuns == Flows!RowsTellTheRuns
FileTellsTheRuns == Local!FileTellsTheRuns
HookHeardOnce == Hook!HookHeardOnce
NewHookIsScanned == Hook!NewHookIsScanned
OneAnnouncerIsSilent == Announcer!OneAnnouncerIsSilent
ThreadsAreTracked == Discord!ThreadsAreTracked
PickersAreSound == Choices!PickersAreSound
RestartsMakeNoThread == HomeChannel!RestartsMakeNoThread
MemoryIsKept == HomeChannel!MemoryIsKept
StartIsSound == BridgeStart!StartIsSound
SweepsAreSound == Sweep!SweepsAreSound
DashboardsAreSound == Dashboards!DashboardsAreSound
InboundIsSound == Inbound!InboundIsSound
StateFileIsSound == File!StateFileIsSound
SpoolIsSound == Spool!SpoolIsSound

\* What the flow backend and the local client keep of their runs is what happened.
FlowRecordsAreSound == RowsTellTheRuns /\ FileTellsTheRuns

\* The Discord threads, pickers and dashboards show the Codex threads they were
\* made for.
DiscordIsSound == ThreadsAreTracked /\ PickersAreSound /\ DashboardsAreSound

\* A start, however the ones before it ended, leaves the commands and the turns
\* in order and makes no Codex thread of its own accord; a swept channel is swept;
\* a message, and a hook event, is handled once; and the state file keeps what it is
\* read for.
BridgeIsSound == RestartsMakeNoThread /\ StartIsSound /\ SweepsAreSound /\ InboundIsSound /\ StateFileIsSound /\ SpoolIsSound

\* What the voice gateway hears is announced once, and nothing of its own.
VoiceIsSound == HookHeardOnce /\ NewHookIsScanned /\ OneAnnouncerIsSilent
=============================================================================
