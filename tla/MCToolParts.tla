----------------------------- MODULE MCToolParts -----------------------------
(***************************************************************************)
(* The connections to the app-server, the commands and the flows, which    *)
(* share no state, model checked in one run: a behaviour is one of the     *)
(* part that was chosen for it.                                            *)
(***************************************************************************)
EXTENDS Integers, Sequences, FiniteSets

CONSTANTS
    MaxProcs, MaxRequests, MaxCloses,
    Requests, MaxSockets, MaxShuts,
    Own, Others, Nobody, MaxChecks,
    Tasks, Enabled, Schedule, Threshold, Processes, MinutesPerDay, MaxTime, MaxStarts, MaxKills,
    Items, Plugins, Hooks, Contents, HookGroups, UserGroup, MaxAdds, MaxEdits, MaxAborts,
    OfferedItems, MaxParts, MaxChunks,
    MaxSummaries, MaxDeltas, MaxFailures, MaxDowns,
    Releases, Settings, MaxPipelines, MaxTroubles,
    Listed, Fresh, Nothing, MaxClients, MaxAsked, MaxWishes, MaxNews, MaxFaults,
    Arguments, Numerals, DefaultTimeout, ProbeTimeout,
    Services, FlagNumerals,
    Folders, Files, DefaultKey, NoChannel,
    Installs, CommandLines, ConfigFiles, HookFiles

VARIABLES
    part,
    child, proc, greeted, pipe, answers, nextId, pending, sent, outcome, connected, closed,
    closes,
    socket, connecting, sock, request, via, stuck, overtaken, shuts,
    caller, logins, signed, notices, checks, seen, listens, others,
    clock, runFiles, health, process, starts, kills, crowded, launches, late, slots,
    destination, lock, market, hooksJson, hooksOf, torn, copies, plan, adds, edits, aborts,
    own, unsettled, lostEntry,
    turns, bench, benchMode, attached, rawEvents, posting, toldAs, again,
    task, news, chores, alive, activeTurn, deliveries, statusId, onDisk, buffers,
    summarySent, noteSeen, answerHeard, watched, board, ever, shown, failures, downs,
    undeleted, unsent, adopted, progressMode,
    setting, fork, service, origin, npm, job, runs, troubles, checked, crossed,
    focus, status, current, webSocket, webLate, heardFor, threads, selection, webShown,
    asked, asks, busy, prompt, webSent, disturbed, webSigned, webLogins, authState, astray,
    wishes, webNews, faults,
    argv, index, settings, words, command,
    optionsService, next, flags, taken, optionsOutcome, result,
    file, configured, read, merged, phase, workspace,
    config, groups, installTorn, install, installOthers, installEdits

\* What flags and environment say of the channels.
ChannelsConfigured == [home : {"-", "h1", "h3"}, forum : {"-", "f1"}, tasks : {"-", "t1"}, main : BOOLEAN]
NothingConfigured == [home |-> "-", forum |-> "-", tasks |-> "-", main |-> FALSE]

Stdio == INSTANCE CodexConnection
WebSocket == INSTANCE WebSocketTransport
Login == INSTANCE LoginWait
Scheduler == INSTANCE WorkspaceTasks
Packs == INSTANCE PackInstall
Bench == INSTANCE Workbench
Progress == INSTANCE RunnerProgress
Release == INSTANCE ReleaseFlows
Web == INSTANCE WebConsole WITH socket <- webSocket, late <- webLate, shown <- webShown, sent <-
                    webSent, signed <- webSigned, logins <- webLogins, news <- webNews
Line == INSTANCE CommandLine
Options == INSTANCE DaemonOptions WITH service <- optionsService, outcome <- optionsOutcome
Surfaces == INSTANCE SurfaceConfig WITH Configured <- ChannelsConfigured
Install == INSTANCE HookInstall WITH torn <- installTorn, others <- installOthers, edits <-
                    installEdits, MaxEdits <- 1

\* One task is scheduled at both minutes of a day, the other is disabled.
Configured == <<"brief", "off">>
Cron == [t \in {"brief", "off"} |-> {0, 1}]

\* Two hook packs share a group, which the second content of one drops.
PackItems == <<"hookA", "hookB", "plug">>
Groups == [h \in {"hookA", "hookB"} |-> [c \in {"v1", "v2"} |-> IF h = "hookA" /\ c = "v2" THEN {"own"} ELSE {"shared"}]]

\* The items that the two turns of the workbench may have.
Offered == <<{"command", "answer"}, {"thoughts", "note", "answer"}>>
Chunks == [thoughts |-> 2, note |-> 1, answer |-> 1]

\* The flows squash, push and publish.
Published == {[squash |-> TRUE, push |-> TRUE, publish |-> TRUE]}

\* The command lines: a few words and options of each group of commands, in any order.
Word(w) == [option |-> "", inline |-> "unset", text |-> w]
Option(o) == [option |-> o, inline |-> "unset", text |-> o]
Assigned(o, v) == [option |-> o, inline |-> v, text |-> o]
UpTo(n, S) == UNION {[1 .. k -> S] : k \in 0 .. n}
Behind(first, S) == {first \o rest : rest \in UpTo(3, S)}
LineArguments ==
    UpTo(4, {Word("flow"), Word("run"), Word("event"), Option("run-id"), Assigned("event-id", ""), Option("wait"), Option("--")})
    \cup UpTo(3, {Word(""), Word("2"), Option("timeout-ms"), Assigned("timeout-ms", "90"), Option("compact"),
                  Option("pretty"), Assigned("pretty", ""), Word("fetch"), Assigned("ref", "r"), Option("help")})
    \cup Behind(<<Word("actions"), Word("assert-run")>>, {Word("a"), Option("flow"), Assigned("step", "s"), Option("--")})
    \cup UNION {Behind(<<Word(c)>>, {Word("app"), Word("call"), Word("init"), Word("actions"), Assigned("mode", ""), Option("mode")})
                : c \in {"app", "workspace"}}
    \cup UNION {Behind(<<Word(c)>>, {Word("add"), Word("export"), Word("transplant"), Word("global-to-workspace"),
                                     Assigned("include", "i"), Option("include"), Option("output"), Option("merge"), Assigned("merge", "codex")})
                : c \in {"pack", "memories", "threads"}}

\* How the services are started: arguments in any order and settings of the environment.
Flag(f) == [flag |-> f, inline |-> <<"unset">>, text |-> <<"--", f>>]
FlagIs(f, v) == [Flag(f) EXCEPT !.inline = v]
Text(v) == [flag |-> "", inline |-> <<"unset">>, text |-> v]
Environments(names) == UNION {[d -> {<<"v">>}] : d \in SUBSET names}
With(program, lines, names) == {[program |-> program, argv |-> a, env |-> e] : a \in lines, e \in Environments(names)}
Authorized == <<FlagIs("token", <<"t", "u">>), FlagIs("allowed-user-ids", <<"v">>)>>
Numbers == {<<"2">>}
Started ==
    With("bridge", {Authorized \o a : a \in UpTo(3, {Flag("local-app-server"), FlagIs("url", <<"a", "b">>), Text(<<"d">>),
                    Flag("dir"), Flag("cwd"), Flag("permissions-profile"), FlagIs("sandbox", <<"read-only">>)})}, {"DIR"})
    \cup With("bridge", {<<>>, <<Flag("token"), Text(<<"v">>), Flag("h")>>, <<Flag("debug"), Text(<<"v">>)>>},
              {"BOT_TOKEN", "ALLOWED_USER_IDS", "CWD"})
    \cup With("voice", UpTo(3, {Flag("dry-run"), FlagIs("dry-run", <<"1">>), Text(<<"v">>), Flag("discord-token"),
                    Flag("discord-channel-id"), Flag("max-queued-announcements"), FlagIs("max-queued-announcements", <<"2">>)}),
              {"BOT_TOKEN", "VOICE_CHANNEL_ID"})
    \cup With("flow", {<<>>} \cup {<<Text(<<c>>)>> \o a : c \in {"replay-event", "run", "dispatch"}, a \in UpTo(3, {Text(<<"v">>), Text(<<>>),
                    Flag("event-id"), FlagIs("run-id", <<"v">>), Flag("event"), Flag("wait"), Flag("executor")})}, {})

\* Two folders, each without a file, with two surfaces or with one; two keys, homes
\* and pairs of channels, one of which repeats the home.
SurfaceFolders == <<"root", "sub">>
File(n, key, home, forum, tasks) == [count |-> n, key |-> key, home |-> home, forum |-> forum, tasks |-> tasks]
SurfaceFiles ==
    {File(0, "", "-", "-", "-"), File(2, "", "-", "-", "-")}
    \cup {File(1, key, home, pair[1], pair[2]) : key \in {"a", "default"}, home \in {"h1", "h2"},
          pair \in {<<"-", "-">>, <<"f1", "t1">>, <<"h1", "t1">>}}

\* Arguments of the installs of hooks, three files of settings, and the hooks of none
\* or of the user and of two older installs.
InstallFlag(f, v) == [flag |-> f, inline |-> v]
InstallLines ==
    {<<>>, <<InstallFlag("command", "unset"), InstallFlag("bunx", "unset")>>, <<InstallFlag("bunx-package", "v")>>,
     <<InstallFlag("command", ""), InstallFlag("dry-run", "unset")>>, <<InstallFlag("command", "c"), InstallFlag("bunx", "unset")>>}
TomlFiles == {<<>>, <<"key", "features", "off", "table">>, <<"table", "features", "key">>}
HooksFiles == {<<>>, <<<<"stopHook", "user">>, <<"bridge">>>>}

stdioVars == <<child, proc, greeted, pipe, answers, nextId, pending, sent, outcome, connected,
               closed, closes>>
webSocketVars == <<socket, connecting, sock, request, via, stuck, overtaken, shuts>>
loginVars == <<caller, logins, signed, notices, checks, seen, listens, others>>
tasksVars == <<clock, runFiles, health, process, starts, kills, crowded, launches, late, slots>>
packsVars == <<destination, lock, market, hooksJson, hooksOf, torn, copies, plan, adds, edits,
               aborts, own, unsettled, lostEntry>>
workbenchVars == <<turns, bench, benchMode, attached, rawEvents, posting, toldAs, again>>
progressVars == <<task, news, chores, alive, activeTurn, deliveries, statusId, onDisk, buffers,
                  summarySent, noteSeen, answerHeard, watched, board, ever, shown, failures,
                  downs, undeleted, unsent, adopted, progressMode>>
releaseVars == <<setting, fork, service, origin, npm, job, runs, troubles, checked, crossed>>
webVars == <<focus, status, current, webSocket, webLate, heardFor, threads, selection, webShown,
             asked, asks, busy, prompt, webSent, disturbed, webSigned, webLogins, authState,
             astray, wishes, webNews, faults>>
lineVars == <<argv, index, settings, words, command>>
optionsVars == <<optionsService, next, flags, taken, optionsOutcome, result>>
surfacesVars == <<file, configured, read, merged, phase, workspace>>
installVars == <<config, groups, installTorn, install, installOthers, installEdits>>
vars == <<part, stdioVars, webSocketVars, loginVars, tasksVars, packsVars, workbenchVars,
          progressVars, releaseVars, webVars, lineVars, optionsVars, surfacesVars, installVars>>

Init ==
    /\ part \in {"stdio", "webSocket", "login", "tasks", "packs", "workbench", "progress",
                 "release", "web", "line", "options", "surfaces", "install"}
    /\ Stdio!Init /\ WebSocket!Init /\ Login!Init /\ Scheduler!TaskInit
    /\ Packs!PackInit
    /\ part # "packs" => market = [p \in Plugins |-> "none"]
    /\ Bench!BenchInit
    /\ part # "workbench" => benchMode = "summary"
    /\ Progress!ProgressInit
    /\ part # "progress" => progressMode = "summary"
    /\ Release!ReleaseInit /\ Web!WebInit
    /\ part # "web" => focus = "threads"
    /\ Line!LineStarts(IF part = "line" THEN Arguments ELSE {<<>>})
    /\ Options!OptionsStart(IF part = "options" THEN Services ELSE With("flow", {<<>>}, {}))
    /\ Surfaces!SurfacesStart(IF part = "surfaces" THEN SurfaceFiles ELSE {File(0, "", "-", "-", "-")},
                              IF part = "surfaces" THEN ChannelsConfigured ELSE {NothingConfigured})
    /\ Install!InstallStart(IF part = "install" THEN TomlFiles ELSE {<<>>}, IF part = "install" THEN HooksFiles ELSE {<<>>})
    /\ part # "install" => ~installTorn

StdioNext ==
    /\ part = "stdio" /\ Stdio!Next
    /\ UNCHANGED <<part, webSocketVars, loginVars, tasksVars, packsVars, workbenchVars,
                   progressVars, releaseVars, webVars, lineVars, optionsVars, surfacesVars,
                   installVars>>
WebSocketNext ==
    /\ part = "webSocket" /\ WebSocket!Next
    /\ UNCHANGED <<part, stdioVars, loginVars, tasksVars, packsVars, workbenchVars,
                   progressVars, releaseVars, webVars, lineVars, optionsVars, surfacesVars,
                   installVars>>
LoginNext ==
    /\ part = "login" /\ Login!Next
    /\ UNCHANGED <<part, stdioVars, webSocketVars, tasksVars, packsVars, workbenchVars,
                   progressVars, releaseVars, webVars, lineVars, optionsVars, surfacesVars,
                   installVars>>
TasksNext ==
    /\ part = "tasks" /\ Scheduler!TaskNext
    /\ UNCHANGED <<part, stdioVars, webSocketVars, loginVars, packsVars, workbenchVars,
                   progressVars, releaseVars, webVars, lineVars, optionsVars, surfacesVars,
                   installVars>>
PacksNext ==
    /\ part = "packs" /\ Packs!PackNext
    /\ UNCHANGED <<part, stdioVars, webSocketVars, loginVars, tasksVars, workbenchVars,
                   progressVars, releaseVars, webVars, lineVars, optionsVars, surfacesVars,
                   installVars>>
WorkbenchNext ==
    /\ part = "workbench" /\ Bench!BenchNext
    /\ UNCHANGED <<part, stdioVars, webSocketVars, loginVars, tasksVars, packsVars,
                   progressVars, releaseVars, webVars, lineVars, optionsVars, surfacesVars,
                   installVars>>
ProgressNext ==
    /\ part = "progress" /\ Progress!ProgressNext
    /\ UNCHANGED <<part, stdioVars, webSocketVars, loginVars, tasksVars, packsVars,
                   workbenchVars, releaseVars, webVars, lineVars, optionsVars, surfacesVars,
                   installVars>>
ReleaseNext ==
    /\ part = "release" /\ Release!ReleaseNext
    /\ UNCHANGED <<part, stdioVars, webSocketVars, loginVars, tasksVars, packsVars,
                   workbenchVars, progressVars, webVars, lineVars, optionsVars, surfacesVars,
                   installVars>>
WebNext ==
    /\ part = "web" /\ Web!WebNext
    /\ UNCHANGED <<part, stdioVars, webSocketVars, loginVars, tasksVars, packsVars,
                   workbenchVars, progressVars, releaseVars, lineVars, optionsVars,
                   surfacesVars, installVars>>
LineNext ==
    /\ part = "line" /\ Line!LineNext
    /\ UNCHANGED <<part, stdioVars, webSocketVars, loginVars, tasksVars, packsVars,
                   workbenchVars, progressVars, releaseVars, webVars, optionsVars, surfacesVars,
                   installVars>>
OptionsNext ==
    /\ part = "options" /\ Options!OptionNext
    /\ UNCHANGED <<part, stdioVars, webSocketVars, loginVars, tasksVars, packsVars,
                   workbenchVars, progressVars, releaseVars, webVars, lineVars, surfacesVars,
                   installVars>>
SurfacesNext ==
    /\ part = "surfaces" /\ Surfaces!SurfaceNext
    /\ UNCHANGED <<part, stdioVars, webSocketVars, loginVars, tasksVars, packsVars,
                   workbenchVars, progressVars, releaseVars, webVars, lineVars, optionsVars,
                   installVars>>
InstallNext ==
    /\ part = "install" /\ Install!InstallNext
    /\ UNCHANGED <<part, stdioVars, webSocketVars, loginVars, tasksVars, packsVars,
                   workbenchVars, progressVars, releaseVars, webVars, lineVars, optionsVars,
                   surfacesVars>>
Next ==
    \/ StdioNext \/ WebSocketNext \/ LoginNext \/ TasksNext \/ PacksNext
    \/ WorkbenchNext \/ ProgressNext \/ ReleaseNext \/ WebNext \/ LineNext
    \/ OptionsNext \/ SurfacesNext \/ InstallNext

Spec == Init /\ [][Next]_vars

\* The type invariants of the parts: one that was not chosen stays as it began, which
\* the behaviours that choose it check.
TypeOK ==
    /\ part = "stdio" => Stdio!TypeOK
    /\ part = "webSocket" => WebSocket!TypeOK
    /\ part = "login" => Login!TypeOK
    /\ part = "tasks" => Scheduler!TaskTypeOK
    /\ part = "packs" => Packs!PackTypeOK
    /\ part = "workbench" => Bench!BenchTypeOK
    /\ part = "progress" => Progress!ProgressTypeOK
    /\ part = "release" => Release!ReleaseTypeOK
    /\ part = "web" => Web!WebTypeOK
    /\ part = "line" => Line!LineTypeOK
    /\ part = "options" => Options!OptionTypeOK
    /\ part = "surfaces" => Surfaces!SurfaceTypeOK
    /\ part = "install" => Install!InstallTypeOK

\* The properties of the parts, for the configuration.
NoOrphanProcess == Stdio!NoOrphanProcess
OutcomeIsJustified == Stdio!OutcomeIsJustified
SocketIsShared == WebSocket!SocketIsShared
ResolvedByOwnLogin == Login!ResolvedByOwnLogin
TicksAreSound == Scheduler!TicksAreSound
PacksAreSound == Packs!PacksAreSound
BenchIsSound == Bench!BenchIsSound
RunnerProgressIsSound == Progress!RunnerProgressIsSound
ReleasesAreSound == Release!ReleasesAreSound
ConsoleIsSound == Web!ConsoleIsSound
LineIsSound == Line!LineIsSound
OptionsAreSound == Options!OptionsAreSound
SurfacesAreSound == Surfaces!SurfacesAreSound
HooksAreInstalled == Install!HooksAreInstalled

\* Every app-server process and socket is known to its transport, and what a
\* caller is answered, or the console shows, is the answer to its own request or login.
ConnectionsAreSound == NoOrphanProcess /\ OutcomeIsJustified /\ SocketIsShared /\ ResolvedByOwnLogin /\ ConsoleIsSound

\* The commands and services do what their command line and configuration say,
\* and the commands and release flows leave what they say they did, whoever ran
\* beside them.
CommandsAreSound ==
    /\ LineIsSound /\ OptionsAreSound /\ SurfacesAreSound
    /\ TicksAreSound /\ PacksAreSound /\ ReleasesAreSound /\ HooksAreInstalled

\* The progress of a turn is told once and completely, by both who tell it.
ProgressIsTold == BenchIsSound /\ RunnerProgressIsSound
=============================================================================
