----------------------------- MODULE BridgeStart -----------------------------
(***************************************************************************)
(* Starting and stopping the Discord bridge (apps/discord-bridge/src):     *)
(* start of bridge.ts brings the backend up, logs in, prepares the         *)
(* workbench, registers the slash commands and starts the runners, one     *)
(* await after the other, while Discord already delivers messages and the  *)
(* app-server already reports turns.  A start that throws is logged and    *)
(* the process lives on with what it has opened.  The commands and the     *)
(* turns outlive the bridge.                                               *)
(***************************************************************************)
EXTENDS Integers, FiniteSets

CONSTANTS
    Guilds,      \* Discord servers
    Chats,       \* sessions outside of the task threads channel
    TaskThreads, \* sessions in it
    MaxStarts,   \* bound on starts
    MaxFailures  \* bound on calls of Discord that fail

VARIABLES
    phase,         \* what start or stop awaits; "off", "up" or "failed"
    configured,    \* the guilds that the configured channels are in
    resolved,      \* those that registerCommands found
    left,          \* those of them without the commands so far
    globalSet,     \* Discord: the bot's global commands are there
    guildSet,      \* Discord: the guilds with commands of their own
    connected,     \* the Discord client delivers events
    opened,        \* #transportStarted
    turn,          \* the app-server: the turn of a session
    activeTurns,   \* state.activeTurns, always saved
    watched,       \* sessions whose runner has a reconcile timer
    starting,      \* sessions whose runner.start is queued
    starts, failures

startVars == <<phase, configured, resolved, left, globalSet, guildSet, connected, opened,
               turn, activeTurns, watched, starting, starts, failures>>
commandVars == <<configured, resolved, left, globalSet, guildSet>>
turnVars == <<turn, activeTurns, watched, starting>>

Talks == Chats \cup TaskThreads
Phases == {"off", "backend", "login", "workbench", "ready", "lookup", "global", "clear", "guilds",
           "background", "up", "failed", "stopping"}

StartTypeOK ==
    /\ phase \in Phases /\ globalSet \in BOOLEAN /\ connected \in BOOLEAN /\ opened \in BOOLEAN
    /\ configured \subseteq Guilds /\ resolved \subseteq configured /\ left \subseteq resolved
    /\ guildSet \subseteq Guilds /\ turn \in [Talks -> {"none", "runs", "over"}]
    /\ activeTurns \subseteq Talks /\ watched \subseteq activeTurns /\ starting \subseteq Chats
    /\ starts \in 0..MaxStarts /\ failures \in 0..MaxFailures

StartInit ==
    /\ phase = "off" /\ configured = {} /\ resolved = {} /\ left = {}
    /\ globalSet = FALSE /\ guildSet = {} /\ connected = FALSE /\ opened = FALSE
    /\ turn = [s \in Talks |-> "none"] /\ activeTurns = {} /\ watched = {} /\ starting = {}
    /\ starts = 0 /\ failures = 0

Goes(from, to) == phase = from /\ phase' = to

-----------------------------------------------------------------------------
(* start (bridge.ts).                                                      *)

\* backend.start loads the state and registers the runners, which are not
\* started; the configuration may be another than last time.
Start ==
    /\ Goes("off", "backend") /\ starts < MaxStarts /\ starts' = starts + 1
    /\ configured' \in SUBSET Guilds /\ resolved' = {} /\ left' = {}
    /\ UNCHANGED <<globalSet, guildSet, connected, opened, turnVars, failures>>
\* connect, and #ensureWorkspaceSession.
BackendStarted ==
    /\ Goes("backend", "login")
    /\ UNCHANGED <<commandVars, connected, opened, turnVars, starts, failures>>
\* The login; startTransportDependentWork opens the backend to notifications.
LoggedIn ==
    /\ Goes("login", "workbench") /\ connected' = TRUE /\ opened' = TRUE
    /\ UNCHANGED <<commandVars, turnVars, starts, failures>>
WorkbenchDone ==
    /\ Goes("workbench", "ready")
    /\ UNCHANGED <<commandVars, connected, opened, turnVars, starts, failures>>
\* #readyClient.
ClientReady ==
    /\ Goes("ready", "lookup")
    /\ UNCHANGED <<commandVars, connected, opened, turnVars, starts, failures>>

\* Mutant: the commands of a guild are set without clearing the global ones.
GlobalStay(found) == "guilds"
\* After #guildIdsForCommandChannels.
AfterLookup(found) == IF found = {} THEN "global" ELSE "clear"
\* A channel that cannot be fetched is left out.
Lookup ==
    /\ phase = "lookup"
    /\ \E found \in SUBSET configured :
         /\ failures + (IF found = configured THEN 0 ELSE 1) <= MaxFailures
         /\ failures' = failures + (IF found = configured THEN 0 ELSE 1)
         /\ resolved' = found /\ left' = found /\ phase' = AfterLookup(found)
    /\ UNCHANGED <<configured, globalSet, guildSet, connected, opened, turnVars, starts>>
\* registerCommands: global commands when no guild is known; otherwise the
\* global ones are removed first, and each guild gets its own.
SetGlobal ==
    /\ Goes("global", "background") /\ globalSet' = TRUE
    /\ UNCHANGED <<configured, resolved, left, guildSet, connected, opened, turnVars, starts, failures>>
ClearGlobal ==
    /\ Goes("clear", "guilds") /\ globalSet' = FALSE
    /\ UNCHANGED <<configured, resolved, left, guildSet, connected, opened, turnVars, starts, failures>>
SetGuild(g) ==
    /\ phase = "guilds" /\ g \in left /\ left' = left \ {g} /\ guildSet' = guildSet \cup {g}
    /\ phase' = IF left' = {} THEN "background" ELSE "guilds"
    /\ UNCHANGED <<configured, resolved, globalSet, connected, opened, turnVars, starts, failures>>
\* startBackgroundWork: the runners outside of the task threads channel start.
StartRunners ==
    /\ Goes("background", "up") /\ starting' = Chats
    /\ UNCHANGED <<commandVars, connected, opened, turn, activeTurns, watched, starts, failures>>
\* A call of Discord fails, or its client is not ready in time; main logs it.
StartFails ==
    /\ phase \in {"login", "workbench", "ready", "global", "clear", "guilds"}
    /\ failures < MaxFailures /\ failures' = failures + 1 /\ phase' = "failed"
    /\ UNCHANGED <<commandVars, connected, opened, turnVars, starts>>

\* stop: the runners drop their timers and what comes in, then the state is
\* saved and the clients are closed.
Stop ==
    /\ Goes("up", "stopping") /\ watched' = {} /\ starting' = {}
    /\ UNCHANGED <<commandVars, connected, opened, turn, activeTurns, starts, failures>>
Down ==
    /\ phase' = "off" /\ connected' = FALSE /\ opened' = FALSE /\ watched' = {} /\ starting' = {}
    /\ UNCHANGED <<commandVars, turn, activeTurns, starts, failures>>
Stopped == phase = "stopping" /\ Down
\* A signal at any time but "up" ends the process, as a crash does.
Killed == phase # "off" /\ Down

-----------------------------------------------------------------------------
(* What happens meanwhile.                                                 *)

Runs == phase # "stopping"
\* A message of a session without a turn starts one, before its runner was started too.
TakeMessage(s) ==
    /\ connected /\ Runs /\ s \notin activeTurns /\ turn[s] # "runs"
    /\ turn' = [turn EXCEPT ![s] = "runs"]
    /\ activeTurns' = activeTurns \cup {s} /\ watched' = watched \cup {s}
    /\ UNCHANGED <<phase, commandVars, connected, opened, starting, starts, failures>>
Completed(s) == activeTurns' = activeTurns \ {s} /\ watched' = watched \ {s}
\* turn/completed is ignored before the transport is there and after the stop.
TurnEnds(s) ==
    /\ turn[s] = "runs" /\ turn' = [turn EXCEPT ![s] = "over"]
    /\ IF opened /\ Runs THEN Completed(s) ELSE UNCHANGED <<activeTurns, watched>>
    /\ UNCHANGED <<phase, commandVars, connected, opened, starting, starts, failures>>
\* The timer of the runner finds the turn's end.
Reconcile(s) ==
    /\ s \in watched /\ turn[s] = "over" /\ Completed(s)
    /\ UNCHANGED <<phase, commandVars, connected, opened, turn, starting, starts, failures>>
\* runner.start reads the turns that are said to be active.
RunnerStarts(s) ==
    /\ s \in starting /\ starting' = starting \ {s}
    /\ IF s \in activeTurns /\ turn[s] = "over" THEN Completed(s)
       ELSE watched' = watched \cup ({s} \cap activeTurns) /\ UNCHANGED activeTurns
    /\ UNCHANGED <<phase, commandVars, connected, opened, turn, starts, failures>>

StartNext ==
    \/ Start \/ BackendStarted \/ LoggedIn \/ WorkbenchDone \/ ClientReady \/ Lookup
    \/ SetGlobal \/ ClearGlobal \/ \E g \in Guilds : SetGuild(g)
    \/ StartRunners \/ StartFails \/ Stop \/ Stopped \/ Killed
    \/ \E s \in Talks : TakeMessage(s) \/ TurnEnds(s) \/ Reconcile(s) \/ RunnerStarts(s)

StartSpec == StartInit /\ [][StartNext]_startVars
-----------------------------------------------------------------------------
(* Properties.                                                             *)

\* Whatever earlier starts left at Discord, a start that found the guilds
\* gives each of them the commands, and none of them shows a command twice.
CommandsAreOffered ==
    phase \in {"background", "up", "stopping"} =>
        IF resolved = {} THEN globalSet ELSE ~globalSet /\ resolved \subseteq guildSet

\* When the bridge is up, a turn that its state calls active is going to be
\* looked at, whenever it began and whatever was not heard of it.  The runners
\* of task threads are not started, so theirs is only after a message.
TurnsAreFollowed ==
    phase = "up" => activeTurns \ TaskThreads \subseteq watched \cup starting

StartIsSound == CommandsAreOffered /\ TurnsAreFollowed
=============================================================================
