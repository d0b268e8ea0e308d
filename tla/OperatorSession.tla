--------------------------- MODULE OperatorSession ---------------------------
(***************************************************************************)
(* The operator session of the workspace: the Discord home channel and the *)
(* Codex main thread behind it, over restarts of the bridge.  start of     *)
(* apps/discord-bridge/src/local-workspace-backend.ts loads the state file *)
(* (state.ts), registers a runner for every session and then finds, takes  *)
(* over or makes the session of the home channel.  Only sessions of the    *)
(* home channel are kept here, and of a tools version only whether it is   *)
(* the one of the running code.  The home channel itself is not changed in *)
(* the configuration.                                                      *)
(***************************************************************************)
EXTENDS Integers, Sequences, FiniteSets, SequencesExt, SequenceTheorems,
        FiniteSetTheorems, WellFoundedInduction, TLAPS

CONSTANTS
    Users,     \* Codex threads that users made, 1..n, without the workspace tools
    MaxMade,   \* bound on the threads that the bridge makes
    MaxRestarts, MaxConfigs, MaxCrashes, MaxLost

VARIABLES
    bridge,      \* "down", "starting", "saving", "up", "clearing"
    sessions,    \* state.sessions with the home channel
    operator,    \* state.workspace: its main thread, and whether its tools are current
    stateFile,   \* the two above as last saved
    homeRunner,  \* the thread of the runner of the home channel
    heardBy,     \* the threads in #runnersByCodexThread
    asking,      \* the request of #ensureWorkspaceSession that is not answered
    mainThreadId,\* the configuration
    homeExists,  \* Discord: the home channel
    made,        \* the app-server: threads that the bridge made
    lost,        \* threads that the app-server does not find any more
    boots, configs, crashes

state == <<sessions, operator>>
runners == <<homeRunner, heardBy>>
budgets == <<boots, configs, crashes>>
outside == <<mainThreadId, homeExists, made, lost>>
vars == <<bridge, state, stateFile, runners, asking, outside, budgets>>

None == 0
Threads == 1..(Cardinality(Users) + MaxMade)
Modes == {"operator", "workspace", "none"}
Session == [thread: Threads, mode: Modes]
Workspace == [main: Threads \cup {None}, tools: BOOLEAN]
NoRequest == [is |-> "none", thread |-> None]

OperatorTypeOK ==
    /\ bridge \in {"down", "starting", "saving", "up", "clearing"}
    /\ sessions \in Seq(Session) /\ operator \in Workspace
    /\ stateFile.sessions \in Seq(Session) /\ stateFile.operator \in Workspace
    /\ homeRunner \in Threads \cup {None} /\ heardBy \subseteq Threads
    /\ asking \in [is: {"none", "existing", "configured", "start"}, thread: Threads \cup {None}]
    /\ mainThreadId \in Threads \cup {None} /\ made \subseteq Threads /\ lost \subseteq Threads

Nothing == [sessions |-> <<>>, operator |-> [main |-> None, tools |-> FALSE]]
\* A file that an older bridge left, with or without the tools of today.
Older(tools) == [sessions |-> <<[thread |-> 1, mode |-> "workspace"]>>,
                 operator |-> [main |-> 1, tools |-> tools]]

OperatorInit ==
    /\ bridge = "down" /\ sessions = <<>> /\ operator = Nothing.operator
    /\ stateFile \in {Nothing, Older(TRUE), Older(FALSE)}
    /\ homeRunner = None /\ heardBy = {} /\ asking = NoRequest
    /\ mainThreadId = None /\ homeExists = TRUE /\ made = {} /\ lost = {}
    /\ boots = 0 /\ configs = 0 /\ crashes = 0

-----------------------------------------------------------------------------
(* The state file (state.ts).                                              *)

\* Mutant: a mode that the parser does not know becomes that of a new session.
NewByDefault(mode) == IF mode = "operator" THEN "new" ELSE mode
\* A mode that the parser does not know is dropped; it does not know "operator".
ParsedMode(mode) == IF mode = "operator" THEN "none" ELSE mode
Loaded(list) == [i \in DOMAIN list |-> [list[i] EXCEPT !.mode = ParsedMode(@)]]

-----------------------------------------------------------------------------
(* The session of the home channel.                                        *)

\* #workspaceSession: the index of the session it finds, or 0.
Found(list, ws) ==
    LET expected == IF mainThreadId # None THEN mainThreadId ELSE ws.main
        fits == {i \in DOMAIN list : list[i].mode \in {"operator", "workspace"}
                                     /\ expected \in {None, list[i].thread}}
    IN IF fits = {} THEN 0 ELSE CHOOSE i \in fits : \A j \in fits : i <= j

\* The runners after start has registered the loaded sessions: the first has
\* the channel, and the others get none.
FirstThread(list) == IF list = <<>> THEN None ELSE list[1].thread

\* Mutant: only the configuration names a main thread.
ConfiguredOnly(ws) == mainThreadId
\* The thread that is resumed when no session is taken over.
Configured(ws) ==
    IF mainThreadId # None THEN mainThreadId ELSE IF ws.tools THEN ws.main ELSE None

\* What #ensureWorkspaceSession asks of the app-server for this state.
FirstRequest(list, ws) ==
    LET i == Found(list, ws) IN
    IF i # 0 /\ (mainThreadId # None \/ ws.tools)
    THEN [is |-> "existing", thread |-> list[i].thread]
    ELSE IF Configured(ws) # None THEN [is |-> "configured", thread |-> Configured(ws)]
    ELSE [is |-> "start", thread |-> None]

\* A session that is not taken over leaves the state and its runners.
Dropped(list, i) == IF i = 0 THEN list ELSE RemoveAt(list, i)
RunnersWithout(list, i, first) ==
    IF i = 0 THEN homeRunner' = first /\ heardBy' = {first} \ {None}
    ELSE homeRunner' = None /\ heardBy' = {first} \ {None, list[i].thread}

\* start: load, one runner for each channel, and the first request.
Start ==
    /\ bridge = "down" /\ boots < MaxRestarts /\ boots' = boots + 1
    /\ LET list == Loaded(stateFile.sessions)
           ws == stateFile.operator
           request == FirstRequest(list, ws)
           gone == IF request.is = "existing" THEN 0 ELSE Found(list, ws)
       IN /\ asking' = request /\ operator' = ws
          /\ sessions' = Dropped(list, gone)
          /\ RunnersWithout(list, gone, FirstThread(list))
    /\ bridge' = "starting"
    /\ UNCHANGED <<stateFile, outside, configs, crashes>>

\* #registerRunner: a channel that has a runner keeps it.
Register(thread, home, heard) ==
    IF home # None THEN homeRunner' = home /\ heardBy' = heard
    ELSE homeRunner' = thread /\ heardBy' = heard \cup {thread}

\* A session for a thread that no session was found for.
AddSession(thread, tools) ==
    /\ sessions' = Append(sessions, [thread |-> thread, mode |-> "operator"])
    /\ operator' = [main |-> thread, tools |-> tools]
    /\ Register(thread, homeRunner, heardBy)
    /\ asking' = NoRequest /\ bridge' = "saving"

\* The thread of the session that was found is resumed: the session is kept,
\* with a runner of its own.
ResumedExisting ==
    /\ asking.is = "existing" /\ asking.thread \notin lost
    /\ sessions' = [sessions EXCEPT ![Found(sessions, operator)].mode = "operator"]
    /\ operator' = [operator EXCEPT !.main = asking.thread]
    /\ Register(asking.thread, None, heardBy \ {asking.thread})
    /\ asking' = NoRequest /\ bridge' = "saving"
    /\ UNCHANGED <<stateFile, outside, budgets>>

ResumedConfigured ==
    /\ asking.is = "configured" /\ asking.thread \notin lost
    /\ AddSession(asking.thread, operator.tools)
    /\ UNCHANGED <<stateFile, outside, budgets>>

\* start throws, and the process ends.
Down ==
    /\ bridge' = "down" /\ sessions' = <<>> /\ operator' = Nothing.operator
    /\ homeRunner' = None /\ heardBy' = {} /\ asking' = NoRequest

ResumeFails ==
    /\ asking.thread \in lost
    /\ IF asking.is = "existing" /\ mainThreadId = None
       THEN /\ sessions' = RemoveAt(sessions, Found(sessions, operator))
            /\ homeRunner' = None /\ heardBy' = heardBy \ {asking.thread}
            /\ asking' = [is |-> "start", thread |-> None]
            /\ UNCHANGED <<bridge, operator>>
       ELSE Down
    /\ UNCHANGED <<stateFile, outside, budgets>>

\* A new thread, with the tools.
ThreadStarted ==
    /\ asking.is = "start" /\ Cardinality(made) < MaxMade
    /\ LET t == Cardinality(Users) + Cardinality(made) + 1
       IN made' = made \cup {t} /\ AddSession(t, TRUE)
    /\ UNCHANGED <<stateFile, mainThreadId, homeExists, lost, budgets>>

Save ==
    /\ bridge = "saving" /\ bridge' = "up"
    /\ stateFile' = [sessions |-> sessions, operator |-> operator]
    /\ UNCHANGED <<state, runners, asking, outside, budgets>>

-----------------------------------------------------------------------------
(* /clear in the home channel.                                             *)

\* The sessions of the home channel have no guild, so they are in scope; those
\* whose thread runs a turn stay.  The first to be deleted takes the channel
\* with it, and deleting it for another session fails.
ClearDeletes(running) ==
    LET idle == SelectSeq(sessions, LAMBDA s : s.thread \notin running) IN
    /\ bridge = "up" /\ homeExists /\ running \subseteq {homeRunner} /\ idle # <<>>
    /\ homeExists' = FALSE /\ homeRunner' = None
    /\ heardBy' = heardBy \ {idle[1].thread}
    /\ bridge' = "clearing"
    /\ UNCHANGED <<state, stateFile, asking, mainThreadId, made, lost, budgets>>

ClearSaves ==
    /\ bridge = "clearing" /\ bridge' = "up"
    /\ sessions' = <<>> /\ stateFile' = [sessions |-> <<>>, operator |-> operator]
    /\ UNCHANGED <<operator, runners, asking, outside, budgets>>

-----------------------------------------------------------------------------
(* The world.                                                              *)

Stop == bridge = "up" /\ Down /\ UNCHANGED <<stateFile, outside, budgets>>

\* The process dies, or the new thread cannot be given its name.
Crash ==
    /\ bridge \in {"starting", "saving", "clearing"} /\ crashes < MaxCrashes
    /\ crashes' = crashes + 1 /\ Down
    /\ made' \in {made} \cup
         IF asking.is = "start" /\ Cardinality(made) < MaxMade
         THEN {made \cup {Cardinality(Users) + Cardinality(made) + 1}} ELSE {}
    /\ UNCHANGED <<stateFile, mainThreadId, homeExists, lost, boots, configs>>

Configure(thread) ==
    /\ bridge = "down" /\ configs < MaxConfigs /\ configs' = configs + 1
    /\ thread \in Users \cup made \cup {None} /\ mainThreadId' = thread
    /\ UNCHANGED <<bridge, state, stateFile, runners, asking, homeExists, made, lost, boots, crashes>>

LoseThread(thread) ==
    /\ thread \in (Users \cup made) \ lost /\ Cardinality(lost) < MaxLost
    /\ lost' = lost \cup {thread}
    /\ UNCHANGED <<bridge, state, stateFile, runners, asking, mainThreadId, homeExists, made, budgets>>

OperatorNext ==
    \/ Start \/ ResumedExisting \/ ResumedConfigured \/ ResumeFails \/ ThreadStarted \/ Save
    \/ \E running \in {{}, {homeRunner}} : ClearDeletes(running)
    \/ ClearSaves \/ Stop \/ Crash
    \/ \E t \in Threads \cup {None} : Configure(t) \/ LoseThread(t)

OperatorSpec == OperatorInit /\ [][OperatorNext]_vars
-----------------------------------------------------------------------------
(* Properties.                                                             *)

\* The operator's memory is one thread: what is saved as the main thread is
\* only given up for one that the user configured, for tools that the old one
\* does not have, or because the app-server has lost it.
MemoryIsKept ==
    [][LET old == stateFile.operator
           new == stateFile'.operator
       IN old.main # None /\ new.main # old.main =>
            \/ new.main = mainThreadId
            \/ mainThreadId = None /\ ~old.tools
            \/ mainThreadId = None /\ old.main \in lost]_vars

\* No restart makes a thread of its own accord: there is the first one with
\* tools, and every other is paid for by a lost thread or a crash.
RestartsMakeNoThread == Cardinality(made) <= 1 + Cardinality(lost) + crashes

\* A running bridge sends what is written in the home channel to the thread it
\* holds for the main one (docs/pages/reference/discord-bridge.md:66-69).
MessagesGoToMain ==
    bridge = "up" /\ homeRunner # None => homeRunner = operator.main
-----------------------------------------------------------------------------
(* The proof, for every bound and every number of threads that users made. *)

\* The threads of users are numbered from 1, and those of the bridge after them.
HomeBounds == MaxMade \in Nat /\ \E n \in Nat \ {0} : Users = 1..n

ToolsOf(ws) == IF ws.tools THEN 1 ELSE 0
\* Every thread that was made, but the first one with tools, is paid for.
Paid(ws) == Cardinality(made) <= ToolsOf(ws) + Cardinality(lost \ {ws.main}) + crashes

\* What MemoryIsKept asks of a main thread that is to be saved.
MayFollow(thread) ==
    LET old == stateFile.operator
    IN old.main # 0 /\ thread # old.main =>
         thread = mainThreadId \/ (mainThreadId = 0 /\ (~old.tools \/ old.main \in lost))

\* What a start asks for is what the saved main thread, or the configuration, names.
HomeMemory ==
    /\ stateFile.operator.tools => stateFile.operator.main # 0
    /\ operator.tools => operator.main # 0
    /\ asking.is # "none" => bridge = "starting"
    /\ asking.is \in {"none", "start"} => asking.thread = 0
    /\ bridge \in {"starting", "up", "clearing"} => operator = stateFile.operator
    /\ bridge = "saving" => MayFollow(operator.main)
    /\ asking.is \in {"existing", "configured"} => asking.thread # 0 /\ MayFollow(asking.thread)
    /\ asking.is = "existing" /\ mainThreadId = 0 => operator.tools /\ asking.thread = operator.main
    /\ asking.is = "start" => mainThreadId = 0 /\ (~operator.tools \/ operator.main \in lost)

HomeThreads ==
    /\ crashes \in Nat
    /\ made = (Cardinality(Users) + 1)..(Cardinality(Users) + Cardinality(made))
    /\ lost \subseteq Users \cup made

\* A thread that is not saved yet is paid for by the crash that would lose it.
HomePaid ==
    IF bridge = "saving"
    THEN /\ Paid(operator)
         /\ Cardinality(made) <= 1 + ToolsOf(stateFile.operator) + Cardinality(lost \ {stateFile.operator.main}) + crashes
    ELSE Paid(stateFile.operator)

HomeInv == OperatorTypeOK /\ HomeMemory /\ HomeThreads /\ HomePaid

LEMMA HomeNumbers ==
    ASSUME HomeBounds
    PROVE  /\ Cardinality(Users) \in Nat \ {0} /\ IsFiniteSet(Users) /\ Users = 1..Cardinality(Users)
           /\ Threads = 1..(Cardinality(Users) + MaxMade) /\ MaxMade \in Nat
<1>1. PICK n \in Nat \ {0} : Users = 1..n
  BY DEF HomeBounds
<1>2. IsFiniteSet(1..n) /\ Cardinality(1..n) = n
  BY <1>1, FS_Interval
<1>3. Cardinality(Users) = n /\ IsFiniteSet(Users) /\ MaxMade \in Nat
  BY <1>1, <1>2 DEF HomeBounds
<1>4. Threads = 1..(Cardinality(Users) + MaxMade)
  BY DEF Threads
<1> QED
  BY <1>1, <1>3, <1>4

LEMMA HomeSets ==
    ASSUME HomeBounds, OperatorTypeOK
    PROVE  /\ IsFiniteSet(made) /\ IsFiniteSet(lost) /\ Cardinality(made) \in Nat
           /\ \A x : IsFiniteSet(lost \ {x}) /\ Cardinality(lost \ {x}) \in Nat
           /\ \A x : x \notin lost => lost \ {x} = lost
           /\ \A x : x \in lost => Cardinality(lost \ {x}) = Cardinality(lost) - 1
           /\ \A x : Cardinality(lost \ {x}) <= Cardinality(lost)
           /\ Cardinality(lost) \in Nat
<1>1. IsFiniteSet(Threads)
  BY HomeNumbers, FS_Interval
<1>2. made \in SUBSET Threads /\ lost \in SUBSET Threads
  BY DEF OperatorTypeOK
<1>3. IsFiniteSet(made) /\ IsFiniteSet(lost)
  BY <1>1, <1>2, FS_Subset
<1>4. Cardinality(made) \in Nat /\ Cardinality(lost) \in Nat
  BY <1>3, FS_CardinalityType
<1>5. ASSUME NEW x
      PROVE  /\ IsFiniteSet(lost \ {x}) /\ Cardinality(lost \ {x}) \in Nat
             /\ x \notin lost => lost \ {x} = lost
             /\ x \in lost => Cardinality(lost \ {x}) = Cardinality(lost) - 1
             /\ Cardinality(lost \ {x}) <= Cardinality(lost)
  <2>1. /\ IsFiniteSet(lost \ {x})
        /\ Cardinality(lost \ {x}) = IF x \in lost THEN Cardinality(lost) - 1 ELSE Cardinality(lost)
    BY <1>3, FS_RemoveElement
  <2>2. Cardinality(lost \ {x}) \in Nat
    BY <2>1, FS_CardinalityType
  <2>3. x \notin lost => lost \ {x} = lost
    OBVIOUS
  <2> QED
    BY <1>4, <2>1, <2>2, <2>3
<1> QED
  BY <1>3, <1>4, <1>5

LEMMA HomeFiles ==
    ASSUME HomeBounds, OperatorTypeOK
    PROVE  /\ DOMAIN operator = {"main", "tools"} /\ operator.main \in Threads \cup {0} /\ operator.tools \in BOOLEAN
           /\ DOMAIN stateFile.operator = {"main", "tools"} /\ stateFile.operator.tools \in BOOLEAN
           /\ stateFile.operator.main \in Threads \cup {0}
           /\ operator \in Workspace /\ stateFile.operator \in Workspace
           /\ sessions \in Seq(Session) /\ stateFile.sessions \in Seq(Session)
           /\ asking.thread \in Threads \cup {0} /\ DOMAIN asking = {"is", "thread"}
  BY DEF OperatorTypeOK, Workspace, None

LEMMA HomeStart == HomeBounds /\ OperatorInit => HomeInv
<1> SUFFICES ASSUME HomeBounds, OperatorInit PROVE HomeInv
  OBVIOUS
<1>1. /\ bridge = "down" /\ sessions = <<>> /\ operator = [main |-> 0, tools |-> FALSE]
      /\ \/ stateFile = [sessions |-> <<>>, operator |-> [main |-> 0, tools |-> FALSE]]
         \/ \E tools \in BOOLEAN : stateFile = [sessions |-> <<[thread |-> 1, mode |-> "workspace"]>>, operator |-> [main |-> 1, tools |-> tools]]
      /\ homeRunner = 0 /\ heardBy = {} /\ asking = [is |-> "none", thread |-> 0]
      /\ mainThreadId = 0 /\ made = {} /\ lost = {} /\ crashes = 0
  BY DEF OperatorInit, Nothing, Older, NoRequest, None
<1>2. 1 \in Threads
  BY HomeNumbers
<1>3. stateFile.sessions \in Seq(Session) /\ stateFile.operator \in Workspace
  <2>1. [thread |-> 1, mode |-> "workspace"] \in Session
    BY <1>2 DEF Session, Modes
  <2>2. <<[thread |-> 1, mode |-> "workspace"]>> \in Seq(Session)
    BY <2>1
  <2>3. <<>> \in Seq(Session)
    OBVIOUS
  <2>4. \A m \in {0, 1}, tools \in BOOLEAN : [main |-> m, tools |-> tools] \in Workspace
    BY <1>2 DEF Workspace, None
  <2>5. CASE stateFile = [sessions |-> <<>>, operator |-> [main |-> 0, tools |-> FALSE]]
    <3>1. stateFile.sessions = <<>> /\ stateFile.operator = [main |-> 0, tools |-> FALSE]
      BY <2>5
    <3> QED
      BY <2>3, <2>4, <3>1
  <2>6. ASSUME NEW tools \in BOOLEAN,
               stateFile = [sessions |-> <<[thread |-> 1, mode |-> "workspace"]>>, operator |-> [main |-> 1, tools |-> tools]]
        PROVE  stateFile.sessions \in Seq(Session) /\ stateFile.operator \in Workspace
    <3>1. stateFile.sessions = <<[thread |-> 1, mode |-> "workspace"]>> /\ stateFile.operator = [main |-> 1, tools |-> tools]
      BY <2>6
    <3> QED
      BY <2>2, <2>4, <3>1
  <2> QED
    BY <1>1, <2>5, <2>6
<1>4. OperatorTypeOK
  <2>1. operator \in Workspace
    BY <1>1 DEF Workspace, None
  <2>2. sessions \in Seq(Session)
    BY <1>1
  <2> QED
    BY <1>1, <1>3, <2>1, <2>2 DEF OperatorTypeOK, None
<1>5. HomeMemory
  BY <1>1 DEF HomeMemory
<1>6. Cardinality(made) = 0 /\ \A x : Cardinality(lost \ {x}) = 0
  BY <1>1, FS_EmptySet
<1>7. HomeThreads
  BY <1>1, <1>6, HomeNumbers DEF HomeThreads
<1>8. HomePaid
  BY <1>1, <1>6 DEF HomePaid, Paid, ToolsOf
<1> QED
  BY <1>4, <1>5, <1>7, <1>8 DEF HomeInv

\* The session that #workspaceSession finds is in the list, and the one expected.
LEMMA FoundIsExpected ==
    ASSUME NEW list \in Seq(Session), NEW ws, NEW i, i = Found(list, ws),
           NEW expected, expected = IF mainThreadId # 0 THEN mainThreadId ELSE ws.main
    PROVE  /\ i \in 0..Len(list)
           /\ i # 0 => list[i] \in Session /\ expected \in {0, list[i].thread}
<1> DEFINE fits == {j \in DOMAIN list : list[j].mode \in {"operator", "workspace"} /\ expected \in {0, list[j].thread}}
<1>1. i = IF fits = {} THEN 0 ELSE CHOOSE j \in fits : \A k \in fits : j <= k
  BY DEF Found, None
<1>2. fits \subseteq Nat
  OBVIOUS
<1>3. CASE fits = {}
  BY <1>1, <1>3
<1>4. CASE fits # {}
  <2>1. PICK j \in fits : \A k \in fits : ~(k < j)
    <3>1. PICK j \in fits : \A k \in fits : ~(<<k, j>> \in OpToRel(<, Nat))
      BY <1>2, <1>4, NatLessThanWellFounded, WFMin
    <3> QED
      BY <1>2, <3>1 DEF OpToRel
  <2>2. \A k \in fits : j <= k
    BY <1>2, <2>1
  <2>3. i \in fits
    BY <1>1, <1>4, <2>2
  <2> QED
    BY <2>3
<1> QED
  BY <1>3, <1>4

LEMMA HomeListsAreTyped ==
    ASSUME NEW list \in Seq(Session)
    PROVE  /\ Loaded(list) \in Seq(Session)
           /\ \A i \in 0..Len(list) : RemoveAt(list, i) \in Seq(Session)
           /\ \A i : [list EXCEPT ![i].mode = "operator"] \in Seq(Session)
<1>0. ASSUME NEW r \in Session, NEW m \in Modes
      PROVE  [r EXCEPT !.mode = m] \in Session
  BY DEF Session
<1>1. Loaded(list) \in Seq(Session)
  <2>1. \A i \in 1..Len(list) : [list[i] EXCEPT !.mode = ParsedMode(@)] \in Session
    <3> SUFFICES ASSUME NEW i \in 1..Len(list)
                 PROVE  [list[i] EXCEPT !.mode = ParsedMode(@)] \in Session
      OBVIOUS
    <3>1. list[i] \in Session
      OBVIOUS
    <3>2. ParsedMode(list[i].mode) \in Modes
      BY <3>1 DEF Session, Modes, ParsedMode
    <3> QED
      BY <1>0, <3>1, <3>2
  <2>2. Loaded(list) = [i \in 1..Len(list) |-> [list[i] EXCEPT !.mode = ParsedMode(@)]]
    BY DEF Loaded
  <2> QED
    BY <2>1, <2>2
<1>2. ASSUME NEW i \in 0..Len(list) PROVE RemoveAt(list, i) \in Seq(Session)
  <2>1. SubSeq(list, 1, i - 1) \in Seq(Session) /\ SubSeq(list, i + 1, Len(list)) \in Seq(Session)
    BY SubSeqProperties
  <2> QED
    BY <2>1 DEF RemoveAt
<1>3. ASSUME NEW i PROVE [list EXCEPT ![i].mode = "operator"] \in Seq(Session)
  <2> DEFINE new == [list EXCEPT ![i].mode = "operator"]
  <2>1. "operator" \in Modes
    BY DEF Modes
  <2>2. new = [j \in 1..Len(list) |-> IF j = i THEN [list[j] EXCEPT !.mode = "operator"] ELSE list[j]]
    OBVIOUS
  <2> HIDE DEF new
  <2>3. ASSUME NEW j \in 1..Len(list) PROVE new[j] \in Session
    <3>1. list[j] \in Session
      OBVIOUS
    <3>2. [list[j] EXCEPT !.mode = "operator"] \in Session
      BY <1>0, <2>1, <3>1
    <3>3. new[j] \in {list[j], [list[j] EXCEPT !.mode = "operator"]}
      BY <2>2
    <3> QED
      BY <3>1, <3>2, <3>3
  <2>4. Len(list) \in Nat /\ new = [j \in 1..Len(list) |-> new[j]]
    BY <2>2
  <2>5. new \in Seq(Session)
    BY <2>3, <2>4
  <2> QED
    BY <2>5 DEF new
<1> QED
  BY <1>1, <1>2, <1>3

\* What start makes of the file it has loaded.
LEMMA FirstRequestIsExpected ==
    ASSUME HomeBounds, HomeInv, NEW list \in Seq(Session), NEW request,
           request = FirstRequest(list, stateFile.operator)
    PROVE  /\ DOMAIN request = {"is", "thread"} /\ request.is \in {"existing", "configured", "start"}
           /\ request.thread \in Threads \cup {0}
           /\ request \in [is: {"none", "existing", "configured", "start"}, thread: Threads \cup {None}]
           /\ request.is # "start" => request.thread # 0 /\ MayFollow(request.thread)
           /\ request.is = "existing" /\ mainThreadId = 0 =>
                stateFile.operator.tools /\ request.thread = stateFile.operator.main
           /\ request.is = "start" => request.thread = 0 /\ mainThreadId = 0 /\ ~stateFile.operator.tools
<1> DEFINE ws == stateFile.operator
           i == Found(list, ws)
           expected == IF mainThreadId # 0 THEN mainThreadId ELSE ws.main
<1>1. /\ OperatorTypeOK /\ HomeMemory
      /\ mainThreadId \in Threads \cup {0} /\ ws.main \in Threads \cup {0} /\ ws.tools \in BOOLEAN
      /\ 0 \notin Threads
  BY HomeFiles, HomeNumbers DEF HomeInv, OperatorTypeOK, None
<1>2. i # 0 => list[i] \in Session /\ expected \in {0, list[i].thread}
  BY FoundIsExpected
<1>3. i # 0 => list[i].thread \in Threads /\ expected \in {0, list[i].thread}
  BY <1>2 DEF Session
<1>4. ws.tools => ws.main # 0
  BY <1>1 DEF HomeMemory
<1>5. Configured(ws) = IF mainThreadId # 0 THEN mainThreadId ELSE IF ws.tools THEN ws.main ELSE 0
  BY DEF Configured, None
<1>6. request = IF i # 0 /\ (mainThreadId # 0 \/ ws.tools) THEN [is |-> "existing", thread |-> list[i].thread]
                ELSE IF Configured(ws) # 0 THEN [is |-> "configured", thread |-> Configured(ws)]
                ELSE [is |-> "start", thread |-> 0]
  BY DEF FirstRequest, None
<1>7. CASE i # 0 /\ (mainThreadId # 0 \/ ws.tools)
  <2>1. request = [is |-> "existing", thread |-> list[i].thread] /\ list[i].thread \in Threads
    BY <1>3, <1>6, <1>7
  <2>2. list[i].thread = expected
    BY <1>3, <1>4, <1>7
  <2>3. expected = mainThreadId \/ (mainThreadId = 0 /\ expected = ws.main /\ ws.tools)
    BY <1>7
  <2> HIDE DEF i, expected, ws
  <2>4. MayFollow(request.thread)
    BY <2>1, <2>2, <2>3 DEF MayFollow, ws
  <2> QED
    BY <1>1, <2>1, <2>2, <2>3, <2>4 DEF ws, expected, None
<1>8. CASE ~(i # 0 /\ (mainThreadId # 0 \/ ws.tools)) /\ Configured(ws) # 0
  <2>1. request = [is |-> "configured", thread |-> Configured(ws)]
    BY <1>6, <1>8
  <2>2. Configured(ws) \in Threads \cup {0}
    BY <1>1, <1>5
  <2> HIDE DEF i, expected
  <2>3. MayFollow(request.thread)
    BY <1>5, <1>8, <2>1 DEF MayFollow
  <2> QED
    BY <1>8, <2>1, <2>2, <2>3 DEF None
<1>9. CASE ~(i # 0 /\ (mainThreadId # 0 \/ ws.tools)) /\ Configured(ws) = 0
  <2>1. request = [is |-> "start", thread |-> 0]
    BY <1>6, <1>9
  <2>2. mainThreadId = 0 /\ ~ws.tools
    BY <1>4, <1>5, <1>9
  <2> HIDE DEF i, expected
  <2> QED
    BY <2>1, <2>2 DEF None
<1> QED
  BY <1>7, <1>8, <1>9

LEMMA HomeStarts ==
    ASSUME HomeBounds, HomeInv, Start
    PROVE  HomeInv'
<1> DEFINE list == Loaded(stateFile.sessions)
           request == FirstRequest(list, stateFile.operator)
           gone == IF request.is = "existing" THEN 0 ELSE Found(list, stateFile.operator)
<1>1. /\ bridge = "down" /\ bridge' = "starting" /\ operator' = stateFile.operator /\ asking' = request
      /\ sessions' = Dropped(list, gone)
      /\ RunnersWithout(list, gone, FirstThread(list))
      /\ UNCHANGED <<stateFile, mainThreadId, homeExists, made, lost, crashes>>
  BY DEF Start, outside
<1>2. OperatorTypeOK /\ HomeMemory /\ HomeThreads /\ HomePaid
  BY DEF HomeInv
<1>3. list \in Seq(Session)
  BY <1>2, HomeFiles, HomeListsAreTyped
<1>4. gone \in 0..Len(list)
  BY <1>3, FoundIsExpected
<1> HIDE DEF list, gone
<1>5. sessions' \in Seq(Session)
  <2>1. CASE gone = 0
    BY <1>1, <1>3, <2>1 DEF Dropped
  <2>2. CASE gone # 0
    BY <1>1, <1>3, <1>4, <2>2, HomeListsAreTyped DEF Dropped
  <2> QED
    BY <2>1, <2>2
<1>6. homeRunner' \in Threads \cup {0} /\ heardBy' \subseteq Threads
  <2>1. FirstThread(list) \in Threads \cup {0}
    <3>1. CASE list = <<>>
      BY <3>1 DEF FirstThread, None
    <3>2. CASE list # <<>>
      <4>1. list[1] \in Session
        BY <1>3, <3>2
      <4> QED
        BY <3>2, <4>1 DEF FirstThread, Session
    <3> QED
      BY <3>1, <3>2
  <2> QED
    BY <1>1, <2>1 DEF RunnersWithout, None
<1>7. /\ request.is \in {"existing", "configured", "start"}
      /\ request \in [is: {"none", "existing", "configured", "start"}, thread: Threads \cup {None}]
      /\ request.is # "start" => request.thread # 0 /\ MayFollow(request.thread)
      /\ request.is = "existing" /\ mainThreadId = 0 =>
           stateFile.operator.tools /\ request.thread = stateFile.operator.main
      /\ request.is = "start" => request.thread = 0 /\ mainThreadId = 0 /\ ~stateFile.operator.tools
  BY <1>3, FirstRequestIsExpected
<1> HIDE DEF request
<1>8. OperatorTypeOK'
  BY <1>1, <1>2, <1>5, <1>6, <1>7 DEF OperatorTypeOK, None
<1>9. \A t : MayFollow(t)' <=> MayFollow(t)
  BY <1>1 DEF MayFollow
<1>10. HomeMemory'
  BY <1>1, <1>2, <1>7, <1>9 DEF HomeMemory
<1>11. HomeThreads' /\ HomePaid'
  BY <1>1, <1>2 DEF HomeThreads, HomePaid, Paid, ToolsOf
<1> QED
  BY <1>8, <1>10, <1>11 DEF HomeInv

LEMMA RegisteredIsTyped ==
    ASSUME NEW thread \in Threads, NEW home \in Threads \cup {0},
           NEW heard \in SUBSET Threads, Register(thread, home, heard)
    PROVE  homeRunner' \in Threads \cup {0} /\ heardBy' \subseteq Threads
  BY DEF Register

\* A session that is taken over or made: the state is typed, and its main thread known.
LEMMA SessionIsAdded ==
    ASSUME HomeBounds, HomeInv, NEW thread \in Threads, NEW tools \in BOOLEAN,
           AddSession(thread, tools)
    PROVE  /\ sessions' \in Seq(Session)
           /\ operator' = [main |-> thread, tools |-> tools] /\ operator' \in Workspace
           /\ homeRunner' \in Threads \cup {0} /\ heardBy' \subseteq Threads
           /\ asking' = [is |-> "none", thread |-> 0] /\ bridge' = "saving"
<1>1. /\ sessions' = Append(sessions, [thread |-> thread, mode |-> "operator"])
      /\ operator' = [main |-> thread, tools |-> tools]
      /\ Register(thread, homeRunner, heardBy)
      /\ asking' = [is |-> "none", thread |-> 0] /\ bridge' = "saving"
  BY DEF AddSession, NoRequest, None
<1>2. /\ sessions \in Seq(Session)
      /\ homeRunner \in Threads \cup {0} /\ heardBy \in SUBSET Threads
  BY DEF HomeInv, OperatorTypeOK, None
<1>3. [thread |-> thread, mode |-> "operator"] \in Session
  BY DEF Session, Modes
<1>4. sessions' \in Seq(Session)
  BY <1>1, <1>2, <1>3
<1>5. operator' \in Workspace
  BY <1>1 DEF Workspace
<1>6. homeRunner' \in Threads \cup {0} /\ heardBy' \subseteq Threads
  BY <1>1, <1>2, RegisteredIsTyped
<1> QED
  BY <1>1, <1>4, <1>5, <1>6

\* Whatever thread is resumed is not lost, so it is paid for as the old one was.
LEMMA ResumedIsPaid ==
    ASSUME HomeBounds, HomeInv, bridge = "starting", NEW thread \in Threads, thread \notin lost,
           operator' = [main |-> thread, tools |-> operator.tools], bridge' = "saving",
           UNCHANGED <<stateFile, made, lost, crashes>>
    PROVE  HomePaid'
<1>1. OperatorTypeOK /\ HomeMemory /\ HomeThreads /\ HomePaid
  BY DEF HomeInv
<1>2. operator = stateFile.operator /\ Paid(operator) /\ operator.tools \in BOOLEAN /\ crashes \in Nat
  BY <1>1, HomeFiles DEF HomeMemory, HomePaid, HomeThreads
<1>3. Cardinality(lost \ {thread}) = Cardinality(lost) /\ Cardinality(lost \ {operator.main}) <= Cardinality(lost)
  BY <1>1, HomeSets
<1>4. Cardinality(made) \in Nat /\ Cardinality(lost) \in Nat /\ Cardinality(lost \ {operator.main}) \in Nat
  BY <1>1, HomeSets
<1>5. ToolsOf(operator) \in {0, 1} /\ ToolsOf(operator') = ToolsOf(operator)
  BY <1>2 DEF ToolsOf
<1>6. operator'.main = thread
  OBVIOUS
<1>7. Cardinality(made) <= ToolsOf(operator) + Cardinality(lost \ {operator.main}) + crashes
  BY <1>2 DEF Paid
<1>8. Cardinality(made) <= ToolsOf(operator) + Cardinality(lost) + crashes
  BY <1>2, <1>3, <1>4, <1>5, <1>7
<1>9. Paid(operator)'
  BY <1>3, <1>5, <1>6, <1>8 DEF Paid
<1>10. Cardinality(made) <= 1 + ToolsOf(operator) + Cardinality(lost \ {operator.main}) + crashes
  BY <1>2, <1>4, <1>5, <1>7
<1>11. (Cardinality(made) <= 1 + ToolsOf(stateFile.operator) + Cardinality(lost \ {stateFile.operator.main}) + crashes)'
  BY <1>2, <1>10 DEF ToolsOf
<1> QED
  BY <1>9, <1>11 DEF HomePaid

LEMMA ExistingIsResumed ==
    ASSUME HomeBounds, HomeInv, ResumedExisting
    PROVE  HomeInv'
<1>1. OperatorTypeOK /\ HomeMemory /\ HomeThreads /\ HomePaid
  BY DEF HomeInv
<1>2. /\ asking.is = "existing" /\ asking.thread \notin lost
      /\ sessions' = [sessions EXCEPT ![Found(sessions, operator)].mode = "operator"]
      /\ operator' = [operator EXCEPT !.main = asking.thread]
      /\ Register(asking.thread, 0, heardBy \ {asking.thread})
      /\ asking' = [is |-> "none", thread |-> 0] /\ bridge' = "saving"
      /\ UNCHANGED <<stateFile, mainThreadId, homeExists, made, lost, crashes>>
  BY DEF ResumedExisting, NoRequest, None, outside, budgets
<1>3. /\ bridge = "starting" /\ asking.thread \in Threads /\ MayFollow(asking.thread)
      /\ operator = stateFile.operator /\ asking.thread # 0
      /\ sessions \in Seq(Session) /\ heardBy \subseteq Threads
      /\ DOMAIN operator = {"main", "tools"} /\ operator.tools \in BOOLEAN
  BY <1>1, <1>2, HomeFiles DEF HomeMemory, OperatorTypeOK
<1>4. operator' = [main |-> asking.thread, tools |-> operator.tools]
  BY <1>1, <1>2, HomeFiles DEF Workspace
<1>5. operator' \in Workspace
  BY <1>3, <1>4 DEF Workspace
<1>6. sessions' \in Seq(Session)
  BY <1>2, <1>3, HomeListsAreTyped
<1>7. homeRunner' \in Threads \cup {0} /\ heardBy' \subseteq Threads
  BY <1>2, <1>3 DEF Register
<1>8. asking' \in [is: {"none", "existing", "configured", "start"}, thread: Threads \cup {None}]
  BY <1>2 DEF None
<1>9. OperatorTypeOK'
  BY <1>1, <1>2, <1>5, <1>6, <1>7, <1>8 DEF OperatorTypeOK, None
<1>10. MayFollow(operator.main)'
  BY <1>2, <1>3, <1>4 DEF MayFollow
<1>11. HomeMemory'
  BY <1>1, <1>2, <1>3, <1>4, <1>10 DEF HomeMemory
<1>12. HomeThreads'
  BY <1>1, <1>2 DEF HomeThreads
<1>13. HomePaid'
  BY <1>2, <1>3, <1>4, ResumedIsPaid
<1> QED
  BY <1>9, <1>11, <1>12, <1>13 DEF HomeInv

LEMMA ConfiguredIsResumed ==
    ASSUME HomeBounds, HomeInv, ResumedConfigured
    PROVE  HomeInv'
<1>1. OperatorTypeOK /\ HomeMemory /\ HomeThreads /\ HomePaid
  BY DEF HomeInv
<1>2. /\ asking.is = "configured" /\ asking.thread \notin lost
      /\ AddSession(asking.thread, operator.tools)
      /\ UNCHANGED <<stateFile, mainThreadId, homeExists, made, lost, crashes>>
  BY DEF ResumedConfigured, outside, budgets
<1>3. /\ bridge = "starting" /\ asking.thread \in Threads /\ MayFollow(asking.thread)
      /\ operator = stateFile.operator /\ asking.thread # 0 /\ operator.tools \in BOOLEAN
  BY <1>1, <1>2, HomeFiles DEF HomeMemory
<1>4. /\ sessions' \in Seq(Session)
      /\ operator' = [main |-> asking.thread, tools |-> operator.tools] /\ operator' \in Workspace
      /\ homeRunner' \in Threads \cup {0} /\ heardBy' \subseteq Threads
      /\ asking' = [is |-> "none", thread |-> 0] /\ bridge' = "saving"
  BY <1>2, <1>3, SessionIsAdded
<1>5. asking' \in [is: {"none", "existing", "configured", "start"}, thread: Threads \cup {None}]
  BY <1>4 DEF None
<1>6. OperatorTypeOK'
  BY <1>1, <1>2, <1>4, <1>5 DEF OperatorTypeOK, None
<1>7. MayFollow(operator.main)'
  BY <1>2, <1>3, <1>4 DEF MayFollow
<1>8. HomeMemory'
  BY <1>1, <1>2, <1>3, <1>4, <1>7 DEF HomeMemory
<1>9. HomeThreads'
  BY <1>1, <1>2 DEF HomeThreads
<1>10. HomePaid'
  BY <1>2, <1>3, <1>4, ResumedIsPaid
<1> QED
  BY <1>6, <1>8, <1>9, <1>10 DEF HomeInv

\* The bridge that goes down leaves the file, and a thread that it had not saved is
\* paid for by its crash.
LEMMA HomeGoesDown ==
    ASSUME HomeBounds, HomeInv, Down, UNCHANGED <<stateFile, mainThreadId, homeExists, lost>>,
           HomeThreads', made' \subseteq Threads, Paid(stateFile.operator)'
    PROVE  HomeInv'
<1>1. /\ bridge' = "down" /\ sessions' = <<>> /\ operator' = [main |-> 0, tools |-> FALSE]
      /\ homeRunner' = 0 /\ heardBy' = {} /\ asking' = [is |-> "none", thread |-> 0]
  BY DEF Down, Nothing, NoRequest, None
<1>2. operator' \in Workspace
  BY <1>1 DEF Workspace, None
<1>3. asking' \in [is: {"none", "existing", "configured", "start"}, thread: Threads \cup {None}]
  BY <1>1 DEF None
<1>4. sessions' \in Seq(Session)
  BY <1>1
<1>5. OperatorTypeOK'
  BY <1>1, <1>2, <1>3, <1>4 DEF HomeInv, OperatorTypeOK, None
<1>6. HomeMemory'
  BY <1>1 DEF HomeInv, HomeMemory
<1>7. HomePaid'
  BY <1>1 DEF HomePaid
<1> QED
  BY <1>5, <1>6, <1>7 DEF HomeInv

LEMMA ResumeIsRefused ==
    ASSUME HomeBounds, HomeInv, ResumeFails
    PROVE  HomeInv'
<1>1. OperatorTypeOK /\ HomeMemory /\ HomeThreads /\ HomePaid
  BY DEF HomeInv
<1>2. asking.thread \in lost /\ UNCHANGED <<stateFile, mainThreadId, homeExists, made, lost, crashes>>
  BY DEF ResumeFails, outside, budgets
<1>3. asking.thread # 0
  BY <1>1, <1>2, HomeNumbers DEF OperatorTypeOK
<1>4. asking.is \in {"existing", "configured"} /\ bridge = "starting"
  BY <1>1, <1>3 DEF HomeMemory, OperatorTypeOK
<1>5. Paid(stateFile.operator) /\ operator = stateFile.operator
  BY <1>1, <1>4 DEF HomePaid, HomeMemory
<1>6. CASE asking.is = "existing" /\ mainThreadId = 0
  <2>1. /\ sessions' = RemoveAt(sessions, Found(sessions, operator))
        /\ homeRunner' = 0 /\ heardBy' = heardBy \ {asking.thread} /\ asking' = [is |-> "start", thread |-> 0]
        /\ UNCHANGED <<bridge, operator>>
    BY <1>6 DEF ResumeFails, None
  <2>2. sessions \in Seq(Session)
    BY <1>1, HomeFiles
  <2>3. Found(sessions, operator) \in 0..Len(sessions)
    BY <2>2, FoundIsExpected
  <2>4. sessions' \in Seq(Session)
    BY <2>1, <2>2, <2>3, HomeListsAreTyped
  <2>5. asking' \in [is: {"none", "existing", "configured", "start"}, thread: Threads \cup {None}]
    BY <2>1 DEF None
  <2>6. OperatorTypeOK'
    BY <1>1, <1>2, <2>1, <2>4, <2>5 DEF OperatorTypeOK, None
  <2>7. operator.tools /\ operator.main \in lost
    BY <1>1, <1>2, <1>6 DEF HomeMemory
  <2>8. HomeMemory'
    BY <1>1, <1>2, <1>4, <1>6, <2>1, <2>7 DEF HomeMemory
  <2>9. HomeThreads' /\ HomePaid'
    BY <1>1, <1>2, <1>4, <2>1 DEF HomeThreads, HomePaid, Paid, ToolsOf
  <2> QED
    BY <2>6, <2>8, <2>9 DEF HomeInv
<1>7. CASE ~(asking.is = "existing" /\ mainThreadId = 0)
  <2>1. Down
    BY <1>7 DEF ResumeFails, None
  <2>2. HomeThreads' /\ Paid(stateFile.operator)' /\ made' \subseteq Threads
    BY <1>1, <1>2, <1>5 DEF HomeThreads, Paid, ToolsOf, OperatorTypeOK
  <2> QED
    BY <1>2, <2>1, <2>2, HomeGoesDown
<1> QED
  BY <1>6, <1>7

\* The next thread of the bridge has the next number, and nobody has lost it.
LEMMA NextThreadIsNew ==
    ASSUME HomeBounds, HomeInv, NEW t, t = Cardinality(Users) + Cardinality(made) + 1,
           Cardinality(made) < MaxMade, made' = made \cup {t}, crashes' \in Nat, UNCHANGED lost
    PROVE  /\ t \in Threads /\ t \notin lost /\ t # 0 /\ made' \subseteq Threads
           /\ Cardinality(made') = Cardinality(made) + 1 /\ HomeThreads'
<1>1. OperatorTypeOK /\ HomeThreads /\ made \subseteq Threads
  BY DEF HomeInv, OperatorTypeOK
<1>2. t = Cardinality(Users) + Cardinality(made) + 1 /\ Cardinality(made) < MaxMade
  OBVIOUS
<1>3. Cardinality(made) \in Nat /\ IsFiniteSet(made)
  BY <1>1, HomeSets
<1> DEFINE n == Cardinality(Users)
           m == Cardinality(made)
<1>4. n \in Nat \ {0} /\ Users = 1..n /\ Threads = 1..(n + MaxMade) /\ MaxMade \in Nat
  BY HomeNumbers
<1>5. made = (n + 1)..(n + m) /\ lost \subseteq Users \cup made
  BY <1>1 DEF HomeThreads
<1>6. m \in Nat /\ m < MaxMade /\ t = n + m + 1
  BY <1>2, <1>3
<1> HIDE DEF n, m
<1>7. t \notin made /\ t \notin Users /\ t \in Threads /\ t # 0
  BY <1>4, <1>5, <1>6
<1>8. t \notin lost
  BY <1>5, <1>7
<1>9. Cardinality(made') = m + 1
  BY <1>3, <1>7, FS_AddElement DEF m
<1>10. made' = (n + 1)..(n + (m + 1))
  BY <1>4, <1>5, <1>6
<1>11. made' = (Cardinality(Users) + 1)..(Cardinality(Users) + Cardinality(made'))
  BY <1>9, <1>10 DEF n
<1>12. lost' \subseteq Users \cup made'
  BY <1>5
<1>13. HomeThreads'
  BY <1>11, <1>12 DEF HomeThreads
<1> QED
  BY <1>1, <1>7, <1>8, <1>9, <1>13 DEF m

LEMMA ThreadIsMade ==
    ASSUME HomeBounds, HomeInv, ThreadStarted
    PROVE  HomeInv'
<1> DEFINE t == Cardinality(Users) + Cardinality(made) + 1
<1>1. OperatorTypeOK /\ HomeMemory /\ HomeThreads /\ HomePaid
  BY DEF HomeInv
<1>2. /\ asking.is = "start" /\ Cardinality(made) < MaxMade
      /\ made' = made \cup {t} /\ AddSession(t, TRUE)
      /\ UNCHANGED <<stateFile, mainThreadId, homeExists, lost, crashes>>
  BY DEF ThreadStarted, budgets
<1>3. crashes' \in Nat /\ crashes \in Nat
  BY <1>1, <1>2 DEF HomeThreads
<1>4. /\ t \in Threads /\ t \notin lost /\ t # 0 /\ made' \subseteq Threads
      /\ Cardinality(made') = Cardinality(made) + 1 /\ HomeThreads'
  BY <1>2, <1>3, NextThreadIsNew
<1> HIDE DEF t
<1>5. /\ sessions' \in Seq(Session)
      /\ operator' = [main |-> t, tools |-> TRUE] /\ operator' \in Workspace
      /\ homeRunner' \in Threads \cup {0} /\ heardBy' \subseteq Threads
      /\ asking' = [is |-> "none", thread |-> 0] /\ bridge' = "saving"
  BY <1>2, <1>4, SessionIsAdded
<1>6. asking' \in [is: {"none", "existing", "configured", "start"}, thread: Threads \cup {None}]
  BY <1>5 DEF None
<1>7. OperatorTypeOK'
  BY <1>1, <1>2, <1>4, <1>5, <1>6 DEF OperatorTypeOK, None
<1>8. bridge = "starting" /\ operator = stateFile.operator /\ mainThreadId = 0 /\ (~operator.tools \/ operator.main \in lost)
  BY <1>1, <1>2 DEF HomeMemory
<1>9. MayFollow(operator.main)'
  BY <1>2, <1>8 DEF MayFollow
<1>10. HomeMemory'
  BY <1>1, <1>2, <1>4, <1>5, <1>9 DEF HomeMemory
<1>11. HomePaid'
  <2> DEFINE m == Cardinality(made)
             l == Cardinality(lost)
             k == Cardinality(lost \ {operator.main})
  <2>1. m \in Nat /\ l \in Nat /\ k \in Nat /\ k <= l /\ (operator.main \in lost => k = l - 1) /\ lost \ {t} = lost
    BY <1>1, <1>4, HomeSets
  <2>2. operator.tools \in BOOLEAN
    BY <1>1, HomeFiles
  <2>3. m <= ToolsOf(operator) + k + crashes
    BY <1>1, <1>8 DEF HomePaid, Paid
  <2>4. Cardinality(made') = m + 1 /\ Cardinality(lost' \ {operator'.main}) = l /\ operator'.tools
    BY <1>2, <1>4, <1>5, <2>1
  <2>5. Cardinality(lost' \ {(stateFile.operator.main)'}) = k /\ (stateFile.operator.tools)' = operator.tools
    BY <1>2, <1>8
  <2>6. crashes \in Nat /\ crashes' = crashes
    BY <1>2, <1>3
  <2> HIDE DEF m, l, k
  <2>7. (ToolsOf(operator) = 0) \/ (ToolsOf(operator) = 1 /\ operator.main \in lost)
    BY <1>8, <2>2 DEF ToolsOf
  <2>8. m + 1 <= 1 + l + crashes /\ m + 1 <= 1 + ToolsOf(operator) + k + crashes
    BY <2>1, <2>3, <2>6, <2>7
  <2>9. ToolsOf(operator)' = 1 /\ ToolsOf(stateFile.operator)' = ToolsOf(operator)
    BY <2>4, <2>5 DEF ToolsOf
  <2>10. Paid(operator)'
    BY <2>4, <2>6, <2>8, <2>9 DEF Paid
  <2>11. (Cardinality(made) <= 1 + ToolsOf(stateFile.operator) + Cardinality(lost \ {stateFile.operator.main}) + crashes)'
    BY <2>4, <2>5, <2>6, <2>8, <2>9
  <2> QED
    BY <1>5, <2>10, <2>11 DEF HomePaid
<1> QED
  BY <1>4, <1>7, <1>10, <1>11 DEF HomeInv

LEMMA HomeIsSaved ==
    ASSUME HomeBounds, HomeInv, Save
    PROVE  HomeInv'
<1>1. OperatorTypeOK /\ HomeMemory /\ HomeThreads /\ HomePaid
  BY DEF HomeInv
<1>2. /\ bridge = "saving" /\ bridge' = "up" /\ stateFile' = [sessions |-> sessions, operator |-> operator]
      /\ UNCHANGED <<sessions, operator, homeRunner, heardBy, asking, mainThreadId, homeExists, made, lost, crashes>>
  BY DEF Save, state, runners, outside, budgets
<1>3. OperatorTypeOK'
  BY <1>1, <1>2 DEF OperatorTypeOK
<1>4. stateFile'.operator = operator /\ asking.is = "none"
  BY <1>1, <1>2 DEF HomeMemory
<1>5. HomeMemory'
  BY <1>1, <1>2, <1>4 DEF HomeMemory
<1>6. HomeThreads' /\ HomePaid'
  BY <1>1, <1>2, <1>4 DEF HomeThreads, HomePaid, Paid, ToolsOf
<1> QED
  BY <1>3, <1>5, <1>6 DEF HomeInv

LEMMA HomeIsCleared ==
    ASSUME HomeBounds, HomeInv, NEW running, ClearDeletes(running) \/ ClearSaves
    PROVE  HomeInv'
<1>1. OperatorTypeOK /\ HomeMemory /\ HomeThreads /\ HomePaid
  BY DEF HomeInv
<1>2. CASE ClearDeletes(running)
  <2>1. /\ bridge = "up" /\ bridge' = "clearing" /\ homeExists' = FALSE /\ homeRunner' = 0
        /\ heardBy' \subseteq heardBy
        /\ UNCHANGED <<sessions, operator, stateFile, asking, mainThreadId, made, lost, crashes>>
    BY <1>2 DEF ClearDeletes, state, None, budgets
  <2>2. OperatorTypeOK'
    BY <1>1, <2>1 DEF OperatorTypeOK, None
  <2>3. HomeMemory'
    BY <1>1, <2>1 DEF HomeMemory, MayFollow
  <2>4. HomeThreads' /\ HomePaid'
    BY <1>1, <2>1 DEF HomeThreads, HomePaid, Paid, ToolsOf
  <2> QED
    BY <2>2, <2>3, <2>4 DEF HomeInv
<1>3. CASE ClearSaves
  <2>1. /\ bridge = "clearing" /\ bridge' = "up" /\ sessions' = <<>>
        /\ stateFile' = [sessions |-> <<>>, operator |-> operator]
        /\ UNCHANGED <<operator, homeRunner, heardBy, asking, mainThreadId, homeExists, made, lost, crashes>>
    BY <1>3 DEF ClearSaves, runners, outside, budgets
  <2>2. stateFile'.operator = operator /\ operator = stateFile.operator /\ asking.is = "none" /\ stateFile'.sessions = <<>>
    BY <1>1, <2>1 DEF HomeMemory
  <2>3. <<>> \in Seq(Session)
    OBVIOUS
  <2>4. OperatorTypeOK'
    BY <1>1, <2>1, <2>2, <2>3 DEF OperatorTypeOK
  <2>5. HomeMemory'
    BY <1>1, <2>1, <2>2 DEF HomeMemory
  <2>6. HomeThreads' /\ HomePaid'
    BY <1>1, <2>1, <2>2 DEF HomeThreads, HomePaid, Paid, ToolsOf
  <2> QED
    BY <2>4, <2>5, <2>6 DEF HomeInv
<1> QED
  BY <1>2, <1>3

LEMMA HomeStops ==
    ASSUME HomeBounds, HomeInv, Stop
    PROVE  HomeInv'
<1>1. OperatorTypeOK /\ HomeThreads /\ HomePaid
  BY DEF HomeInv
<1>2. bridge = "up" /\ Down /\ UNCHANGED <<stateFile, mainThreadId, homeExists, made, lost, crashes>>
  BY DEF Stop, outside, budgets
<1>3. HomeThreads' /\ made' \subseteq Threads /\ Paid(stateFile.operator)'
  BY <1>1, <1>2 DEF HomeThreads, HomePaid, Paid, ToolsOf, OperatorTypeOK
<1> QED
  BY <1>2, <1>3, HomeGoesDown

\* A crash pays for the thread that it lost sight of.
LEMMA HomeCrashes ==
    ASSUME HomeBounds, HomeInv, Crash
    PROVE  HomeInv'
<1> DEFINE t == Cardinality(Users) + Cardinality(made) + 1
<1>1. OperatorTypeOK /\ HomeMemory /\ HomeThreads /\ HomePaid
  BY DEF HomeInv
<1>2. /\ Down /\ crashes' = crashes + 1
      /\ UNCHANGED <<stateFile, mainThreadId, homeExists, lost>>
      /\ \/ made' = made
         \/ asking.is = "start" /\ Cardinality(made) < MaxMade /\ made' = made \cup {t}
  BY DEF Crash
<1> HIDE DEF t
<1>3. crashes \in Nat /\ crashes' \in Nat
  BY <1>1, <1>2 DEF HomeThreads
<1>4. ToolsOf(stateFile.operator) \in {0, 1} /\ ToolsOf(stateFile.operator)' = ToolsOf(stateFile.operator)
  BY <1>2 DEF ToolsOf
<1>5. /\ Cardinality(lost' \ {(stateFile.operator.main)'}) = Cardinality(lost \ {stateFile.operator.main})
      /\ Cardinality(lost \ {stateFile.operator.main}) \in Nat /\ Cardinality(made) \in Nat
  BY <1>1, <1>2, HomeSets
<1>6. CASE made' = made
  <2>1. Cardinality(made) <= 1 + ToolsOf(stateFile.operator) + Cardinality(lost \ {stateFile.operator.main}) + crashes
    BY <1>1, <1>3, <1>4, <1>5 DEF HomePaid, Paid
  <2>2. Cardinality(made) <= ToolsOf(stateFile.operator) + Cardinality(lost \ {stateFile.operator.main}) + crashes'
    BY <1>2, <1>3, <1>4, <1>5, <2>1
  <2>3. Paid(stateFile.operator)'
    BY <1>4, <1>5, <1>6, <2>2 DEF Paid
  <2>4. HomeThreads' /\ made' \subseteq Threads
    BY <1>1, <1>2, <1>3, <1>6 DEF HomeThreads, OperatorTypeOK
  <2> QED
    BY <1>2, <2>3, <2>4, HomeGoesDown
<1>7. CASE asking.is = "start" /\ Cardinality(made) < MaxMade /\ made' = made \cup {t}
  <2>1. Cardinality(made') = Cardinality(made) + 1 /\ made' \subseteq Threads /\ HomeThreads'
    BY <1>2, <1>3, <1>7, NextThreadIsNew DEF t
  <2>2. bridge = "starting"
    BY <1>1, <1>7 DEF HomeMemory
  <2>3. Cardinality(made) <= ToolsOf(stateFile.operator) + Cardinality(lost \ {stateFile.operator.main}) + crashes
    BY <1>1, <2>2 DEF HomePaid, Paid
  <2>4. Cardinality(made') <= ToolsOf(stateFile.operator) + Cardinality(lost \ {stateFile.operator.main}) + crashes'
    BY <1>2, <1>3, <1>4, <1>5, <2>1, <2>3
  <2>5. Paid(stateFile.operator)'
    BY <1>4, <1>5, <2>4 DEF Paid
  <2> QED
    BY <1>2, <2>1, <2>5, HomeGoesDown
<1> QED
  BY <1>2, <1>6, <1>7

LEMMA HomeIsConfigured ==
    ASSUME HomeBounds, HomeInv, NEW t \in Threads \cup {None}, Configure(t)
    PROVE  HomeInv'
<1>1. OperatorTypeOK /\ HomeMemory /\ HomeThreads /\ HomePaid
  BY DEF HomeInv
<1>2. /\ bridge = "down" /\ mainThreadId' = t
      /\ UNCHANGED <<bridge, sessions, operator, stateFile, homeRunner, heardBy, asking, homeExists, made, lost, crashes>>
  BY DEF Configure, state, runners
<1>3. OperatorTypeOK'
  BY <1>1, <1>2 DEF OperatorTypeOK
<1>4. asking.is = "none"
  BY <1>1, <1>2 DEF HomeMemory
<1>5. HomeMemory'
  BY <1>1, <1>2, <1>4 DEF HomeMemory
<1>6. HomeThreads' /\ HomePaid'
  BY <1>1, <1>2 DEF HomeThreads, HomePaid, Paid, ToolsOf
<1> QED
  BY <1>3, <1>5, <1>6 DEF HomeInv

LEMMA HomeLosesThread ==
    ASSUME HomeBounds, HomeInv, NEW t, LoseThread(t)
    PROVE  HomeInv'
<1>1. OperatorTypeOK /\ HomeMemory /\ HomeThreads /\ HomePaid
  BY DEF HomeInv
<1>2. /\ t \in (Users \cup made) \ lost /\ lost' = lost \cup {t}
      /\ UNCHANGED <<bridge, sessions, operator, stateFile, homeRunner, heardBy, asking, mainThreadId, made, crashes>>
  BY DEF LoseThread, state, runners, budgets
<1>3. t \in Threads
  BY <1>1, <1>2, HomeNumbers DEF OperatorTypeOK
<1>4. OperatorTypeOK'
  BY <1>1, <1>2, <1>3 DEF OperatorTypeOK
<1>5. \A u : MayFollow(u) => MayFollow(u)'
  BY <1>2 DEF MayFollow
<1>6. HomeMemory'
  BY <1>1, <1>2, <1>5 DEF HomeMemory
<1>7. HomeThreads'
  BY <1>1, <1>2 DEF HomeThreads
<1>8. ASSUME NEW x PROVE Cardinality(lost \ {x}) <= Cardinality(lost' \ {x})
  <2>1. IsFiniteSet(lost' \ {x})
    BY <1>1, <1>2, HomeSets, FS_AddElement, FS_RemoveElement
  <2>2. lost \ {x} \in SUBSET (lost' \ {x})
    BY <1>2
  <2> QED
    BY <2>1, <2>2, FS_Subset
<1>9. /\ \A x : Cardinality(lost \ {x}) \in Nat /\ Cardinality(lost' \ {x}) \in Nat
      /\ Cardinality(made) \in Nat /\ crashes \in Nat
  <2>1. \A x : IsFiniteSet(lost' \ {x})
    BY <1>1, <1>2, HomeSets, FS_AddElement, FS_RemoveElement
  <2> QED
    BY <1>1, <2>1, HomeSets, FS_CardinalityType DEF HomeThreads
<1>10. ASSUME NEW ws, Paid(ws) PROVE Cardinality(made) <= ToolsOf(ws) + Cardinality(lost' \ {ws.main}) + crashes
  <2>1. ToolsOf(ws) \in {0, 1}
    BY DEF ToolsOf
  <2>2. /\ Cardinality(lost \ {ws.main}) <= Cardinality(lost' \ {ws.main})
        /\ Cardinality(lost \ {ws.main}) \in Nat /\ Cardinality(lost' \ {ws.main}) \in Nat
    BY <1>8, <1>9
  <2> QED
    BY <1>9, <1>10, <2>1, <2>2 DEF Paid
<1>11. ASSUME bridge # "saving" PROVE HomePaid'
  <2>1. Paid(stateFile.operator)
    BY <1>1, <1>11 DEF HomePaid
  <2> QED
    BY <1>2, <1>10, <1>11, <2>1 DEF HomePaid, Paid, ToolsOf
<1>12. ASSUME bridge = "saving" PROVE HomePaid'
  <2>1. Paid(operator)
    BY <1>1, <1>12 DEF HomePaid
  <2>2. Paid(operator)'
    BY <1>2, <1>10, <2>1 DEF Paid, ToolsOf
  <2>3. Cardinality(made) <= 1 + ToolsOf(stateFile.operator) + Cardinality(lost \ {stateFile.operator.main}) + crashes
    BY <1>1, <1>12 DEF HomePaid
  <2>4. ToolsOf(stateFile.operator) \in {0, 1} /\ ToolsOf(stateFile.operator)' = ToolsOf(stateFile.operator)
    BY <1>2 DEF ToolsOf
  <2>5. Cardinality(made) <= 1 + ToolsOf(stateFile.operator) + Cardinality(lost' \ {stateFile.operator.main}) + crashes
    <3>1. /\ Cardinality(lost \ {stateFile.operator.main}) <= Cardinality(lost' \ {stateFile.operator.main})
          /\ Cardinality(lost \ {stateFile.operator.main}) \in Nat /\ Cardinality(lost' \ {stateFile.operator.main}) \in Nat
      BY <1>8, <1>9
    <3> QED
      BY <1>9, <2>3, <2>4, <3>1
  <2>6. (Cardinality(made) <= 1 + ToolsOf(stateFile.operator) + Cardinality(lost \ {stateFile.operator.main}) + crashes)'
    BY <1>2, <2>4, <2>5
  <2> QED
    BY <1>2, <1>12, <2>2, <2>6 DEF HomePaid
<1> QED
  BY <1>4, <1>6, <1>7, <1>11, <1>12 DEF HomeInv

LEMMA HomeInvStep == HomeBounds /\ HomeInv /\ [OperatorNext]_vars => HomeInv'
<1> SUFFICES ASSUME HomeBounds, HomeInv, [OperatorNext]_vars PROVE HomeInv'
  OBVIOUS
<1>1. CASE UNCHANGED vars
  <2>1. UNCHANGED <<bridge, sessions, operator, stateFile, homeRunner, heardBy, asking, mainThreadId, made, lost, crashes>>
    BY <1>1 DEF vars, state, runners, outside, budgets
  <2>2. OperatorTypeOK'
    BY <2>1 DEF HomeInv, OperatorTypeOK
  <2>3. HomeMemory'
    BY <2>1 DEF HomeInv, HomeMemory, MayFollow
  <2>4. HomeThreads' /\ HomePaid'
    BY <2>1 DEF HomeInv, HomeThreads, HomePaid, Paid, ToolsOf
  <2> QED
    BY <2>2, <2>3, <2>4 DEF HomeInv
<1>2. CASE OperatorNext
  <2>1. CASE Start \/ ResumedExisting \/ ResumedConfigured \/ ResumeFails
    BY <2>1, HomeStarts, ExistingIsResumed, ConfiguredIsResumed, ResumeIsRefused
  <2>2. CASE ThreadStarted \/ Save \/ ClearSaves \/ Stop \/ Crash
    BY <2>2, ThreadIsMade, HomeIsSaved, HomeIsCleared, HomeStops, HomeCrashes
  <2>3. CASE \E running \in {{}, {homeRunner}} : ClearDeletes(running)
    BY <2>3, HomeIsCleared
  <2>4. CASE \E t \in Threads \cup {None} : Configure(t) \/ LoseThread(t)
    BY <2>4, HomeIsConfigured, HomeLosesThread
  <2> QED
    BY <1>2, <2>1, <2>2, <2>3, <2>4 DEF OperatorNext
<1> QED
  BY <1>1, <1>2

LEMMA HomeInvHolds == HomeBounds => (OperatorSpec => []HomeInv)
<1> SUFFICES ASSUME HomeBounds PROVE OperatorSpec => []HomeInv
  OBVIOUS
<1>1. OperatorInit => HomeInv
  BY HomeStart
<1>2. HomeInv /\ [OperatorNext]_vars => HomeInv'
  BY HomeInvStep
<1> QED
  BY <1>1, <1>2, PTL DEF OperatorSpec

\* Whatever is configured, lost, cleared or crashed between the starts of a bridge: the
\* main thread that is saved is only given up for one that the user configured, for
\* tools that it does not have, or because it is lost (#ensureWorkspaceSession of
\* local-workspace-backend.ts).
THEOREM OperatorIsKept ==
    ASSUME HomeBounds PROVE OperatorSpec => MemoryIsKept
<1> DEFINE Keeps ==
             LET old == stateFile.operator
                 new == stateFile'.operator
             IN old.main # None /\ new.main # old.main =>
                  \/ new.main = mainThreadId
                  \/ mainThreadId = None /\ ~old.tools
                  \/ mainThreadId = None /\ old.main \in lost
<1>1. HomeInv /\ [OperatorNext]_vars => [Keeps]_vars
  <2> SUFFICES ASSUME HomeInv, OperatorNext PROVE Keeps
    OBVIOUS
  <2>1. CASE UNCHANGED stateFile
    BY <2>1
  <2>2. CASE Save
    <3>1. stateFile' = [sessions |-> sessions, operator |-> operator] /\ bridge = "saving"
      BY <2>2 DEF Save
    <3> QED
      BY <3>1 DEF HomeInv, HomeMemory, MayFollow, None
  <2>3. CASE ClearSaves
    <3>1. stateFile' = [sessions |-> <<>>, operator |-> operator] /\ bridge = "clearing"
      BY <2>3 DEF ClearSaves
    <3> QED
      BY <3>1 DEF HomeInv, HomeMemory
  <2>4. UNCHANGED stateFile \/ Save \/ ClearSaves
    BY DEF OperatorNext, Start, ResumedExisting, ResumedConfigured,
           ResumeFails, ThreadStarted, ClearDeletes, Stop, Crash, Configure, LoseThread
  <2> QED
    BY <2>1, <2>2, <2>3, <2>4
<1>2. OperatorSpec => [][Keeps]_vars
  BY <1>1, HomeInvHolds, PTL DEF OperatorSpec
<1> QED
  BY <1>2 DEF MemoryIsKept

\* The bridge makes no thread of its own accord: there is the first one with the tools,
\* and each of the others follows one that was lost, or one whose bridge crashed before
\* it had saved it (start of local-workspace-backend.ts).
THEOREM RestartsArePaidFor ==
    ASSUME HomeBounds PROVE OperatorSpec => []RestartsMakeNoThread
<1>1. HomeInv /\ HomeBounds => RestartsMakeNoThread
  <2> SUFFICES ASSUME HomeInv, HomeBounds PROVE RestartsMakeNoThread
    OBVIOUS
  <2>1. OperatorTypeOK /\ crashes \in Nat
    BY DEF HomeInv, HomeThreads
  <2>2. PICK ws : Paid(ws)
    BY DEF HomeInv, HomePaid
  <2>3. /\ Cardinality(made) \in Nat /\ Cardinality(lost) \in Nat /\ Cardinality(lost \ {ws.main}) \in Nat
        /\ Cardinality(lost \ {ws.main}) <= Cardinality(lost)
    BY <2>1, HomeSets
  <2>4. ToolsOf(ws) \in {0, 1}
    BY DEF ToolsOf
  <2>5. Cardinality(made) <= 1 + Cardinality(lost) + crashes
    BY <2>1, <2>2, <2>3, <2>4 DEF Paid
  <2> QED
    BY <2>5 DEF RestartsMakeNoThread
<1> QED
  BY <1>1, HomeInvHolds, PTL
=============================================================================
