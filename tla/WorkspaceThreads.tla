--------------------------- MODULE WorkspaceThreads ---------------------------
(***************************************************************************)
(* The Discord threads of the workspace                                    *)
(* (apps/discord-bridge/src/local-workspace-backend.ts): threads of the    *)
(* app-server are opened into Discord from pickers, from messages that     *)
(* start or resume one, and for delegations; /clear deletes those that do  *)
(* not run.  Inbound events are handled concurrently, each of them awaits  *)
(* Discord and the app-server, and all share the sessions, the runners and *)
(* the state file.                                                         *)
(***************************************************************************)
EXTENDS Integers, FiniteSets, Functions, FiniteSetTheorems, TLAPS

CONSTANTS
    Codex,       \* threads of the app-server, in one workspace
    Delegated,   \* those of them that are delegations
    Starts,      \* messages that start a thread, by id
    Jobs,        \* inbound events that are handled at a time
    MaxChannels, \* bound on the Discord threads; a thread is its number
    MaxJobs,     \* bound on the inbound events
    MaxBoots     \* bound on restarts

VARIABLES
    sessions,  \* state.sessions: the Discord thread, the codex thread, the parent
    byChannel, \* #runnersByDiscordThread: the codex thread of the runner
    byThread,  \* #runnersByCodexThread: the Discord thread of the runner
    taskOf,    \* discordTaskThreadId of the delegations, 0 for none
    posts,     \* workspace posts, rows of state.workspace.workspaces
    busy,      \* Discord threads whose session has a queue item or an active turn
    jobs,      \* the events in progress
    channels,  \* Discord threads that exist
    made,      \* Discord threads made so far
    started,   \* start messages that were seen
    saved,     \* the state file
    begun, boots,
    crossed,   \* threads that two jobs were about to open at a time
    paired     \* threads that had two sessions at a time

threadVars == <<sessions, byChannel, byThread, taskOf, posts, busy, jobs, channels, made, started,
                saved, begun, boots, crossed, paired>>

Threads == Codex \cup Starts
Session(c, t, parent) == [channel |-> c, thread |-> t, parent |-> parent]
NoJob == [at |-> "idle", thread |-> "none", channel |-> 0, left |-> {}, gone |-> {}]
Of(t) == {s \in sessions : s.thread = t}
TaskSessions(t) == {s \in Of(t) : s.parent = "tasks"}
Snapshot == [sessions |-> sessions, taskOf |-> taskOf, posts |-> posts, busy |-> busy]

ThreadTypeOK ==
    /\ \A s \in sessions : s.channel \in 1..made /\ s.thread \in Threads /\ s.parent \in {"tasks", "chat"}
    /\ channels \subseteq 1..made /\ made <= MaxChannels /\ taskOf \in [Delegated -> 0..made]
    /\ DOMAIN byChannel \subseteq 1..made /\ DOMAIN byThread \subseteq Threads
    /\ \A j \in Jobs : jobs[j].at \in {"idle", "resuming", "posting", "creating", "starting",
                                       "syncPosting", "syncing", "settling", "clearing"}

ThreadInit ==
    /\ sessions = {} /\ byChannel = <<>> /\ byThread = <<>>
    /\ taskOf = [t \in Delegated |-> 0] /\ posts = 0 /\ busy = {}
    /\ jobs = [j \in Jobs |-> NoJob] /\ channels = {} /\ made = 0 /\ started = {}
    /\ saved = Snapshot /\ begun = 0 /\ boots = 0 /\ crossed = {} /\ paired = {}

Free(j) == jobs[j].at = "idle" /\ begun < MaxJobs
Goes(j, at) == jobs' = [jobs EXCEPT ![j].at = at]
Ends(j) == jobs' = [jobs EXCEPT ![j] = NoJob]
Persist == saved' = [sessions |-> sessions', taskOf |-> taskOf', posts |-> posts', busy |-> busy']

\* #registerRunner: a Discord thread keeps the runner it has; a new runner is
\* the one its codex thread's notifications go to.
Register(c, t) ==
    /\ byChannel' = IF c \in DOMAIN byChannel THEN byChannel
                    ELSE [d \in DOMAIN byChannel \cup {c} |-> IF d = c THEN t ELSE byChannel[d]]
    /\ byThread' = IF c \in DOMAIN byChannel THEN byThread
                   ELSE [u \in DOMAIN byThread \cup {t} |-> IF u = t THEN c ELSE byThread[u]]
\* A session is pushed and its runner registered.
Push(s) ==
    /\ sessions' = sessions \cup {s} /\ Register(s.channel, s.thread)
    /\ paired' = IF Of(s.thread) # {} THEN paired \cup {s.thread} ELSE paired
\* createThread.
NewChannel == made + 1
Create ==
    /\ made < MaxChannels /\ made' = NewChannel /\ channels' = channels \cup {NewChannel}

------------------------------------------------------------------------------
(* #materializeWorkspaceThread, from a picker or a reaction.               *)

\* Mutant: the sessions are not looked at again after the thread was resumed.
Unchecked(t) == {}
\* existing, and existingForSurface once the resumed thread is known.
Existing(t) == TaskSessions(t)
Reuse(t) == \E s \in Existing(t) : Register(s.channel, s.thread)

Open(j, t) ==
    /\ Free(j) /\ begun' = begun + 1
    /\ \/ TaskSessions(t) # {} /\ Register((CHOOSE s \in TaskSessions(t) : TRUE).channel, t) /\ UNCHANGED jobs
       \/ /\ TaskSessions(t) = {} /\ UNCHANGED <<byChannel, byThread>>
          /\ jobs' = [jobs EXCEPT ![j] = [NoJob EXCEPT !.at = "resuming", !.thread = t]]
    /\ UNCHANGED <<sessions, taskOf, posts, busy, channels, made, started, saved, boots, crossed, paired>>

\* Resumed, the thread is there by now or its workspace needs a post first.
Opens(j) == jobs[j].at \in {"posting", "creating"}
Posts(j) == jobs[j].at \in {"posting", "syncPosting"}
Resumed(j) ==
    /\ jobs[j].at = "resuming"
    /\ LET t == jobs[j].thread IN
       \/ /\ Existing(t) # {} /\ Reuse(t) /\ Ends(j) /\ UNCHANGED crossed
       \/ /\ Existing(t) = {} /\ Goes(j, IF posts = 0 THEN "posting" ELSE "creating")
          /\ crossed' = IF \E k \in Jobs \ {j} : Opens(k) /\ jobs[k].thread = t
                        THEN crossed \cup {t} ELSE crossed
          /\ UNCHANGED <<byChannel, byThread>>
    /\ UNCHANGED <<sessions, taskOf, posts, busy, channels, made, started, saved, begun, boots, paired>>

\* createWorkspacePost, by #ensureWorkspaceSurfaceForCwd.
PostMade(j) ==
    /\ \/ jobs[j].at = "posting" /\ Goes(j, "creating")
       \/ jobs[j].at = "syncPosting" /\ Goes(j, "syncing")
    /\ posts' = posts + 1
    /\ crossed' = IF \E k \in Jobs \ {j} : Posts(k) THEN crossed \cup {"post"} ELSE crossed
    /\ UNCHANGED <<sessions, byChannel, byThread, taskOf, busy, channels, made, started, saved, begun, boots, paired>>

\* The Discord thread is there: the session, its runner and the delegation.
ThreadMade(j) ==
    /\ jobs[j].at = "creating" /\ Create
    /\ LET t == jobs[j].thread IN
       /\ Push(Session(NewChannel, t, "tasks"))
       /\ taskOf' = IF t \in Delegated THEN [taskOf EXCEPT ![t] = NewChannel] ELSE taskOf
    /\ Goes(j, "settling")
    /\ UNCHANGED <<posts, busy, started, saved, begun, boots, crossed>>

\* The mirrored result and the dashboard were sent; the state is saved.
Settle(j) ==
    /\ jobs[j].at = "settling" /\ Ends(j)
    /\ UNCHANGED <<sessions, byChannel, byThread, taskOf, posts, busy, channels, made, started, begun, boots, crossed, paired>>
    /\ Persist

\* A call of Discord or of the app-server fails: the handler throws.
JobFails(j) ==
    /\ jobs[j].at \in {"resuming", "posting", "creating", "starting", "syncPosting"}
    /\ Ends(j)
    /\ UNCHANGED <<sessions, byChannel, byThread, taskOf, posts, busy, channels, made, started, saved, begun, boots, crossed, paired>>

------------------------------------------------------------------------------
(* #handleThreadStart, for a message that mentions the bot.                *)

\* The message is seen, and nobody tries again if what follows fails; first a
\* Discord thread is made.
StartThread(j, m, t) ==
    /\ Free(j) /\ m \notin started /\ started' = started \cup {m} /\ begun' = begun + 1
    /\ Create
    /\ jobs' = [jobs EXCEPT ![j] = [NoJob EXCEPT !.at = "starting", !.thread = t, !.channel = NewChannel]]
    /\ UNCHANGED <<sessions, byChannel, byThread, taskOf, posts, busy, saved, boots, crossed, paired>>
\* Then the codex thread is started and named, or resumed, and the session
\* saved; the prompt of a new one is its runner's first message.
Started(j) ==
    /\ jobs[j].at = "starting"
    /\ LET c == jobs[j].channel
           t == jobs[j].thread IN
       /\ Push(Session(c, t, "chat"))
       /\ busy' = IF t \in Starts THEN busy \cup {c} ELSE busy
    /\ Ends(j) /\ UNCHANGED <<taskOf, posts, channels, made, started, begun, boots, crossed>>
    /\ Persist

------------------------------------------------------------------------------
(* Messages and turns of the sessions.                                     *)

\* #handleMessage: the runner of the Discord thread takes the message.
TakeMessage(c) ==
    /\ c \in channels /\ c \in DOMAIN byChannel
    /\ busy' = busy \cup {c}
    /\ UNCHANGED <<sessions, byChannel, byThread, taskOf, posts, jobs, channels, made, started, saved, begun, boots, crossed, paired>>
\* #handleNotification: the end of a turn goes to the runner of its codex thread.
TurnOver(c) ==
    /\ c \in busy /\ \E t \in DOMAIN byThread : byThread[t] = c
    /\ busy' = busy \ {c}
    /\ UNCHANGED <<sessions, byChannel, byThread, taskOf, posts, jobs, channels, made, started, saved, begun, boots, crossed, paired>>

------------------------------------------------------------------------------
(* #syncDelegationWorkbench: the workspace post of a delegation, and its   *)
(* task thread if it has one.                                              *)

Sync(j, t) ==
    /\ Free(j) /\ begun' = begun + 1
    /\ jobs' = [jobs EXCEPT ![j] = [NoJob EXCEPT !.at = IF posts = 0 THEN "syncPosting" ELSE "syncing",
                                                 !.thread = t]]
    /\ UNCHANGED <<sessions, byChannel, byThread, taskOf, posts, busy, channels, made, started, saved, boots, crossed, paired>>
\* #ensureDelegationTaskThread: without a session, one is made up for the
\* Discord thread that the delegation remembers.
Synced(j) ==
    /\ jobs[j].at = "syncing" /\ Goes(j, "settling")
    /\ LET t == jobs[j].thread
           s == Session(taskOf[t], t, "tasks") IN
       \/ /\ taskOf[t] = 0 /\ UNCHANGED <<sessions, byChannel, byThread, crossed, paired>>
       \/ /\ taskOf[t] # 0 /\ s \in sessions
          /\ Register(taskOf[t], t) /\ UNCHANGED <<sessions, crossed, paired>>
       \/ /\ taskOf[t] # 0 /\ s \notin sessions
          /\ Push(s)
          /\ crossed' = IF \E k \in Jobs : Opens(k) /\ jobs[k].thread = t THEN crossed \cup {t} ELSE crossed
    /\ UNCHANGED <<taskOf, posts, busy, channels, made, started, saved, begun, boots>>

------------------------------------------------------------------------------
(* #handleClear.                                                           *)

\* What runs at the time of the command is spared.
Clear(j) ==
    /\ Free(j) /\ begun' = begun + 1
    /\ jobs' = [jobs EXCEPT ![j] = [NoJob EXCEPT !.at = "clearing",
                                                 !.left = {s \in sessions : s.channel \notin busy}]]
    /\ UNCHANGED <<sessions, byChannel, byThread, taskOf, posts, busy, channels, made, started, saved, boots, crossed, paired>>
\* One after the other is deleted in Discord, and its runner stopped; or Discord fails.
Without(f, x) == Restrict(f, DOMAIN f \ {x})
ClearOne(j, s) ==
    /\ s \in jobs[j].left
    /\ \/ /\ s.channel \in channels /\ channels' = channels \ {s.channel}
          /\ byChannel' = Without(byChannel, s.channel) /\ byThread' = Without(byThread, s.thread)
          /\ jobs' = [jobs EXCEPT ![j].left = @ \ {s}, ![j].gone = @ \cup {s.channel}]
       \/ /\ jobs' = [jobs EXCEPT ![j].left = @ \ {s}] /\ UNCHANGED <<channels, byChannel, byThread>>
    /\ UNCHANGED <<sessions, taskOf, posts, busy, made, started, saved, begun, boots, crossed, paired>>
\* Mutant: the queue and the active turns stay.
KeepsQueue(gone) == busy
\* The queue and the active turns that are left.
Unqueued(gone) == busy \ gone
\* What was deleted leaves the state, with what was queued in the meantime.
ClearDone(j) ==
    /\ jobs[j].at = "clearing" /\ jobs[j].left = {} /\ Ends(j)
    /\ LET gone == jobs[j].gone IN
       /\ sessions' = {s \in sessions : s.channel \notin gone} /\ busy' = Unqueued(gone)
    /\ UNCHANGED <<byChannel, byThread, taskOf, posts, channels, made, started, begun, boots, crossed, paired>>
    /\ Persist

\* start: the file is read and every session gets its runner.
Restart ==
    /\ boots < MaxBoots /\ boots' = boots + 1
    /\ sessions' = saved.sessions /\ taskOf' = saved.taskOf /\ posts' = saved.posts /\ busy' = saved.busy
    /\ jobs' = [j \in Jobs |-> NoJob] /\ started' = {}
    /\ byChannel' = [c \in {s.channel : s \in saved.sessions} |->
                       (CHOOSE s \in saved.sessions : s.channel = c).thread]
    /\ \E f \in [{s.thread : s \in saved.sessions} -> {s.channel : s \in saved.sessions}] :
         /\ \A t \in DOMAIN f : byChannel'[f[t]] = t
         /\ byThread' = f
    /\ UNCHANGED <<channels, made, saved, begun, crossed, paired>>

ThreadNext ==
    \/ \E j \in Jobs :
         \/ \E t \in Codex : Open(j, t)
         \/ \E m \in Starts, t \in Threads : (t \in Codex \/ t = m) /\ StartThread(j, m, t)
         \/ \E t \in Delegated : Sync(j, t)
         \/ Resumed(j) \/ PostMade(j) \/ ThreadMade(j) \/ Settle(j) \/ Started(j) \/ Synced(j)
         \/ JobFails(j) \/ Clear(j) \/ ClearDone(j)
         \/ \E s \in jobs[j].left : ClearOne(j, s)
    \/ \E c \in 1..MaxChannels : TakeMessage(c) \/ TurnOver(c)
    \/ Restart

ThreadSpec == ThreadInit /\ [][ThreadNext]_threadVars

------------------------------------------------------------------------------
(* Properties.                                                             *)

\* A codex thread is opened into one task thread, and the workspace gets one
\* post, however often they are asked for ("opens or reuses one Discord task
\* thread", apps/discord-bridge/README.md:126-128), unless two jobs are about
\* to make it at the same time.
OpenedOnce ==
    /\ \A t \in Threads \ crossed : Cardinality(TaskSessions(t)) <= 1
    /\ "post" \notin crossed => posts <= 1

\* A session whose Discord thread exists has its runner, and the turns of its
\* thread reach that runner, unless the thread had two sessions: the second
\* takes the notifications, and whichever is cleared stops them.
SessionsAreServed ==
    \A s \in sessions :
        s.channel \in channels /\ s.thread \notin paired =>
            /\ s.channel \in DOMAIN byChannel /\ byChannel[s.channel] = s.thread
            /\ s.thread \in DOMAIN byThread /\ byThread[s.thread] = s.channel

\* Nothing is queued or runs for a session that is not stored, whatever comes
\* in while the sessions are cleared.
BusyIsStored == busy \subseteq {s.channel : s \in sessions}

ThreadsAreTracked == OpenedOnce /\ SessionsAreServed /\ BusyIsStored
------------------------------------------------------------------------------
(* The proof, for every set of threads, messages and events.               *)

\* A state that is held or saved: each Discord thread is of one codex thread, sessions
\* of one thread are two only if it was paired, and two in the task channel, or not the
\* one that the delegation names, only if it was crossed.
Kept(S, own, n, pr, cr) ==
    /\ DOMAIN S = {"sessions", "taskOf", "posts", "busy"}
    /\ S.sessions \subseteq [channel: 1..n, thread: Threads, parent: {"tasks", "chat"}]
    /\ S.taskOf \in [Delegated -> 0..n] /\ S.posts \in Nat
    /\ \A s \in S.sessions : own[s.channel] = s.thread
    /\ \A t \in Delegated : S.taskOf[t] # 0 => own[S.taskOf[t]] = t
    /\ \A u, v \in S.sessions : u # v /\ u.thread = v.thread => u.thread \in pr
    /\ \A u, v \in S.sessions :
         u.parent = "tasks" /\ v.parent = "tasks" /\ u.thread = v.thread /\ u.thread \notin cr => u = v
    /\ \A u \in S.sessions :
         u.parent = "tasks" /\ u.thread \in Delegated /\ u.thread \notin cr => u.channel = S.taskOf[u.thread]
    /\ \A c \in S.busy : \E s \in S.sessions : s.channel = c
    /\ "post" \notin cr => S.posts <= 1

\* A runner is of the codex thread of its Discord thread, and an existing Discord thread
\* has a runner only with a session.
RunnersOwned(own) ==
    /\ \A c \in DOMAIN byChannel : c \in 1..made /\ byChannel[c] = own[c]
    /\ \A c \in channels \cap DOMAIN byChannel : \E s \in sessions : s.channel = c

\* What an event in progress works on.
JobGood(job, own) ==
    /\ DOMAIN job = {"at", "thread", "channel", "left", "gone"}
    /\ job.at \in {"resuming", "posting", "creating", "starting"} => job.thread \in Threads
    /\ job.at \in {"syncPosting", "syncing"} => job.thread \in Delegated
    /\ job.at = "starting" => job.channel \in 1..made /\ own[job.channel] = job.thread
    /\ job.at \in {"posting", "syncPosting"} /\ "post" \notin crossed => posts = 0
    /\ job.at \in {"posting", "creating"} /\ job.thread \notin crossed =>
         \A s \in sessions : s.thread = job.thread => s.parent # "tasks"
    /\ \A s \in job.left : s.channel \in 1..made /\ (s.channel \in channels => s \in sessions)
    /\ \A c \in job.gone : c \in 1..made /\ c \notin channels
OneOpens ==
    \A j, k \in Jobs : Opens(j) /\ Opens(k) /\ jobs[j].thread = jobs[k].thread /\ jobs[j].thread \notin crossed => j = k

OwnedBy(own) ==
    /\ made \in Nat /\ channels \subseteq 1..made
    /\ Kept(Snapshot, own, made, paired, crossed) /\ Kept(saved, own, made, paired, crossed)
    /\ RunnersOwned(own) /\ SessionsAreServed
    /\ DOMAIN jobs = Jobs /\ (\A j \in Jobs : JobGood(jobs[j], own)) /\ OneOpens
ThreadsInv == \E own : OwnedBy(own)

\* What is kept stays so while Discord threads are made and more is paired or crossed.
LEMMA KeptGrows ==
    ASSUME NEW S, NEW own, NEW own2, NEW n \in Nat, NEW n2 \in Nat, NEW pr, NEW pr2, NEW cr, NEW cr2,
           Kept(S, own, n, pr, cr), n <= n2, pr \subseteq pr2, cr \subseteq cr2, \A c \in 1..n : own2[c] = own[c]
    PROVE  Kept(S, own2, n2, pr2, cr2)
<1>1. \A s \in S.sessions : s \in [channel: 1..n, thread: Threads, parent: {"tasks", "chat"}]
  BY DEF Kept
<1>2. S.sessions \subseteq [channel: 1..n2, thread: Threads, parent: {"tasks", "chat"}]
  BY <1>1
<1>3. \A s \in S.sessions : own2[s.channel] = s.thread
  BY <1>1 DEF Kept
<1>4. S.taskOf \in [Delegated -> 0..n2] /\ \A t \in Delegated : S.taskOf[t] \in 0..n
  BY DEF Kept
<1>5. \A t \in Delegated : S.taskOf[t] # 0 => own2[S.taskOf[t]] = t
  BY <1>4 DEF Kept
<1> QED
  BY <1>2, <1>3, <1>4, <1>5 DEF Kept

\* A session is pushed: one of a thread that has none, or a thread that is paired; in
\* the task channel the first of its thread, which its delegation names.
LEMMA KeptPushed ==
    ASSUME NEW S, NEW own, NEW n, NEW pr, NEW cr, Kept(S, own, n, pr, cr),
           NEW s, s \in [channel: 1..n, thread: Threads, parent: {"tasks", "chat"}], own[s.channel] = s.thread,
           \A u \in S.sessions : u.thread = s.thread => s.thread \in pr,
           s.parent = "tasks" /\ s.thread \notin cr => \A u \in S.sessions : u.thread = s.thread => u.parent # "tasks",
           NEW T, DOMAIN T = {"sessions", "taskOf", "posts", "busy"}, T.sessions = S.sessions \cup {s}, T.posts = S.posts,
           T.busy \subseteq S.busy \cup {s.channel},
           T.taskOf \in [Delegated -> 0..n], \A t \in Delegated : t # s.thread => T.taskOf[t] = S.taskOf[t],
           s.thread \in Delegated /\ s.parent = "tasks" => T.taskOf[s.thread] = s.channel,
           s.thread \in Delegated /\ s.parent = "chat" => T.taskOf[s.thread] = S.taskOf[s.thread]
    PROVE  Kept(T, own, n, pr, cr)
<1>0. S.sessions \subseteq [channel: 1..n, thread: Threads, parent: {"tasks", "chat"}]
  BY DEF Kept
<1>1. T.sessions \subseteq [channel: 1..n, thread: Threads, parent: {"tasks", "chat"}]
  BY <1>0
<1>2. s.parent \in {"tasks", "chat"}
  OBVIOUS
<1>3. \A u \in T.sessions : own[u.channel] = u.thread
  BY DEF Kept
<1>4. \A t \in Delegated : T.taskOf[t] # 0 => own[T.taskOf[t]] = t
  BY <1>2 DEF Kept
<1>5. \A u, v \in T.sessions : u # v /\ u.thread = v.thread => u.thread \in pr
  BY DEF Kept
<1>6. \A u, v \in T.sessions :
         u.parent = "tasks" /\ v.parent = "tasks" /\ u.thread = v.thread /\ u.thread \notin cr => u = v
  BY DEF Kept
<1>7. \A u \in T.sessions :
         u.parent = "tasks" /\ u.thread \in Delegated /\ u.thread \notin cr => u.channel = T.taskOf[u.thread]
  <2>1. ASSUME NEW u \in S.sessions, u.parent = "tasks", u.thread \in Delegated, u.thread \notin cr
        PROVE  u.channel = T.taskOf[u.thread]
    <3>1. u.channel = S.taskOf[u.thread]
      BY <2>1 DEF Kept
    <3> QED
      BY <1>2, <2>1, <3>1
  <2> QED
    BY <2>1
<1>8. \A c \in T.busy : \E u \in T.sessions : u.channel = c
  BY DEF Kept
<1>9. T.posts \in Nat /\ ("post" \notin cr => T.posts <= 1)
  BY DEF Kept
<1> QED
  BY <1>1, <1>3, <1>4, <1>5, <1>6, <1>7, <1>8, <1>9 DEF Kept

\* Where the owners of the Discord threads stay, so does what an event works on, when
\* no session came that it must not meet and no post.
LEMMA JobStays ==
    ASSUME NEW job, NEW own, NEW own2, JobGood(job, own), made \in Nat, made' \in Nat, made <= made',
           channels \subseteq 1..made, \A c \in channels' : c \in channels \/ c > made,
           \A c \in 1..made : own2[c] = own[c], crossed \subseteq crossed',
           job.at \in {"posting", "syncPosting"} /\ "post" \notin crossed' => posts' = posts,
           \A s \in sessions' : \/ s \in sessions
                                \/ job.at \in {"posting", "creating"} /\ s.thread = job.thread /\ job.thread \notin crossed'
                                   => s.parent # "tasks",
           \A s \in sessions : s \in sessions' \/ s.channel \notin channels'
    PROVE  JobGood(job, own2)'
<1>1. job.at \in {"posting", "syncPosting"} /\ "post" \notin crossed' => posts' = 0
  BY DEF JobGood
<1>2. job.at \in {"posting", "creating"} /\ job.thread \notin crossed' =>
         \A s \in sessions' : s.thread = job.thread => s.parent # "tasks"
  BY DEF JobGood
<1>3. \A s \in job.left : s.channel \in 1..made' /\ (s.channel \in channels' => s \in sessions')
  BY DEF JobGood
<1>4. \A c \in job.gone : c \in 1..made' /\ c \notin channels'
  BY DEF JobGood
<1>5. job.at = "starting" => job.channel \in 1..made' /\ own2[job.channel] = job.thread
  BY DEF JobGood
<1> QED
  BY <1>1, <1>2, <1>3, <1>4, <1>5 DEF JobGood

LEMMA ThreadsStart == ThreadInit => ThreadsInv
<1> SUFFICES ASSUME ThreadInit PROVE OwnedBy(<<>>)
  BY DEF ThreadsInv
<1>1. Kept(Snapshot, <<>>, 0, {}, {})
  BY DEF ThreadInit, Kept, Snapshot
<1>2. /\ saved = Snapshot /\ made = 0 /\ channels = {} /\ paired = {} /\ crossed = {} /\ byChannel = <<>> /\ sessions = {}
      /\ DOMAIN jobs = Jobs /\ \A j \in Jobs : jobs[j] = NoJob
  BY DEF ThreadInit
<1>3. \A j \in Jobs : JobGood(jobs[j], <<>>)
  BY <1>2 DEF JobGood, NoJob
<1>4. OneOpens
  BY <1>2 DEF OneOpens, Opens, NoJob
<1> QED
  BY <1>1, <1>2, <1>3, <1>4 DEF OwnedBy, RunnersOwned, SessionsAreServed

\* A session gets its runner, or has it already.
LEMMA SessionRegistered ==
    ASSUME NEW own, OwnedBy(own), NEW u \in sessions, Register(u.channel, u.thread),
           UNCHANGED <<sessions, channels, made, paired>>
    PROVE  RunnersOwned(own)' /\ SessionsAreServed'
<1>1. /\ \A s \in sessions : s.channel \in 1..made /\ own[s.channel] = s.thread
      /\ \A s, v \in sessions : s # v /\ s.thread = v.thread => s.thread \in paired
  BY DEF OwnedBy, Kept, Snapshot
<1>2. CASE u.channel \in DOMAIN byChannel
  BY <1>2 DEF Register, OwnedBy, RunnersOwned, SessionsAreServed
<1>3. CASE u.channel \notin DOMAIN byChannel
  <2>1. /\ DOMAIN byChannel' = DOMAIN byChannel \cup {u.channel} /\ byChannel'[u.channel] = u.thread
        /\ \A c \in DOMAIN byChannel : c # u.channel /\ byChannel'[c] = byChannel[c]
        /\ DOMAIN byThread' = DOMAIN byThread \cup {u.thread} /\ byThread'[u.thread] = u.channel
        /\ \A t \in DOMAIN byThread : t # u.thread => byThread'[t] = byThread[t]
    BY <1>3 DEF Register
  <2>2. RunnersOwned(own)'
    BY <1>1, <2>1 DEF OwnedBy, RunnersOwned
  <2>3. ASSUME NEW s \in sessions, s.channel \in channels, s.thread \notin paired
        PROVE  /\ s.channel \in DOMAIN byChannel' /\ byChannel'[s.channel] = s.thread
               /\ s.thread \in DOMAIN byThread' /\ byThread'[s.thread] = s.channel
    <3>1. CASE s = u
      BY <2>1, <3>1
    <3>2. CASE s # u
      <4>1. s.thread # u.thread
        BY <1>1, <2>3, <3>2
      <4> QED
        BY <2>1, <2>3, <4>1 DEF OwnedBy, SessionsAreServed
    <3> QED
      BY <3>1, <3>2
  <2> QED
    BY <2>2, <2>3 DEF SessionsAreServed
<1> QED
  BY <1>2, <1>3

\* A session is pushed: the only one of its thread gets a new runner, because the
\* runner of an existing Discord thread is of a session there.
LEMMA SessionPushed ==
    ASSUME NEW own, OwnedBy(own), NEW own2, \A c \in 1..made : own2[c] = own[c],
           made' \in Nat, made <= made', \A c \in channels' : c \in channels \/ c > made,
           NEW s, s.channel \in 1..made', own2[s.channel] = s.thread, sessions' = sessions \cup {s},
           Register(s.channel, s.thread), paired' = IF Of(s.thread) # {} THEN paired \cup {s.thread} ELSE paired
    PROVE  RunnersOwned(own2)' /\ SessionsAreServed'
<1>1. /\ made \in Nat
      /\ \A u \in sessions : u.channel \in 1..made /\ own[u.channel] = u.thread
      /\ \A c \in DOMAIN byChannel : c \in 1..made /\ byChannel[c] = own[c]
  BY DEF OwnedBy, Kept, Snapshot, RunnersOwned
<1>2. \A u \in sessions : u.thread = s.thread => s.thread \in paired'
  BY DEF Of
<1>3. paired \subseteq paired'
  OBVIOUS
<1>4. CASE s.channel \in DOMAIN byChannel
  <2>1. UNCHANGED <<byChannel, byThread>>
    BY <1>4 DEF Register
  <2>2. s.channel \in channels' => s.thread \in paired'
    <3> SUFFICES ASSUME s.channel \in channels' PROVE s.thread \in paired'
      OBVIOUS
    <3>1. s.channel \in 1..made
      BY <1>1, <1>4
    <3>2. s.channel \in channels
      BY <1>1, <3>1
    <3>3. PICK u \in sessions : u.channel = s.channel
      BY <1>4, <3>2 DEF OwnedBy, RunnersOwned
    <3> QED
      BY <1>1, <1>2, <3>1, <3>3
  <2>3. RunnersOwned(own2)'
    BY <1>1, <2>1 DEF OwnedBy, RunnersOwned
  <2>4. ASSUME NEW u \in sessions', u.channel \in channels', u.thread \notin paired'
        PROVE  /\ u.channel \in DOMAIN byChannel' /\ byChannel'[u.channel] = u.thread
               /\ u.thread \in DOMAIN byThread' /\ byThread'[u.thread] = u.channel
    <3>1. u \in sessions /\ u.channel \in 1..made
      BY <1>1, <2>2, <2>4
    <3>2. u.channel \in channels
      BY <1>1, <2>4, <3>1
    <3> QED
      BY <1>3, <2>1, <2>4, <3>1, <3>2 DEF OwnedBy, SessionsAreServed
  <2> QED
    BY <2>3, <2>4 DEF SessionsAreServed
<1>5. CASE s.channel \notin DOMAIN byChannel
  <2>1. /\ DOMAIN byChannel' = DOMAIN byChannel \cup {s.channel} /\ byChannel'[s.channel] = s.thread
        /\ \A c \in DOMAIN byChannel : c # s.channel /\ byChannel'[c] = byChannel[c]
        /\ DOMAIN byThread' = DOMAIN byThread \cup {s.thread} /\ byThread'[s.thread] = s.channel
        /\ \A t \in DOMAIN byThread : t # s.thread => byThread'[t] = byThread[t]
    BY <1>5 DEF Register
  <2>2. \A c \in DOMAIN byChannel' : c \in 1..made' /\ byChannel'[c] = own2[c]
    BY <1>1, <2>1
  <2>3. \A c \in channels' \cap DOMAIN byChannel' : \E u \in sessions' : u.channel = c
    BY <1>1, <2>1 DEF OwnedBy, RunnersOwned
  <2>4. ASSUME NEW u \in sessions', u.channel \in channels', u.thread \notin paired'
        PROVE  /\ u.channel \in DOMAIN byChannel' /\ byChannel'[u.channel] = u.thread
               /\ u.thread \in DOMAIN byThread' /\ byThread'[u.thread] = u.channel
    <3>1. CASE u.thread = s.thread
      <4>1. u = s
        BY <1>2, <2>4, <3>1
      <4> QED
        BY <2>1, <4>1
    <3>2. CASE u.thread # s.thread
      <4>1. u \in sessions /\ u.channel \in channels /\ u.thread \notin paired
        BY <1>1, <1>3, <2>4, <3>2
      <4>2. /\ u.channel \in DOMAIN byChannel /\ byChannel[u.channel] = u.thread
            /\ u.thread \in DOMAIN byThread /\ byThread[u.thread] = u.channel
        BY <4>1 DEF OwnedBy, SessionsAreServed
      <4> QED
        BY <2>1, <3>2, <4>2
    <3> QED
      BY <3>1, <3>2
  <2> QED
    BY <2>2, <2>3, <2>4 DEF RunnersOwned, SessionsAreServed
<1> QED
  BY <1>4, <1>5

LEMMA RunnersStay ==
    ASSUME NEW own, RunnersOwned(own), SessionsAreServed, UNCHANGED <<sessions, byChannel, byThread, channels, made, paired>>
    PROVE  RunnersOwned(own)' /\ SessionsAreServed'
BY DEF RunnersOwned, SessionsAreServed

LEMMA OpensStay ==
    ASSUME OneOpens, crossed \subseteq crossed',
           \A k \in Jobs : jobs'[k].at \in {"posting", "creating"} =>
             jobs[k].at \in {"posting", "creating"} /\ jobs'[k].thread = jobs[k].thread
    PROVE  OneOpens'
BY DEF OneOpens, Opens

\* Steps that leave the sessions, and may save them.
LEMMA StateStays ==
    ASSUME NEW own, OwnedBy(own), UNCHANGED <<sessions, taskOf, posts, busy, channels, made, paired>>,
           crossed \subseteq crossed', saved' = saved \/ saved' = Snapshot', RunnersOwned(own)', SessionsAreServed',
           DOMAIN jobs' = Jobs, \A k \in Jobs : jobs'[k] = jobs[k] \/ JobGood(jobs[k], own)', OneOpens'
    PROVE  OwnedBy(own)'
<1>1. Snapshot' = Snapshot /\ made' = made /\ paired' = paired /\ made \in Nat
  BY DEF Snapshot, OwnedBy
<1>2. Kept(Snapshot, own, made, paired, crossed') /\ Kept(saved, own, made, paired, crossed')
  <2>1. Kept(Snapshot, own, made, paired, crossed) /\ Kept(saved, own, made, paired, crossed)
    BY DEF OwnedBy
  <2> QED
    BY <1>1, <2>1, KeptGrows
<1>3. Kept(Snapshot', own, made', paired', crossed') /\ Kept(saved', own, made', paired', crossed')
  BY <1>1, <1>2
<1>4. ASSUME NEW k \in Jobs PROVE JobGood(jobs[k], own)'
  <2>1. CASE jobs'[k] = jobs[k]
    BY <2>1 DEF OwnedBy, JobGood
  <2> QED
    BY <2>1
<1> QED
  BY <1>3, <1>4 DEF OwnedBy

LEMMA NoJobIsGood == ASSUME NEW own PROVE JobGood(NoJob, own) /\ JobGood(NoJob, own)'
BY DEF JobGood, NoJob

LEMMA OpenKeeps == ASSUME NEW own, OwnedBy(own), NEW j \in Jobs, NEW t \in Codex, Open(j, t) PROVE OwnedBy(own)'
<1>1. UNCHANGED <<sessions, taskOf, posts, busy, channels, made, saved, paired, crossed>>
  BY DEF Open
<1>2. CASE TaskSessions(t) # {} /\ Register((CHOOSE s \in TaskSessions(t) : TRUE).channel, t) /\ UNCHANGED jobs
  <2>1. PICK u : u = (CHOOSE s \in TaskSessions(t) : TRUE)
    OBVIOUS
  <2>2. u \in sessions /\ u.thread = t
    BY <1>2, <2>1 DEF TaskSessions, Of
  <2>3. RunnersOwned(own)' /\ SessionsAreServed'
    BY <1>1, <1>2, <2>1, <2>2, SessionRegistered
  <2>4. OneOpens'
    BY <1>1, <1>2, OpensStay DEF OwnedBy
  <2> QED
    BY <1>1, <1>2, <2>3, <2>4, StateStays DEF OwnedBy
<1>3. CASE /\ UNCHANGED <<byChannel, byThread>>
           /\ jobs' = [jobs EXCEPT ![j] = [NoJob EXCEPT !.at = "resuming", !.thread = t]]
  <2>1. RunnersOwned(own)' /\ SessionsAreServed'
    BY <1>1, <1>3, RunnersStay DEF OwnedBy
  <2>2. DOMAIN jobs' = Jobs /\ \A k \in Jobs : jobs'[k] = IF k = j THEN [NoJob EXCEPT !.at = "resuming", !.thread = t] ELSE jobs[k]
    BY <1>3 DEF OwnedBy
  <2>3. JobGood(jobs[j], own)'
    BY <2>2 DEF JobGood, NoJob, Threads
  <2>4. OneOpens'
    BY <1>1, <2>2, OpensStay DEF OwnedBy, NoJob
  <2> QED
    BY <1>1, <2>1, <2>2, <2>3, <2>4, StateStays
<1> QED
  BY <1>2, <1>3 DEF Open

\* The thread that was resumed has a session by now, or its event goes on to open it:
\* the only one, or the thread is crossed.
LEMMA ResumedKeeps == ASSUME NEW own, OwnedBy(own), NEW j \in Jobs, Resumed(j) PROVE OwnedBy(own)'
<1> DEFINE t == jobs[j].thread
<1>1. UNCHANGED <<sessions, taskOf, posts, busy, channels, made, saved, paired>> /\ jobs[j].at = "resuming"
  BY DEF Resumed
<1>2. JobGood(jobs[j], own) /\ t \in Threads
  BY <1>1 DEF OwnedBy, JobGood
<1>3. CASE Existing(t) # {} /\ Reuse(t) /\ Ends(j) /\ UNCHANGED crossed
  <2>1. PICK u \in sessions : u.thread = t /\ Register(u.channel, u.thread)
    BY <1>3 DEF Existing, Reuse, TaskSessions, Of
  <2>2. RunnersOwned(own)' /\ SessionsAreServed'
    BY <1>1, <2>1, SessionRegistered
  <2>3. DOMAIN jobs' = Jobs /\ \A k \in Jobs : jobs'[k] = IF k = j THEN NoJob ELSE jobs[k]
    BY <1>3 DEF OwnedBy, Ends
  <2>4. OneOpens'
    BY <1>3, <2>3, OpensStay DEF OwnedBy, NoJob
  <2>5. \A k \in Jobs : jobs'[k] = jobs[k] \/ JobGood(jobs[k], own)'
    BY <2>3, NoJobIsGood
  <2> QED
    BY <1>1, <1>3, <2>2, <2>3, <2>4, <2>5, StateStays
<1>4. CASE /\ Existing(t) = {} /\ Goes(j, IF posts = 0 THEN "posting" ELSE "creating")
           /\ crossed' = IF \E k \in Jobs \ {j} : Opens(k) /\ jobs[k].thread = t THEN crossed \cup {t} ELSE crossed
           /\ UNCHANGED <<byChannel, byThread>>
  <2>1. RunnersOwned(own)' /\ SessionsAreServed'
    BY <1>1, <1>4, RunnersStay DEF OwnedBy
  <2>2. PICK at \in {"posting", "creating"} : at = (IF posts = 0 THEN "posting" ELSE "creating")
    OBVIOUS
  <2>3. /\ DOMAIN jobs' = Jobs /\ jobs'[j] = [jobs[j] EXCEPT !.at = at]
        /\ \A k \in Jobs : k # j => jobs'[k] = jobs[k]
    BY <1>4, <2>2 DEF OwnedBy, Goes
  <2>4. /\ DOMAIN jobs'[j] = {"at", "thread", "channel", "left", "gone"} /\ jobs'[j].at = at /\ jobs'[j].thread = t
        /\ jobs'[j].left = jobs[j].left /\ jobs'[j].gone = jobs[j].gone
    BY <1>2, <2>3 DEF JobGood
  <2>5. \A s \in sessions : s.thread = t => s.parent # "tasks"
    BY <1>4 DEF Existing, TaskSessions, Of
  <2>6. JobGood(jobs[j], own)'
    BY <1>1, <1>2, <2>2, <2>4, <2>5 DEF JobGood
  <2>7. OneOpens'
    <3> SUFFICES ASSUME NEW k \in Jobs, NEW l \in Jobs, k # l, Opens(k)', Opens(l)', jobs'[k].thread = jobs'[l].thread
                 PROVE  jobs'[k].thread \in crossed'
      BY DEF OneOpens
    <3>1. CASE k # j /\ l # j
      BY <1>4, <2>3, <3>1 DEF OwnedBy, OneOpens, Opens
    <3>2. CASE k = j \/ l = j
      BY <1>4, <2>3, <2>4, <3>2 DEF Opens
    <3> QED
      BY <3>1, <3>2
  <2>8. crossed \subseteq crossed'
    BY <1>4
  <2> QED
    BY <1>1, <2>1, <2>3, <2>6, <2>7, <2>8, StateStays
<1> QED
  BY <1>3, <1>4 DEF Resumed

LEMMA JobFailsKeeps == ASSUME NEW own, OwnedBy(own), NEW j \in Jobs, JobFails(j) \/ Settle(j) PROVE OwnedBy(own)'
<1>1. /\ UNCHANGED <<sessions, byChannel, byThread, taskOf, posts, busy, channels, made, paired, crossed>> /\ Ends(j)
      /\ saved' = saved \/ saved' = Snapshot'
  BY DEF JobFails, Settle, Persist, Snapshot
<1>2. RunnersOwned(own)' /\ SessionsAreServed'
  BY <1>1, RunnersStay DEF OwnedBy
<1>3. DOMAIN jobs' = Jobs /\ \A k \in Jobs : jobs'[k] = IF k = j THEN NoJob ELSE jobs[k]
  BY <1>1 DEF OwnedBy, Ends
<1>4. OneOpens'
  BY <1>1, <1>3, OpensStay DEF OwnedBy, NoJob
<1>5. \A k \in Jobs : jobs'[k] = jobs[k] \/ JobGood(jobs[k], own)'
  BY <1>3, NoJobIsGood
<1> QED
  BY <1>1, <1>2, <1>3, <1>4, <1>5, StateStays

LEMMA SyncKeeps == ASSUME NEW own, OwnedBy(own), NEW j \in Jobs, NEW t \in Delegated, Sync(j, t) PROVE OwnedBy(own)'
<1>1. UNCHANGED <<sessions, byChannel, byThread, taskOf, posts, busy, channels, made, saved, paired, crossed>>
  BY DEF Sync
<1>2. RunnersOwned(own)' /\ SessionsAreServed'
  BY <1>1, RunnersStay DEF OwnedBy
<1>3. PICK at \in {"syncPosting", "syncing"} : at = (IF posts = 0 THEN "syncPosting" ELSE "syncing")
  OBVIOUS
<1>4. DOMAIN jobs' = Jobs /\ \A k \in Jobs : jobs'[k] = IF k = j THEN [NoJob EXCEPT !.at = at, !.thread = t] ELSE jobs[k]
  BY <1>3 DEF OwnedBy, Sync
<1>5. JobGood(jobs[j], own)'
  BY <1>1, <1>3, <1>4 DEF JobGood, NoJob
<1>6. OneOpens'
  BY <1>1, <1>3, <1>4, OpensStay DEF OwnedBy, NoJob
<1> QED
  BY <1>1, <1>2, <1>4, <1>5, <1>6, StateStays

LEMMA ClearKeeps == ASSUME NEW own, OwnedBy(own), NEW j \in Jobs, Clear(j) PROVE OwnedBy(own)'
<1> DEFINE L == {s \in sessions : s.channel \notin busy}
<1>1. UNCHANGED <<sessions, byChannel, byThread, taskOf, posts, busy, channels, made, saved, paired, crossed>>
  BY DEF Clear
<1>2. RunnersOwned(own)' /\ SessionsAreServed'
  BY <1>1, RunnersStay DEF OwnedBy
<1>3. DOMAIN jobs' = Jobs /\ \A k \in Jobs : jobs'[k] = IF k = j THEN [NoJob EXCEPT !.at = "clearing", !.left = L] ELSE jobs[k]
  BY DEF OwnedBy, Clear
<1>4. \A s \in L : s \in sessions /\ s.channel \in 1..made
  BY DEF OwnedBy, Kept, Snapshot
<1>5. JobGood(jobs[j], own)'
  BY <1>1, <1>3, <1>4 DEF JobGood, NoJob
<1>6. OneOpens'
  BY <1>1, <1>3, OpensStay DEF OwnedBy, NoJob
<1> QED
  BY <1>1, <1>2, <1>3, <1>5, <1>6, StateStays

\* A message or the end of a turn: what is queued is of a stored session, because the
\* runner of an existing Discord thread is.
LEMMA BusyKeeps ==
    ASSUME NEW own, OwnedBy(own), NEW c, TakeMessage(c) \/ TurnOver(c) PROVE OwnedBy(own)'
<1>1. UNCHANGED <<sessions, byChannel, byThread, taskOf, posts, jobs, channels, made, saved, paired, crossed>>
  BY DEF TakeMessage, TurnOver
<1>2. \A d \in busy' : \E s \in sessions : s.channel = d
  <2>1. \A d \in busy : \E s \in sessions : s.channel = d
    BY DEF OwnedBy, Kept, Snapshot
  <2>2. CASE TakeMessage(c)
    BY <2>1, <2>2 DEF TakeMessage, OwnedBy, RunnersOwned
  <2>3. CASE TurnOver(c)
    BY <2>1, <2>3 DEF TurnOver
  <2> QED
    BY <2>2, <2>3
<1>3. Kept(Snapshot', own, made, paired, crossed)
  BY <1>1, <1>2 DEF OwnedBy, Kept, Snapshot
<1>4. RunnersOwned(own)' /\ SessionsAreServed' /\ OneOpens'
  BY <1>1, RunnersStay, OpensStay DEF OwnedBy
<1>5. \A k \in Jobs : JobGood(jobs[k], own)'
  BY <1>1 DEF OwnedBy, JobGood
<1> QED
  BY <1>1, <1>3, <1>4, <1>5 DEF OwnedBy

\* A post is made: the first, or two were about to make it.
LEMMA PostMadeKeeps == ASSUME NEW own, OwnedBy(own), NEW j \in Jobs, PostMade(j) PROVE OwnedBy(own)'
<1>1. /\ UNCHANGED <<sessions, byChannel, byThread, taskOf, busy, channels, made, saved, paired>> /\ posts' = posts + 1
      /\ crossed' = IF \E k \in Jobs \ {j} : Posts(k) THEN crossed \cup {"post"} ELSE crossed
      /\ Posts(j)
  BY DEF PostMade, Posts
<1>2. crossed \subseteq crossed' /\ made \in Nat /\ channels \subseteq 1..made
  BY <1>1 DEF OwnedBy
<1>3. PICK at \in {"creating", "syncing"} :
        (jobs[j].at = "posting" <=> at = "creating") /\ Goes(j, at)
  BY DEF PostMade
<1>4. DOMAIN jobs' = Jobs /\ jobs'[j] = [jobs[j] EXCEPT !.at = at] /\ \A k \in Jobs : k # j => jobs'[k] = jobs[k]
  BY <1>3 DEF OwnedBy, Goes
<1>5. JobGood(jobs[j], own)
  BY DEF OwnedBy
<1>6. /\ DOMAIN jobs'[j] = {"at", "thread", "channel", "left", "gone"} /\ jobs'[j].at = at /\ jobs'[j].thread = jobs[j].thread
      /\ jobs'[j].left = jobs[j].left /\ jobs'[j].gone = jobs[j].gone
  BY <1>4, <1>5 DEF JobGood
<1>7. JobGood(jobs[j], own)'
  BY <1>1, <1>2, <1>3, <1>5, <1>6 DEF JobGood, Posts
<1>8. ASSUME NEW k \in Jobs, k # j PROVE JobGood(jobs[k], own)'
  <2>1. JobGood(jobs[k], own)
    BY DEF OwnedBy
  <2>2. jobs[k].at \in {"posting", "syncPosting"} => "post" \in crossed'
    BY <1>1, <1>8 DEF Posts
  <2> QED
    BY <1>1, <1>2, <1>4, <1>8, <2>1, <2>2 DEF JobGood
<1>9. Kept(Snapshot', own, made, paired, crossed') /\ Kept(saved', own, made, paired, crossed')
  <2>1. Kept(Snapshot, own, made, paired, crossed') /\ Kept(saved, own, made, paired, crossed')
    BY <1>2, KeptGrows DEF OwnedBy
  <2>2. "post" \notin crossed' => posts = 0
    BY <1>1, <1>5 DEF JobGood, Posts
  <2>3. posts \in Nat
    BY DEF OwnedBy, Kept, Snapshot
  <2> QED
    BY <1>1, <2>1, <2>2, <2>3 DEF Kept, Snapshot
<1>10. OneOpens'
  BY <1>2, <1>3, <1>4, <1>6, OpensStay DEF OwnedBy
<1>11. RunnersOwned(own)' /\ SessionsAreServed'
  BY <1>1, RunnersStay DEF OwnedBy
<1> QED
  BY <1>1, <1>2, <1>4, <1>7, <1>8, <1>9, <1>10, <1>11 DEF OwnedBy

\* A Discord thread is made for a message, and belongs to the thread it starts or resumes.
LEMMA StartThreadKeeps ==
    ASSUME NEW own, OwnedBy(own), NEW j \in Jobs, NEW m, NEW t \in Threads, StartThread(j, m, t) PROVE ThreadsInv'
<1>0. PICK own2 : own2 = [c \in Nat |-> IF c = made + 1 THEN t ELSE own[c]]
  OBVIOUS
<1>1. /\ UNCHANGED <<sessions, byChannel, byThread, taskOf, posts, busy, saved, crossed, paired>>
      /\ made' = made + 1 /\ channels' = channels \cup {made + 1}
  BY DEF StartThread, Create, NewChannel
<1>2. made \in Nat /\ channels \subseteq 1..made /\ \A c \in 1..made : own2[c] = own[c]
  BY <1>0 DEF OwnedBy
<1>3. own2[made + 1] = t
  BY <1>0, <1>2
<1>4. DOMAIN jobs' = Jobs /\ \A k \in Jobs : jobs'[k] = IF k = j THEN [NoJob EXCEPT !.at = "starting", !.thread = t, !.channel = made + 1]
                                                         ELSE jobs[k]
  BY DEF OwnedBy, StartThread, NewChannel
<1>5. JobGood(jobs[j], own2)'
  <2>1. /\ DOMAIN jobs'[j] = {"at", "thread", "channel", "left", "gone"} /\ jobs'[j].at = "starting" /\ jobs'[j].thread = t
        /\ jobs'[j].channel = made + 1 /\ jobs'[j].left = {} /\ jobs'[j].gone = {}
    BY <1>4 DEF NoJob
  <2> QED
    BY <1>1, <1>2, <1>3, <2>1 DEF JobGood
<1>6. ASSUME NEW k \in Jobs, k # j PROVE JobGood(jobs[k], own2)'
  <2>1. PICK job : job = jobs[k]
    OBVIOUS
  <2>2. JobGood(job, own)
    BY <2>1 DEF OwnedBy
  <2>3. JobGood(job, own2)'
    BY <1>1, <1>2, <2>2, JobStays
  <2> QED
    BY <1>4, <1>6, <2>1, <2>3 DEF JobGood
<1>7. Kept(Snapshot, own, made, paired, crossed) /\ Kept(saved, own, made, paired, crossed)
  BY DEF OwnedBy
<1>8. Kept(Snapshot, own2, made + 1, paired, crossed) /\ Kept(saved, own2, made + 1, paired, crossed)
  BY <1>2, <1>7, KeptGrows
<1>9. Snapshot' = Snapshot
  BY <1>1 DEF Snapshot
<1>10. OneOpens'
  BY <1>1, <1>4, OpensStay DEF OwnedBy, NoJob
<1>11. \A u \in sessions : u.channel \in 1..made
  BY <1>7 DEF Kept, Snapshot
<1>12. RunnersOwned(own2)' /\ SessionsAreServed'
  BY <1>1, <1>2, <1>11 DEF OwnedBy, RunnersOwned, SessionsAreServed
<1>13. OwnedBy(own2)'
  BY <1>1, <1>2, <1>4, <1>5, <1>6, <1>8, <1>9, <1>10, <1>12 DEF OwnedBy
<1> QED
  BY <1>13 DEF ThreadsInv

\* The task thread is made, the first of its codex thread, or two were about to make it.
LEMMA ThreadMadeKeeps == ASSUME NEW own, OwnedBy(own), NEW j \in Jobs, ThreadMade(j) PROVE ThreadsInv'
<1> DEFINE t == jobs[j].thread
<1>s. PICK s : s = Session(made + 1, t, "tasks")
  OBVIOUS
<1>0. PICK own2 : own2 = [c \in Nat |-> IF c = made + 1 THEN t ELSE own[c]]
  OBVIOUS
<1>1. /\ UNCHANGED <<posts, busy, saved, crossed>> /\ jobs[j].at = "creating" /\ Goes(j, "settling")
      /\ made' = made + 1 /\ channels' = channels \cup {made + 1} /\ Push(s)
      /\ taskOf' = IF t \in Delegated THEN [taskOf EXCEPT ![t] = made + 1] ELSE taskOf
  BY <1>s DEF ThreadMade, Create, NewChannel
<1>2. made \in Nat /\ channels \subseteq 1..made /\ \A c \in 1..made : own2[c] = own[c]
  BY <1>0 DEF OwnedBy
<1>3. own2[made + 1] = t
  BY <1>0, <1>2
<1>4. JobGood(jobs[j], own) /\ t \in Threads
  BY <1>1 DEF OwnedBy, JobGood
<1>5. s.channel = made + 1 /\ s.thread = t /\ s.parent = "tasks" /\ s \in [channel: 1..(made + 1), thread: Threads, parent: {"tasks", "chat"}]
  BY <1>s, <1>2, <1>4 DEF Session
<1>6. /\ sessions' = sessions \cup {s} /\ Register(s.channel, s.thread)
      /\ paired' = IF Of(s.thread) # {} THEN paired \cup {s.thread} ELSE paired
  BY <1>1 DEF Push
<1>7. RunnersOwned(own2)' /\ SessionsAreServed'
  <2>1. /\ made' \in Nat /\ made <= made' /\ (\A c \in channels' : c \in channels \/ c > made) /\ s.channel \in 1..made'
        /\ own2[s.channel] = s.thread
    BY <1>1, <1>2, <1>3, <1>5
  <2> QED
    BY <1>2, <1>6, <2>1, SessionPushed
<1>8. paired \subseteq paired' /\ \A u \in sessions : u.thread = t => t \in paired'
  BY <1>5, <1>6 DEF Of
<1>9. Kept(Snapshot, own2, made + 1, paired', crossed) /\ Kept(saved, own2, made + 1, paired', crossed)
  <2>1. Kept(Snapshot, own, made, paired, crossed) /\ Kept(saved, own, made, paired, crossed)
    BY DEF OwnedBy
  <2> QED
    BY <1>2, <1>8, <2>1, KeptGrows
<1>10. t \notin crossed => \A u \in sessions : u.thread = t => u.parent # "tasks"
  BY <1>1, <1>4 DEF JobGood
<1>11. Kept(Snapshot', own2, made + 1, paired', crossed)
  <2>1. /\ DOMAIN Snapshot' = {"sessions", "taskOf", "posts", "busy"} /\ Snapshot'.sessions = Snapshot.sessions \cup {s}
        /\ Snapshot'.posts = Snapshot.posts /\ Snapshot'.busy \subseteq Snapshot.busy \cup {s.channel}
        /\ Snapshot.sessions = sessions /\ Snapshot.taskOf = taskOf /\ Snapshot'.taskOf = taskOf'
    BY <1>1, <1>6 DEF Snapshot
  <2>2. taskOf \in [Delegated -> 0..(made + 1)]
    BY <1>9, <2>1 DEF Kept
  <2>3. /\ taskOf' \in [Delegated -> 0..(made + 1)] /\ \A d \in Delegated : d # t => taskOf'[d] = taskOf[d]
        /\ t \in Delegated => taskOf'[t] = made + 1
    BY <1>1, <1>2, <2>2
  <2>4. /\ \A u \in Snapshot.sessions : u.thread = s.thread => s.thread \in paired'
        /\ s.parent = "tasks" /\ s.thread \notin crossed => \A u \in Snapshot.sessions : u.thread = s.thread => u.parent # "tasks"
    BY <1>5, <1>8, <1>10, <2>1
  <2>5. /\ \A d \in Delegated : d # s.thread => Snapshot'.taskOf[d] = Snapshot.taskOf[d]
        /\ s.thread \in Delegated /\ s.parent = "tasks" => Snapshot'.taskOf[s.thread] = s.channel
        /\ s.thread \in Delegated /\ s.parent = "chat" => Snapshot'.taskOf[s.thread] = Snapshot.taskOf[s.thread]
        /\ Snapshot'.taskOf \in [Delegated -> 0..(made + 1)]
    BY <1>5, <2>1, <2>3
  <2>6. own2[s.channel] = s.thread
    BY <1>3, <1>5
  <2> QED
    BY <1>5, <1>9, <2>1, <2>4, <2>5, <2>6, KeptPushed
<1>12. DOMAIN jobs' = Jobs /\ jobs'[j] = [jobs[j] EXCEPT !.at = "settling"] /\ \A k \in Jobs : k # j => jobs'[k] = jobs[k]
  BY <1>1 DEF OwnedBy, Goes
<1>13. ASSUME NEW k \in Jobs PROVE JobGood(jobs[k], own2)'
  <2>1. PICK job : job = IF k = j THEN [jobs[j] EXCEPT !.at = "settling"] ELSE jobs[k]
    OBVIOUS
  <2>2. JobGood(job, own)
    <3>1. CASE k = j
      BY <1>4, <2>1, <3>1 DEF JobGood
    <3>2. CASE k # j
      BY <2>1, <3>2 DEF OwnedBy
    <3> QED
      BY <3>1, <3>2
  <2>3. job.at \in {"posting", "creating"} /\ t = job.thread => job.thread \in crossed
    <3>1. CASE k = j
      BY <1>4, <2>1, <3>1 DEF JobGood
    <3>2. CASE k # j
      BY <1>1, <2>1, <3>2 DEF OwnedBy, OneOpens, Opens
    <3> QED
      BY <3>1, <3>2
  <2>4. JobGood(job, own2)'
    BY <1>1, <1>2, <1>5, <1>6, <2>2, <2>3, JobStays
  <2>5. jobs'[k] = job
    BY <1>12, <2>1
  <2> QED
    BY <2>4, <2>5 DEF JobGood
<1>14. OneOpens'
  BY <1>1, <1>4, <1>12, OpensStay DEF OwnedBy, JobGood
<1>15. OwnedBy(own2)'
  BY <1>1, <1>2, <1>7, <1>9, <1>11, <1>12, <1>13, <1>14 DEF OwnedBy
<1> QED
  BY <1>15 DEF ThreadsInv

\* The thread is started or resumed into the Discord thread that was made for it.
LEMMA StartedKeeps == ASSUME NEW own, OwnedBy(own), NEW j \in Jobs, Started(j) PROVE OwnedBy(own)'
<1> DEFINE t == jobs[j].thread
           c == jobs[j].channel
<1>0. PICK s : s = Session(c, t, "chat")
  OBVIOUS
<1>1. /\ UNCHANGED <<taskOf, posts, channels, made, crossed>> /\ jobs[j].at = "starting" /\ Ends(j) /\ Push(s)
      /\ busy' \subseteq busy \cup {c} /\ saved' = Snapshot'
  BY <1>0 DEF Started, Persist, Snapshot
<1>2. made \in Nat /\ channels \subseteq 1..made
  BY DEF OwnedBy
<1>3. t \in Threads /\ c \in 1..made /\ own[c] = t
  BY <1>1 DEF OwnedBy, JobGood
<1>4. s.channel = c /\ s.thread = t /\ s.parent = "chat" /\ s \in [channel: 1..made, thread: Threads, parent: {"tasks", "chat"}]
  BY <1>0, <1>3 DEF Session
<1>5. /\ sessions' = sessions \cup {s} /\ Register(s.channel, s.thread)
      /\ paired' = IF Of(s.thread) # {} THEN paired \cup {s.thread} ELSE paired
  BY <1>1 DEF Push
<1>6. RunnersOwned(own)' /\ SessionsAreServed'
  <2>1. made' \in Nat /\ made <= made' /\ (\A d \in channels' : d \in channels \/ d > made) /\ s.channel \in 1..made'
    BY <1>1, <1>2, <1>3, <1>4
  <2> QED
    BY <1>3, <1>4, <1>5, <2>1, SessionPushed
<1>7. paired \subseteq paired' /\ \A u \in sessions : u.thread = t => t \in paired'
  BY <1>4, <1>5 DEF Of
<1>8. Kept(Snapshot, own, made, paired', crossed)
  BY <1>2, <1>7, KeptGrows DEF OwnedBy
<1>9. Kept(Snapshot', own, made, paired', crossed)
  <2>1. /\ DOMAIN Snapshot' = {"sessions", "taskOf", "posts", "busy"} /\ Snapshot'.sessions = Snapshot.sessions \cup {s}
        /\ Snapshot'.posts = Snapshot.posts /\ Snapshot'.busy \subseteq Snapshot.busy \cup {s.channel}
        /\ Snapshot.sessions = sessions /\ Snapshot'.taskOf = Snapshot.taskOf
    BY <1>1, <1>4, <1>5 DEF Snapshot
  <2>2. Snapshot.taskOf \in [Delegated -> 0..made]
    BY <1>8 DEF Kept
  <2>3. \A u \in Snapshot.sessions : u.thread = s.thread => s.thread \in paired'
    BY <1>4, <1>7, <2>1
  <2> QED
    BY <1>3, <1>4, <1>8, <2>1, <2>2, <2>3, KeptPushed
<1>10. DOMAIN jobs' = Jobs /\ \A k \in Jobs : jobs'[k] = IF k = j THEN NoJob ELSE jobs[k]
  BY <1>1 DEF OwnedBy, Ends
<1>11. ASSUME NEW k \in Jobs PROVE JobGood(jobs[k], own)'
  <2>1. PICK job : job = IF k = j THEN NoJob ELSE jobs[k]
    OBVIOUS
  <2>2. JobGood(job, own)
    BY <2>1, NoJobIsGood DEF OwnedBy
  <2>3. JobGood(job, own)'
    BY <1>1, <1>2, <1>4, <1>5, <2>2, JobStays
  <2> QED
    BY <1>10, <2>1, <2>3 DEF JobGood
<1>12. OneOpens'
  BY <1>1, <1>10, OpensStay DEF OwnedBy, NoJob
<1> QED
  BY <1>1, <1>2, <1>6, <1>9, <1>10, <1>11, <1>12 DEF OwnedBy

\* The session that is made up is of the Discord thread that the delegation remembers,
\* and would be there if another task thread were.
LEMMA SyncedKeeps ==
    ASSUME Delegated \subseteq Codex, NEW own, OwnedBy(own), NEW j \in Jobs, Synced(j) PROVE OwnedBy(own)'
<1> DEFINE t == jobs[j].thread
<1>0. PICK s : s = Session(taskOf[t], t, "tasks")
  OBVIOUS
<1>1. UNCHANGED <<taskOf, posts, busy, channels, made, saved>> /\ jobs[j].at = "syncing" /\ Goes(j, "settling")
  BY DEF Synced
<1>2. made \in Nat /\ channels \subseteq 1..made
  BY DEF OwnedBy
<1>3. JobGood(jobs[j], own) /\ t \in Delegated /\ t \in Threads
  BY <1>1 DEF OwnedBy, JobGood, Threads
<1>4. taskOf[t] \in 0..made /\ (taskOf[t] # 0 => own[taskOf[t]] = t)
  BY <1>3 DEF OwnedBy, Kept, Snapshot
<1>5. DOMAIN jobs' = Jobs /\ jobs'[j] = [jobs[j] EXCEPT !.at = "settling"] /\ \A k \in Jobs : k # j => jobs'[k] = jobs[k]
  BY <1>1 DEF OwnedBy, Goes
<1>6. jobs'[j].at = "settling"
  BY <1>3, <1>5 DEF JobGood
<1>7. JobGood([jobs[j] EXCEPT !.at = "settling"], own)
  BY <1>3 DEF JobGood
<1>8. CASE /\ UNCHANGED <<sessions, crossed, paired>>
           /\ UNCHANGED <<byChannel, byThread>> \/ (s \in sessions /\ Register(taskOf[t], t))
  <2>1. s.channel = taskOf[t] /\ s.thread = t
    BY <1>0 DEF Session
  <2>2. RunnersOwned(own)' /\ SessionsAreServed'
    <3>1. CASE UNCHANGED <<byChannel, byThread>>
      BY <1>1, <1>8, <3>1, RunnersStay DEF OwnedBy
    <3>2. CASE s \in sessions /\ Register(taskOf[t], t)
      BY <1>1, <1>8, <2>1, <3>2, SessionRegistered
    <3> QED
      BY <1>8, <3>1, <3>2
  <2>3. OneOpens'
    BY <1>5, <1>6, <1>8, OpensStay DEF OwnedBy
  <2>4. JobGood(jobs[j], own)'
    <3>1. PICK job : job = [jobs[j] EXCEPT !.at = "settling"]
      OBVIOUS
    <3>2. JobGood(job, own)'
      BY <1>1, <1>7, <1>8, <3>1 DEF JobGood
    <3> QED
      BY <1>5, <3>1, <3>2 DEF JobGood
  <2> QED
    BY <1>1, <1>5, <1>8, <2>2, <2>3, <2>4, StateStays
<1>9. CASE /\ taskOf[t] # 0 /\ s \notin sessions /\ Push(s)
           /\ crossed' = IF \E k \in Jobs : Opens(k) /\ jobs[k].thread = t THEN crossed \cup {t} ELSE crossed
  <2>1. s.channel = taskOf[t] /\ s.thread = t /\ s.parent = "tasks" /\ s \in [channel: 1..made, thread: Threads, parent: {"tasks", "chat"}]
    BY <1>0, <1>3, <1>4, <1>9 DEF Session
  <2>2. /\ sessions' = sessions \cup {s} /\ Register(s.channel, s.thread)
        /\ paired' = IF Of(s.thread) # {} THEN paired \cup {s.thread} ELSE paired
    BY <1>9 DEF Push
  <2>3. RunnersOwned(own)' /\ SessionsAreServed'
    <3>1. made' \in Nat /\ made <= made' /\ (\A d \in channels' : d \in channels \/ d > made) /\ s.channel \in 1..made'
      BY <1>1, <1>2, <2>1
    <3> QED
      BY <1>4, <1>9, <2>1, <2>2, <3>1, SessionPushed
  <2>4. paired \subseteq paired' /\ crossed \subseteq crossed' /\ \A u \in sessions : u.thread = t => t \in paired'
    BY <1>9, <2>1, <2>2 DEF Of
  <2>5. /\ Kept(Snapshot, own, made, paired, crossed) /\ Kept(saved, own, made, paired, crossed)
        /\ Kept(Snapshot, own, made, paired', crossed') /\ Kept(saved, own, made, paired', crossed')
    BY <1>2, <2>4, KeptGrows DEF OwnedBy
  <2>6. t \notin crossed => \A u \in sessions : u.thread = t => u.parent # "tasks"
    <3> SUFFICES ASSUME t \notin crossed, NEW u \in sessions, u.thread = t, u.parent = "tasks" PROVE FALSE
      OBVIOUS
    <3>1. u \in [channel: 1..made, thread: Threads, parent: {"tasks", "chat"}] /\ u.channel = taskOf[t]
      BY <1>3, <2>5 DEF Kept, Snapshot
    <3>2. u = s
      BY <2>1, <3>1
    <3> QED
      BY <1>9, <3>2
  <2>7. Kept(Snapshot', own, made, paired', crossed')
    <3>1. /\ DOMAIN Snapshot' = {"sessions", "taskOf", "posts", "busy"} /\ Snapshot'.sessions = Snapshot.sessions \cup {s}
          /\ Snapshot'.posts = Snapshot.posts /\ Snapshot'.busy \subseteq Snapshot.busy \cup {s.channel}
          /\ Snapshot.sessions = sessions /\ Snapshot'.taskOf = Snapshot.taskOf /\ Snapshot.taskOf = taskOf
      BY <1>1, <2>2 DEF Snapshot
    <3>2. Snapshot.taskOf \in [Delegated -> 0..made]
      BY <2>5 DEF Kept
    <3>3. /\ \A u \in Snapshot.sessions : u.thread = s.thread => s.thread \in paired'
          /\ s.parent = "tasks" /\ s.thread \notin crossed' => \A u \in Snapshot.sessions : u.thread = s.thread => u.parent # "tasks"
      BY <2>1, <2>4, <2>6, <3>1
    <3>4. own[s.channel] = s.thread /\ Snapshot.taskOf[s.thread] = s.channel /\ s.parent # "chat"
      BY <1>4, <1>9, <2>1, <3>1
    <3> QED
      BY <2>1, <2>5, <3>1, <3>2, <3>3, <3>4, KeptPushed
  <2>8. ASSUME NEW k \in Jobs PROVE JobGood(jobs[k], own)'
    <3>1. PICK job : job = IF k = j THEN [jobs[j] EXCEPT !.at = "settling"] ELSE jobs[k]
      OBVIOUS
    <3>2. JobGood(job, own)
      BY <1>7, <3>1 DEF OwnedBy
    <3>3. job.at \in {"posting", "creating"} /\ t = job.thread => job.thread \in crossed'
      <4>1. CASE k = j
        BY <1>5, <1>6, <3>1, <4>1
      <4>2. CASE k # j
        BY <1>9, <3>1, <4>2 DEF Opens
      <4> QED
        BY <4>1, <4>2
    <3>4. JobGood(job, own)'
      BY <1>1, <1>2, <2>1, <2>2, <2>4, <3>2, <3>3, JobStays
    <3>5. jobs'[k] = job
      BY <1>5, <3>1
    <3> QED
      BY <3>4, <3>5 DEF JobGood
  <2>9. OneOpens'
    BY <1>5, <1>6, <2>4, OpensStay DEF OwnedBy
  <2> QED
    BY <1>1, <1>2, <1>5, <2>3, <2>5, <2>7, <2>8, <2>9 DEF OwnedBy
<1> QED
  <2>1. \/ taskOf[t] = 0 /\ UNCHANGED <<sessions, byChannel, byThread, crossed, paired>>
        \/ taskOf[t] # 0 /\ s \in sessions /\ Register(taskOf[t], t) /\ UNCHANGED <<sessions, crossed, paired>>
        \/ /\ taskOf[t] # 0 /\ s \notin sessions /\ Push(s)
           /\ crossed' = IF \E k \in Jobs : Opens(k) /\ jobs[k].thread = t THEN crossed \cup {t} ELSE crossed
    BY <1>0 DEF Synced
  <2> QED
    BY <1>8, <1>9, <2>1

\* A Discord thread is deleted with the runner of its session, the only one of the
\* codex thread unless that was paired.
LEMMA ClearOneKeeps ==
    ASSUME NEW own, OwnedBy(own), NEW j \in Jobs, NEW s \in jobs[j].left, ClearOne(j, s) PROVE OwnedBy(own)'
<1>1. UNCHANGED <<sessions, taskOf, posts, busy, made, saved, crossed, paired>> /\ channels' \subseteq channels
  BY DEF ClearOne
<1>2. JobGood(jobs[j], own) /\ made \in Nat /\ channels \subseteq 1..made
  BY DEF OwnedBy
<1>3. s.channel \in 1..made /\ (s.channel \in channels => s \in sessions)
  BY <1>2 DEF JobGood
<1>5. /\ DOMAIN jobs' = Jobs /\ \A k \in Jobs : k # j => jobs'[k] = jobs[k]
      /\ DOMAIN jobs'[j] = {"at", "thread", "channel", "left", "gone"} /\ jobs'[j].at = jobs[j].at
      /\ jobs'[j].thread = jobs[j].thread /\ jobs'[j].channel = jobs[j].channel /\ jobs'[j].left = jobs[j].left \ {s}
      /\ \A c \in jobs'[j].gone : c \in jobs[j].gone \/ (c = s.channel /\ c \notin channels')
  BY <1>2 DEF ClearOne, OwnedBy, JobGood
<1>6. ASSUME NEW k \in Jobs PROVE JobGood(jobs[k], own)'
  <2>1. PICK job : job = jobs[k]
    OBVIOUS
  <2>2. JobGood(job, own)
    BY <2>1 DEF OwnedBy
  <2>3. JobGood(job, own)'
    BY <1>1, <1>2, <2>2, JobStays
  <2>4. CASE k # j
    BY <1>5, <2>1, <2>3, <2>4 DEF JobGood
  <2>5. CASE k = j
    BY <1>1, <1>3, <1>5, <2>1, <2>3, <2>5 DEF JobGood
  <2> QED
    BY <2>4, <2>5
<1>7. OneOpens'
  BY <1>1, <1>5, OpensStay DEF OwnedBy
<1>8. Snapshot' = Snapshot
  BY <1>1 DEF Snapshot
<1>9. RunnersOwned(own)' /\ SessionsAreServed'
  <2>1. CASE UNCHANGED <<channels, byChannel, byThread>>
    BY <1>1, <2>1, RunnersStay DEF OwnedBy
  <2>2. CASE /\ s.channel \in channels /\ channels' = channels \ {s.channel}
             /\ byChannel' = Without(byChannel, s.channel) /\ byThread' = Without(byThread, s.thread)
    <3>1. /\ DOMAIN byChannel' = DOMAIN byChannel \ {s.channel} /\ \A c \in DOMAIN byChannel' : byChannel'[c] = byChannel[c]
          /\ DOMAIN byThread' = DOMAIN byThread \ {s.thread} /\ \A t \in DOMAIN byThread' : byThread'[t] = byThread[t]
      BY <2>2 DEF Without, Restrict
    <3>2. RunnersOwned(own)'
      BY <1>1, <2>2, <3>1 DEF OwnedBy, RunnersOwned
    <3>3. \A v \in sessions : v # s /\ v.thread = s.thread => s.thread \in paired
      BY <1>3, <2>2 DEF OwnedBy, Kept, Snapshot
    <3>4. SessionsAreServed'
      BY <1>1, <2>2, <3>1, <3>3 DEF OwnedBy, SessionsAreServed
    <3> QED
      BY <3>2, <3>4
  <2> QED
    BY <2>1, <2>2 DEF ClearOne
<1> QED
  BY <1>1, <1>2, <1>5, <1>6, <1>7, <1>8, <1>9 DEF OwnedBy

\* What was deleted leaves the state.
LEMMA ClearDoneKeeps == ASSUME NEW own, OwnedBy(own), NEW j \in Jobs, ClearDone(j) PROVE OwnedBy(own)'
<1> DEFINE G == jobs[j].gone
<1>1. /\ UNCHANGED <<byChannel, byThread, taskOf, posts, channels, made, crossed, paired>> /\ Ends(j)
      /\ sessions' = {s \in sessions : s.channel \notin G} /\ busy' = busy \ G /\ saved' = Snapshot'
  BY DEF ClearDone, Unqueued, Persist, Snapshot
<1>2. JobGood(jobs[j], own) /\ made \in Nat /\ channels \subseteq 1..made
  BY DEF OwnedBy
<1>3. \A c \in G : c \notin channels
  BY <1>2 DEF JobGood
<1>4. Kept(Snapshot', own, made, paired, crossed)
  <2>1. Kept(Snapshot, own, made, paired, crossed)
    BY DEF OwnedBy
  <2>2. \A c \in busy' : \E s \in sessions' : s.channel = c
    BY <1>1, <2>1 DEF Kept, Snapshot
  <2> QED
    BY <1>1, <2>1, <2>2 DEF Kept, Snapshot
<1>5. RunnersOwned(own)' /\ SessionsAreServed'
  BY <1>1, <1>3 DEF OwnedBy, RunnersOwned, SessionsAreServed
<1>6. DOMAIN jobs' = Jobs /\ \A k \in Jobs : jobs'[k] = IF k = j THEN NoJob ELSE jobs[k]
  BY <1>1 DEF OwnedBy, Ends
<1>7. ASSUME NEW k \in Jobs PROVE JobGood(jobs[k], own)'
  <2>1. PICK job : job = IF k = j THEN NoJob ELSE jobs[k]
    OBVIOUS
  <2>2. JobGood(job, own)
    BY <2>1, NoJobIsGood DEF OwnedBy
  <2>3. JobGood(job, own)'
    BY <1>1, <1>2, <1>3, <2>2, JobStays
  <2> QED
    BY <1>6, <2>1, <2>3 DEF JobGood
<1>8. OneOpens'
  BY <1>1, <1>6, OpensStay DEF OwnedBy, NoJob
<1> QED
  BY <1>1, <1>2, <1>4, <1>5, <1>6, <1>7, <1>8 DEF OwnedBy

\* Every saved session gets its runner; the notifications of a thread go to one of its
\* sessions.
LEMMA RestartKeeps == ASSUME NEW own, OwnedBy(own), Restart PROVE OwnedBy(own)'
<1>1. /\ sessions' = saved.sessions /\ taskOf' = saved.taskOf /\ posts' = saved.posts /\ busy' = saved.busy
      /\ UNCHANGED <<channels, made, saved, crossed, paired>> /\ jobs' = [j \in Jobs |-> NoJob]
  BY DEF Restart
<1>2. Kept(saved, own, made, paired, crossed) /\ made \in Nat /\ channels \subseteq 1..made
  BY DEF OwnedBy
<1>3. Kept(Snapshot', own, made, paired, crossed)
  BY <1>1, <1>2 DEF Kept, Snapshot
<1>4. /\ \A s \in sessions' : s.channel \in 1..made /\ own[s.channel] = s.thread
      /\ \A u, v \in sessions' : u # v /\ u.thread = v.thread => u.thread \in paired
  BY <1>1, <1>2 DEF Kept
<1>5. /\ DOMAIN byChannel' = {s.channel : s \in sessions'}
      /\ \A c \in DOMAIN byChannel' : byChannel'[c] = own[c]
  <2>1. byChannel' = [c \in {s.channel : s \in sessions'} |-> (CHOOSE s \in sessions' : s.channel = c).thread]
    BY <1>1 DEF Restart
  <2>2. ASSUME NEW c \in {s.channel : s \in sessions'} PROVE byChannel'[c] = own[c]
    <3>1. PICK u : u = (CHOOSE s \in sessions' : s.channel = c)
      OBVIOUS
    <3>2. u \in sessions' /\ u.channel = c
      BY <3>1
    <3> QED
      BY <1>4, <2>1, <3>1, <3>2
  <2> QED
    BY <2>1, <2>2
<1>6. /\ DOMAIN byThread' = {s.thread : s \in sessions'}
      /\ \A t \in DOMAIN byThread' : byThread'[t] \in DOMAIN byChannel' /\ byChannel'[byThread'[t]] = t
  BY <1>1, <1>5 DEF Restart
<1>7. RunnersOwned(own)'
  BY <1>1, <1>4, <1>5 DEF RunnersOwned
<1>8. SessionsAreServed'
  <2> SUFFICES ASSUME NEW s \in sessions', s.thread \notin paired
               PROVE  /\ s.channel \in DOMAIN byChannel' /\ byChannel'[s.channel] = s.thread
                      /\ s.thread \in DOMAIN byThread' /\ byThread'[s.thread] = s.channel
    BY <1>1 DEF SessionsAreServed
  <2>1. s.channel \in DOMAIN byChannel' /\ byChannel'[s.channel] = s.thread /\ s.thread \in DOMAIN byThread'
    BY <1>4, <1>5, <1>6
  <2>2. PICK v \in sessions' : v.channel = byThread'[s.thread]
    BY <1>5, <1>6, <2>1
  <2>3. v.thread = s.thread
    BY <1>4, <1>5, <1>6, <2>1, <2>2
  <2>4. v = s
    BY <1>4, <2>3
  <2> QED
    BY <2>1, <2>2, <2>4
<1>9. DOMAIN jobs' = Jobs /\ (\A k \in Jobs : JobGood(jobs[k], own)') /\ OneOpens'
  <2>1. \A k \in Jobs : jobs'[k] = NoJob
    BY <1>1
  <2>2. \A k \in Jobs : JobGood(jobs[k], own)'
    BY <2>1, NoJobIsGood
  <2>3. OneOpens'
    BY <2>1 DEF OneOpens, Opens, NoJob
  <2> QED
    BY <1>1, <2>2, <2>3
<1> QED
  BY <1>1, <1>2, <1>3, <1>7, <1>8, <1>9 DEF OwnedBy

\* With one task session of each codex thread that was not crossed, and what is queued
\* of stored sessions, everything is tracked.
LEMMA ThreadsInvSuffices == ThreadsInv => ThreadsAreTracked
<1> SUFFICES ASSUME NEW own, OwnedBy(own) PROVE ThreadsAreTracked
  BY DEF ThreadsInv
<1>1. Kept(Snapshot, own, made, paired, crossed) /\ SessionsAreServed
  BY DEF OwnedBy
<1>2. ASSUME NEW t \in Threads \ crossed PROVE Cardinality(TaskSessions(t)) <= 1
  <2>1. CASE TaskSessions(t) = {}
    BY <2>1, FS_EmptySet
  <2>2. CASE TaskSessions(t) # {}
    <3>1. PICK s : s \in TaskSessions(t)
      BY <2>2
    <3>2. TaskSessions(t) = {s}
      BY <1>1, <1>2, <3>1 DEF TaskSessions, Of, Kept, Snapshot
    <3> QED
      BY <3>2, FS_Singleton
  <2> QED
    BY <2>1, <2>2
<1>3. "post" \notin crossed => posts <= 1
  BY <1>1 DEF Kept, Snapshot
<1>4. BusyIsStored
  BY <1>1 DEF BusyIsStored, Kept, Snapshot
<1> QED
  BY <1>1, <1>2, <1>3, <1>4 DEF ThreadsAreTracked, OpenedOnce

\* However pickers, messages, delegations and /clear overlap, whatever fails and
\* whenever the bridge restarts: a codex thread has one task thread and the workspace
\* one post unless two events were about to make it at a time; every session whose
\* Discord thread exists is served by its own runner unless its thread had two; and
\* nothing is queued for a session that is not stored.
THEOREM ThreadsStayTracked == ASSUME Delegated \subseteq Codex PROVE ThreadSpec => []ThreadsAreTracked
<1>1. ASSUME ThreadsInv, ThreadNext PROVE ThreadsInv'
  <2>1. PICK own : OwnedBy(own)
    BY <1>1 DEF ThreadsInv
  <2>2. ASSUME NEW j \in Jobs, NEW t \in Codex, Open(j, t) PROVE ThreadsInv'
    BY <2>1, <2>2, OpenKeeps DEF ThreadsInv
  <2>3. ASSUME NEW j \in Jobs, NEW m \in Starts, NEW t \in Threads, StartThread(j, m, t) PROVE ThreadsInv'
    BY <2>1, <2>3, StartThreadKeeps
  <2>4. ASSUME NEW j \in Jobs, NEW t \in Delegated, Sync(j, t) PROVE ThreadsInv'
    BY <2>1, <2>4, SyncKeeps DEF ThreadsInv
  <2>5. ASSUME NEW j \in Jobs, Resumed(j) \/ PostMade(j) PROVE ThreadsInv'
    BY <2>1, <2>5, ResumedKeeps, PostMadeKeeps DEF ThreadsInv
  <2>6. ASSUME NEW j \in Jobs, ThreadMade(j) PROVE ThreadsInv'
    BY <2>1, <2>6, ThreadMadeKeeps
  <2>7. ASSUME NEW j \in Jobs, Started(j) \/ Synced(j) PROVE ThreadsInv'
    BY <2>1, <2>7, StartedKeeps, SyncedKeeps DEF ThreadsInv
  <2>8. ASSUME NEW j \in Jobs, JobFails(j) \/ Settle(j) PROVE ThreadsInv'
    BY <2>1, <2>8, JobFailsKeeps DEF ThreadsInv
  <2>9. ASSUME NEW j \in Jobs, Clear(j) \/ ClearDone(j) PROVE ThreadsInv'
    BY <2>1, <2>9, ClearKeeps, ClearDoneKeeps DEF ThreadsInv
  <2>10. ASSUME NEW j \in Jobs, NEW s \in jobs[j].left, ClearOne(j, s) PROVE ThreadsInv'
    BY <2>1, <2>10, ClearOneKeeps DEF ThreadsInv
  <2>11. ASSUME NEW c, TakeMessage(c) \/ TurnOver(c) PROVE ThreadsInv'
    BY <2>1, <2>11, BusyKeeps DEF ThreadsInv
  <2>12. CASE Restart
    BY <2>1, <2>12, RestartKeeps DEF ThreadsInv
  <2> QED
    BY <1>1, <2>2, <2>3, <2>4, <2>5, <2>6, <2>7, <2>8, <2>9, <2>10, <2>11, <2>12 DEF ThreadNext
<1>2. ASSUME ThreadsInv, UNCHANGED threadVars PROVE ThreadsInv'
  BY <1>2 DEF ThreadsInv, OwnedBy, threadVars, Kept, Snapshot, RunnersOwned, SessionsAreServed, JobGood, OneOpens, Opens
<1>3. ThreadsInv /\ [ThreadNext]_threadVars => ThreadsInv'
  BY <1>1, <1>2
<1> QED
  BY <1>3, ThreadsStart, ThreadsInvSuffices, PTL DEF ThreadSpec
=============================================================================
