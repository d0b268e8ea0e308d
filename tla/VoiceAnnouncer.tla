---------------------------- MODULE VoiceAnnouncer ----------------------------
(***************************************************************************)
(* Completed turns become announcements of the voice gateway               *)
(* (apps/workspace-voice-gateway/src/gateway.ts, announcements.ts and      *)
(* announcer.ts).  Each is polished by a turn of an announcer thread that  *)
(* lives in the same workspace, so that the gateway hears the completions  *)
(* of that thread too and must pass them over.                             *)
(***************************************************************************)
EXTENDS Integers, Sequences, FiniteSets

CONSTANTS
    VoiceTurns, \* turns of the workspace that complete
    MaxOwn      \* bound on the turns of announcer threads

VARIABLES
    completions, \* turn/completed notifications on their way to the gateway
    completed,   \* turns of the workspace that completed
    polish,      \* the polish calls, by the turn that is announced
    flowMade,    \* #flow is set
    announcer,   \* #threadId, 0 when it is not known
    ownThreads,  \* announcer threads so far; a thread is its number
    ownTurns,    \* their turns: thread and whether it runs
    announced,   \* what was handed to the speech queue
    heardItself  \* a completion of an announcer thread was taken for news

announcerVars == <<completions, completed, polish, flowMade, announcer, ownThreads, ownTurns, announced, heardItself>>

Workspace == 0
AnnouncerTypeOK ==
    /\ completed \subseteq VoiceTurns
    /\ \A i \in DOMAIN completions : completions[i].thread \in 0..ownThreads
    /\ \A c \in polish : c.at \in {"connect", "thread", "start", "wait"} /\ c.thread \in 0..ownThreads /\ c.own \in 0..Len(ownTurns)
    /\ announcer \in 0..ownThreads /\ flowMade \in BOOLEAN /\ heardItself \in BOOLEAN
    /\ \A a \in announced : a.as \in {"announcer", "fallback", "skipped"}

AnnouncerInit ==
    /\ completions = <<>> /\ completed = {} /\ polish = {}
    /\ flowMade = FALSE /\ announcer = 0 /\ ownThreads = 0 /\ ownTurns = <<>>
    /\ announced = {} /\ heardItself = FALSE

WorkspaceTurnEnds(t) ==
    /\ t \notin completed /\ completed' = completed \cup {t}
    /\ completions' = Append(completions, [thread |-> Workspace, turn |-> t])
    /\ UNCHANGED <<polish, flowMade, announcer, ownThreads, ownTurns, announced, heardItself>>

\* Mutant: nothing is ignored.
IgnoresNone == {}
\* ignoredThreadIds: the announcer's thread, once its id is known.
Ignored == {announcer} \ {Workspace}
\* #handleNotification, draftFromNotification: the draft is polished.  The first
\* call makes the client and connects it; a call that finds it made goes on.
HandleCompletion ==
    /\ completions # <<>> /\ completions' = Tail(completions)
    /\ LET n == Head(completions) IN
       \/ /\ n.thread \in Ignored
          /\ UNCHANGED <<polish, flowMade, heardItself>>
       \/ /\ n.thread \notin Ignored
          /\ polish' = polish \cup {[of |-> n, own |-> 0, thread |-> IF flowMade THEN announcer ELSE 0,
                at |-> IF ~flowMade THEN "connect" ELSE IF announcer = 0 THEN "thread" ELSE "start"]}
          /\ flowMade' = TRUE
          /\ heardItself' = (heardItself \/ n.thread # Workspace)
    /\ UNCHANGED <<completed, announcer, ownThreads, ownTurns, announced>>

Step(c, next) == polish' = (polish \ {c}) \cup {next}
Announce(c, as) == polish' = polish \ {c} /\ announced' = announced \cup {[of |-> c.of, as |-> as]}

\* The end of connect, and #ensureThread: no thread yet, so one is asked for.
Connected(c) ==
    /\ c.at = "connect"
    /\ Step(c, [c EXCEPT !.thread = announcer, !.at = IF announcer = 0 THEN "thread" ELSE "start"])
    /\ UNCHANGED <<completions, completed, flowMade, announcer, ownThreads, ownTurns, announced, heardItself>>

\* The answer to thread/start.
ThreadStarted(c) ==
    /\ c.at = "thread"
    /\ ownThreads' = ownThreads + 1 /\ announcer' = ownThreads + 1
    /\ Step(c, [c EXCEPT !.at = "start", !.thread = ownThreads + 1])
    /\ UNCHANGED <<completions, completed, flowMade, ownTurns, announced, heardItself>>

Busy(thread) == \E i \in DOMAIN ownTurns : ownTurns[i].thread = thread /\ ownTurns[i].runs
\* startFlow: a turn in the thread that this call found.
PolishTurn(c) ==
    /\ c.at = "start" /\ Len(ownTurns) < MaxOwn /\ ~Busy(c.thread)
    /\ ownTurns' = Append(ownTurns, [thread |-> c.thread, runs |-> TRUE])
    /\ Step(c, [c EXCEPT !.at = "wait", !.own = Len(ownTurns) + 1])
    /\ UNCHANGED <<completions, completed, flowMade, announcer, ownThreads, announced, heardItself>>

\* The app-server ends the announcer's turn and tells every peer.
OwnTurnEnds(i) ==
    /\ ownTurns[i].runs
    /\ ownTurns' = [ownTurns EXCEPT ![i].runs = FALSE]
    /\ completions' = Append(completions, [thread |-> ownTurns[i].thread, turn |-> i])
    /\ UNCHANGED <<completed, polish, flowMade, announcer, ownThreads, announced, heardItself>>

\* Its answer: a decision to speak or not, or no JSON, which the template answers.
Polished(c) ==
    /\ c.at = "wait" /\ ~ownTurns[c.own].runs
    /\ \E as \in {"announcer", "skipped"} : Announce(c, as)
    /\ UNCHANGED <<completions, completed, flowMade, announcer, ownThreads, ownTurns, heardItself>>

\* A request fails, the app-server refuses a second active turn, or the wait
\* times out: the announcement is made without the announcer.
PolishFails(c) ==
    /\ Announce(c, "fallback")
    /\ UNCHANGED <<completions, completed, flowMade, announcer, ownThreads, ownTurns, heardItself>>

AnnouncerNext ==
    \/ \E t \in VoiceTurns : WorkspaceTurnEnds(t)
    \/ HandleCompletion
    \/ \E c \in polish : Connected(c) \/ ThreadStarted(c) \/ PolishTurn(c) \/ Polished(c) \/ PolishFails(c)
    \/ \E i \in DOMAIN ownTurns : OwnTurnEnds(i)

AnnouncerSpec == AnnouncerInit /\ [][AnnouncerNext]_announcerVars

-----------------------------------------------------------------------------
(* Properties.                                                             *)

\* The announcer's thread is ignored, "so it cannot announce itself"
\* (docs/pages/reference/workspace-voice-gateway.md:140-141).
AnnouncerIsSilent == ~heardItself

\* Only a second announcer thread, which two polish calls start when neither
\* has its answer, makes the gateway hear the first.
OneAnnouncerIsSilent == ownThreads <= 1 => ~heardItself
=============================================================================
