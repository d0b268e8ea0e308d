---------------------------- MODULE InboundMessages ----------------------------
(***************************************************************************)
(* The way of a Discord message to the runner of its channel               *)
(* (apps/discord-bridge/src): Discord may deliver it more than once; the   *)
(* transport calls a mention a threadStart; the backend routes it by its   *)
(* channel and remembers in memory, for a while, that it came; the runner  *)
(* takes it from its mailbox and knows it from the saved state.  Both      *)
(* memories are bounded.  A mention outside of the home channel makes a    *)
(* Discord thread, whose messages may come before its session is there.    *)
(***************************************************************************)
EXTENDS Integers, Sequences, FiniteSets, SequencesExt

CONSTANTS
    Plain,        \* messages written in the home channel
    Mentions,     \* messages there that mention the bot
    Starter,      \* a message that starts a thread, and its first prompt
    Replies,      \* messages written in that thread
    SeenTtl, MaxSeen, \* the in-memory cache: 300 s and 2000 messages in the code
    MaxProcessed, \* saved message ids, 1000 in the code
    MaxClock, MaxComing, MaxStops \* bounds: the time, deliveries of a message, restarts

VARIABLES
    clock,
    again,     \* the message that Discord may deliver more than once
    seen,      \* #dedupe: message ids with the time they came, in insertion order
    starting,  \* #handleThreadStart: "no", "thread" or "session"
    opened,    \* the thread has a session and a runner
    mailbox,   \* of the runners: messages that wait
    steering,  \* the message that a runner gives to the turn that is active
    inTurn,    \* the message whose turn is active, in the queue
    processed, \* processedMessageIds
    kept,      \* the state file
    coming,    \* deliveries of each message so far
    handled,   \* turns and steers that each message led to
    dropped,   \* messages whose steer was refused
    stops,
    outlived,  \* messages the cache, or the process, no longer remembers
    outrun     \* messages that the saved ids no longer hold, or never held

inboundVars == <<clock, again, seen, starting, opened, mailbox, steering, inTurn, processed, kept,
                 coming, handled, dropped, stops, outlived, outrun>>
runnerVars == <<mailbox, steering, inTurn, processed, kept, handled, dropped, outrun>>

Messages == Plain \cup Mentions \cup {Starter} \cup Replies
Runners == {"home", "thread"}
Nothing == "nothing"

InboundTypeOK ==
    /\ clock \in 0..MaxClock /\ again \in Messages /\ opened \in BOOLEAN
    /\ \A i \in DOMAIN seen : seen[i].id \in Messages /\ seen[i].at \in 0..clock
    /\ Len(seen) <= MaxSeen /\ Len(processed) <= MaxProcessed
    /\ starting \in {"no", "thread", "session"}
    /\ \A r \in Runners :
         /\ ToSet(mailbox[r]) \subseteq Messages
         /\ steering[r] \in Messages \cup {Nothing} /\ inTurn[r] \in Messages \cup {Nothing}
    /\ kept.opened \in BOOLEAN /\ dropped \subseteq Messages

InboundInit ==
    /\ clock = 0 /\ again \in Messages /\ seen = <<>> /\ starting = "no" /\ opened = FALSE
    /\ mailbox = [r \in Runners |-> <<>>]
    /\ steering = [r \in Runners |-> Nothing] /\ inTurn = steering /\ processed = <<>>
    /\ kept = [processed |-> <<>>, inTurn |-> inTurn, opened |-> FALSE]
    /\ coming = [m \in Messages |-> 0] /\ handled = coming
    /\ dropped = {} /\ stops = 0 /\ outlived = {} /\ outrun = {}

-----------------------------------------------------------------------------
(* MessageDeduplicator.                                                    *)

IdsOf(entries) == {entries[i].id : i \in DOMAIN entries}
IsSeen(m) == \E i \in DOMAIN seen : seen[i].id = m /\ clock - seen[i].at < SeenTtl
\* seen.set: an entry that is there keeps its place.
With(m) ==
    IF m \in IdsOf(seen)
    THEN [i \in DOMAIN seen |-> IF seen[i].id = m THEN [id |-> m, at |-> clock] ELSE seen[i]]
    ELSE Append(seen, [id |-> m, at |-> clock])
\* Mutant: the oldest entries are kept.
KeepOldest(entries) == SubSeq(SortSeq(entries, LAMBDA a, b : a.at < b.at), 1, MaxSeen)
\* slice(-maxSize), of the entries sorted by their time.
KeepNewest(entries) ==
    SubSeq(SortSeq(entries, LAMBDA a, b : a.at < b.at), Len(entries) - MaxSeen + 1, Len(entries))
\* When there are too many, the expired ones go first, and then the oldest.
Evicted(entries) ==
    LET fresh == SelectSeq(entries, LAMBDA e : e.at > clock - SeenTtl)
    IN IF Len(entries) <= MaxSeen THEN entries
       ELSE IF Len(fresh) <= MaxSeen THEN fresh ELSE KeepNewest(fresh)
Remember(m) ==
    /\ seen' = Evicted(With(m))
    /\ outlived' = (outlived \cup (IdsOf(seen) \ IdsOf(seen'))) \cup (IF m \in IdsOf(seen) THEN {m} ELSE {})

-----------------------------------------------------------------------------
(* Routing.                                                                *)

Arrives(m) == coming[m] < (IF m = again THEN MaxComing ELSE 1) /\ coming' = [coming EXCEPT ![m] = @ + 1]
Enqueue(r, m) == mailbox' = [mailbox EXCEPT ![r] = Append(@, m)]
RestOf == UNCHANGED <<clock, again, steering, inTurn, processed, kept, handled, dropped, stops, outrun>>

\* #handleWorkspaceThreadStart: a mention in the home channel is a message
\* that was not looked up.
HomeMention(m) ==
    /\ m \in Mentions /\ Arrives(m)
    /\ Enqueue("home", m)
    /\ RestOf /\ UNCHANGED <<seen, outlived, starting, opened>>
\* #handleMessage looks the message up before it looks for a runner or at the
\* user: what is ignored is seen, too.
Duplicate(m) ==
    /\ m \in Plain \cup Replies /\ Arrives(m) /\ IsSeen(m)
    /\ RestOf /\ UNCHANGED <<seen, outlived, starting, opened, mailbox>>
HomeMessage(m) ==
    /\ m \in Plain /\ Arrives(m) /\ ~IsSeen(m) /\ Remember(m)
    /\ Enqueue("home", m)
    /\ RestOf /\ UNCHANGED <<starting, opened>>
Reply(m) ==
    /\ m \in Replies /\ (starting # "no" \/ opened)
    /\ Arrives(m) /\ ~IsSeen(m) /\ Remember(m)
    /\ IF ~opened THEN UNCHANGED mailbox ELSE Enqueue("thread", m)
    /\ RestOf /\ UNCHANGED <<starting, opened>>
\* #handleThreadStart: the message must be new to the cache and to the state.
Known(m) == m \in ToSet(processed) \/ \E r \in Runners : inTurn[r] = m
StartThread ==
    /\ Arrives(Starter)
    /\ IF IsSeen(Starter)
       THEN UNCHANGED <<seen, outlived, starting>>
       ELSE /\ Remember(Starter)
            /\ starting' = IF Known(Starter) \/ starting # "no" \/ opened THEN starting ELSE "thread"
    /\ RestOf /\ UNCHANGED <<opened, mailbox>>
\* The Discord thread and the codex thread are there: the session, its runner and
\* the file; then the prompt, with the id of the message.
SessionMade ==
    /\ starting = "thread" /\ starting' = "session" /\ opened' = TRUE
    /\ kept' = [processed |-> processed, inTurn |-> inTurn, opened |-> TRUE]
    /\ UNCHANGED <<clock, again, seen, outlived, mailbox, steering, inTurn, processed, coming, handled, dropped, stops, outrun>>
PromptEnqueued ==
    /\ starting = "session" /\ starting' = "no" /\ Enqueue("thread", Starter)
    /\ RestOf /\ UNCHANGED <<seen, outlived, opened, coming>>

-----------------------------------------------------------------------------
(* The runners.                                                            *)

Backend == <<clock, again, seen, starting, opened, coming, stops, outlived>>
Save(ids, turns) == kept' = [processed |-> ids, inTurn |-> turns, opened |-> opened]
Counted(m) == handled' = [handled EXCEPT ![m] = @ + 1]
\* addProcessedMessageId: the last ones, each once.
Added(m) ==
    LET ids == Append(SelectSeq(processed, LAMBDA x : x # m), m)
    IN SubSeq(ids, IF Len(ids) > MaxProcessed THEN Len(ids) - MaxProcessed + 1 ELSE 1, Len(ids))
Processed(m) ==
    /\ processed' = Added(m)
    /\ outrun' = outrun \cup (ToSet(processed) \ ToSet(processed'))

Awaits(r) == steering[r] # Nothing
Take(r) == ~Awaits(r) /\ mailbox[r] # <<>> /\ mailbox' = [mailbox EXCEPT ![r] = Tail(@)]
\* isDuplicate.  The deliveries kept are those of messages that are processed.
TakeDuplicate(r) ==
    /\ Take(r) /\ Known(Head(mailbox[r]))
    /\ UNCHANGED <<Backend, steering, inTurn, processed, kept, handled, dropped, outrun>>
\* Nothing is active: the message is queued, saved, and its turn starts.
TakeForTurn(r) ==
    /\ Take(r) /\ ~Known(Head(mailbox[r])) /\ inTurn[r] = Nothing
    /\ inTurn' = [inTurn EXCEPT ![r] = Head(mailbox[r])]
    /\ Save(processed, inTurn') /\ Counted(Head(mailbox[r]))
    /\ UNCHANGED <<Backend, steering, processed, dropped, outrun>>
\* #steerActiveTurn.
TakeForSteer(r) ==
    /\ Take(r) /\ ~Known(Head(mailbox[r])) /\ inTurn[r] # Nothing
    /\ steering' = [steering EXCEPT ![r] = Head(mailbox[r])]
    /\ UNCHANGED <<Backend, inTurn, processed, kept, handled, dropped, outrun>>
SteerAccepted(r) ==
    /\ Awaits(r) /\ steering' = [steering EXCEPT ![r] = Nothing]
    /\ Processed(steering[r]) /\ Save(processed', inTurn) /\ Counted(steering[r])
    /\ UNCHANGED <<Backend, mailbox, inTurn, dropped>>
SteerRefused(r) ==
    /\ Awaits(r) /\ steering' = [steering EXCEPT ![r] = Nothing]
    /\ dropped' = dropped \cup {steering[r]}
    /\ UNCHANGED <<Backend, mailbox, inTurn, processed, kept, handled, outrun>>
\* #completeTurn.
TurnCompleted(r) ==
    /\ ~Awaits(r) /\ inTurn[r] # Nothing /\ inTurn' = [inTurn EXCEPT ![r] = Nothing]
    /\ Processed(inTurn[r]) /\ Save(processed', inTurn')
    /\ UNCHANGED <<Backend, mailbox, steering, handled, dropped>>

-----------------------------------------------------------------------------
Tick ==
    /\ clock < MaxClock /\ clock' = clock + 1
    /\ outlived' = outlived \cup {seen[i].id : i \in {j \in DOMAIN seen : clock' - seen[j].at >= SeenTtl}}
    /\ UNCHANGED <<again, seen, starting, opened, coming, stops, runnerVars>>
\* The bridge ends; a steer may just have been accepted.
Restart ==
    /\ stops < MaxStops /\ stops' = stops + 1
    /\ seen' = <<>> /\ starting' = "no" /\ opened' = kept.opened
    /\ mailbox' = [r \in Runners |-> <<>>] /\ steering' = [r \in Runners |-> Nothing]
    /\ inTurn' = kept.inTurn /\ processed' = kept.processed
    /\ \E accepted \in SUBSET {r \in Runners : Awaits(r)} :
         LET unsaved == {steering[r] : r \in accepted}
         IN /\ handled' = [m \in Messages |-> handled[m] + (IF m \in unsaved THEN 1 ELSE 0)]
            /\ outrun' = outrun \cup unsaved
    /\ outlived' = outlived \cup IdsOf(seen) \cup Mentions
    /\ UNCHANGED <<clock, again, kept, coming, dropped>>

InboundNext ==
    \/ \E m \in Messages : HomeMention(m) \/ Duplicate(m) \/ HomeMessage(m) \/ Reply(m)
    \/ StartThread \/ SessionMade \/ PromptEnqueued
    \/ \E r \in Runners :
         \/ TakeDuplicate(r) \/ TakeForTurn(r) \/ TakeForSteer(r)
         \/ SteerAccepted(r) \/ SteerRefused(r) \/ TurnCompleted(r)
    \/ Tick \/ Restart

InboundSpec == InboundInit /\ [][InboundNext]_inboundVars
-----------------------------------------------------------------------------
(* Properties.                                                             *)

\* A message that Discord delivers again is given to codex again only when both
\* memories have lost it: the cache by its age, its size or a restart, and the
\* saved ids by newer ones or by an end before they were saved.  A mention in the
\* home channel is not looked up in the cache, but the saved ids hold it.
HandledOnce ==
    \A m \in Messages : handled[m] > 1 => m \in outrun /\ m \in outlived \cup Mentions

\* Nothing that is written in the home channel is lost between its mailbox and
\* codex: it waits, it was handled, its steer was refused, or the bridge ended.
NothingSlipsAway ==
    stops = 0 => \A m \in Plain \cup Mentions :
        coming[m] > 0 => m \in dropped \/ handled[m] > 0 \/ m \in ToSet(mailbox["home"]) \/ steering["home"] = m

InboundIsSound == HandledOnce /\ NothingSlipsAway
=============================================================================
