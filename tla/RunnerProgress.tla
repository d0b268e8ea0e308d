---------------------------- MODULE RunnerProgress ----------------------------
(***************************************************************************)
(* What the runner of apps/discord-bridge/src/runner.ts shows of one turn  *)
(* in the Discord thread: the summaries and commentaries it posts while    *)
(* the turn runs and deletes behind the final answer, and the status       *)
(* message it keeps up to date.  ThreadRunner has the queue and the turns; *)
(* here a handler of the mailbox is the list of its calls to Discord and   *)
(* to the state file, any of which may fail or be the last.                *)
(***************************************************************************)
EXTENDS Integers, Sequences, FiniteSets, SequencesExt

CONSTANTS
    MaxSummaries,  \* bound on the summary parts
    MaxDeltas,     \* bound on the deltas of a part
    MaxFailures,   \* bound on the calls that fail
    MaxDowns       \* bound on the restarts of the bridge

VARIABLES
    task,       \* the turn at the app-server
    news,       \* its notifications that the runner has not handled
    chores,     \* the calls left of the handler at work
    alive,
    activeTurn, \* state: the turn is active
    deliveries, \* state: what was posted, by kind, part and number
    statusId,   \* state: the status message, or 0
    onDisk,     \* these three as they are on disk
    buffers,    \* the deltas of each summary part, or NoBuffer
    summarySent, noteSeen, answerHeard,
    watched,    \* the timer of the reconcile is set
    board,      \* the messages in the Discord thread
    ever,       \* those that ever were there
    shown,      \* by status message: whether it says that a turn is active
    failures, downs,
    undeleted,  \* a message could not be deleted
    unsent,     \* the final answer could not be posted
    adopted,    \* the turn was adopted at a delta: no status update followed
    progressMode \* "summary" or "commentary": what is posted while a turn runs

progressVars == <<task, news, chores, alive, activeTurn, deliveries, statusId, onDisk, buffers, summarySent,
                  noteSeen, answerHeard, watched, board, ever, shown, failures, downs, undeleted, unsent, adopted, progressMode>>
remote == <<task, news, progressMode>>
memory == <<buffers, summarySent, noteSeen, answerHeard, watched>>
posted == <<board, ever>>
oddities == <<undeleted, unsent, adopted>>

SummaryParts == 1..MaxSummaries
NoBuffer == -1
Number == Cardinality(ever) + 1
Kinds == {"summary", "commentary", "final", "error", "status"}

ProgressTypeOK ==
    /\ task.phase \in {"before", "running", "completed", "failed"} /\ alive \in BOOLEAN
    /\ board \subseteq ever /\ \A m \in ever : m.kind \in Kinds
    /\ deliveries \subseteq ever /\ buffers \in [SummaryParts -> NoBuffer..MaxDeltas]
    /\ summarySent \subseteq SummaryParts

Blank == [p \in SummaryParts |-> NoBuffer]
FreshState == [activeTurn |-> FALSE, deliveries |-> {}, statusId |-> 0]
ProgressInit ==
    /\ task = [phase |-> "before", parts |-> <<>>, thought |-> FALSE, note |-> FALSE] /\ news = <<>>
    /\ chores = <<[op |-> "ensure"]>> /\ alive = TRUE
    /\ activeTurn = FALSE /\ deliveries = {} /\ statusId = 0 /\ onDisk = FreshState
    /\ buffers = Blank /\ summarySent = {} /\ noteSeen = FALSE /\ answerHeard = FALSE /\ watched = FALSE
    /\ board = {} /\ ever = {} /\ shown = <<>> /\ progressMode \in {"summary", "commentary"}
    /\ failures = 0 /\ downs = 0 /\ undeleted = FALSE /\ unsent = FALSE /\ adopted = FALSE

-----------------------------------------------------------------------------
(* The turn and its notifications.                                         *)

Notify(ns) == news' = IF alive THEN news \o ns ELSE news
Elsewhere == UNCHANGED <<memory, posted, oddities, chores, alive, activeTurn, deliveries, statusId, onDisk, shown, failures, downs, progressMode>>
Thinking == task.phase = "running" /\ progressMode = "summary" /\ ~task.thought

TurnBegins ==
    /\ task.phase = "before" /\ task' = [task EXCEPT !.phase = "running"]
    /\ Notify(<<[type |-> "started"]>>) /\ Elsewhere
NextPart ==
    /\ Thinking /\ Len(task.parts) < MaxSummaries
    /\ task.parts # <<>> => Last(task.parts) > 0
    /\ task' = [task EXCEPT !.parts = Append(@, 0)]
    /\ Notify(<<[type |-> "partAdded", part |-> Len(task.parts) + 1]>>) /\ Elsewhere
NextDelta ==
    /\ Thinking /\ task.parts # <<>> /\ Last(task.parts) < MaxDeltas
    /\ task' = [task EXCEPT !.parts[Len(task.parts)] = @ + 1]
    /\ Notify(<<[type |-> "textDelta", part |-> Len(task.parts)]>>) /\ Elsewhere
ThoughtEnds ==
    /\ Thinking /\ task.parts # <<>> /\ Last(task.parts) > 0 /\ task' = [task EXCEPT !.thought = TRUE]
    /\ Notify(<<[type |-> "reasoning", parts |-> task.parts]>>) /\ Elsewhere
Remark ==
    /\ task.phase = "running" /\ progressMode = "commentary" /\ ~task.note /\ task' = [task EXCEPT !.note = TRUE]
    /\ Notify(<<[type |-> "note"]>>) /\ Elsewhere
\* A completed turn has completed its items and has an answer.
TurnFinishes(phase) ==
    /\ task.phase = "running" /\ (phase = "completed" => task.parts = <<>> \/ task.thought)
    /\ task' = [task EXCEPT !.phase = phase]
    /\ Notify(IF phase = "completed" THEN <<[type |-> "answer"], [type |-> "ended"]>> ELSE <<[type |-> "ended"]>>)
    /\ Elsewhere
Missed ==
    /\ news # <<>> /\ failures < MaxFailures /\ failures' = failures + 1 /\ news' = Tail(news)
    /\ UNCHANGED <<memory, posted, oddities, task, chores, alive, activeTurn, deliveries, statusId, onDisk, shown, downs, progressMode>>

-----------------------------------------------------------------------------
(* The handlers.                                                           *)

Call(op) == [op |-> op]
Send(p) == [op |-> "summary", part |-> p]
Calls(ps) == [n \in DOMAIN ps |-> Send(ps[n])]
InOrder(Chosen(_)) == SelectSeq([p \in SummaryParts |-> p], Chosen)
FinalSent == \E d \in deliveries : d.kind = "final"
Progress == {d \in deliveries : d.kind \in {"summary", "commentary"}}
\* deleteMessage for each recorded progress message.
Deletes ==
    LET order == SetToSortSeq(Progress, LAMBDA m, o : m.n < o.n) IN
    [i \in DOMAIN order |-> [op |-> "delete", message |-> order[i]]]
EndOfTurn == <<Call("retire"), Call("persist"), Call("update")>>
AtRest == alive /\ chores = <<>>

\* What an item that completed leaves to do: each summary that was not sent...
Reasoned(parts) ==
    [n \in 1..Len(parts) |-> [op |-> "fill", part |-> n, text |-> parts[n]]]
\* ... or the commentary.
Settle == <<Call("flush"), Call("final")>>
ItemsOf(turn) == (IF turn.thought THEN Reasoned(turn.parts) ELSE <<>>) \o (IF turn.note THEN <<Call("note")>> ELSE <<>>)

\* #adoptStartedTurn: the turn becomes active, typing, and the state is saved.
Adopt == <<Call("adopt"), Call("persist")>>

\* #ignoreDeliveredTurnNotification, once the answer was posted.
IgnoreNews ==
    /\ AtRest /\ news # <<>> /\ FinalSent /\ news' = Tail(news)
    /\ chores' = Deletes \o (IF activeTurn THEN EndOfTurn ELSE IF Progress # {} THEN <<Call("persist"), Call("update")>> ELSE <<>>)
    /\ UNCHANGED <<memory, posted, oddities, task, alive, activeTurn, deliveries, statusId, onDisk, shown, failures, downs, progressMode>>

\* turn/completed may come without the items.
HandleNews(items) ==
    /\ AtRest /\ news # <<>> /\ ~FinalSent /\ news' = Tail(news)
    /\ LET m == Head(news)
           first == IF activeTurn THEN <<>> ELSE Adopt IN
       /\ chores' =
            CASE m.type = "started" -> Adopt \o <<Call("update")>>
              [] m.type = "partAdded" -> first \o Calls(InOrder(LAMBDA p : p < m.part /\ buffers[p] # NoBuffer))
                                               \o (IF buffers[m.part] > 0 THEN <<Send(m.part)>> ELSE <<[op |-> "buffer", part |-> m.part, text |-> 0]>>)
              [] m.type = "textDelta" -> first \o <<[op |-> "buffer", part |-> m.part, text |-> 1]>>
              [] m.type = "reasoning" -> first \o Reasoned(m.parts)
              [] m.type = "note" -> first \o <<Call("note")>>
              [] m.type = "answer" -> first \o <<Call("hear")>>
              [] m.type = "ended" -> <<Call("adopt")>> \o (IF items THEN ItemsOf(task) ELSE <<>>) \o Settle
       /\ adopted' = IF first # <<>> /\ m.type \notin {"started", "ended"} THEN TRUE ELSE adopted
    /\ UNCHANGED <<memory, posted, task, alive, activeTurn, deliveries, statusId, onDisk, shown, failures, downs, undeleted, unsent, progressMode>>

\* #reconcileActiveTurn: the timer may come before notifications in the inbox.
Reconcile ==
    /\ AtRest /\ activeTurn /\ watched /\ watched' = FALSE /\ task.phase \in {"completed", "failed"}
    /\ chores' = IF task.phase = "completed" THEN ItemsOf(task) \o Settle ELSE <<Call("error")>>
    /\ UNCHANGED <<remote, buffers, summarySent, noteSeen, answerHeard, posted, oddities, alive, activeTurn, deliveries, statusId,
                   onDisk, shown, failures, downs>>

-----------------------------------------------------------------------------
(* The calls.                                                              *)

Doing(op) == alive /\ chores # <<>> /\ Head(chores).op = op
Rest == Tail(chores)
Fails == failures < MaxFailures /\ failures' = failures + 1
Works == UNCHANGED failures
Posted(kind, p, text) == [kind |-> kind, part |-> p, text |-> text, n |-> Number]
Post(m) == board' = board \cup {m} /\ ever' = ever \cup {m}
Unposted == UNCHANGED <<board, ever>>
\* Whether the calls at hand are those of #completeTurn, which catches.
Completing == \E i \in DOMAIN chores : chores[i].op = "final"
\* The end of #completeTurn after an error, or of a handler that throws.
Thrown == IF Completing THEN EndOfTurn ELSE <<>>

\* #upsertActiveTurn and #removeActiveTurn; the thread has one turn here.
Activate == activeTurn' = TRUE
Deactivate == activeTurn' = FALSE
\* turnStatus, of all that renderStatusMessage tells.
Told == activeTurn
\* What was heard of the answer, or #readFinalTurnText.
HasAnswer == answerHeard \/ task.phase = "completed"

\* The typing call of #adoptStartedTurn may throw, before the timer is set.
AdoptTurn ==
    /\ Doing("adopt") /\ Activate
    /\ \/ chores' = Rest /\ Works /\ watched' = (watched \/ ~Completing)
       \/ ~Completing /\ chores' = <<>> /\ Fails /\ UNCHANGED watched
    /\ UNCHANGED <<remote, buffers, summarySent, noteSeen, answerHeard, posted, oddities, alive, deliveries, statusId, onDisk, shown, downs>>

Persist ==
    /\ Doing("persist") /\ chores' = Rest
    /\ onDisk' = [activeTurn |-> activeTurn, deliveries |-> deliveries, statusId |-> statusId]
    /\ UNCHANGED <<remote, memory, posted, oddities, alive, activeTurn, deliveries, statusId, shown, failures, downs>>

\* #ensureSummary and #appendSummary.
Buffer ==
    /\ Doing("buffer") /\ chores' = Rest
    /\ buffers' = [buffers EXCEPT ![Head(chores).part] = (IF @ = NoBuffer THEN 0 ELSE @) + Head(chores).text]
    /\ UNCHANGED <<remote, posted, oddities, alive, activeTurn, deliveries, statusId, onDisk, summarySent, noteSeen, answerHeard, watched, shown, failures, downs>>

\* A completed reasoning item brings the text of each summary.
Fill ==
    /\ Doing("fill")
    /\ LET p == Head(chores).part IN
       IF p \in summarySent THEN chores' = Rest /\ UNCHANGED buffers
       ELSE chores' = <<Send(p)>> \o Rest /\ buffers' = [buffers EXCEPT ![p] = Head(chores).text]
    /\ UNCHANGED <<remote, posted, oddities, alive, activeTurn, deliveries, statusId, onDisk, summarySent, noteSeen, answerHeard, watched, shown, failures, downs>>

\* #sendSummaryMessage has nothing to send.
NothingToSend(p) == buffers[p] <= 0 \/ p \in summarySent
\* #finalizeSummary.
SendSummary ==
    /\ Doing("summary")
    /\ LET p == Head(chores).part
           m == Posted("summary", p, buffers[p]) IN
       \/ /\ NothingToSend(p) /\ Works /\ Unposted /\ chores' = Rest
          /\ buffers' = [buffers EXCEPT ![p] = NoBuffer] /\ UNCHANGED <<deliveries, summarySent>>
       \/ /\ ~NothingToSend(p) /\ Works /\ Post(m)
          /\ deliveries' = deliveries \cup {m} /\ summarySent' = summarySent \cup {p}
          /\ buffers' = [buffers EXCEPT ![p] = NoBuffer] /\ chores' = <<Call("persist")>> \o Rest
       \/ /\ ~NothingToSend(p) /\ Fails /\ Unposted /\ chores' = Thrown /\ UNCHANGED <<deliveries, summarySent, buffers>>
    /\ unsent' = (unsent \/ (failures' > failures /\ Completing))
    /\ UNCHANGED <<remote, alive, activeTurn, statusId, onDisk, noteSeen, answerHeard, watched, shown, downs, undeleted, adopted>>

\* #handleAgentMessageCompleted of a commentary, #sendCommentaryMessage.
SendNote ==
    /\ Doing("note") /\ noteSeen' = TRUE
    /\ LET m == Posted("commentary", 0, 1) IN
       \/ noteSeen /\ Works /\ Unposted /\ chores' = Rest /\ UNCHANGED deliveries
       \/ ~noteSeen /\ Works /\ Post(m) /\ deliveries' = deliveries \cup {m} /\ chores' = <<Call("persist")>> \o Rest
       \/ ~noteSeen /\ Fails /\ Unposted /\ chores' = Thrown /\ UNCHANGED deliveries
    /\ unsent' = (unsent \/ (failures' > failures /\ Completing))
    /\ UNCHANGED <<remote, alive, activeTurn, statusId, onDisk, buffers, summarySent, answerHeard, watched, shown, downs, undeleted, adopted>>

\* #handleAgentMessageCompleted of an answer.
HearAnswer ==
    /\ Doing("hear") /\ chores' = Rest /\ answerHeard' = TRUE
    /\ UNCHANGED <<remote, posted, oddities, alive, activeTurn, deliveries, statusId, onDisk, buffers, summarySent, noteSeen, watched, shown, failures, downs>>

\* #flushSummariesForTurn.
Flush ==
    /\ Doing("flush") /\ chores' = Calls(InOrder(LAMBDA p : buffers[p] # NoBuffer)) \o Rest
    /\ UNCHANGED <<remote, memory, posted, oddities, alive, activeTurn, deliveries, statusId, onDisk, shown, failures, downs>>

\* The answer of #completeTurn, heard or read from the app-server, and what
\* follows; a failed turn has none, which leaves its progress.
SendFinal ==
    /\ Doing("final")
    /\ LET m == Posted("final", 0, 1) IN
       \/ HasAnswer /\ ~FinalSent /\ Works /\ Post(m) /\ deliveries' = deliveries \cup {m} /\ chores' = Deletes \o EndOfTurn
       \/ HasAnswer /\ ~FinalSent /\ Fails /\ Unposted /\ chores' = EndOfTurn /\ UNCHANGED deliveries
       \/ (~HasAnswer \/ FinalSent) /\ Works /\ Unposted /\ chores' = EndOfTurn /\ UNCHANGED deliveries
    /\ unsent' = (unsent \/ failures' > failures)
    /\ UNCHANGED <<remote, memory, alive, activeTurn, statusId, onDisk, shown, downs, undeleted, adopted>>

\* #deliverError of #completeFailedTurn.
SendError ==
    /\ Doing("error")
    /\ LET m == Posted("error", 0, 1) IN
       \/ Works /\ Post(m) /\ deliveries' = deliveries \cup {m} /\ Deactivate /\ watched' = FALSE /\ chores' = <<Call("persist"), Call("update")>>
       \/ Fails /\ Unposted /\ chores' = <<>> /\ UNCHANGED <<deliveries, activeTurn, watched>>
    /\ UNCHANGED <<remote, buffers, summarySent, noteSeen, answerHeard, oddities, alive, statusId, onDisk, shown, downs>>

\* Mutant: the message is deleted and its delivery stays recorded as it was.
Erased(m) == deliveries
Unrecorded(m) == deliveries \ {m}
\* #deleteProgressMessagesForTurn, one message: a failure is passed over.
DeleteProgress ==
    /\ Doing("delete")
    /\ LET m == Head(chores).message IN
       \/ m \in board /\ Works /\ board' = board \ {m} /\ deliveries' = Unrecorded(m) /\ UNCHANGED undeleted
       \/ m \notin board /\ Works /\ undeleted' = TRUE /\ UNCHANGED <<board, deliveries>>
       \/ Fails /\ undeleted' = TRUE /\ UNCHANGED <<board, deliveries>>
    /\ chores' = Rest
    /\ UNCHANGED <<remote, memory, alive, activeTurn, statusId, onDisk, ever, shown, downs, unsent, adopted>>

\* #removeActiveTurn, and what is kept of a turn in memory.
Retire ==
    /\ Doing("retire") /\ chores' = Rest
    /\ Deactivate /\ buffers' = Blank /\ summarySent' = {} /\ noteSeen' = FALSE /\ answerHeard' = FALSE /\ watched' = FALSE
    /\ UNCHANGED <<remote, posted, oddities, alive, deliveries, statusId, onDisk, shown, failures, downs>>

\* #ensureStatusMessage without one: it is posted; or else it is updated.
EnsureStatus ==
    /\ Doing("ensure")
    /\ \/ statusId # 0 /\ Works /\ chores' = <<Call("update")>> \o Rest /\ Unposted /\ UNCHANGED <<statusId, shown>>
       \/ /\ statusId = 0 /\ Works /\ Post(Posted("status", 0, 1)) /\ statusId' = Number
          /\ shown' = [n \in DOMAIN shown \cup {Number} |-> IF n = Number THEN Told ELSE shown[n]]
          /\ chores' = <<Call("persist")>> \o Rest
       \/ statusId = 0 /\ Fails /\ chores' = <<>> /\ Unposted /\ UNCHANGED <<statusId, shown>>
    /\ UNCHANGED <<remote, memory, oddities, alive, activeTurn, deliveries, onDisk, downs>>

\* #updateStatusMessage; when the message is gone another is posted.
UpdateStatus ==
    /\ Doing("update")
    /\ \/ statusId = 0 /\ Works /\ chores' = <<Call("ensure")>> \o Rest /\ UNCHANGED <<statusId, shown>>
       \/ statusId # 0 /\ Works /\ shown' = [shown EXCEPT ![statusId] = Told] /\ chores' = Rest /\ UNCHANGED statusId
       \/ statusId # 0 /\ Fails /\ statusId' = 0 /\ chores' = <<Call("persist"), Call("ensure")>> \o Rest /\ UNCHANGED shown
    /\ UNCHANGED <<remote, memory, posted, oddities, alive, activeTurn, deliveries, onDisk, downs>>

-----------------------------------------------------------------------------
(* The bridge goes down and comes up.                                      *)

GoDown ==
    /\ alive /\ downs < MaxDowns /\ downs' = downs + 1 /\ alive' = FALSE
    /\ activeTurn' = onDisk.activeTurn /\ deliveries' = onDisk.deliveries /\ statusId' = onDisk.statusId
    /\ buffers' = Blank /\ summarySent' = {} /\ noteSeen' = FALSE /\ answerHeard' = FALSE /\ watched' = FALSE /\ news' = <<>> /\ chores' = <<>>
    /\ UNCHANGED <<posted, oddities, task, onDisk, shown, failures, progressMode>>

\* start(): the status, #cleanupDeliveredTurnProgress, and the active turn.
ComeUp ==
    /\ ~alive /\ alive' = TRUE
    /\ chores' = <<Call("ensure")>>
         \o (IF FinalSent /\ (activeTurn \/ Progress # {}) THEN Deletes \o EndOfTurn
             ELSE IF activeTurn /\ ~FinalSent THEN <<Call("recover")>> ELSE <<>>)
    /\ UNCHANGED <<remote, memory, posted, oddities, activeTurn, deliveries, statusId, onDisk, shown, failures, downs>>
\* #reconcilePersistedActiveTurns; a turn that cannot be read is given up.
Recover ==
    /\ Doing("recover")
    /\ \/ /\ Works /\ UNCHANGED activeTurn
          /\ chores' = CASE task.phase = "completed" -> ItemsOf(task) \o Settle
                         [] task.phase = "failed" -> <<Call("error")>>
                         [] OTHER -> <<Call("adopt"), Call("update"), Call("persist")>>
       \/ Fails /\ Deactivate /\ chores' = <<Call("persist")>>
    /\ UNCHANGED <<remote, memory, posted, oddities, alive, deliveries, statusId, onDisk, shown, downs>>

ProgressNext ==
    \/ TurnBegins \/ NextPart \/ NextDelta \/ ThoughtEnds \/ Remark \/ Missed
    \/ \E phase \in {"completed", "failed"} : TurnFinishes(phase)
    \/ IgnoreNews \/ Reconcile \/ \E items \in BOOLEAN : HandleNews(items)
    \/ AdoptTurn \/ Persist \/ Buffer \/ Fill \/ SendSummary \/ SendNote \/ HearAnswer \/ Flush \/ SendFinal \/ SendError
    \/ DeleteProgress \/ Retire \/ EnsureStatus \/ UpdateStatus \/ GoDown \/ ComeUp \/ Recover

ProgressSpec == ProgressInit /\ [][ProgressNext]_progressVars

-----------------------------------------------------------------------------
(* Properties.                                                             *)

Settled == AtRest /\ news = <<>>

\* Behind the answer no progress message is left, also when the bridge went
\* down on the way, but for one that could not be deleted and one that was
\* posted and not saved.
ProgressIsCleared ==
    (Settled /\ FinalSent /\ ~undeleted) =>
      /\ Progress = {}
      /\ downs = 0 => \A m \in board : m.kind \notin {"summary", "commentary"}

\* A summary or a commentary is posted once, with its whole text, whether it
\* comes in deltas, with its item, with the end of the turn or from a reconcile
\* that overtakes the notifications.
ProgressIsOnce ==
    (downs = 0 /\ ~unsent) => \A m \in ever : m.kind \in {"summary", "commentary"} =>
      /\ \A o \in ever \ {m} : o.kind # m.kind \/ o.part # m.part
      /\ (m.kind = "summary" /\ failures = 0) => m.text = task.parts[m.part]

\* There is one status message for each that could not be updated or saved,
\* and it says whether a turn is active.
StatusIsTrue ==
    /\ Cardinality({m \in ever : m.kind = "status"}) <= 1 + failures + downs
    /\ (Settled /\ ~adopted /\ failures = 0) => statusId \in DOMAIN shown /\ shown[statusId] = activeTurn

RunnerProgressIsSound == ProgressIsCleared /\ ProgressIsOnce /\ StatusIsTrue
=============================================================================
