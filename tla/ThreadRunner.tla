---------------------------- MODULE ThreadRunner ----------------------------
(***************************************************************************)
(* One Discord thread bridged to one Codex thread: DiscordThreadRunner     *)
(* (apps/discord-bridge/src/runner.ts) with the app-server that runs the   *)
(* turns, the channel it posts to and the state file it survives on.       *)
(*                                                                         *)
(* The runner is a mailbox: works run one after the other, and inside a    *)
(* work every await is a point where the process can crash or the rest of  *)
(* the bridge can save the shared state.  todo is what the current work    *)
(* still has to do, one step per await.  Progress messages, the status     *)
(* message and the logs are left out.                                      *)
(***************************************************************************)
EXTENDS Integers, Sequences, FiniteSets, SequencesExt

CONSTANTS
    Msgs,     \* Discord messages for this thread
    MaxTurns, \* bound on the turns of the Codex thread
    Scenarios \* what a behaviour may contain, one record per scenario:
              \*   msgs      the messages that arrive
              \*   attempts  maxAttempts of the runner
              \*   kinds     the calls that may fail
              \*   faults, crashes, external   bounds on failing calls, on
              \*             crashes and on turns that somebody else starts

Kinds == {"start", "lost", "read", "send", "typing", "steer", "notify"}

ASSUME RunnerAssumption ==
    /\ MaxTurns \in Nat
    /\ \A s \in Scenarios :
         /\ s.msgs \subseteq Msgs /\ s.kinds \subseteq Kinds
         /\ s.attempts \in Nat \ {0}
         /\ s.faults \in Nat /\ s.crashes \in Nat /\ s.external \in Nat

VARIABLES
    queue,       \* state.queue of the session, oldest first
    active,      \* the session's entry in state.activeTurns, or NoTurn
    delivered,   \* turns with a "final" entry in state.deliveries
    processed,   \* state.processedMessageIds
    disk,        \* the state file: the four above as last saved
    due,         \* messages whose nextAttemptAt is unset or has passed
    timers,      \* #retryTimers, by message
    watching,    \* #reconcileTimer is armed
    heard,       \* turns with #finalAssistantText
    seen,        \* the backend's MessageDeduplicator
    todo,        \* the steps left of the current work
    up,          \* the bridge process runs
    turns,       \* the app-server: turns of the Codex thread
    inbox,       \* notifications on their way to the runner
    finals,      \* Discord: how often the answer of a turn was posted
    errors,      \* Discord: turns and messages whose failure was posted
    scenario,    \* the scenario of this behaviour
    faults, crashes, external  \* what happened of it

saved == <<queue, active, delivered, processed>>
local == <<due, timers, watching, heard, seen, todo, up>>
world == <<turns, inbox, finals, errors>>
budgets == <<scenario, faults, crashes, external>>
vars == <<saved, disk, local, world, budgets>>

MaxAttempts == scenario.attempts

TurnIds == 1..MaxTurns
NoTurn == 0
TurnStatuses == {"none", "inProgress", "completed", "failed"}
ItemStatuses == {"pending", "processing", "failed"}
Item == [msg: Msgs, status: ItemStatuses, turn: TurnIds \cup {NoTurn}, attempts: 0..MaxAttempts]
Step == [op: {"steer", "start", "begin", "error", "recover"}, msg: Msgs]
        \cup [op: {"typing", "hear", "final", "read", "retire", "failed"}, turn: TurnIds]
        \cup [op: {"queue", "persist", "cleanup", "recoverItems", "recoverActive"}]
Notification == [type: {"started", "answer", "ended"}, turn: TurnIds]

TypeOK ==
    /\ queue \in Seq(Item)
    /\ active \in TurnIds \cup {NoTurn}
    /\ delivered \subseteq TurnIds
    /\ processed \subseteq Msgs
    /\ due \subseteq Msgs /\ timers \subseteq Msgs /\ seen \subseteq Msgs
    /\ heard \subseteq TurnIds
    /\ watching \in BOOLEAN /\ up \in BOOLEAN
    /\ todo \in Seq(Step)
    /\ turns \in [TurnIds -> [status: TurnStatuses, msgs: SUBSET Msgs]]
    /\ inbox \in Seq(Notification)
    /\ finals \in [TurnIds -> Nat]
    /\ errors \subseteq TurnIds \cup Msgs

Init ==
    /\ queue = <<>> /\ active = NoTurn /\ delivered = {} /\ processed = {}
    /\ disk = [queue |-> <<>>, active |-> NoTurn, delivered |-> {}, processed |-> {}]
    /\ due = Msgs /\ timers = {} /\ watching = FALSE /\ heard = {} /\ seen = {}
    /\ todo = <<>> /\ up = TRUE
    /\ turns = [t \in TurnIds |-> [status |-> "none", msgs |-> {}]]
    /\ inbox = <<>>
    /\ finals = [t \in TurnIds |-> 0] /\ errors = {}
    /\ scenario \in Scenarios /\ faults = 0 /\ crashes = 0 /\ external = 0

-----------------------------------------------------------------------------
(* Helpers.                                                                *)

Queued == {queue[i].msg : i \in DOMAIN queue}
Place(m) == CHOOSE i \in DOMAIN queue : queue[i].msg = m
ItemOf(m) == queue[Place(m)]
PutItem(item) == queue' = [queue EXCEPT ![Place(item.msg)] = item]

\* What waits for a turn, and processingItemForTurn, the first of it.
ProcessingFor(t) == {m \in Queued : ItemOf(m).status = "processing" /\ ItemOf(m).turn = t}
ProcessingItem(m, t) == m \in ProcessingFor(t) /\ \A k \in ProcessingFor(t) : Place(m) <= Place(k)

Fault(kind) == kind \in scenario.kinds /\ faults < scenario.faults /\ faults' = faults + 1
NoFault == UNCHANGED faults

Busy == \E t \in TurnIds : turns[t].status = "inProgress"
FreeTurn(t) == turns[t].status = "none" /\ \A u \in TurnIds : u < t => turns[u].status # "none"

Do(op) == [op |-> op]
DoMsg(op, m) == [op |-> op, msg |-> m]
DoTurn(op, t) == [op |-> op, turn |-> t]
Doing(op) == up /\ todo # <<>> /\ Head(todo).op = op
Idle == up /\ todo = <<>>
Rest == Tail(todo)
\* An exception nobody catches ends the work.
Throw == todo' = <<>>

\* Mutant: a message that is queued already is queued again.
DuplicateProcessed(m) == m \in processed
\* isDuplicate
Duplicate(m) == m \in processed \/ m \in Queued

-----------------------------------------------------------------------------
(* The queue.                                                              *)

\* A gateway event: the backend's deduplicator, then #enqueueMessage.
EnqueueMessage(m) ==
    /\ Idle /\ m \notin seen
    /\ seen' = seen \cup {m}
    /\ \/ Duplicate(m) /\ UNCHANGED <<queue, todo>>
       \/ /\ ~Duplicate(m) /\ active # NoTurn
          /\ todo' = <<DoMsg("steer", m)>>
          /\ UNCHANGED queue
       \/ /\ ~Duplicate(m) /\ active = NoTurn
          /\ queue' = Append(queue, [msg |-> m, status |-> "pending", turn |-> NoTurn, attempts |-> 0])
          /\ todo' = <<Do("persist"), Do("queue")>>
    /\ UNCHANGED <<active, delivered, processed, disk, due, timers, watching, heard, up, world, budgets>>

\* #steerActiveTurn: the app-server takes the text only while the expected
\* turn runs; a refusal is thrown and nobody queues the message.
SteerActiveTurn ==
    /\ Doing("steer")
    /\ LET m == Head(todo).msg IN
       \/ /\ turns[active].status = "inProgress" /\ NoFault
          /\ turns' = [turns EXCEPT ![active].msgs = @ \cup {m}]
          /\ processed' = processed \cup {m}
          /\ todo' = <<Do("persist")>>
       \/ /\ turns[active].status # "inProgress" /\ NoFault
          /\ Throw /\ UNCHANGED <<turns, processed>>
       \/ /\ Fault("steer")
          /\ Throw /\ UNCHANGED <<turns, processed>>
    /\ UNCHANGED <<queue, active, delivered, disk, due, timers, watching, heard, seen, up,
                   inbox, finals, errors, scenario, crashes, external>>

\* Mutant: an item that waits for its turn is taken for pending.
PendingOrProcessing == {m \in Queued : ItemOf(m).status # "failed"}
Pending == {m \in Queued : ItemOf(m).status = "pending"}
\* The pending message whose turn it is: the first one that is due.
NextPending(m) ==
    /\ m \in Pending \cap due
    /\ \A k \in Pending \cap due : Place(m) <= Place(k)

\* Mutant: the delay is noted and no timer is set.
DelayOnly(m) == due' = due \ {m} /\ UNCHANGED timers
\* nextAttemptAt and #scheduleRetry.
RetryLater(m) == due' = due \ {m} /\ timers' = timers \cup {m}

\* #processQueue: nothing while a turn is active; delayed items on the way
\* to the first due one get a retry timer.
ProcessQueue ==
    /\ Doing("queue")
    /\ \/ /\ active # NoTurn
          /\ todo' = Rest /\ UNCHANGED timers
       \/ /\ active = NoTurn /\ Pending \cap due = {}
          /\ timers' = timers \cup Pending
          /\ todo' = Rest
       \/ /\ active = NoTurn
          /\ \E m \in Pending :
               /\ NextPending(m)
               /\ timers' = timers \cup {k \in Pending \ due : Place(k) < Place(m)}
               /\ todo' = <<DoMsg("start", m)>> \o Rest
    /\ UNCHANGED <<saved, disk, due, watching, heard, seen, up, world, budgets>>

\* Mutant: one attempt more than maxAttempts.
OneMore(n) == n > MaxAttempts
Exhausted(n) == n >= MaxAttempts

\* The catch clause of #startTurn for an ordinary error: a retry with backoff,
\* or after maxAttempts the end of the item.
StartFailed(m) ==
    LET n == ItemOf(m).attempts + 1 IN
    \/ /\ Exhausted(n)
       /\ PutItem([ItemOf(m) EXCEPT !.attempts = n, !.status = "failed"])
       /\ due' = due \cup {m}
       /\ todo' = <<DoMsg("error", m), Do("persist")>> \o Rest
       /\ UNCHANGED timers
    \/ /\ ~Exhausted(n)
       /\ PutItem([ItemOf(m) EXCEPT !.attempts = n])
       /\ RetryLater(m)
       /\ todo' = <<Do("persist")>> \o Rest

\* #startTurn.  A call can fail before the app-server took it or after
\* ("lost": the answer does not come back in time).
StartTurn ==
    /\ Doing("start")
    /\ LET m == Head(todo).msg IN
       \/ /\ ~Busy /\ NoFault
          /\ \E t \in TurnIds :
               /\ FreeTurn(t)
               /\ turns' = [turns EXCEPT ![t] = [status |-> "inProgress", msgs |-> {m}]]
               /\ inbox' = Append(inbox, [type |-> "started", turn |-> t])
               /\ PutItem([ItemOf(m) EXCEPT !.status = "processing", !.turn = t])
               /\ active' = t
               /\ todo' = <<DoMsg("begin", m)>> \o Rest
          /\ due' = due \cup {m} /\ UNCHANGED timers
       \/ /\ Busy /\ NoFault
          /\ RetryLater(m)
          /\ todo' = <<Do("persist")>> \o Rest
          /\ UNCHANGED <<queue, active, turns, inbox>>
       \/ /\ Fault("start")
          /\ StartFailed(m)
          /\ UNCHANGED <<active, turns, inbox>>
       \/ /\ ~Busy /\ Fault("lost")
          /\ \E t \in TurnIds :
               /\ FreeTurn(t)
               /\ turns' = [turns EXCEPT ![t] = [status |-> "inProgress", msgs |-> {m}]]
               /\ inbox' = Append(inbox, [type |-> "started", turn |-> t])
          /\ StartFailed(m)
          /\ UNCHANGED active
    /\ UNCHANGED <<delivered, processed, disk, watching, heard, seen, up,
                   finals, errors, scenario, crashes, external>>

\* #deliverError for an item that used up its attempts.
ReportStartFailure ==
    /\ Doing("error")
    /\ \/ NoFault /\ errors' = errors \cup {Head(todo).msg} /\ todo' = Rest
       \/ Fault("send") /\ Throw /\ UNCHANGED errors
    /\ UNCHANGED <<saved, disk, due, timers, watching, heard, seen, up,
                   turns, inbox, finals, scenario, crashes, external>>

\* #startTypingHeartbeat, then the reconcile timer; an exception of sendTyping
\* ends the work.
StartTyping ==
    /\ Doing("typing")
    /\ \/ NoFault /\ watching' = TRUE /\ todo' = Rest
       \/ Fault("typing") /\ Throw /\ UNCHANGED watching
    /\ UNCHANGED <<saved, disk, due, timers, heard, seen, up, world, scenario, crashes, external>>

\* The same inside the try of #startTurn: its catch clause takes the exception
\* for a failed start, though the turn runs and the item is processing.
BeginTurn ==
    /\ Doing("begin")
    /\ \/ /\ NoFault
          /\ watching' = TRUE /\ todo' = <<Do("persist")>> \o Rest
          /\ UNCHANGED <<queue, due, timers>>
       \/ /\ Fault("typing")
          /\ StartFailed(Head(todo).msg)
          /\ UNCHANGED watching
    /\ UNCHANGED <<active, delivered, processed, disk, heard, seen, up, world, scenario, crashes, external>>

\* #context.persist of this work.
Persist ==
    /\ Doing("persist")
    /\ disk' = [queue |-> queue, active |-> active, delivered |-> delivered, processed |-> processed]
    /\ todo' = Rest
    /\ UNCHANGED <<saved, due, timers, watching, heard, seen, up, world, budgets>>

\* The state is shared: any other session or handler may save it at any await.
PersistByOthers ==
    /\ up
    /\ disk' = [queue |-> queue, active |-> active, delivered |-> delivered, processed |-> processed]
    /\ UNCHANGED <<saved, local, world, budgets>>

\* A retry timer fires once nextAttemptAt has passed.
RetryFires(m) ==
    /\ Idle /\ m \in timers
    /\ timers' = timers \ {m}
    /\ due' = due \cup {m}
    /\ todo' = <<Do("queue")>>
    /\ UNCHANGED <<saved, disk, watching, heard, seen, up, world, budgets>>

\* nextAttemptAt passes before the timer gets its turn in the mailbox.
DelayPasses(m) ==
    /\ up /\ m \notin due
    /\ due' = due \cup {m}
    /\ UNCHANGED <<saved, disk, timers, watching, heard, seen, todo, up, world, budgets>>

-----------------------------------------------------------------------------
(* Notifications of the app-server.                                        *)

Delivered(t) == t \in delivered
\* The answer of t went out and no item waits for it any more.
Settled(t) == Delivered(t) /\ ProcessingFor(t) = {}

\* #ignoreDeliveredTurnNotification.
IgnoreDelivered ==
    /\ Idle /\ inbox # <<>> /\ Settled(Head(inbox).turn)
    /\ inbox' = Tail(inbox)
    /\ IF active = Head(inbox).turn
       THEN active' = NoTurn /\ watching' = FALSE /\ todo' = <<Do("persist")>>
       ELSE UNCHANGED <<active, watching, todo>>
    /\ UNCHANGED <<queue, delivered, processed, disk, due, timers, heard, seen, up,
                   turns, finals, errors, budgets>>

\* #handleNotification: a started turn, or an item of a turn that is not
\* active, is adopted first (#adoptStartedTurn).
HandleNotification ==
    /\ Idle /\ inbox # <<>> /\ ~Settled(Head(inbox).turn)
    /\ inbox' = Tail(inbox)
    /\ LET t == Head(inbox).turn
           adopt == <<DoTurn("typing", t), Do("persist")>> IN
       \/ /\ Head(inbox).type = "started"
          /\ active' = t /\ todo' = adopt
       \/ /\ Head(inbox).type = "answer" /\ active # t /\ ~Delivered(t)
          /\ active' = t /\ todo' = adopt \o <<DoTurn("hear", t)>>
       \/ /\ Head(inbox).type = "answer" /\ (active = t \/ Delivered(t))
          /\ todo' = <<DoTurn("hear", t)>> /\ UNCHANGED active
       \/ /\ Head(inbox).type = "ended"
          /\ active' = t /\ todo' = <<DoTurn("final", t)>>
    /\ UNCHANGED <<queue, delivered, processed, disk, due, timers, watching, heard, seen, up,
                   turns, finals, errors, budgets>>

\* #handleAgentMessageCompleted keeps the final answer.
HearAnswer ==
    /\ Doing("hear")
    /\ heard' = heard \cup {Head(todo).turn}
    /\ todo' = Rest
    /\ UNCHANGED <<saved, disk, due, timers, watching, seen, up, world, budgets>>

-----------------------------------------------------------------------------
(* The end of a turn: #completeTurn up to the answer ("final" with the     *)
(* notification's turn, "read" with a turn just read from the app-server), *)
(* then its bookkeeping ("retire").                                        *)

\* Mutant: the answer is posted and no delivery is recorded.
PostUnrecorded(t) ==
    /\ finals' = [finals EXCEPT ![t] = @ + 1] /\ UNCHANGED delivered
Post(t) ==
    /\ finals' = [finals EXCEPT ![t] = @ + 1]
    /\ delivered' = delivered \cup {t}

\* Mutant: the app-server is not asked for an answer the runner did not hear.
NotHeard(t) ==
    \/ Delivered(t) /\ NoFault
    \/ turns[t].status = "failed" /\ NoFault
    \/ Doing("final") /\ ~Delivered(t) /\ t \notin heard /\ NoFault
\* No answer to post: posted already, a turn without text, or a read that failed.
NothingToPost(t) ==
    \/ Delivered(t) /\ NoFault
    \/ turns[t].status = "failed" /\ NoFault
    \/ Doing("final") /\ ~Delivered(t) /\ t \notin heard /\ Fault("read")

PostAnswer ==
    /\ Doing("final") \/ Doing("read")
    /\ LET t == Head(todo).turn IN
       /\ \/ /\ NothingToPost(t)
             /\ todo' = <<DoTurn("retire", t)>> \o Rest
             /\ UNCHANGED <<queue, delivered, finals, watching, heard>>
             /\ active' = t
          \/ /\ ~Delivered(t) /\ turns[t].status = "completed" /\ NoFault
             /\ Post(t)
             /\ todo' = <<DoTurn("retire", t)>> \o Rest
             /\ active' = t
             /\ UNCHANGED <<queue, watching, heard>>
          \/ /\ ~Delivered(t) /\ turns[t].status = "completed" /\ Fault("send")
             /\ queue' = [i \in DOMAIN queue |->
                            IF queue[i].msg \in ProcessingFor(t)
                            THEN [queue[i] EXCEPT !.status = "failed"] ELSE queue[i]]
             /\ active' = NoTurn /\ watching' = FALSE /\ heard' = heard \ {t}
             /\ todo' = <<Do("persist"), Do("queue")>> \o Rest
             /\ UNCHANGED <<delivered, finals>>
    /\ UNCHANGED <<processed, disk, due, timers, seen, up, turns, inbox, errors, scenario, crashes, external>>

\* Mutant: the item leaves the queue and its message is not marked.
RetireUnmarked(t) ==
    /\ \/ ProcessingFor(t) = {} /\ UNCHANGED queue
       \/ \E m \in ProcessingFor(t) : queue' = RemoveAt(queue, Place(m))
    /\ UNCHANGED processed
\* #removeQueueItem and addProcessedMessageId.
RetireItem(t) ==
    \/ ProcessingFor(t) = {} /\ UNCHANGED <<queue, processed>>
    \/ \E m \in ProcessingFor(t) :
         /\ ProcessingItem(m, t)
         /\ queue' = RemoveAt(queue, Place(m)) /\ processed' = processed \cup {m}

\* The rest of #completeTurn: the item, the active turn (whichever it is for
\* the timers), the state file, and the queue.
RetireTurn ==
    /\ Doing("retire")
    /\ LET t == Head(todo).turn IN
       /\ RetireItem(t)
       /\ active' = IF active = t THEN NoTurn ELSE active
       /\ heard' = heard \ {t}
    /\ watching' = FALSE
    /\ todo' = <<Do("persist"), Do("queue")>> \o Rest
    /\ UNCHANGED <<delivered, disk, due, timers, seen, up, world, budgets>>

\* #completeFailedTurn of a turn the runner found failed or interrupted.
FailTurn ==
    /\ Doing("failed")
    /\ LET t == Head(todo).turn IN
       \/ /\ NoFault
          /\ errors' = errors \cup {t}
          /\ RetireItem(t)
          /\ active' = NoTurn /\ watching' = FALSE
          /\ todo' = <<Do("persist")>> \o Rest
       \/ /\ Fault("send")
          /\ active' = t /\ Throw
          /\ UNCHANGED <<errors, queue, processed, watching>>
    /\ UNCHANGED <<delivered, disk, due, timers, heard, seen, up,
                   turns, inbox, finals, scenario, crashes, external>>

\* Mutant: a turn that still runs is looked at once.
NoRearm == watching' = FALSE
\* #scheduleActiveTurnReconcile: a single timer, set again.
Rearm == watching' = TRUE

\* #reconcileActiveTurn when its timer fires.
ReconcileActiveTurn ==
    /\ Idle /\ watching
    /\ \/ /\ active = NoTurn /\ NoFault
          /\ watching' = FALSE /\ UNCHANGED todo
       \/ /\ active # NoTurn /\ turns[active].status = "inProgress" /\ NoFault
          /\ Rearm /\ UNCHANGED todo
       \/ /\ active # NoTurn /\ Fault("read")
          /\ Rearm /\ UNCHANGED todo
       \/ /\ active # NoTurn /\ turns[active].status = "completed" /\ NoFault
          /\ watching' = FALSE /\ todo' = <<DoTurn("read", active)>>
       \/ /\ active # NoTurn /\ turns[active].status = "failed" /\ NoFault
          /\ watching' = FALSE /\ todo' = <<DoTurn("failed", active), Do("queue")>>
    /\ UNCHANGED <<saved, disk, due, timers, heard, seen, up, world, scenario, crashes, external>>

-----------------------------------------------------------------------------
(* The world, crashes and restarts.                                        *)

Tell(kinds, t) == inbox' = IF up THEN inbox \o [i \in DOMAIN kinds |-> [type |-> kinds[i], turn |-> t]] ELSE inbox

FinishTurn(t) ==
    /\ turns[t].status = "inProgress"
    /\ \/ /\ turns' = [turns EXCEPT ![t].status = "completed"]
          /\ Tell(<<"answer", "ended">>, t)
       \/ /\ turns' = [turns EXCEPT ![t].status = "failed"]
          /\ Tell(<<"ended">>, t)
    /\ UNCHANGED <<saved, disk, local, finals, errors, budgets>>

\* Somebody else starts a turn on the Codex thread.
StartTurnElsewhere(t) ==
    /\ external < scenario.external /\ ~Busy /\ FreeTurn(t)
    /\ turns' = [turns EXCEPT ![t].status = "inProgress"]
    /\ Tell(<<"started">>, t)
    /\ external' = external + 1
    /\ UNCHANGED <<saved, disk, local, finals, errors, scenario, faults, crashes>>

LoseNotification ==
    /\ inbox # <<>> /\ Fault("notify")
    /\ inbox' = Tail(inbox)
    /\ UNCHANGED <<saved, disk, local, turns, finals, errors, scenario, crashes, external>>

\* The process dies; everything it did not save is gone.
Crash ==
    /\ up /\ crashes < scenario.crashes
    /\ up' = FALSE /\ crashes' = crashes + 1
    /\ queue' = disk.queue /\ active' = disk.active
    /\ delivered' = disk.delivered /\ processed' = disk.processed
    /\ timers' = {} /\ watching' = FALSE /\ heard' = {} /\ seen' = {} /\ todo' = <<>> /\ inbox' = <<>>
    /\ UNCHANGED <<disk, due, turns, finals, errors, scenario, faults, external>>

\* start(): the recovery work is the first in the mailbox.
Boot ==
    /\ ~up /\ up' = TRUE
    /\ todo' = <<Do("cleanup"), Do("recoverItems"), Do("recoverActive"), Do("queue")>>
    /\ UNCHANGED <<saved, disk, due, timers, watching, heard, seen, world, budgets>>

\* #cleanupDeliveredTurnProgress.
CleanupDelivered ==
    /\ Doing("cleanup")
    /\ IF active # NoTurn /\ Settled(active)
       THEN active' = NoTurn /\ todo' = <<Do("persist")>> \o Rest
       ELSE todo' = Rest /\ UNCHANGED active
    /\ UNCHANGED <<queue, delivered, processed, disk, due, timers, watching, heard, seen, up, world, budgets>>

\* #reconcilePersistedProcessing: the processing items, in queue order.
RecoverItems ==
    /\ Doing("recoverItems")
    /\ LET items == {m \in Queued : ItemOf(m).status = "processing"}
           n == Cardinality(items) IN
       \/ items = {} /\ todo' = Rest
       \/ /\ items # {}
          /\ \E order \in [1..n -> items] :
               /\ \A i, j \in 1..n : i < j => Place(order[i]) < Place(order[j])
               /\ todo' = [i \in 1..n |-> DoMsg("recover", order[i])] \o <<Do("persist")>> \o Rest
    /\ UNCHANGED <<saved, disk, due, timers, watching, heard, seen, up, world, budgets>>

\* One of them: readThread says what became of its turn; an error of
\* readThread counts as a turn that is not there.
RecoverItem ==
    /\ Doing("recover")
    /\ LET m == Head(todo).msg
           t == ItemOf(m).turn IN
       \/ /\ Fault("read")
          /\ PutItem([ItemOf(m) EXCEPT !.status = "pending", !.turn = NoTurn])
          /\ RetryLater(m)
          /\ todo' = Rest /\ UNCHANGED active
       \/ /\ turns[t].status = "completed" /\ NoFault
          /\ todo' = <<DoTurn("read", t)>> \o Rest
          /\ UNCHANGED <<queue, active, due, timers>>
       \/ /\ turns[t].status = "failed" /\ NoFault
          /\ todo' = <<DoTurn("failed", t)>> \o Rest
          /\ UNCHANGED <<queue, active, due, timers>>
       \/ /\ turns[t].status = "inProgress" /\ NoFault
          /\ active' = t /\ todo' = <<DoTurn("typing", t)>> \o Rest
          /\ UNCHANGED <<queue, due, timers>>
    /\ UNCHANGED <<delivered, processed, disk, watching, heard, seen, up, world, scenario, crashes, external>>

\* #reconcilePersistedActiveTurns.
RecoverActive ==
    /\ Doing("recoverActive")
    /\ \/ /\ active = NoTurn /\ NoFault
          /\ todo' = Rest /\ UNCHANGED active
       \/ /\ active # NoTurn /\ Fault("read")
          /\ active' = NoTurn /\ todo' = <<Do("persist")>> \o Rest
       \/ /\ active # NoTurn /\ NoFault
          /\ LET by == [completed |-> "read", failed |-> "failed", inProgress |-> "typing"] IN
             todo' = <<DoTurn(by[turns[active].status], active), Do("persist")>> \o Rest
          /\ UNCHANGED active
    /\ UNCHANGED <<queue, delivered, processed, disk, due, timers, watching, heard, seen, up, world,
                   scenario, crashes, external>>

-----------------------------------------------------------------------------

Runner ==
    \/ SteerActiveTurn \/ ProcessQueue \/ StartTurn \/ BeginTurn \/ ReportStartFailure
    \/ StartTyping \/ Persist
    \/ IgnoreDelivered \/ HandleNotification \/ HearAnswer
    \/ PostAnswer \/ RetireTurn \/ FailTurn
    \/ CleanupDelivered \/ RecoverItems \/ RecoverItem \/ RecoverActive

Next ==
    \/ Runner \/ ReconcileActiveTurn \/ PersistByOthers
    \/ \E m \in scenario.msgs : EnqueueMessage(m) \/ RetryFires(m) \/ DelayPasses(m)
    \/ \E t \in TurnIds : FinishTurn(t) \/ StartTurnElsewhere(t)
    \/ LoseNotification \/ Crash \/ Boot

Spec == Init /\ [][Next]_vars

\* Promises resolve, timers fire, turns end, and the service manager restarts
\* the bridge.  Nobody has to send a message, and no call has to succeed.
FairSpec ==
    /\ Spec
    /\ WF_vars(Runner) /\ WF_vars(ReconcileActiveTurn) /\ WF_vars(Boot)
    /\ \A m \in Msgs : WF_vars(RetryFires(m))
    /\ \A t \in TurnIds : WF_vars(FinishTurn(t))

-----------------------------------------------------------------------------
(* Properties.                                                             *)

\* An answer is posted once, however often its turn is reported finished (a
\* notification, the reconcile timer, a recovery); only a crash between the
\* post and the next save can repeat it.
AnswerPostedOnce == \A t \in TurnIds : finals[t] <= 1 + crashes

TurnsOf(m) == {t \in TurnIds : m \in turns[t].msgs}

\* A message is given to the model once: a second turn for it needs a call
\* whose outcome the runner did not see, or a crash before the first save.
OneTurnPerMessage == \A m \in Msgs : Cardinality(TurnsOf(m)) <= 1 + faults + crashes

\* A message that was saved in the queue stays there until it is saved as
\* processed: no crash and no order of saves makes it disappear.
SavedMessageIsKept ==
    [][\A m \in Msgs : (\E i \in DOMAIN disk.queue : disk.queue[i].msg = m)
         => \/ \E i \in DOMAIN disk'.queue : disk'.queue[i].msg = m
            \/ m \in disk'.processed]_vars

\* A message is queued once, and two items never wait for the same turn.
QueueIsSound ==
    /\ Cardinality(Queued) = Len(queue)
    /\ \A t \in TurnIds : Cardinality(ProcessingFor(t)) <= 1

\* Between two works an active turn is always watched by the reconcile timer,
\* so that a lost notification cannot leave it active for ever.
ActiveTurnIsWatched == Idle /\ active # NoTurn => watching

\* Between two works a queue that no active turn will wake has a retry timer:
\* no pending message waits for an event that may never come.  (An item that
\* gives up does not wake the queue behind it, so this needs an instance whose
\* faults do not exhaust MaxAttempts.)
PendingQueueHasTimer ==
    Idle /\ active = NoTurn /\ Pending # {} => timers # {}

\* Neither a turn nor a message is ever left to an event that may not come.
NothingWithoutTimer == ActiveTurnIsWatched /\ PendingQueueHasTimer

Told(t) == \E i \in DOMAIN inbox : inbox[i].turn = t
\* The answer of a completed turn a message waited for reaches Discord before
\* the message is marked processed on disk.  (A post or a read that fails makes
\* the runner give the answer up.)
ProcessedIsAnswered ==
    scenario.kinds \subseteq {"notify"} =>
    \A m \in processed : \E t \in TurnsOf(m) :
        turns[t].status # "completed" \/ finals[t] > 0 \/ active = t \/ Told(t)

\* A pending message is in the end taken by a turn, or given up with an error.
PendingMessageSettles == \A m \in Msgs : m \in Pending ~> m \notin Pending

\* The turn the runner holds for active does not stay so once it has ended.
ActiveTurnEnds ==
    \A t \in TurnIds :
        active = t /\ turns[t].status \in {"completed", "failed"} ~> active # t

\* An item whose turn completed is settled by the reconcile timer, even when
\* the notification is lost (apps/discord-bridge/test/bridge.test.ts:4446).
MissedCompletionIsReconciled ==
    \A m \in Msgs, t \in TurnIds :
        m \in ProcessingFor(t) /\ turns[t].status = "completed" ~> m \notin ProcessingFor(t)
=============================================================================
