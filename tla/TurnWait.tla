------------------------------ MODULE TurnWait ------------------------------
(***************************************************************************)
(* A flow that runs a turn of a Codex thread and waits for its end         *)
(* (CodexFlowClient and runCodexAgentTurnFromFlow in                       *)
(* packages/codex-client/src/app-server/flows.ts).                         *)
(*                                                                         *)
(* The wait hears the turn's notification, reads the thread at once and    *)
(* then at an interval, and gives up at a timeout, at a close of the       *)
(* connection or when it is aborted.                                       *)
(***************************************************************************)
EXTENDS Integers, Sequences

CONSTANTS Patience \* what a behaviour may contain, one record per scenario:
                   \*   poll      an interval is set (pollIntervalMs > 0)
                   \*   lose      the notification may be lost
                   \*   faults    bound on failing calls
                   \*   giveUp    timeout, close and abort may come

WaitScenario == [poll : BOOLEAN, lose : BOOLEAN, faults : Nat, giveUp : BOOLEAN]

ASSUME PatienceAssumption == Patience \subseteq WaitScenario

VARIABLES
    stage,      \* how far runCodexAgentTurnFromFlow is
    turn,       \* the app-server's turn
    told,       \* turn/completed: not sent, on its way, or gone
    listening,  \* the listeners of the wait are registered
    interval,   \* its interval timer is set
    reads,      \* reads of the thread on their way, with what they found
    result,     \* what the wait settled with
    waitErrors, \* failing calls so far
    patience    \* the scenario

waitVars == <<stage, turn, told, listening, interval, reads, result, waitErrors, patience>>

Stages == {"idle", "starting", "registering", "waiting", "exporting", "done", "failed"}
Ended == {"completed", "failed", "interrupted"}
WaitStatuses == {"none", "inProgress"} \cup Ended


WaitTypeOK ==
    /\ stage \in Stages
    /\ turn \in WaitStatuses
    /\ told \in {"no", "onItsWay", "gone"}
    /\ listening \in BOOLEAN /\ interval \in BOOLEAN
    /\ reads \in Seq({"asked"} \cup WaitStatuses)
    /\ result \in {"none", "timeout", "closed", "aborted", "unreadable"} \cup Ended
    /\ waitErrors \in Nat
    /\ patience \in WaitScenario

WaitInit ==
    /\ stage = "idle" /\ turn = "none" /\ told = "no"
    /\ listening = FALSE /\ interval = FALSE /\ reads = <<>> /\ result = "none"
    /\ waitErrors = 0 /\ patience \in Patience

-----------------------------------------------------------------------------

CallFails == waitErrors < patience.faults /\ waitErrors' = waitErrors + 1
CallSucceeds == UNCHANGED waitErrors

\* connect and #openThread: a new thread, a resumed one, or one just read.
OpenThread ==
    /\ stage = "idle"
    /\ \/ stage' = "starting" /\ CallSucceeds
       \/ stage' = "failed" /\ CallFails
    /\ UNCHANGED <<turn, told, listening, interval, reads, result, patience>>

\* startTurn reaches the app-server...
TurnBegins ==
    /\ stage = "starting" /\ turn = "none"
    /\ turn' = "inProgress"
    /\ UNCHANGED <<stage, told, listening, interval, reads, result, waitErrors, patience>>

\* ... and its answer the flow, which the turn's own notification may overtake.
TurnStarted ==
    /\ stage = "starting" /\ turn # "none"
    /\ \/ stage' = "registering" /\ CallSucceeds
       \/ stage' = "failed" /\ CallFails
    /\ UNCHANGED <<turn, told, listening, interval, reads, result, patience>>

\* Mutant: the thread is read for the first time when the interval has passed.
FirstReadLater == <<>>
FirstRead == <<"asked">>

\* Mutant: the interval is never set.
NoInterval == FALSE
IntervalSet == patience.poll

\* The body of waitForTurn's promise: listeners, timers, and the first poll.
Register ==
    /\ stage = "registering" /\ stage' = "waiting"
    /\ listening' = TRUE
    /\ interval' = IntervalSet
    /\ reads' = reads \o FirstRead
    /\ UNCHANGED <<turn, told, result, waitErrors, patience>>

\* poll, from the interval, unless a read is on its way.
Poll ==
    /\ interval /\ result = "none" /\ reads = <<>>
    /\ reads' = Append(reads, "asked")
    /\ UNCHANGED <<stage, turn, told, listening, interval, result, waitErrors, patience>>

\* thread/read reaches the app-server.
ReadThread ==
    /\ reads # <<>> /\ Head(reads) = "asked"
    /\ reads' = <<turn>> \o Tail(reads)
    /\ UNCHANGED <<stage, turn, told, listening, interval, result, waitErrors, patience>>

\* settle and fail: the first outcome counts, and cleanup removes the
\* listeners and timers.
Settle(outcome) ==
    IF result = "none"
    THEN result' = outcome /\ listening' = FALSE /\ interval' = FALSE
    ELSE UNCHANGED <<result, listening, interval>>

\* Mutant: a turn that was found is taken for finished.
FoundTurn(status) == status # "none"
\* isTerminalTurn
IsTerminalTurn(status) == status \in Ended

\* The answer to the read.  An error that says the thread is not there yet is
\* forgotten, any other ends the wait.
ReadAnswered ==
    /\ reads # <<>>
    /\ reads' = Tail(reads)
    /\ \/ /\ Head(reads) # "asked" /\ IsTerminalTurn(Head(reads)) /\ CallSucceeds
          /\ Settle(Head(reads))
       \/ /\ Head(reads) # "asked" /\ ~IsTerminalTurn(Head(reads)) /\ CallSucceeds
          /\ UNCHANGED <<result, listening, interval>>
       \/ /\ CallFails /\ UNCHANGED <<result, listening, interval>>
       \/ /\ CallFails /\ Settle("unreadable")
    /\ UNCHANGED <<stage, turn, told, patience>>

\* onNotification with completedTurnFromNotification.
TurnCompleted ==
    /\ told = "onItsWay" /\ told' = "gone"
    /\ IF listening THEN Settle(turn) ELSE UNCHANGED <<result, listening, interval>>
    /\ UNCHANGED <<stage, turn, reads, waitErrors, patience>>

\* The timeout, onClose and onAbort.
GiveUp ==
    /\ patience.giveUp /\ listening
    /\ \E outcome \in {"timeout", "closed", "aborted"} : Settle(outcome)
    /\ UNCHANGED <<stage, turn, told, reads, waitErrors, patience>>

\* maybeThrowForFailedTurn, and the rejections.
Throws == result \in {"failed", "timeout", "closed", "aborted", "unreadable"}

\* The end of the wait; then the thread is exported, and the client is closed
\* whatever happened.
WaitEnds ==
    /\ stage = "waiting" /\ result # "none"
    /\ stage' = IF Throws THEN "failed" ELSE "exporting"
    /\ UNCHANGED <<turn, told, listening, interval, reads, result, waitErrors, patience>>

Export ==
    /\ stage = "exporting"
    /\ \/ stage' = "done" /\ CallSucceeds
       \/ stage' = "failed" /\ CallFails
    /\ UNCHANGED <<turn, told, listening, interval, reads, result, patience>>

-----------------------------------------------------------------------------
(* The app-server.                                                         *)

TurnEnds ==
    /\ turn = "inProgress"
    /\ turn' \in Ended
    /\ told' = "onItsWay"
    /\ UNCHANGED <<stage, listening, interval, reads, result, waitErrors, patience>>

NotificationLost ==
    /\ patience.lose /\ told = "onItsWay" /\ told' = "gone"
    /\ UNCHANGED <<stage, turn, listening, interval, reads, result, waitErrors, patience>>

Flow == OpenThread \/ TurnBegins \/ TurnStarted \/ Register \/ WaitEnds \/ Export
Reads == Poll \/ ReadThread \/ ReadAnswered
WaitNext == Flow \/ Reads \/ TurnCompleted \/ GiveUp \/ TurnEnds \/ NotificationLost

WaitSpec == WaitInit /\ [][WaitNext]_waitVars

\* The flow and its timers go on, the app-server answers and ends its turns.
WaitFairness ==
    /\ WF_waitVars(Flow) /\ WF_waitVars(TurnEnds)
    /\ WF_waitVars(Reads) /\ WF_waitVars(ReadThread)

-----------------------------------------------------------------------------
(* Properties.                                                             *)

\* What the wait resolves with is how the turn ended, and a flow that reports
\* success had a turn that did not fail (flows.ts:590).
ResolvedAsItEnded ==
    /\ result \in Ended => result = turn
    /\ stage = "done" => turn \in {"completed", "interrupted"}

\* A wait never hangs on a turn that ended: it has the notification ahead, or a
\* read that will see the end, or an interval.  Only a lost notification
\* without an interval, or an error taken for a missing thread, leaves it to
\* its timeout.
EndIsStillAhead ==
    (stage = "waiting" /\ result = "none" /\ turn \in Ended) =>
        \/ told = "onItsWay"
        \/ interval
        \/ \E i \in DOMAIN reads : reads[i] \in {"asked", turn}
        \/ patience.lose \/ waitErrors > 0

\* The end of a turn is told once, truly, and is not missed between the answer
\* to turn/start and the registration of the listeners; polls do not overlap.
EndIsNotMissed == ResolvedAsItEnded /\ EndIsStillAhead /\ Len(reads) <= 1

\* With an interval and an app-server that answers, the flow comes to its end.
WaitSettles == (turn \in Ended /\ patience.poll) ~> stage \in {"done", "failed"}
=============================================================================
