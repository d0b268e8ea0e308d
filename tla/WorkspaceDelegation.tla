------------------------- MODULE WorkspaceDelegation -------------------------
(***************************************************************************)
(* Delegations of the workspace operator: a main Codex thread starts work  *)
(* in delegated threads, and the Stop hooks of those threads bring the     *)
(* results back to it (packages/codex-client/src/workspace-backend/        *)
(* delegation.ts, apps/discord-bridge/src/local-workspace-backend.ts and   *)
(* stop-hook-spool.ts).                                                    *)
(*                                                                         *)
(* Three strands of the bridge share its state and interleave at their     *)
(* awaits: the drain of the hook spool, a tool call of the operator and    *)
(* the handler of the main thread's notifications.  agenda holds what      *)
(* each has still to do, one step per await.                               *)
(***************************************************************************)
EXTENDS Integers, Sequences, FiniteSets

CONSTANTS
    Delegations, \* delegated threads; a delegation is named by its thread
    Main,        \* the operator's thread
    MaxRounds,   \* bound on the turns of a delegated thread
    DelegationScenarios \* what a behaviour may contain, one record per scenario:
                 \*   delegated  the threads that are delegated
                 \*   grouped    those that are given the groupId
                 \*   tools      tools the operator calls besides start_delegation
                 \*   modes      return modes that start_delegation asks for
                 \*   policies   return modes that are asked for later
                 \*   user       bound on the main turns a user still writes after
                 \*   flushes, faults, crashes   bounds on flush_delegation_results,
                 \*              on failing requests and posts, and on crashes

Modes == {"wake_on_done", "wake_on_group", "record_only", "manual", "detached"}
Automatic == {"wake_on_done", "wake_on_group", "record_only"}

ASSUME DelegationAssumption ==
    /\ Main \notin Delegations /\ MaxRounds \in Nat \ {0}
    /\ \A s \in DelegationScenarios :
         /\ s.delegated \subseteq Delegations /\ s.grouped \subseteq s.delegated
         /\ s.tools \subseteq {"send", "read", "policy", "flush", "resume"}
         /\ s.modes \subseteq Modes /\ s.policies \subseteq Modes
         /\ s.user \in Nat \ {0}
         /\ s.flushes \in Nat /\ s.faults \in Nat /\ s.crashes \in Nat

VARIABLES
    rec,                             \* state.workspace.delegations
    wakes,                           \* state.workspace.pendingWakes, started ones included
    processedEvents,                 \* processedHookEventIds
    busyWith,                        \* the main thread's turn in state.activeTurns, 0 when none
    stateFile,                       \* the state file
    poke,                            \* a drain of the spool is scheduled
    agenda,                          \* the steps left of each strand
    fresh,                           \* the drain's array of processed ids is still the state's
    held,                            \* the drain's delegation, where resume_delegation replaced it
    bridgeUp,                        \* the bridge runs
    spool,                           \* Stop events in the pending directory
    thread,                          \* the app-server: turns of the delegated threads
    main,                            \* the app-server: turns of the main thread
    mainInbox,                       \* notifications of the main thread on their way
    returned,                        \* how often the result of a turn was injected
    woken,                           \* the turns started for wakes, with the results that were back by then
    delegationScenario,              \* the scenario of this behaviour
    flushes, failures, bridgeCrashes \* what happened of it

savedState == <<rec, wakes, processedEvents, busyWith>>
outside == <<spool, thread, main, mainInbox>>
history == <<returned, woken>>
delegationBudgets == <<delegationScenario, flushes, failures, bridgeCrashes>>
refs == <<fresh, held>>
delegationVars == <<savedState, stateFile, poke, agenda, refs, bridgeUp, outside, history, delegationBudgets>>

Rounds == 1..MaxRounds
Strands == {"drain", "tool", "notice"}
\* A turn runs, runs its Stop hook and ends.
Phase == {"running", "stopping", "ended"}
Status == {"none", "active", "idle", "complete"}
Delegation == [status: Status, mode: Modes, final: {0} \cup Rounds,
               injected: BOOLEAN, group: BOOLEAN]
Wake == [kind: {"delegation", "group"}, ids: SUBSET Delegations, started: BOOLEAN]
Event == [thread: Delegations \cup {Main}, turn: Nat]
State == [rec: [Delegations -> Delegation], wakes: Seq(Wake), processed: SUBSET Event,
          busyWith: Nat]

DelegationTypeOK ==
    /\ rec \in [Delegations -> Delegation]
    /\ wakes \in Seq(Wake)
    /\ processedEvents \subseteq Event /\ spool \subseteq Event
    /\ busyWith \in Nat
    /\ stateFile \in State
    /\ poke \in BOOLEAN /\ bridgeUp \in BOOLEAN /\ fresh \in BOOLEAN
    /\ \E ds \in SUBSET Delegations : held \in [ds -> Delegation]
    /\ thread \in [Delegations -> [turn: 0..MaxRounds, phase: Phase]]
    /\ main \in [turn: Nat, phase: Phase]
    /\ returned \in [Delegations \X Rounds -> Nat]
    /\ woken \in Seq([kind: {"delegation", "group"}, ids: SUBSET Delegations, results: SUBSET (Delegations \X Rounds)])

\* Mutant: a delegation without its default return mode.
NoMode == [status |-> "none", mode |-> "unset", final |-> 0, injected |-> FALSE, group |-> FALSE]
NoDelegation == [status |-> "none", mode |-> "manual", final |-> 0, injected |-> FALSE, group |-> FALSE]

DelegationInit ==
    /\ rec = [d \in Delegations |-> NoDelegation]
    /\ wakes = <<>> /\ processedEvents = {} /\ busyWith = 0
    /\ stateFile = [rec |-> rec, wakes |-> <<>>, processed |-> {}, busyWith |-> 0]
    /\ poke = FALSE /\ agenda = [s \in Strands |-> <<>>] /\ bridgeUp = TRUE
    /\ fresh = TRUE /\ held = <<>>
    /\ spool = {} /\ mainInbox = <<>>
    /\ thread = [d \in Delegations |-> [turn |-> 0, phase |-> "ended"]]
    /\ main = [turn |-> 0, phase |-> "ended"]
    /\ returned = [p \in Delegations \X Rounds |-> 0] /\ woken = <<>>
    /\ delegationScenario \in DelegationScenarios /\ flushes = 0 /\ failures = 0 /\ bridgeCrashes = 0

-----------------------------------------------------------------------------
(* Helpers.                                                                *)

Todo(op) == [op |-> op]
TodoFor(op, d) == [op |-> op, d |-> d]
TodoWith(op, e) == [op |-> op, e |-> e]
At(s, op) == bridgeUp /\ agenda[s] # <<>> /\ Head(agenda[s]).op = op
Current(s) == Head(agenda[s])
Free(s) == bridgeUp /\ agenda[s] = <<>>
Then(s, steps) == agenda' = [agenda EXCEPT ![s] = steps \o Tail(@)]
Continue(s) == Then(s, <<>>)
\* An exception ends the strand's work.
ThrowIn(s) == agenda' = [agenda EXCEPT ![s] = <<>>]
CallFails == failures < delegationScenario.faults /\ failures' = failures + 1
CallSucceeds == UNCHANGED failures

\* isTerminalDelegation
Complete(delegation) == delegation.status = "complete"
Terminal(d) == Complete(rec[d])
\* The delegation object a strand works on.
Of(s, d) == IF s = "drain" /\ d \in DOMAIN held THEN held[d] ELSE rec[d]
Unstarted == {i \in DOMAIN wakes : ~wakes[i].started}

\* #enqueueWake: an equal wake, started or not, makes the new one superfluous.
EnqueueWake(kind, ids) ==
    wakes' = IF ids = {} \/ \E i \in DOMAIN wakes : wakes[i].kind = kind /\ wakes[i].ids = ids
             THEN wakes
             ELSE Append(wakes, [kind |-> kind, ids |-> ids, started |-> FALSE])

-----------------------------------------------------------------------------
(* Tools of the operator: calls that a running main turn makes.            *)

Active(t) == t.phase # "ended"
Callable == Free("tool") /\ main.phase = "running"
Known == {d \in Delegations : rec[d].status # "none"}

\* start_delegation
StartDelegation(d, mode) ==
    /\ Callable /\ d \in delegationScenario.delegated /\ thread[d].turn = 0
    /\ mode = "wake_on_group" => d \in delegationScenario.grouped
    /\ thread' = [thread EXCEPT ![d] = [turn |-> 1, phase |-> "running"]]
    /\ rec' = [rec EXCEPT ![d] = [NoDelegation EXCEPT !.status = "active", !.mode = mode,
                                                      !.group = d \in delegationScenario.grouped]]
    /\ agenda' = [agenda EXCEPT !["tool"] = <<Todo("persist")>>]
    /\ UNCHANGED <<wakes, processedEvents, busyWith, stateFile, poke, bridgeUp, spool, main,
                   mainInbox, history, delegationBudgets, refs>>

\* send_delegation: a new turn, and the marks of the last result are cleared.
SendDelegation(d) ==
    /\ Callable /\ "send" \in delegationScenario.tools /\ d \in Known /\ ~Active(thread[d]) /\ thread[d].turn < MaxRounds
    /\ thread' = [thread EXCEPT ![d] = [turn |-> @.turn + 1, phase |-> "running"]]
    /\ rec' = [rec EXCEPT ![d] = [@ EXCEPT !.status = "active", !.final = 0, !.injected = FALSE]]
    /\ agenda' = [agenda EXCEPT !["tool"] = <<Todo("persist")>>]
    /\ UNCHANGED <<wakes, processedEvents, busyWith, stateFile, poke, bridgeUp, spool, main,
                   mainInbox, history, delegationBudgets, refs>>

\* read_delegation: the app-server reports the turns it has now...
ReadDelegation(d) ==
    /\ Callable /\ "read" \in delegationScenario.tools /\ d \in Known
    /\ agenda' = [agenda EXCEPT !["tool"] =
                  <<[op |-> "read", d |-> d, status |-> IF Active(thread[d]) THEN "active" ELSE "complete",
                     final |-> IF Active(thread[d]) THEN thread[d].turn - 1 ELSE thread[d].turn],
                    Todo("persist")>>]
    /\ UNCHANGED <<savedState, stateFile, poke, bridgeUp, outside, history, delegationBudgets,
                   refs>>

\* ... and its answer becomes the status and the answer of the delegation.
DelegationRead ==
    /\ At("tool", "read")
    /\ LET read == Current("tool") IN
       rec' = [rec EXCEPT ![read.d].status = read.status,
                          ![read.d].final = IF read.final = 0 THEN @ ELSE read.final]
    /\ Continue("tool")
    /\ UNCHANGED <<wakes, processedEvents, busyWith, stateFile, poke, bridgeUp, outside, history,
                   delegationBudgets, refs>>

\* resume_delegation, once resumeThread is answered: upsert puts a new object
\* in the place of the known one, idle, with the mode and the group asked for
\* and everything else copied.
ResumeDelegation(d, mode) ==
    /\ Callable /\ "resume" \in delegationScenario.tools /\ d \in delegationScenario.delegated /\ thread[d].turn > 0
    /\ \E group \in BOOLEAN :
         /\ group => d \in delegationScenario.grouped
         /\ rec' = [rec EXCEPT ![d] = [@ EXCEPT !.status = "idle", !.mode = mode, !.group = group]]
    /\ held' = IF \E i \in DOMAIN agenda["drain"] :
                    agenda["drain"][i].op \in {"policy", "recorded", "enqueue"} /\ agenda["drain"][i].d = d
               THEN [x \in DOMAIN held \cup {d} |-> IF x = d THEN rec[d] ELSE held[x]]
               ELSE held
    /\ agenda' = [agenda EXCEPT !["tool"] = <<Todo("persist")>>]
    /\ UNCHANGED <<wakes, processedEvents, busyWith, stateFile, poke, bridgeUp, outside, history,
                   delegationBudgets, fresh>>

\* set_delegation_policy for one delegation or for the group.
SetPolicy(ds, mode) ==
    /\ Callable /\ "policy" \in delegationScenario.tools /\ ds # {} /\ ds \subseteq Known
    /\ rec' = [d \in Delegations |-> IF d \in ds THEN [rec[d] EXCEPT !.mode = mode] ELSE rec[d]]
    /\ agenda' = [agenda EXCEPT !["tool"] = <<Todo("persist")>>]
    /\ UNCHANGED <<wakes, processedEvents, busyWith, stateFile, poke, bridgeUp, outside, history,
                   delegationBudgets, refs>>

\* flush_delegation_results for one delegation, the group or all of them.
FlushResults(ds, kind) ==
    /\ Callable /\ "flush" \in delegationScenario.tools /\ flushes < delegationScenario.flushes /\ ds \subseteq Known
    /\ agenda' = [agenda EXCEPT !["tool"] =
                  <<[op |-> "flush", left |-> ds, kind |-> kind, ids |-> {}], Todo("persist")>>]
    /\ flushes' = flushes + 1
    /\ UNCHANGED <<savedState, stateFile, poke, bridgeUp, outside, history, delegationScenario,
                   failures, bridgeCrashes, refs>>

\* The end of the loop: one wake for what was flushed.
Flushed ==
    /\ At("tool", "flush") /\ Current("tool").left = {}
    /\ EnqueueWake(Current("tool").kind, Current("tool").ids)
    /\ Then("tool", IF Current("tool").ids = {} THEN <<>> ELSE <<Todo("wake")>>)
    /\ UNCHANGED <<rec, processedEvents, busyWith, stateFile, poke, bridgeUp, outside, history,
                   delegationBudgets, refs>>

-----------------------------------------------------------------------------
(* The way of a result back to the main thread.                            *)

\* Mutant: a result is injected although it was before.
AlwaysInject(delegation) == TRUE
MustInject(delegation) == ~delegation.injected

\* #recordDelegationResult, then next: the check and the request run in one
\* step with what comes before them.
RecordResult(s, d, next) ==
    LET delegation == Of(s, d) IN
    \/ /\ MustInject(delegation) /\ CallSucceeds
       /\ returned' = IF delegation.final = 0 THEN returned
                      ELSE [returned EXCEPT ![<<d, delegation.final>>] = @ + 1]
       /\ Then(s, <<TodoFor("recorded", d)>> \o next)
    \/ /\ MustInject(delegation) /\ CallFails
       /\ ThrowIn(s) /\ UNCHANGED returned
    \/ /\ ~MustInject(delegation) /\ CallSucceeds
       /\ Then(s, next) /\ UNCHANGED returned

\* Its answer: injectedAt, on the object the strand works on.
ResultRecorded(s) ==
    /\ At(s, "recorded")
    /\ LET d == Current(s).d IN
       \/ /\ s = "drain" /\ d \in DOMAIN held
          /\ held' = [held EXCEPT ![d].injected = TRUE] /\ UNCHANGED rec
       \/ /\ ~(s = "drain" /\ d \in DOMAIN held)
          /\ rec' = [rec EXCEPT ![d].injected = TRUE] /\ UNCHANGED held
    /\ Continue(s)
    /\ UNCHANGED <<wakes, processedEvents, busyWith, stateFile, poke, bridgeUp, outside, history,
                   delegationBudgets, fresh>>

\* One delegation of the flush: what is not terminal is skipped, what is
\* injected, or was before, is mirrored and counts as flushed.
FlushOne ==
    /\ At("tool", "flush")
    /\ \E d \in Current("tool").left :
         LET rest == [Current("tool") EXCEPT !.left = @ \ {d}] IN
         \/ /\ Terminal(d) /\ RecordResult("tool", d, <<[rest EXCEPT !.ids = @ \cup {d}]>>)
         \/ /\ ~Terminal(d) /\ Then("tool", <<rest>>) /\ CallSucceeds /\ UNCHANGED returned
    /\ UNCHANGED <<savedState, stateFile, poke, bridgeUp, outside, woken, delegationScenario,
                   flushes, bridgeCrashes, refs>>

Members == {d \in Known : rec[d].group}
\* Mutant: one terminal member wakes for the group.
AnyTerminal == \E d \in Members : Terminal(d)
GroupDone == Members # {} /\ \A d \in Members : Terminal(d)

\* Mutant: the return mode is not looked at.
TerminalOnly(delegation) == Complete(delegation)
\* #applyDelegationReturnPolicy runs after the workbench was synchronised.
Returnable(delegation) == Complete(delegation) /\ delegation.mode \in Automatic

ApplyPolicy ==
    /\ At("drain", "policy")
    /\ LET d == Current("drain").d IN
       \/ /\ Returnable(Of("drain", d))
          /\ RecordResult("drain", d, <<[op |-> "enqueue", d |-> d, mode |-> Of("drain", d).mode]>>)
       \/ /\ ~Returnable(Of("drain", d))
          /\ Continue("drain") /\ CallSucceeds /\ UNCHANGED returned
    /\ UNCHANGED <<savedState, stateFile, poke, bridgeUp, outside, woken, delegationScenario,
                   flushes, bridgeCrashes, refs>>

\* Its end, once the result is mirrored, with the mode it began with.
EnqueueByPolicy ==
    /\ At("drain", "enqueue")
    /\ LET d == Current("drain").d
           mode == Current("drain").mode
           forGroup == mode = "wake_on_group" /\ Of("drain", d).group /\ GroupDone IN
       \/ mode = "wake_on_done" /\ EnqueueWake("delegation", {d})
       \/ forGroup /\ EnqueueWake("group", Members)
       \/ mode # "wake_on_done" /\ ~forGroup /\ UNCHANGED wakes
    /\ Continue("drain")
    /\ UNCHANGED <<rec, processedEvents, busyWith, stateFile, poke, bridgeUp, outside, history,
                   delegationBudgets, refs>>

\* #isSessionRunning for the main thread, without the turn that a Stop ended.
SessionRunning(completed) == busyWith # 0 /\ busyWith # completed

Completed(s) == IF Current(s).op = "wakeAfter" THEN Current(s).e.turn ELSE 0
NextWake(i) == i \in Unstarted /\ \A j \in Unstarted : i <= j
\* #processPendingWakes: the first wake that was not started, when the main
\* thread looks idle.  The app-server refuses a second active turn.
ProcessPendingWakes(s) ==
    /\ At(s, "wake") \/ At(s, "wakeAfter")
    /\ \/ /\ SessionRunning(Completed(s)) \/ Unstarted = {} \/ Active(main)
          /\ Then(s, IF Current(s).op = "wakeAfter" THEN <<TodoWith("settle", Current(s).e)>> ELSE <<>>)
          /\ CallSucceeds
          /\ UNCHANGED <<main, mainInbox, woken>>
       \/ /\ ~SessionRunning(Completed(s)) /\ Unstarted # {} /\ CallFails
          /\ ThrowIn(s)
          /\ UNCHANGED <<main, mainInbox, woken>>
       \/ /\ ~SessionRunning(Completed(s)) /\ ~Active(main) /\ CallSucceeds
          /\ main' = [turn |-> main.turn + 1, phase |-> "running"]
          /\ mainInbox' = Append(mainInbox, [type |-> "started", turn |-> main.turn + 1])
          /\ \E i \in DOMAIN wakes :
               /\ NextWake(i)
               /\ woken' = Append(woken, [kind |-> wakes[i].kind, ids |-> wakes[i].ids,
                                          results |-> {p \in wakes[i].ids \X Rounds : returned[p] > 0}])
               /\ Then(s, <<[op |-> "woken", i |-> i]>> \o
                          IF Current(s).op = "wakeAfter" THEN <<TodoWith("mark", Current(s).e)>> ELSE <<>>)
    /\ UNCHANGED <<savedState, stateFile, poke, bridgeUp, spool, thread, returned,
                   delegationScenario, flushes, bridgeCrashes, refs>>

\* The answer of turn/start: startedAt.
WakeStarted(s) ==
    /\ At(s, "woken")
    /\ wakes' = [wakes EXCEPT ![Current(s).i].started = TRUE]
    /\ Continue(s)
    /\ UNCHANGED <<rec, processedEvents, busyWith, stateFile, poke, bridgeUp, outside, history,
                   delegationBudgets, refs>>

-----------------------------------------------------------------------------
(* The hook spool.                                                         *)

\* #drainWorkspaceStopHookSpoolOnce: the files that are there now, by name.
Remaining(events) == IF events = {} THEN <<>> ELSE <<[op |-> "events", left |-> events]>>
StartDrain ==
    /\ Free("drain") /\ poke
    /\ poke' = FALSE
    /\ agenda' = [agenda EXCEPT !["drain"] = Remaining(spool)]
    /\ UNCHANGED <<savedState, stateFile, bridgeUp, outside, history, delegationBudgets, refs>>

\* Mutant: the event is marked before it is handled.
MarkFirst(e, steps) == <<TodoWith("mark", e)>> \o steps
\* #handleWorkspaceHookEvent, then the mark, the save and the archive.
HandleThenMark(e, steps) == steps \o <<TodoWith("mark", e)>>

\* A Stop event of the main thread, of a thread nobody delegated, or of a
\* delegation, which is taken for complete with the answer of that turn.
HandleEvent ==
    /\ At("drain", "events")
    /\ \E e \in Current("drain").left :
         LET d == e.thread
             Do(steps) == Then("drain", steps \o Remaining(Current("drain").left \ {e})) IN
         \/ /\ e \in processedEvents
            /\ Do(<<TodoWith("archive", e)>>) /\ UNCHANGED rec
         \/ /\ e \notin processedEvents /\ d = Main
            /\ Do(<<TodoWith("wakeAfter", e)>>) /\ UNCHANGED rec
         \/ /\ e \notin processedEvents /\ d # Main /\ d \notin Known
            /\ Do(<<TodoWith("mark", e)>>) /\ UNCHANGED rec
         \/ /\ e \notin processedEvents /\ d \in Known
            /\ rec' = [rec EXCEPT ![d] = [@ EXCEPT !.status = "complete", !.final = e.turn]]
            /\ Do(HandleThenMark(e, <<TodoFor("policy", d), Todo("wake")>>))
    /\ fresh' = TRUE /\ held' = <<>>
    /\ UNCHANGED <<wakes, processedEvents, busyWith, stateFile, poke, bridgeUp, outside, history,
                   delegationBudgets>>

\* A Stop of the main thread that started no wake is retried while one waits.
SettleMainStop ==
    /\ At("drain", "settle")
    /\ LET e == Current("drain").e IN
       \/ /\ Unstarted = {}
          /\ Then("drain", <<TodoWith("mark", e)>>) /\ UNCHANGED poke
       \/ /\ Unstarted # {}
          /\ Continue("drain") /\ poke' = TRUE
    /\ UNCHANGED <<savedState, stateFile, bridgeUp, outside, history, delegationBudgets, refs>>

\* Pushed to the array that was read when the event was taken up: a save since
\* then has put a trimmed copy in its place, and the mark is lost.
MarkProcessed ==
    /\ At("drain", "mark")
    /\ processedEvents' = IF fresh THEN processedEvents \cup {Current("drain").e} ELSE processedEvents
    /\ fresh' = TRUE /\ held' = <<>>
    /\ Then("drain", <<Todo("persist"), TodoWith("archive", Current("drain").e)>>)
    /\ UNCHANGED <<rec, wakes, busyWith, stateFile, poke, bridgeUp, outside, history,
                   delegationBudgets>>

\* archiveStopHookSpoolFile; the watcher sees the directory change.
Archive ==
    /\ At("drain", "archive")
    /\ spool' = spool \ {Current("drain").e}
    /\ poke' = TRUE
    /\ Continue("drain")
    /\ UNCHANGED <<savedState, stateFile, bridgeUp, thread, main, mainInbox, history,
                   delegationBudgets, refs>>

Snapshot == [rec |-> rec, wakes |-> wakes, processed |-> processedEvents, busyWith |-> busyWith]
PersistState(s) ==
    /\ At(s, "persist")
    /\ stateFile' = Snapshot /\ fresh' = (s = "drain" \/ agenda["drain"] = <<>>)
    /\ Continue(s)
    /\ UNCHANGED <<savedState, poke, bridgeUp, outside, history, delegationBudgets, held>>

-----------------------------------------------------------------------------
(* The main thread.                                                        *)

\* A message in the home channel starts a turn; the runner knows it at once.
UserTurn ==
    /\ bridgeUp /\ ~Active(main) /\ main.turn < delegationScenario.user /\ busyWith = 0
    /\ main' = [turn |-> main.turn + 1, phase |-> "running"]
    /\ busyWith' = main.turn + 1
    /\ UNCHANGED <<rec, wakes, processedEvents, stateFile, poke, agenda, bridgeUp, spool, thread,
                   mainInbox, history, delegationBudgets, refs>>

\* #handleNotification: the runner follows the turn; after turn/completed the
\* pending wakes get their chance.
HandleMainNotification ==
    /\ Free("notice") /\ mainInbox # <<>>
    /\ mainInbox' = Tail(mainInbox)
    /\ \/ /\ Head(mainInbox).type = "started"
          /\ busyWith' = Head(mainInbox).turn
          /\ agenda' = [agenda EXCEPT !["notice"] = <<Todo("persist")>>]
       \/ /\ Head(mainInbox).type = "completed"
          /\ busyWith' = 0
          /\ agenda' = [agenda EXCEPT !["notice"] = <<Todo("persist"), Todo("wake"), Todo("persist")>>]
    /\ UNCHANGED <<rec, wakes, processedEvents, stateFile, poke, bridgeUp, spool, thread, main,
                   history, delegationBudgets, refs>>

\* The runner of the main thread finds at a restart, or by its timer, that the
\* active turn ended.
RunnerReconciles ==
    /\ Free("notice") /\ mainInbox = <<>> /\ busyWith # 0 /\ ~(Active(main) /\ main.turn = busyWith)
    /\ busyWith' = 0
    /\ agenda' = [agenda EXCEPT !["notice"] = <<Todo("persist")>>]
    /\ UNCHANGED <<rec, wakes, processedEvents, stateFile, poke, bridgeUp, outside, history,
                   delegationBudgets, refs>>

-----------------------------------------------------------------------------
(* The app-server and its hooks, crashes and restarts.                     *)

\* A turn that is about to end runs its Stop hook: the hook CLI writes the file
\* and renames it into the pending directory.
ThreadStops(d) ==
    /\ thread[d].phase = "running"
    /\ thread' = [thread EXCEPT ![d].phase = "stopping"]
    /\ spool' = spool \cup {[thread |-> d, turn |-> thread[d].turn]}
    /\ poke' = bridgeUp
    /\ UNCHANGED <<savedState, stateFile, agenda, bridgeUp, main, mainInbox, history,
                   delegationBudgets, refs>>

\* The main turn stops when its tool calls are answered; the answer to its
\* turn/start came before.
MainStops ==
    /\ main.phase = "running" /\ agenda["tool"] = <<>> /\ \A s \in Strands : ~At(s, "woken")
    /\ main' = [main EXCEPT !.phase = "stopping"]
    /\ spool' = spool \cup {[thread |-> Main, turn |-> main.turn]}
    /\ poke' = bridgeUp
    /\ UNCHANGED <<savedState, stateFile, agenda, bridgeUp, thread, mainInbox, history,
                   delegationBudgets, refs>>

ThreadEnds(d) ==
    /\ thread[d].phase = "stopping"
    /\ thread' = [thread EXCEPT ![d].phase = "ended"]
    /\ UNCHANGED <<savedState, stateFile, poke, agenda, bridgeUp, spool, main, mainInbox, history,
                   delegationBudgets, refs>>

MainEnds ==
    /\ main.phase = "stopping"
    /\ main' = [main EXCEPT !.phase = "ended"]
    /\ mainInbox' = IF bridgeUp THEN Append(mainInbox, [type |-> "completed", turn |-> main.turn]) ELSE mainInbox
    /\ UNCHANGED <<savedState, stateFile, poke, agenda, bridgeUp, spool, thread, history,
                   delegationBudgets, refs>>

BridgeCrashes ==
    /\ bridgeUp /\ bridgeCrashes < delegationScenario.crashes
    /\ bridgeUp' = FALSE /\ bridgeCrashes' = bridgeCrashes + 1
    /\ rec' = stateFile.rec /\ wakes' = stateFile.wakes
    /\ processedEvents' = stateFile.processed /\ busyWith' = stateFile.busyWith
    /\ agenda' = [s \in Strands |-> <<>>] /\ poke' = FALSE /\ held' = <<>> /\ mainInbox' = <<>>
    /\ UNCHANGED <<stateFile, spool, thread, main, history, delegationScenario, flushes, failures,
                   fresh>>

\* startBackgroundWork: the spool is drained at once.
StartBackgroundWork ==
    /\ ~bridgeUp /\ bridgeUp' = TRUE /\ poke' = TRUE
    /\ UNCHANGED <<savedState, stateFile, agenda, outside, history, delegationBudgets, refs>>

-----------------------------------------------------------------------------

Drain ==
    \/ StartDrain \/ HandleEvent \/ ApplyPolicy \/ ResultRecorded("drain") \/ EnqueueByPolicy
    \/ ProcessPendingWakes("drain") \/ WakeStarted("drain")
    \/ SettleMainStop \/ MarkProcessed \/ PersistState("drain") \/ Archive
Tool ==
    \/ DelegationRead \/ FlushOne \/ ResultRecorded("tool") \/ Flushed
    \/ ProcessPendingWakes("tool") \/ WakeStarted("tool") \/ PersistState("tool")
Notice ==
    \/ HandleMainNotification \/ ProcessPendingWakes("notice") \/ WakeStarted("notice") \/ PersistState("notice")
Call ==
    \/ \E d \in Delegations :
         \/ \E mode \in delegationScenario.modes : StartDelegation(d, mode)
         \/ SendDelegation(d) \/ ReadDelegation(d)
         \/ \E mode \in delegationScenario.policies \cup {"manual"} : ResumeDelegation(d, mode)
         \/ \E mode \in delegationScenario.policies : SetPolicy({d}, mode)
         \/ FlushResults({d}, "delegation")
    \/ \E mode \in delegationScenario.policies : SetPolicy(Members, mode)
    \/ FlushResults(Members, "group") \/ FlushResults(Known, "delegation")

DelegationNext ==
    \/ Drain \/ Tool \/ Notice \/ Call
    \/ UserTurn \/ RunnerReconciles
    \/ MainStops \/ MainEnds \/ \E d \in Delegations : ThreadStops(d) \/ ThreadEnds(d)
    \/ BridgeCrashes \/ StartBackgroundWork

DelegationSpec == DelegationInit /\ [][DelegationNext]_delegationVars

\* Each strand goes on, turns end (a main turn does not call tools for ever),
\* the bridge is restarted; no tool has to be called, no user has to write.
DelegationFairSpec ==
    /\ DelegationSpec
    /\ WF_delegationVars(Drain) /\ WF_delegationVars(Tool) /\ WF_delegationVars(Notice) /\ WF_delegationVars(RunnerReconciles)
    /\ SF_delegationVars(MainStops) /\ WF_delegationVars(MainEnds) /\ WF_delegationVars(StartBackgroundWork)
    /\ \A d \in Delegations : WF_delegationVars(ThreadStops(d)) /\ WF_delegationVars(ThreadEnds(d))

-----------------------------------------------------------------------------
(* Properties.                                                             *)

\* A result is injected into the main thread once.  A crash before the mark is
\* saved repeats it, and a flush that runs beside the drain may.
InjectedOnce ==
    \A p \in Delegations \X Rounds : returned[p] <= 1 + bridgeCrashes + flushes

\* A wake starts one turn of the main thread, whichever strands find it; a
\* crash before startedAt is saved repeats it.
WakeOnce ==
    \A i \in DOMAIN woken :
        Cardinality({j \in DOMAIN woken : woken[j].kind = woken[i].kind /\ woken[j].ids = woken[i].ids})
            <= 1 + bridgeCrashes

\* What the drain, the tools and the notifications do between each other's
\* awaits never repeats a result or a wake.
NothingRepeats == InjectedOnce /\ WakeOnce

\* As long as no delegation was ever given an automatic policy, nothing comes
\* back unasked (apps/discord-bridge/README.md:175).
ManualWaits ==
    ((delegationScenario.modes \cup delegationScenario.policies) \cap Automatic = {} /\ flushes = 0)
    => \A p \in Delegations \X Rounds : returned[p] = 0

\* Once the state file has a Stop event of a delegation, and the event is never
\* looked at again, its result is back if the policy is automatic
\* (apps/discord-bridge/README.md:172-174).
MarkedIsReturned ==
    \A d \in Delegations, r \in Rounds :
        ([thread |-> d, turn |-> r] \in stateFile.processed /\ stateFile.rec[d].mode \in Automatic)
        => returned[<<d, r>>] > 0

\* A returned result under wake_on_done has a wake pending in the state file, or
\* a turn of the main thread was started after it (README.md:172).
MarkedIsWoken ==
    \A d \in Delegations, r \in Rounds :
        ([thread |-> d, turn |-> r] \in stateFile.processed /\ stateFile.rec[d].mode = "wake_on_done" /\ returned[<<d, r>>] > 0)
        => \/ \E i \in DOMAIN stateFile.wakes : d \in stateFile.wakes[i].ids /\ ~stateFile.wakes[i].started
           \/ \E i \in DOMAIN woken : <<d, r>> \in woken[i].results

\* A group's wake waits for the turn of every member.
GroupWakeWaits ==
    \A i \in DOMAIN wakes : wakes[i].kind = "group" =>
        \A d \in wakes[i].ids :
            \/ \E r \in Rounds : returned[<<d, r>>] > 0
            \/ thread[d].turn > 0 /\ thread[d].phase # "running"

\* A Stop event in the spool leads to its result, whatever crashes come between.
EveryResultReturns ==
    \A d \in Delegations, r \in Rounds :
        ([thread |-> d, turn |-> r] \in spool /\ stateFile.rec[d].mode \in Automatic) ~> returned[<<d, r>>] > 0
=============================================================================
