---------------------------- MODULE WorkspaceTasks ----------------------------
(***************************************************************************)
(* Scheduled tasks of a workspace (packages/codex-client/src/cli/          *)
(* workspace-autonomy.ts): "workspace tick" runs the tasks that are due    *)
(* and the reactive rules, "workspace run" one task.  Each is a process of *)
(* its own; what they know of each other are the run files and the health  *)
(* summary under the state root.                                           *)
(***************************************************************************)
EXTENDS Integers, Sequences, FiniteSets, SequencesExt

CONSTANTS
    Tasks,         \* the configured tasks, in the order of workspace.toml
    Enabled,       \* those that are enabled
    Schedule,      \* by task: the minutes of a day its cron fields name; a task
                   \* without a schedule has none
    Threshold,     \* consecutive_failures_gte of the reactive rule
    Processes,     \* codex-flows processes at a time
    MinutesPerDay,
    MaxTime,       \* bound on the clock
    MaxStarts,     \* bound on the processes that are started
    MaxKills       \* bound on the processes that die

VARIABLES
    clock,
    runFiles,   \* the run files, in the order they were written
    health,     \* health/summary.json: the failures in a row, by failing task
    process,    \* by process: what it does
    starts, kills,
    crowded,    \* two processes worked at a time
    launches,      \* the runs that were launched; a run's number is its place here
    late,       \* a tick began a task after the day of the tick
    slots       \* every task and day at which a tick found it to be scheduled now

taskVars == <<clock, runFiles, health, process, starts, kills, crowded, launches, late, slots>>

TaskSet == {Tasks[i] : i \in DOMAIN Tasks}
Rule == "rule"
Day(t) == t \div MinutesPerDay
NoRun == [task |-> "none", n |-> 0, at |-> 0, status |-> "none"]
Resting == [at |-> "rest", day |-> 0, kind |-> "none", due |-> <<>>, seen |-> <<>>, run |-> NoRun, summary |-> <<>>]

TaskTypeOK ==
    /\ clock \in 0..MaxTime /\ starts \in 0..MaxStarts /\ kills \in 0..MaxKills
    /\ DOMAIN health \subseteq TaskSet \cup {Rule}
    /\ \A p \in Processes : process[p].at \in {"rest", "begin", "running", "count", "health"}
    /\ slots \subseteq TaskSet \X Nat

TaskInit ==
    /\ clock = 0 /\ runFiles = <<>> /\ health = <<>> /\ starts = 0 /\ kills = 0
    /\ process = [p \in Processes |-> Resting]
    /\ crowded = FALSE /\ launches = <<>> /\ late = FALSE /\ slots = {}

\* consecutiveFailures: the runs of a task that failed since one did not.
FailuresInARow(t, files) ==
    LET own == {i \in DOMAIN files : files[i].task = t} IN
    Cardinality({i \in own : \A j \in own : files[j].n >= files[i].n => files[j].status = "failed"})

ScheduledNow == {t \in Enabled : clock % MinutesPerDay \in Schedule[t]}
\* Mutant: only a run that completed counts for the day.
CompletedForDay(t, day) == \E i \in DOMAIN runFiles : runFiles[i].task = t /\ Day(runFiles[i].at) = day /\ runFiles[i].status = "completed"
\* hasRunForDate: whoever ran it, and however it ended.
RanForDay(t, day) == \E i \in DOMAIN runFiles : runFiles[i].task = t /\ Day(runFiles[i].at) = day
Due(t) == t \in ScheduledNow /\ ~RanForDay(t, Day(clock))

Alone(p) == \A q \in Processes \ {p} : process[q].at = "rest"
FreePlace == CHOOSE p \in Processes : process[p].at = "rest"
Works(p, due, kind) ==
    /\ process[p].at = "rest" /\ p = FreePlace /\ starts < MaxStarts /\ starts' = starts + 1
    /\ process' = [process EXCEPT ![p] = [Resting EXCEPT !.at = "begin", !.day = Day(clock), !.kind = kind,
                                                          !.due = due, !.seen = IF kind = "tick" THEN runFiles ELSE <<>>]]
    /\ crowded' = (crowded \/ ~Alone(p))

\* tickWorkspace reads the run files and the tasks that are due at this minute.
Tick(p) ==
    /\ Works(p, SelectSeq(Tasks, Due), "tick")
    /\ slots' = slots \cup {<<t, Day(clock)>> : t \in ScheduledNow}
    /\ UNCHANGED <<clock, runFiles, health, kills, launches, late>>

\* runWorkspaceTaskById: at any time, a disabled task as well.
RunById(p, t) ==
    /\ Works(p, <<t>>, "run")
    /\ UNCHANGED <<clock, runFiles, health, kills, launches, late, slots>>

\* A run begins: its time is taken now.
Begin(p, t, kind) ==
    /\ launches' = Append(launches, [task |-> t, at |-> clock, kind |-> kind,
                               failing |-> \E u \in TaskSet : FailuresInARow(u, runFiles) >= Threshold])
    /\ process' = [process EXCEPT ![p].at = "running", ![p].kind = kind,
                     ![p].due = IF @ = <<>> THEN @ ELSE Tail(@),
                     ![p].run = [task |-> t, n |-> Len(launches'), at |-> clock, status |-> "running"]]
    /\ UNCHANGED <<clock, runFiles, health, starts, kills, crowded, slots>>

\* The next task.
BeginTask(p) ==
    /\ process[p].at = "begin" /\ process[p].due # <<>>
    /\ Begin(p, Head(process[p].due), process[p].kind)
    /\ late' = (late \/ Day(clock) # process[p].day)

\* The rule is applied once all due tasks have run, to what the tick read and
\* what it ran itself; a process that ran a single task applies none.
RuleApplies(w) == w.kind = "tick" /\ \E t \in TaskSet : FailuresInARow(t, w.seen) >= Threshold
BeginRule(p) ==
    /\ process[p].at = "begin" /\ process[p].due = <<>> /\ RuleApplies(process[p])
    /\ Begin(p, Rule, "rule") /\ UNCHANGED late

\* The flow, the command or the skill ends; persistRun writes the run file...
EndRun(p, status) ==
    LET w == process[p] IN
    /\ w.at = "running"
    /\ IF w.run.task \in TaskSet \ Enabled THEN status = "skipped" ELSE status \in {"completed", "failed"}
    /\ runFiles' = Append(runFiles, [w.run EXCEPT !.status = status])
    /\ process' = [process EXCEPT ![p] = [w EXCEPT !.at = "count", !.run.status = status,
                                                  !.seen = IF w.kind = "tick" THEN Append(@, [w.run EXCEPT !.status = status]) ELSE <<>>]]
    /\ UNCHANGED <<clock, health, starts, kills, crowded, launches, late, slots>>

\* ... and writeHealth reads all run files, counts this run once more...
CountFailures(p) ==
    LET known == Append(runFiles, process[p].run)
        named == {known[i].task : i \in DOMAIN known} IN
    /\ process[p].at = "count"
    /\ process' = [process EXCEPT ![p] = [@ EXCEPT !.at = "health", !.run = NoRun,
         !.summary = [t \in {t \in named : FailuresInARow(t, known) > 0} |-> FailuresInARow(t, known)]]]
    /\ UNCHANGED <<clock, runFiles, health, starts, kills, crowded, launches, late, slots>>

\* ... and writes the summary.
WriteHealth(p) ==
    /\ process[p].at = "health" /\ health' = process[p].summary
    /\ process' = [process EXCEPT ![p] = [@ EXCEPT !.at = "begin", !.summary = <<>>]]
    /\ UNCHANGED <<clock, runFiles, starts, kills, crowded, launches, late, slots>>

\* Nothing is left to do.
Exit(p) ==
    /\ process[p].at = "begin" /\ process[p].due = <<>> /\ ~RuleApplies(process[p])
    /\ process' = [process EXCEPT ![p] = Resting]
    /\ UNCHANGED <<clock, runFiles, health, starts, kills, crowded, launches, late, slots>>

Kill(p) ==
    /\ process[p].at # "rest" /\ kills < MaxKills /\ kills' = kills + 1
    /\ process' = [process EXCEPT ![p] = Resting]
    /\ UNCHANGED <<clock, runFiles, health, starts, crowded, launches, late, slots>>

Pass ==
    /\ clock < MaxTime /\ clock' = clock + 1
    /\ UNCHANGED <<runFiles, health, process, starts, kills, crowded, launches, late, slots>>

TaskNext ==
    \/ \E p \in Processes :
         \/ Tick(p) \/ BeginTask(p) \/ BeginRule(p) \/ CountFailures(p) \/ WriteHealth(p) \/ Exit(p) \/ Kill(p)
         \/ \E t \in TaskSet : RunById(p, t)
         \/ \E status \in {"completed", "failed", "skipped"} : EndRun(p, status)
    \/ Pass

TaskSpec == TaskInit /\ [][TaskNext]_taskVars

-----------------------------------------------------------------------------
(* Properties.                                                             *)

\* Ticks begin a scheduled task once on a day, whether it succeeds or not,
\* unless two processes work at a time or one dies.
OncePerDay ==
    (~crowded /\ kills = 0)
    => \A i, j \in DOMAIN launches :
         (i < j /\ launches[i].kind = "tick" /\ launches[j].kind = "tick" /\ launches[i].task = launches[j].task)
         => Day(launches[i].at) < Day(launches[j].at)

\* A task that a tick found to be scheduled was run on that day, unless a tick
\* went on past midnight, which then counts as the next day's run.
SlotsAreKept ==
    (kills = 0 /\ ~late /\ \A p \in Processes : process[p].at = "rest")
    => \A slot \in slots : \E i \in DOMAIN launches : launches[i].task = slot[1] /\ Day(launches[i].at) = slot[2]

\* The summary names the tasks whose latest run failed.
HealthIsTrue ==
    (kills = 0 /\ ~crowded /\ \A p \in Processes : process[p].at = "rest")
    => DOMAIN health = {t \in TaskSet \cup {Rule} : FailuresInARow(t, runFiles) > 0}

\* A repair is launches while a task fails, unless another process has just run it.
RepairIsDue == ~crowded => \A i \in DOMAIN launches : launches[i].kind = "rule" => launches[i].failing

TicksAreSound == OncePerDay /\ SlotsAreKept /\ HealthIsTrue /\ RepairIsDue
=============================================================================
