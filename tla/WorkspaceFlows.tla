---------------------------- MODULE WorkspaceFlows ----------------------------
(***************************************************************************)
(* The flow backend of the workspace (apps/workspace-backend/src/flow/     *)
(* backend.ts, store.ts, executor.ts, server.ts and the flow commands of   *)
(* index.ts): events and runs are rows of one SQLite file that the server  *)
(* and any number of command lines open.  A dispatch inserts the event,    *)
(* finds the steps that its flows match it with, and starts one child      *)
(* process per step; the row of the run follows the child.                 *)
(***************************************************************************)
EXTENDS Integers, Sequences, FiniteSets, Functions

CONSTANTS
    FlowEvents,  \* events by id
    FlowMatches, \* what discovery and matching can answer: sequences of steps;
                 \* a manifest may name two steps alike
    ServerCalls,    \* calls of the server
    CommandLines,    \* command lines, each of them one call of a process of its own
    MaxReplays,  \* bound on the replays
    MaxStops     \* bound on the ends of the server process

Callers == ServerCalls \cup CommandLines
RunStatus == {"queued", "running", "completed", "failed"}

VARIABLES
    flowEvents,  \* rows of flow_events
    flowRuns,    \* rows of flow_runs: status by run id
    flowCalls,   \* the calls, by caller
    executors,   \* the promises of executeAndRecord, by run id
    serverUp,    \* the server process serves
    nonces,      \* replays so far; a replay's nonce is its number
    spawned,     \* how often a child process was started for a run id
    stops        \* ends of the server process

flowVars == <<flowEvents, flowRuns, flowCalls, executors, serverUp, nonces, spawned, stops>>

\* runId: event, step and the nonce of a replay, 0 for the dispatch.
RunId(e, step, nonce) == <<e, step, nonce>>
NoCall == [at |-> "idle", e |-> "none", nonce |-> 0, wait |-> FALSE, runs |-> {}]
FlowTypeOK ==
    /\ flowEvents \subseteq FlowEvents
    /\ \A id \in DOMAIN flowRuns : id[1] \in FlowEvents /\ flowRuns[id] \in RunStatus
    /\ \A c \in Callers :
         /\ flowCalls[c].at \in {"idle", "matching", "waiting", "accepted", "duplicate", "error"}
         /\ flowCalls[c].runs \subseteq DOMAIN flowRuns
    /\ DOMAIN executors \subseteq DOMAIN flowRuns
    /\ serverUp \in BOOLEAN /\ nonces \in 0..MaxReplays /\ stops \in 0..MaxStops

FlowInit ==
    /\ flowEvents = {} /\ flowRuns = <<>> /\ executors = <<>> /\ spawned = <<>>
    /\ flowCalls = [c \in Callers |-> NoCall]
    /\ serverUp = TRUE /\ nonces = 0 /\ stops = 0

\* The process of a caller is there to take a call.
Serves(c) == c \in CommandLines \/ serverUp
RowsOf(e) == {id \in DOMAIN flowRuns : id[1] = e}

\* insertEvent: insert or ignore.
Inserted(e) == e \notin flowEvents

\* dispatchFlowEvent: an event that is there already is a duplicate, and the
\* answer names the runs that it has by now.
Dispatch(c, e, wait) ==
    /\ Serves(c) /\ flowCalls[c].at = "idle"
    /\ wait => c \in CommandLines
    /\ \/ /\ Inserted(e)
          /\ flowEvents' = flowEvents \cup {e}
          /\ flowCalls' = [flowCalls EXCEPT ![c] = [NoCall EXCEPT !.at = "matching", !.e = e, !.wait = wait]]
       \/ /\ ~Inserted(e)
          /\ flowCalls' = [flowCalls EXCEPT ![c] =
                             [NoCall EXCEPT !.at = "duplicate", !.e = e, !.runs = RowsOf(e)]]
          /\ UNCHANGED flowEvents
    /\ UNCHANGED <<flowRuns, executors, serverUp, nonces, spawned, stops>>

\* replayFlowEvent: the stored event again, with a nonce of its own.
Replay(c, e, wait) ==
    /\ Serves(c) /\ flowCalls[c].at = "idle" /\ nonces < MaxReplays
    /\ \/ /\ e \in flowEvents
          /\ nonces' = nonces + 1
          /\ flowCalls' = [flowCalls EXCEPT ![c] =
                             [NoCall EXCEPT !.at = "matching", !.e = e, !.nonce = nonces + 1, !.wait = wait]]
       \/ /\ e \notin flowEvents
          /\ flowCalls' = [flowCalls EXCEPT ![c] = [NoCall EXCEPT !.at = "error", !.e = e]]
          /\ UNCHANGED nonces
    /\ UNCHANGED <<flowEvents, flowRuns, executors, serverUp, spawned, stops>>

\* createRun: the id is the primary key, and a second insert throws.
Creatable(call, matches, i) ==
    /\ RunId(call.e, matches[i], call.nonce) \notin DOMAIN flowRuns
    /\ \A j \in 1..(i - 1) : matches[j] # matches[i]
\* Mutant: insert or ignore.
MadeOfAll(call, matches) == matches
\* The matches that get their row, up to one that cannot.
Made(call, matches) ==
    SubSeq(matches, 1, CHOOSE n \in 0..Len(matches) :
                          /\ \A i \in 1..n : Creatable(call, matches, i)
                          /\ n = Len(matches) \/ ~Creatable(call, matches, n + 1))

\* What is new of some runs takes the place of what is known.
Over(new, old) == [id \in DOMAIN new \cup DOMAIN old |-> IF id \in DOMAIN new THEN new[id] ELSE old[id]]

\* The event file is written and the flows are discovered and matched, or one
\* of that throws; then, without an await, a row is made for each match, marked
\* running and its child spawned.
StartRuns(c) ==
    /\ flowCalls[c].at = "matching"
    /\ \/ /\ flowCalls' = [flowCalls EXCEPT ![c].at = "error"]
          /\ UNCHANGED <<flowRuns, executors, spawned>>
       \/ \E matches \in FlowMatches :
            LET call == flowCalls[c]
                made == Made(call, matches)
                ids == {RunId(call.e, made[i], call.nonce) : i \in DOMAIN made}
                Children(id) == Cardinality({i \in DOMAIN made : made[i] = id[2]})
                \* A command that does not wait, or throws, closes the store at once.
                executor == [by |-> c, open |-> c \in ServerCalls \/ (call.wait /\ made = matches)] IN
            /\ flowRuns' = Over([id \in ids |-> "running"], flowRuns)
            /\ spawned' = Over([id \in ids |-> Children(id) + IF id \in DOMAIN spawned THEN spawned[id] ELSE 0], spawned)
            /\ executors' = Over([id \in ids |-> executor], executors)
            /\ flowCalls' = [flowCalls EXCEPT ![c] =
                               [@ EXCEPT !.runs = ids,
                                         !.at = IF made # matches THEN "error"
                                                ELSE IF call.wait /\ ids # {} THEN "waiting" ELSE "accepted"]]
    /\ UNCHANGED <<flowEvents, serverUp, nonces, stops>>

\* executeCommand: the child ends and its exit code is the outcome.
Outcomes == {"completed", "failed"}
\* markRunCompleted: where the store was closed the row cannot be written.
Completed(id, outcome) ==
    IF executors[id].open THEN [flowRuns EXCEPT ![id] = outcome] ELSE flowRuns
\* The rest of executeAndRecord.
RunEnds(id) ==
    /\ id \in DOMAIN executors
    /\ \E outcome \in Outcomes : flowRuns' = Completed(id, outcome)
    /\ executors' = Restrict(executors, DOMAIN executors \ {id})
    /\ UNCHANGED <<flowEvents, flowCalls, serverUp, nonces, spawned, stops>>

\* Mutant: the first run that ends answers the call.
AnyDone(c) == \E id \in flowCalls[c].runs : id \notin DOMAIN executors
\* Promise.all over the runs of a dispatch that waits.
AllDone(c) == flowCalls[c].runs \cap DOMAIN executors = {}
Answer(c) ==
    /\ flowCalls[c].at = "waiting" /\ AllDone(c)
    /\ flowCalls' = [flowCalls EXCEPT ![c].at = "accepted"]
    \* A command closes its store with its answer.
    /\ executors' = [id \in DOMAIN executors |->
                       IF executors[id].by = c /\ c \in CommandLines THEN [executors[id] EXCEPT !.open = FALSE] ELSE executors[id]]
    /\ UNCHANGED <<flowEvents, flowRuns, serverUp, nonces, spawned, stops>>

\* The server process ends.  On SIGINT it closes the store and lives on until
\* its children end; killed, it takes its promises with it.
ServerEnds(killed) ==
    /\ serverUp /\ stops < MaxStops
    /\ serverUp' = FALSE /\ stops' = stops + 1
    /\ LET mine == {id \in DOMAIN executors : executors[id].by \in ServerCalls} IN
       executors' = IF killed THEN Restrict(executors, DOMAIN executors \ mine)
                    ELSE [id \in DOMAIN executors |->
                            IF id \in mine THEN [executors[id] EXCEPT !.open = FALSE] ELSE executors[id]]
    /\ flowCalls' = [c \in Callers |->
                       IF c \in ServerCalls /\ flowCalls[c].at \in {"matching", "waiting"}
                       THEN [flowCalls[c] EXCEPT !.at = "error"] ELSE flowCalls[c]]
    /\ UNCHANGED <<flowEvents, flowRuns, nonces, spawned>>

\* Nothing looks at the rows that are left.
ServerStarts ==
    /\ ~serverUp /\ serverUp' = TRUE
    /\ UNCHANGED <<flowEvents, flowRuns, flowCalls, executors, nonces, spawned, stops>>

\* The client that had the answer may call again.
NextCall(c) ==
    /\ c \in ServerCalls /\ flowCalls[c].at \in {"accepted", "duplicate", "error"}
    /\ flowCalls' = [flowCalls EXCEPT ![c] = NoCall]
    /\ UNCHANGED <<flowEvents, flowRuns, executors, serverUp, nonces, spawned, stops>>

FlowNext ==
    \/ \E c \in Callers :
         \/ \E e \in FlowEvents, wait \in BOOLEAN : Dispatch(c, e, wait) \/ Replay(c, e, wait)
         \/ StartRuns(c) \/ Answer(c) \/ NextCall(c)
    \/ \E id \in DOMAIN executors : RunEnds(id)
    \/ \E killed \in BOOLEAN : ServerEnds(killed)
    \/ ServerStarts

FlowSpec == FlowInit /\ [][FlowNext]_flowVars

-----------------------------------------------------------------------------
(* Properties.                                                             *)

\* A run is a child process that is started once, whoever dispatches, replays
\* or restarts, and whatever the manifest names twice.
RunsStartOnce == \A id \in DOMAIN spawned : spawned[id] <= 1

\* A row says running while its child is followed; one that is left running
\* belongs to a server that ended, or to a command that did not wait.
RunningIsFollowed ==
    \A id \in DOMAIN flowRuns :
        (flowRuns[id] = "running" /\ id \notin DOMAIN executors)
        => \/ stops > 0
           \/ \E c \in CommandLines : /\ id \in flowCalls[c].runs
                                 /\ (~flowCalls[c].wait \/ flowCalls[c].at = "error")

\* The answer to a call that waits comes with every run settled.
AnsweredIsSettled ==
    \A c \in Callers : (flowCalls[c].wait /\ flowCalls[c].at = "accepted")
        => \A id \in flowCalls[c].runs : flowRuns[id] \in {"completed", "failed"}

\* What the rows of the backend say of its runs is what happened to them.
RowsTellTheRuns == RunsStartOnce /\ RunningIsFollowed /\ AnsweredIsSettled
=============================================================================
