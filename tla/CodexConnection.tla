--------------------------- MODULE CodexConnection ---------------------------
(***************************************************************************)
(* A client of the Codex app-server over its standard streams:             *)
(* CodexAppServerClient (packages/codex-client/src/app-server/client.ts)   *)
(* on CodexStdioTransport (stdio-transport.ts).                            *)
(*                                                                         *)
(* The transport spawns the process when something is to be written and    *)
(* none runs; the client introduces itself once, in connect.  close, the   *)
(* exit of a process, which is reported some time after it happened, and   *)
(* the timeout of a request all settle requests.                           *)
(***************************************************************************)
EXTENDS Integers, Sequences, FiniteSets

CONSTANTS
    MaxProcs,    \* bound on the processes spawned
    MaxRequests, \* bound on the requests sent
    MaxCloses    \* bound on the calls of close

VARIABLES
    child,     \* #child, 0 when undefined
    proc,      \* what became of each process
    greeted,   \* processes whose app-server took an initialize
    pipe,      \* requests on their way to a process, in order
    answers,   \* answers on their way back
    nextId,    \* #nextRequestId - 1
    pending,   \* #pending
    sent,      \* the requests that were sent: their method and their process
    outcome,   \* what their caller got, and from which process it came
    connected, \* #connected
    closed,    \* processes that close terminated
    closes     \* calls of close

connectionVars == <<child, proc, greeted, pipe, answers, nextId, pending, sent, outcome,
                    connected, closed, closes>>

Procs == 1..MaxProcs
Ids == 1..MaxRequests
None == 0
\* A process that stops was sent SIGTERM; one that is dead has an exit the
\* runtime has not reported yet (exitCode is still null).
ProcStates == {"none", "running", "stopping", "dead", "reported"}
Settled == [result: {"answered", "refused", "rejected"}, by: Procs]
           \cup [result: {"none", "timedOut", "closed"}, by: {None}]
Open == [result |-> "none", by |-> None]

TypeOK ==
    /\ child \in Procs \cup {None}
    /\ proc \in [Procs -> ProcStates]
    /\ greeted \subseteq Procs /\ closed \subseteq Procs
    /\ pipe \in [Procs -> Seq(Ids)]
    /\ answers \subseteq [id: Ids, by: Procs, ok: BOOLEAN]
    /\ nextId \in 0..MaxRequests /\ pending \subseteq 1..nextId
    /\ sent \in [Ids -> [method: {"initialize", "call"}, to: Procs \cup {None}]]
    /\ outcome \in [Ids -> Settled]
    /\ connected \in BOOLEAN

Init ==
    /\ child = None /\ proc = [p \in Procs |-> "none"] /\ greeted = {} /\ closed = {}
    /\ pipe = [p \in Procs |-> <<>>] /\ answers = {}
    /\ nextId = 0 /\ pending = {}
    /\ sent = [i \in Ids |-> [method |-> "call", to |-> None]]
    /\ outcome = [i \in Ids |-> Open]
    /\ connected = FALSE /\ closes = 0

-----------------------------------------------------------------------------

\* running: the child has not been reported as exited.
Running == child # None /\ proc[child] \in {"running", "dead"}

\* start: p is the process that gets what is written next.
Start(p) ==
    \/ Running /\ p = child /\ UNCHANGED <<child, proc>>
    \/ /\ ~Running /\ proc[p] = "none" /\ \A q \in Procs : q < p => proc[q] # "none"
       /\ child' = p /\ proc' = [proc EXCEPT ![p] = "running"]

\* Mutant: the ids start anew with every process.
IdPerProcess(p) == IF Running THEN nextId + 1 ELSE 1
IdFor(p) == nextId + 1

\* request: start, an id, the pending entry with its timer, and the write; a
\* write to a process that died is lost.
Request(method) ==
    /\ nextId < MaxRequests
    /\ \E p \in Procs :
         LET id == IdFor(p) IN
         /\ Start(p)
         /\ nextId' = id
         /\ pending' = pending \cup {id}
         /\ sent' = [sent EXCEPT ![id] = [method |-> method, to |-> p]]
         /\ outcome' = [outcome EXCEPT ![id] = Open]
         /\ pipe' = IF proc[p] = "dead" THEN pipe ELSE [pipe EXCEPT ![p] = Append(@, id)]

\* connect, unless it is connected: whoever calls it while another connect
\* waits introduces itself again.
Connect ==
    /\ ~connected
    /\ Request("initialize")
    /\ UNCHANGED <<greeted, answers, connected, closed, closes>>

\* A call of a client that was connected.
Call ==
    /\ connected
    /\ Request("call")
    /\ UNCHANGED <<greeted, answers, connected, closed, closes>>

Reject(ids, result, by) ==
    outcome' = [i \in Ids |-> IF i \in ids THEN [result |-> result, by |-> by] ELSE outcome[i]]

\* #handleLine with a response: only a pending request is settled by it.  The
\* answer to initialize is followed by initialized and sets #connected.
HandleResponse(answer) ==
    /\ answer \in answers
    /\ answers' = answers \ {answer}
    /\ pending' = pending \ {answer.id}
    /\ IF answer.id \in pending
       THEN /\ Reject({answer.id}, IF answer.ok THEN "answered" ELSE "refused", answer.by)
            /\ connected' = (connected \/ (answer.ok /\ sent[answer.id].method = "initialize"))
       ELSE UNCHANGED <<outcome, connected>>
    /\ UNCHANGED <<child, proc, greeted, pipe, nextId, sent, closed, closes>>

RequestTimesOut(id) ==
    /\ id \in pending
    /\ pending' = pending \ {id}
    /\ Reject({id}, "timedOut", None)
    /\ UNCHANGED <<child, proc, greeted, pipe, answers, nextId, sent, connected, closed, closes>>

\* close of the client and of its transport: the child is let go at once.
Close ==
    /\ closes < MaxCloses /\ closes' = closes + 1
    /\ connected' = FALSE
    /\ child' = None
    /\ IF child # None
       THEN closed' = closed \cup {child}
            /\ proc' = IF proc[child] = "running" THEN [proc EXCEPT ![child] = "stopping"] ELSE proc
       ELSE UNCHANGED <<closed, proc>>
    /\ Reject(pending, "closed", None) /\ pending' = {}
    /\ UNCHANGED <<greeted, pipe, answers, nextId, sent>>

\* Mutant: the exit of any process clears the field.
NoChild(p) == None
\* onExit compares the subprocess with the child.
ChildAfterExit(p) == IF child = p THEN None ELSE child

\* onExit: every pending request is rejected, whichever process it was sent to.
OnExit(p) ==
    /\ proc[p] = "dead"
    /\ proc' = [proc EXCEPT ![p] = "reported"]
    /\ child' = ChildAfterExit(p)
    /\ Reject(pending, "rejected", p) /\ pending' = {}
    /\ UNCHANGED <<greeted, pipe, answers, nextId, sent, connected, closed, closes>>

-----------------------------------------------------------------------------
(* The processes.                                                          *)

\* The app-server refuses what comes before initialize, and a second one.
Serve(p) ==
    /\ proc[p] \in {"running", "stopping"} /\ pipe[p] # <<>>
    /\ LET id == Head(pipe[p])
           hello == sent[id].method = "initialize" IN
       /\ answers' = answers \cup {[id |-> id, by |-> p, ok |-> hello # (p \in greeted)]}
       /\ greeted' = IF hello THEN greeted \cup {p} ELSE greeted
    /\ pipe' = [pipe EXCEPT ![p] = Tail(@)]
    /\ UNCHANGED <<child, proc, nextId, pending, sent, outcome, connected, closed, closes>>

\* It obeys the signal, or dies; what it wrote before can still be read.
Die(p) ==
    /\ proc[p] \in {"running", "stopping"}
    /\ proc' = [proc EXCEPT ![p] = "dead"]
    /\ pipe' = [pipe EXCEPT ![p] = <<>>]
    /\ UNCHANGED <<child, greeted, answers, nextId, pending, sent, outcome, connected, closed, closes>>

Next ==
    \/ Connect \/ Call \/ Close
    \/ \E answer \in answers : HandleResponse(answer)
    \/ \E id \in Ids : RequestTimesOut(id)
    \/ \E p \in Procs : OnExit(p) \/ Serve(p) \/ Die(p)

Spec == Init /\ [][Next]_connectionVars

-----------------------------------------------------------------------------
(* Properties.                                                             *)

\* No process runs that the transport has forgotten: close signals the one it
\* lets go, and the late exit of a closed process leaves its successor alone.
NoOrphanProcess == \A p \in Procs : proc[p] = "running" => child = p

\* A request is answered by the process it was sent to: an answer that a closed
\* or slow process still writes is never taken for the answer to a later one.
AnswerIsOwn(i) == outcome[i].result \in {"answered", "refused"} => outcome[i].by = sent[i].to

\* The exit of a process rejects the requests of another one only when close
\* had terminated it: its exit is reported after its successor was spawned.
RejectedByOwnProcess(i) ==
    outcome[i].result = "rejected" => outcome[i].by = sent[i].to \/ outcome[i].by \in closed

Lost == {p \in Procs \ closed : proc[p] \in {"dead", "reported"}}
\* A process gets a call without an initialize before it only after one of its
\* predecessors exited by itself: #connected survives the exit.
CallAfterInitialize(i) == outcome[i].result = "refused" /\ sent[i].method = "call" => Lost # {}

\* Whatever closes, exits and slow answers come in between, a request is settled
\* by its own process, for a reason of its own.
OutcomeIsJustified == \A i \in Ids : AnswerIsOwn(i) /\ RejectedByOwnProcess(i) /\ CallAfterInitialize(i)
=============================================================================
