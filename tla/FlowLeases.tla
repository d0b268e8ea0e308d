----------------------------- MODULE FlowLeases -----------------------------
(***************************************************************************)
(* The Convex flow control plane                                           *)
(* (packages/flow-backend-convex/src/component/backend.ts).                *)
(*                                                                         *)
(* Every mutation of the component is one Convex transaction, so every     *)
(* mutation is one action.  Workers, clients and operators call them in    *)
(* any order; a call whose guard is false throws and changes nothing.  A   *)
(* worker that crashed, or whose response was lost, is a worker that makes *)
(* no further call: nothing in the tables tells the two apart.             *)
(***************************************************************************)
EXTENDS Integers, FiniteSets

CONSTANTS
    Events,         \* event ids
    EventTypes,     \* event types
    Slugs,          \* what safeId makes of event ids
    SafeId,         \* SafeId[e]: the slug of event id e
    Flows,          \* flow names
    Steps,          \* step names
    ManifestSteps,  \* the <<step, trigger type>> sets a manifest may list
    Workers,        \* worker ids
    LeaseRequests,  \* lease durations that callers ask for
    MinLease,       \* shortest lease granted (10 s)
    MaxLease,       \* longest lease granted (30 min)
    NoType,         \* "no such event"
    NoWorker,       \* "no such attempt"
    MaxNow,         \* bound on the clock
    ReplayTimes,    \* bound on the instants at which replays come
    MaxAttempts,    \* bound on the attempts of one run
    MaxReplays      \* bound on the replay calls

ASSUME SafeIdAssumption == SafeId \in [Events -> Slugs]
ASSUME ManifestAssumption == ManifestSteps \subseteq SUBSET (Steps \X EventTypes)
ASSUME LeaseAssumption ==
    /\ MinLease \in Nat \ {0}
    /\ MaxLease \in Nat
    /\ MinLease <= MaxLease
    /\ LeaseRequests \subseteq Int
ASSUME BoundAssumption ==
    /\ MaxNow \in Nat
    /\ ReplayTimes \subseteq 0..MaxNow
    /\ MaxAttempts \in Nat
    /\ MaxReplays \in Nat
ASSUME NoneAssumption == NoType \notin EventTypes /\ NoWorker \notin Workers

VARIABLES
    now,        \* Date.now(), in units of the model
    manifests,  \* flowManifests: the <<step, trigger type>> pairs of a flow
    events,     \* flowEvents: the type of each stored event, or NoType
    runs,       \* flowRuns
    attempts,   \* flowRunAttempts: attempts[r][n] is attempt number n of r
    output,     \* flowOutputEvents: the <<run, attempt>> of the newest row
    replays     \* observability: replay calls accepted so far

vars == <<now, manifests, events, runs, attempts, output, replays>>

-----------------------------------------------------------------------------
(* The tables.                                                             *)

NoNonce == -1
Times == 0..MaxNow

\* A run id joins the slug of the event id, the flow, the step and, for a
\* replay, the time of the replay.
RunIds == Slugs \X Flows \X Steps \X (ReplayTimes \cup {NoNonce})
AttemptNumbers == 1..MaxAttempts

RunStatuses == {"none", "queued", "running", "completed", "failed", "canceled"}
AttemptStatuses == {"none", "running", "completed", "failed"}

\* attemptCount doubles as latestAttemptId, which is always run:attempt:count.
Run == [event: Events \cup {NoType}, status: RunStatuses,
        attemptCount: 0..MaxAttempts, createdAt: Times]

\* worker and claimedAt are the leaseToken; error tells an expiry from a
\* failure the worker reported.
Attempt == [status: AttemptStatuses, worker: Workers \cup {NoWorker},
            claimedAt: Times, leaseExpiresAt: Nat,
            error: {"none", "expired", "reported"}]

NoRun == [event |-> NoType, status |-> "none", attemptCount |-> 0, createdAt |-> 0]
NoAttempt == [status |-> "none", worker |-> NoWorker, claimedAt |-> 0,
              leaseExpiresAt |-> 0, error |-> "none"]

NoOutput == <<>>

TypeOK ==
    /\ now \in Times
    /\ manifests \in [Flows -> SUBSET (Steps \X EventTypes)]
    /\ events \in [Events -> EventTypes \cup {NoType}]
    /\ runs \in [RunIds -> Run]
    /\ attempts \in [RunIds -> [AttemptNumbers -> Attempt]]
    /\ output \in (RunIds \X AttemptNumbers) \cup {NoOutput}
    /\ replays \in 0..MaxReplays

Init ==
    /\ now = 0
    /\ manifests = [f \in Flows |-> {}]
    /\ events = [e \in Events |-> NoType]
    /\ runs = [r \in RunIds |-> NoRun]
    /\ attempts = [r \in RunIds |-> [n \in AttemptNumbers |-> NoAttempt]]
    /\ output = NoOutput
    /\ replays = 0

-----------------------------------------------------------------------------
(* Manifests, dispatch and replay.                                         *)

SyncFlowManifest(f, steps) ==
    /\ manifests' = [manifests EXCEPT ![f] = steps]
    /\ UNCHANGED <<now, events, runs, attempts, output, replays>>

\* The run ids of every manifest step the event type triggers.
MatchedRunIds(e, type, nonce) ==
    {r \in RunIds : /\ r[1] = SafeId[e]
                    /\ r[4] = nonce
                    /\ <<r[3], type>> \in manifests[r[2]]}

\* Rows that exist already are reported and left alone.
InsertRuns(e, type, nonce) ==
    runs' = [r \in RunIds |->
               IF r \in MatchedRunIds(e, type, nonce) /\ runs[r].status = "none"
               THEN [event |-> e, status |-> "queued",
                     attemptCount |-> 0, createdAt |-> now]
               ELSE runs[r]]

\* Mutant: the duplicate check forgotten.
KnownNever(e) == FALSE
Known(e) == events[e] # NoType

\* A known event is answered with the runs it has: nothing changes.
DispatchEvent(e, type) ==
    /\ ~Known(e)
    /\ events' = [events EXCEPT ![e] = type]
    /\ InsertRuns(e, type, NoNonce)
    /\ UNCHANGED <<now, manifests, attempts, output, replays>>

\* The nonce is the time of the replay, to the millisecond.
ReplayNonce(time) == time

ReplayEvent(e) ==
    /\ events[e] # NoType
    /\ now \in ReplayTimes
    /\ replays < MaxReplays
    /\ replays' = replays + 1
    /\ InsertRuns(e, events[e], ReplayNonce(now))
    /\ UNCHANGED <<now, manifests, events, attempts, output>>

-----------------------------------------------------------------------------
(* Leases.                                                                 *)

\* Mutant: the caller's request taken as it is.
LeaseMsUnclamped(request) == request
LeaseMs(request) ==
    IF request < MinLease THEN MinLease
    ELSE IF request > MaxLease THEN MaxLease ELSE request

\* assertAttemptLease: the attempt runs, the token is the caller's, and the
\* lease has not run out.
\* Mutant: the expiry is not looked at.
LeaseEvenExpired(w, r, n) ==
    attempts[r][n].status = "running" /\ attempts[r][n].worker = w
\* Mutant: the status is not looked at.
LeaseEvenEnded(w, r, n) ==
    attempts[r][n].worker = w /\ attempts[r][n].leaseExpiresAt >= now
AttemptLease(w, r, n) ==
    /\ attempts[r][n].status = "running"
    /\ attempts[r][n].worker = w
    /\ attempts[r][n].leaseExpiresAt >= now

\* Mutant: a lease counts as expired at its last instant.
ExpiredInclusive(r, n) ==
    attempts[r][n].status = "running" /\ attempts[r][n].leaseExpiresAt <= now
Expired(r, n) ==
    attempts[r][n].status = "running" /\ attempts[r][n].leaseExpiresAt < now

\* The index is ordered by expiry: the first is a longest expired one.
FirstExpired(r, n) ==
    /\ Expired(r, n)
    /\ \A q \in RunIds, m \in AttemptNumbers :
         Expired(q, m) => attempts[r][n].leaseExpiresAt <= attempts[q][m].leaseExpiresAt

\* Mutant: a running run can be claimed like a queued one.
OldestOpen(r) ==
    /\ runs[r].status \in {"queued", "running"}
    /\ \A q \in RunIds :
         runs[q].status = "queued" => runs[r].createdAt <= runs[q].createdAt
OldestQueued(r) ==
    /\ runs[r].status = "queued"
    /\ \A q \in RunIds :
         runs[q].status = "queued" => runs[r].createdAt <= runs[q].createdAt

\* claimExistingRun: the next attempt of r, in the attempts table as the
\* mutation has left it so far.
ClaimExistingRun(r, w, request, table) ==
    LET n == runs[r].attemptCount + 1 IN
    /\ n <= MaxAttempts
    /\ attempts' = [table EXCEPT ![r][n] =
                      [status |-> "running", worker |-> w, claimedAt |-> now,
                       leaseExpiresAt |-> now + LeaseMs(request),
                       error |-> "none"]]
    /\ runs' = [runs EXCEPT ![r] = [@ EXCEPT !.status = "running", !.attemptCount = n]]

ClaimQueuedRun(w, request, table) ==
    \/ /\ \A r \in RunIds : runs[r].status # "queued"
       /\ attempts' = table
       /\ UNCHANGED runs
    \/ \E r \in RunIds : OldestQueued(r) /\ ClaimExistingRun(r, w, request, table)

ExpireAttempt(r, n) ==
    [attempts EXCEPT ![r][n] = [@ EXCEPT !.status = "failed", !.error = "expired"]]

\* One expired attempt is failed; if its run still runs it is leased again
\* at once, else the call goes on to the queue.
ReclaimExpired(r, n, w, request) ==
    /\ FirstExpired(r, n)
    /\ \/ /\ runs[r].status = "running"
          /\ ClaimExistingRun(r, w, request, ExpireAttempt(r, n))
       \/ /\ runs[r].status # "running"
          /\ ClaimQueuedRun(w, request, ExpireAttempt(r, n))

ClaimRun(w, request) ==
    /\ \/ \E r \in RunIds, n \in AttemptNumbers : ReclaimExpired(r, n, w, request)
       \/ /\ \A r \in RunIds, n \in AttemptNumbers : ~Expired(r, n)
          /\ ClaimQueuedRun(w, request, attempts)
    /\ UNCHANGED <<now, manifests, events, output, replays>>

HeartbeatRun(w, r, n, request) ==
    /\ AttemptLease(w, r, n)
    /\ attempts' = [attempts EXCEPT ![r][n].leaseExpiresAt = now + LeaseMs(request)]
    /\ UNCHANGED <<now, manifests, events, runs, output, replays>>

AppendRunOutput(w, r, n) ==
    /\ AttemptLease(w, r, n)
    /\ output' = <<r, n>>
    /\ UNCHANGED <<now, manifests, events, runs, attempts, replays>>

\* Attempt and run end together.  The status of the run is not looked at.
CompleteRun(w, r, n) ==
    /\ AttemptLease(w, r, n)
    /\ attempts' = [attempts EXCEPT ![r][n].status = "completed"]
    /\ runs' = [runs EXCEPT ![r].status = "completed"]
    /\ UNCHANGED <<now, manifests, events, output, replays>>

\* Mutant: only the attempt is failed.
FailAttemptOnly(w, r, n) ==
    /\ AttemptLease(w, r, n)
    /\ attempts' = [attempts EXCEPT ![r][n] = [@ EXCEPT !.status = "failed", !.error = "reported"]]
    /\ UNCHANGED <<now, manifests, events, runs, output, replays>>
FailRun(w, r, n) ==
    /\ AttemptLease(w, r, n)
    /\ attempts' = [attempts EXCEPT ![r][n] = [@ EXCEPT !.status = "failed", !.error = "reported"]]
    /\ runs' = [runs EXCEPT ![r].status = "failed"]
    /\ UNCHANGED <<now, manifests, events, output, replays>>

\* Mutant: a completed run can be cancelled.
CancellableAll == RunStatuses \ {"none"}
Cancellable == RunStatuses \ {"none", "completed"}

\* A queued, running, failed or cancelled run; its attempt keeps its lease.
CancelRun(r) ==
    /\ runs[r].status \in Cancellable
    /\ runs' = [runs EXCEPT ![r].status = "canceled"]
    /\ UNCHANGED <<now, manifests, events, attempts, output, replays>>

Tick ==
    /\ now < MaxNow
    /\ now' = now + 1
    /\ UNCHANGED <<manifests, events, runs, attempts, output, replays>>

Next ==
    \/ \E f \in Flows, steps \in ManifestSteps : SyncFlowManifest(f, steps)
    \/ \E e \in Events, type \in EventTypes : DispatchEvent(e, type)
    \/ \E e \in Events : ReplayEvent(e)
    \/ \E w \in Workers, request \in LeaseRequests : ClaimRun(w, request)
    \/ \E w \in Workers, r \in RunIds, n \in AttemptNumbers :
         \/ \E request \in LeaseRequests : HeartbeatRun(w, r, n, request)
         \/ AppendRunOutput(w, r, n)
         \/ CompleteRun(w, r, n)
         \/ FailRun(w, r, n)
    \/ \E r \in RunIds : CancelRun(r)
    \/ Tick

Spec == Init /\ [][Next]_vars

-----------------------------------------------------------------------------
(* Safety.                                                                 *)

Latest(r) == attempts[r][runs[r].attemptCount]

\* The attempts of a run are numbered 1..attemptCount.
Numbered(run, row) ==
    \A n \in AttemptNumbers : row[n].status # "none" <=> n <= run.attemptCount

\* A run and its attempts tell one story, although a mutation patches them
\* row by row: only the latest attempt can run; a queued run has no attempt,
\* a running run has a running one, and a completed or failed run has a
\* latest attempt that ended the same way.
RowsAgree(run, row) ==
    /\ Numbered(run, row)
    /\ \A n \in AttemptNumbers : row[n].status = "running" => n = run.attemptCount
    /\ run.status \in {"none", "queued"} => run.attemptCount = 0
    /\ run.status \in {"running", "completed", "failed"} =>
         run.attemptCount > 0 /\ row[run.attemptCount].status = run.status
    /\ run.status = "canceled" /\ run.attemptCount > 0 =>
         row[run.attemptCount].status \in {"running", "failed"}

\* Runs and attempts agree: no claim, settlement or cancellation leaves an
\* attempt behind that could settle its run a second time.
TablesAgree == \A r \in RunIds : RowsAgree(runs[r], attempts[r])

ValidLease(r, n) ==
    attempts[r][n].status = "running" /\ attempts[r][n].leaseExpiresAt >= now

\* At any time at most one lease on a run is good: two workers can never
\* both heartbeat, write output for or settle the same run.
OneValidLease ==
    \A r \in RunIds, n, m \in AttemptNumbers :
        ValidLease(r, n) /\ ValidLease(r, m) => n = m

(* What a step may never do.                                               *)

\* A completed run stays completed: neither a late worker, a cancellation,
\* a new claim nor a replay of its event disturbs it.
CompletedIsFinal ==
    [][\A r \in RunIds : runs[r].status = "completed" => runs'[r] = runs[r]]_vars

\* No worker loses a run to another one before the shortest lease has passed
\* since it claimed the run, whatever duration it asked for.
LeaseLastsMinimum ==
    [][\A r \in RunIds, n \in AttemptNumbers :
         attempts[r][n].status = "running" /\ attempts'[r][n].error = "expired"
           => now > attempts[r][n].claimedAt + MinLease]_vars

\* Output is written only by the latest attempt of a run, and never after
\* the run was completed or failed: a superseded worker cannot interleave
\* its lines with those of the worker that replaced it.
OutputIsFromTheHolder ==
    [][\A r \in RunIds, n \in AttemptNumbers :
         output' = <<r, n>> /\ output' # output =>
           /\ n = runs[r].attemptCount
           /\ runs[r].status \in {"running", "canceled"}]_vars

\* A run that is not a replay is created together with its event and never
\* later, however often the event is dispatched and the manifests change.
DispatchRunsOnce ==
    [][\A r \in RunIds :
         r[4] = NoNonce /\ runs[r].status = "none" /\ runs'[r].status # "none"
           => events[runs'[r].event] = NoType]_vars

\* What the documentation says of a dispatch: it is idempotent by event id,
\* so an event with a new id gets runs of its own for the steps it triggers.
NewEventGetsItsRuns ==
    [][\A e \in Events, f \in Flows, s \in Steps :
         (/\ events[e] = NoType
          /\ events'[e] # NoType
          /\ <<s, events'[e]>> \in manifests[f])
         => \E r \in RunIds : runs'[r].event = e /\ r[2] = f /\ r[3] = s]_vars

-----------------------------------------------------------------------------
(* Refinement: the holder of a run is the worker of its latest attempt     *)
(* while that attempt's lease is good.                                     *)

holder ==
    [r \in RunIds |->
       IF runs[r].attemptCount \in AttemptNumbers /\ ValidLease(r, runs[r].attemptCount)
       THEN Latest(r).worker
       ELSE NoWorker]

runStatus == [r \in RunIds |-> runs[r].status]

Lifecycle == INSTANCE RunLifecycle
    WITH Runs <- RunIds, status <- runStatus, holder <- holder

\* Every mutation, and the passing of time, is a step of the run lifecycle
\* or leaves it unchanged.
ImplementsLifecycle == Lifecycle!Spec
=============================================================================
