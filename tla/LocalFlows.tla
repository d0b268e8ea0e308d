------------------------------ MODULE LocalFlows ------------------------------
(***************************************************************************)
(* The local flow client (packages/flow-runtime/src/local-client.ts): it   *)
(* runs the steps of an event itself, one after the other, and keeps       *)
(* events and runs in memory or in a state file.  The file is read when a  *)
(* client is made and written whole after each dispatch or replay, so that *)
(* clients that share it do not see each other's records.                  *)
(***************************************************************************)
EXTENDS Integers, Sequences, FiniteSets, SequenceTheorems, FiniteSetTheorems, TLAPS

CONSTANTS
    LocalClients, \* clients on one data directory
    LocalCallers, \* calls of the clients in progress at a time
    LocalEvents,  \* events by id
    LocalSteps,   \* what discovery and matching answer: a sequence of steps
    StateKind,    \* "file", "memory" or "none": the state option
    MaxCalls,     \* bound on the calls
    MaxDeaths     \* bound on the deaths of a client's process

VARIABLES
    localState,  \* by client: whether it is open, its events and runs
    localFile,   \* the state file: "absent", "torn" or "open" to read, and a snapshot
    localCalls,  \* the calls, by caller
    calls,       \* calls so far; a replay's nonce is its number
    deaths,
    executed,    \* how often a step was executed for a dispatch of an event
    overlapped,  \* two dispatches of an event were in progress at a time
    stale        \* a client worked on what it had read before another wrote the file

localVars == <<localState, localFile, localCalls, calls, deaths, executed, overlapped, stale>>

\* A snapshot: the run ids of each stored event, and the runs.
Nothing == [is |-> "open", events |-> <<>>, runs |-> {}]
Closed == [Nothing EXCEPT !.is = "closed"]
Run(e, step, nonce) == <<e, step, nonce>>
NoLocalCall == [at |-> "idle", client |-> "none", e |-> "none", nonce |-> 0, runs |-> <<>>]

SnapshotOK(s) ==
    /\ s.is \in {"open", "closed", "absent", "torn"} /\ DOMAIN s.events \subseteq LocalEvents
    /\ \A e \in DOMAIN s.events : \A i \in DOMAIN s.events[e] : s.events[e][i] \in s.runs
LocalTypeOK ==
    /\ SnapshotOK(localFile) /\ \A k \in LocalClients : SnapshotOK(localState[k])
    /\ \A c \in LocalCallers :
         localCalls[c].at \in {"idle", "matching", "executing", "saving"}
    /\ calls \in 0..MaxCalls /\ deaths \in 0..MaxDeaths
    /\ overlapped \in BOOLEAN /\ stale \in BOOLEAN

LocalInit ==
    /\ localState = [k \in LocalClients |-> Closed] /\ localFile = [Nothing EXCEPT !.is = "absent"]
    /\ localCalls = [c \in LocalCallers |-> NoLocalCall]
    /\ calls = 0 /\ deaths = 0
    /\ executed = [p \in LocalEvents \X {LocalSteps[i] : i \in DOMAIN LocalSteps} |-> 0]
    /\ overlapped = FALSE /\ stale = FALSE

Opened(k) == localState[k].is = "open"
\* The client has not read what the file holds.
Stale(k) == StateKind = "file" /\ localFile.is # "absent" /\ localFile # localState[k]
Idle(c) == localCalls[c].at = "idle"
Replays(call) == call.nonce # 0

\* Mutant: the file is not read.
StartsEmpty == Nothing
\* readStateSnapshot: no file is no state, and a file that is not JSON throws.
Read == IF localFile.is = "absent" THEN Nothing ELSE localFile
OpenClient(k) ==
    /\ ~Opened(k)
    /\ StateKind = "file" => localFile.is # "torn"
    /\ localState' = [localState EXCEPT ![k] = IF StateKind = "file" THEN Read ELSE Nothing]
    /\ UNCHANGED <<localFile, localCalls, calls, deaths, executed, overlapped, stale>>

\* dispatchEvent: an event that this client has on record is a duplicate.
Known(k, e) == StateKind # "none" /\ e \in DOMAIN localState[k].events
LocalDispatch(c, k, e) ==
    /\ Idle(c) /\ Opened(k) /\ calls < MaxCalls /\ calls' = calls + 1
    /\ \/ Known(k, e) /\ UNCHANGED <<localCalls, overlapped, stale>>
       \/ /\ ~Known(k, e)
          /\ localCalls' = [localCalls EXCEPT ![c] = [NoLocalCall EXCEPT !.at = "matching", !.client = k, !.e = e]]
          /\ overlapped' = (overlapped \/ \E d \in LocalCallers \ {c} : localCalls[d].e = e /\ ~Replays(localCalls[d]))
          /\ stale' = (stale \/ Stale(k))
    /\ UNCHANGED <<localState, localFile, deaths, executed>>

\* replayEvent: of an event on record, with a nonce.
LocalReplay(c, k, e) ==
    /\ Idle(c) /\ Opened(k) /\ calls < MaxCalls /\ Known(k, e)
    /\ calls' = calls + 1
    /\ localCalls' = [localCalls EXCEPT ![c] =
                        [NoLocalCall EXCEPT !.at = "matching", !.client = k, !.e = e, !.nonce = calls + 1]]
    /\ UNCHANGED <<localState, localFile, deaths, executed, overlapped, stale>>

\* The flows are discovered and matched, or a broken manifest throws.
LocalMatch(c) ==
    /\ localCalls[c].at = "matching"
    /\ \/ localCalls' = [localCalls EXCEPT ![c] = NoLocalCall]
       \/ localCalls' = [localCalls EXCEPT ![c].at = IF LocalSteps = <<>> THEN "saving" ELSE "executing"]
    /\ UNCHANGED <<localState, localFile, calls, deaths, executed, overlapped, stale>>

\* #executeMatch: one step, to its end; a failure is a run as well.
ExecuteStep(c) ==
    /\ localCalls[c].at = "executing"
    /\ LET call == localCalls[c]
           step == LocalSteps[Len(call.runs) + 1] IN
       /\ localCalls' = [localCalls EXCEPT ![c] =
                           [@ EXCEPT !.runs = Append(call.runs, Run(call.e, step, call.nonce)),
                                     !.at = IF Len(call.runs) + 1 = Len(LocalSteps) THEN "saving" ELSE "executing"]]
       /\ executed' = IF Replays(call) THEN executed ELSE [executed EXCEPT ![<<call.e, step>>] = @ + 1]
    /\ UNCHANGED <<localState, localFile, calls, deaths, overlapped, stale>>

RunsIn(seq) == {seq[i] : i \in DOMAIN seq}
\* recordDispatch: the event's run ids are those of this dispatch.
Dispatched(s, call) ==
    [s EXCEPT !.events = [e \in DOMAIN @ \cup {call.e} |-> IF e = call.e THEN call.runs ELSE @[e]], !.runs = @ \cup RunsIn(call.runs)]
\* recordReplay: they are added to those it has.
Replayed(s, call) ==
    [s EXCEPT !.events[call.e] = @ \o call.runs, !.runs = @ \cup RunsIn(call.runs)]
\* Mutant: a replay is recorded as a dispatch is.
RecordedAlike(s, call) == Dispatched(s, call)
Recorded(s, call) == IF Replays(call) THEN Replayed(s, call) ELSE Dispatched(s, call)

\* The record is made and, for the file, the whole state is written at once.
LocalRecord(c) ==
    /\ localCalls[c].at = "saving"
    /\ LET call == localCalls[c]
           k == call.client
           next == Recorded(localState[k], call) IN
       /\ localState' = IF StateKind = "none" THEN localState ELSE [localState EXCEPT ![k] = next]
       /\ localFile' = IF StateKind = "file" THEN next ELSE localFile
       /\ stale' = (stale \/ Stale(k))
    /\ localCalls' = [localCalls EXCEPT ![c] = NoLocalCall]
    /\ UNCHANGED <<calls, deaths, executed, overlapped>>

\* A client's process dies, with its calls; while it writes the file it leaves
\* what was written so far.
ClientDies(k) ==
    /\ Opened(k) /\ deaths < MaxDeaths /\ deaths' = deaths + 1
    /\ localState' = [localState EXCEPT ![k] = Closed]
    /\ localCalls' = [c \in LocalCallers |->
                        IF localCalls[c].client = k THEN NoLocalCall ELSE localCalls[c]]
    /\ \/ UNCHANGED localFile
       \/ /\ StateKind = "file" /\ \E c \in LocalCallers : localCalls[c].client = k /\ localCalls[c].at = "saving"
          /\ localFile' = [Nothing EXCEPT !.is = "torn"]
    /\ UNCHANGED <<calls, executed, overlapped, stale>>

\* A process that has nothing to do ends.
ClientLeaves(k) ==
    /\ Opened(k) /\ \A c \in LocalCallers : localCalls[c].client # k
    /\ localState' = [localState EXCEPT ![k] = Closed]
    /\ UNCHANGED <<localFile, localCalls, calls, deaths, executed, overlapped, stale>>

LocalNext ==
    \/ \E k \in LocalClients :
         \/ OpenClient(k) \/ ClientDies(k) \/ ClientLeaves(k)
         \/ \E c \in LocalCallers, e \in LocalEvents : LocalDispatch(c, k, e) \/ LocalReplay(c, k, e)
    \/ \E c \in LocalCallers : LocalMatch(c) \/ ExecuteStep(c) \/ LocalRecord(c)

LocalSpec == LocalInit /\ [][LocalNext]_localVars

-----------------------------------------------------------------------------
(* Properties.                                                             *)

\* With a state file the steps of an event are executed once, in whatever
\* process it is dispatched, unless its dispatches overlap, a client that read
\* an older file writes it, or a process dies before it recorded the event.
SerialDispatchRunsOnce ==
    (StateKind = "file" /\ ~overlapped /\ ~stale /\ deaths = 0)
    => \A p \in DOMAIN executed : executed[p] <= 1

\* Every run of the file is named by its event, replays included, under the
\* same conditions.
RunsStayListed ==
    (StateKind = "file" /\ ~overlapped /\ ~stale)
    => \A run \in localFile.runs : \E i \in DOMAIN localFile.events[run[1]] : localFile.events[run[1]][i] = run

\* What the client's file keeps of the events it ran.
FileTellsTheRuns == SerialDispatchRunsOnce /\ RunsStayListed

\* Normal dispatch is idempotent by event id
\* (docs/pages/tutorials/dispatch-release-event.md:28): while one client lives,
\* two calls with one event do not execute its steps twice.
DispatchIsIdempotent == deaths = 0 => \A p \in DOMAIN executed : executed[p] <= 1
-----------------------------------------------------------------------------
(* The proof, for every set of clients, callers, events and steps.         *)

StepsTaken == {LocalSteps[i] : i \in DOMAIN LocalSteps}
LocalRun == LocalEvents \X StepsTaken \X Nat
Undisturbed == StateKind = "file" /\ ~overlapped /\ ~stale

\* Every run of a snapshot is among those of its event.
RunsListed(s) ==
    \A run \in s.runs : run[1] \in DOMAIN s.events /\ \E i \in DOMAIN s.events[run[1]] : s.events[run[1]][i] = run
SnapshotGood(s) ==
    /\ DOMAIN s = {"is", "events", "runs"} /\ RunsListed(s)
    /\ \A e \in DOMAIN s.events : s.events[e] \in Seq(LocalRun)
InProgress(c) == localCalls[c].at # "idle"
Dispatches(c) == InProgress(c) /\ localCalls[c].nonce = 0

\* A call in progress is one of an open client and has run the first of its steps.
CallGood(call) ==
    /\ DOMAIN call = {"at", "client", "e", "nonce", "runs"} /\ call.at \in {"matching", "executing", "saving"}
    /\ call.client \in LocalClients /\ localState[call.client].is = "open"
    /\ call.e \in LocalEvents /\ call.nonce \in Nat
    /\ call.runs \in Seq(LocalRun) /\ Len(call.runs) <= Len(LocalSteps)
    /\ \A i \in DOMAIN call.runs : call.runs[i][1] = call.e
    /\ call.at = "matching" => call.runs = <<>>
    /\ call.at = "executing" => Len(call.runs) < Len(LocalSteps)
\* An event that is dispatched is not on its client's record, one that is replayed is.
CallKnown(call) ==
    IF call.nonce = 0 THEN call.e \notin DOMAIN localState[call.client].events
    ELSE call.e \in DOMAIN localState[call.client].events

LocalShape ==
    /\ DOMAIN localState = LocalClients /\ DOMAIN localCalls = LocalCallers /\ calls \in Nat /\ deaths \in Nat
    /\ SnapshotGood(localFile) /\ localFile.is \in {"open", "absent", "torn"}
    /\ localFile.is # "open" => DOMAIN localFile.events = {}
    /\ \A k \in LocalClients : SnapshotGood(localState[k]) /\ localState[k].is \in {"open", "closed"}
    /\ \A c \in LocalCallers : InProgress(c) => CallGood(localCalls[c]) /\ CallKnown(localCalls[c])
    /\ \A c, d \in LocalCallers : Dispatches(c) /\ Dispatches(d) /\ localCalls[c].e = localCalls[d].e => c = d

\* What was executed of an event is on the file, or is what its dispatch has run so far.
StepsAreRecorded ==
    /\ DOMAIN executed = LocalEvents \X StepsTaken
    /\ \A k \in LocalClients : DOMAIN localState[k].events \subseteq DOMAIN localFile.events
    /\ \A c \in LocalCallers : Dispatches(c) => localCalls[c].e \notin DOMAIN localFile.events
    /\ \A e \in LocalEvents, s \in StepsTaken :
         /\ executed[<<e, s>>] \in {0, 1}
         /\ \/ executed[<<e, s>>] = 0 \/ e \in DOMAIN localFile.events
            \/ \E c \in LocalCallers : Dispatches(c) /\ localCalls[c].e = e
                 /\ \E i \in 1..Len(localCalls[c].runs) : LocalSteps[i] = s

LocalInv ==
    /\ overlapped \in BOOLEAN /\ stale \in BOOLEAN
    /\ Undisturbed => LocalShape /\ (deaths = 0 => StepsAreRecorded)

LEMMA LocalStarts == LocalInit => LocalInv
<1> SUFFICES ASSUME LocalInit PROVE LocalInv
  OBVIOUS
<1>1. ASSUME NEW s, DOMAIN s = {"is", "events", "runs"}, s.events = <<>>, s.runs = {}
      PROVE  SnapshotGood(s) /\ DOMAIN s.events = {}
  BY <1>1 DEF SnapshotGood, RunsListed
<1>2. \A s : s \in {Closed, localFile} => DOMAIN s = {"is", "events", "runs"} /\ s.events = <<>> /\ s.runs = {}
  BY DEF LocalInit, Closed, Nothing
<1>9. Closed.is = "closed" /\ localFile.is = "absent"
  BY DEF LocalInit, Closed, Nothing
<1>3. /\ localState = [k \in LocalClients |-> Closed] /\ calls = 0 /\ deaths = 0
      /\ executed = [p \in LocalEvents \X StepsTaken |-> 0] /\ overlapped = FALSE /\ stale = FALSE
      /\ DOMAIN localCalls = LocalCallers /\ \A c \in LocalCallers : localCalls[c].at = "idle"
  BY DEF LocalInit, NoLocalCall, StepsTaken
<1>5. \A k \in LocalClients : SnapshotGood(localState[k]) /\ localState[k].is = "closed" /\ DOMAIN localState[k].events = {}
  BY <1>1, <1>2, <1>3, <1>9
<1>6. SnapshotGood(localFile) /\ localFile.is = "absent" /\ DOMAIN localFile.events = {}
  BY <1>1, <1>2, <1>9
<1>7. LocalShape
  BY <1>3, <1>5, <1>6 DEF LocalShape, InProgress, Dispatches
<1>8. StepsAreRecorded
  BY <1>3, <1>5 DEF StepsAreRecorded, InProgress, Dispatches
<1> QED
  BY <1>3, <1>7, <1>8 DEF LocalInv

\* What a client reads when it is opened.
LEMMA ReadGood ==
    ASSUME LocalShape PROVE SnapshotGood(Read) /\ DOMAIN Read.events = DOMAIN localFile.events
                            /\ (localFile.is # "torn" => Read.is = "open")
<1>1. CASE localFile.is = "absent"
  <2>1. Read = [is |-> "open", events |-> <<>>, runs |-> {}]
    BY <1>1 DEF Read, Nothing
  <2> QED
    BY <1>1, <2>1 DEF LocalShape, SnapshotGood, RunsListed
<1>2. CASE localFile.is # "absent"
  BY <1>2 DEF Read, LocalShape
<1> QED
  BY <1>1, <1>2

\* The first record of an event names the runs of its dispatch.
LEMMA DispatchedGood ==
    ASSUME NEW s, SnapshotGood(s), NEW call, call.e \in LocalEvents, call.e \notin DOMAIN s.events,
           call.runs \in Seq(LocalRun), \A i \in DOMAIN call.runs : call.runs[i][1] = call.e,
           NEW t, t = Dispatched(s, call)
    PROVE  SnapshotGood(t) /\ t.is = s.is /\ DOMAIN t.events = DOMAIN s.events \cup {call.e}
<1> DEFINE events_ == [e \in DOMAIN s.events \cup {call.e} |-> IF e = call.e THEN call.runs ELSE s.events[e]]
           runs_ == s.runs \cup {call.runs[i] : i \in DOMAIN call.runs}
<1>1. t = [s EXCEPT !.events = events_, !.runs = runs_]
  BY DEF Dispatched, RunsIn
<1>2. /\ DOMAIN events_ = DOMAIN s.events \cup {call.e} /\ events_[call.e] = call.runs
      /\ \A e \in DOMAIN s.events : events_[e] = s.events[e]
  OBVIOUS
<1>3. \A run \in runs_ : run \in s.runs \/ \E i \in DOMAIN call.runs : run = call.runs[i]
  OBVIOUS
<1> HIDE DEF events_, runs_
<1>4. DOMAIN t = {"is", "events", "runs"} /\ t.is = s.is /\ t.events = events_ /\ t.runs = runs_
  BY <1>1 DEF SnapshotGood
<1>5. RunsListed(t)
  BY <1>2, <1>3, <1>4 DEF SnapshotGood, RunsListed
<1>6. \A e \in DOMAIN t.events : t.events[e] \in Seq(LocalRun)
  BY <1>2, <1>4 DEF SnapshotGood
<1> QED
  BY <1>2, <1>4, <1>5, <1>6 DEF SnapshotGood

LEMMA JoinedRuns ==
    ASSUME NEW S, NEW a \in Seq(S), NEW b \in Seq(S)
    PROVE  /\ a \o b \in Seq(S) /\ DOMAIN (a \o b) = 1..(Len(a) + Len(b))
           /\ \A i \in DOMAIN a : i \in DOMAIN (a \o b) /\ (a \o b)[i] = a[i]
           /\ \A i \in DOMAIN b : i + Len(a) \in DOMAIN (a \o b) /\ (a \o b)[i + Len(a)] = b[i]
OBVIOUS

\* A replay's record adds its runs behind those of its event.
LEMMA ReplayedGood ==
    ASSUME NEW s, SnapshotGood(s), NEW call, call.e \in DOMAIN s.events,
           call.runs \in Seq(LocalRun), \A i \in DOMAIN call.runs : call.runs[i][1] = call.e,
           NEW t, t = Replayed(s, call)
    PROVE  SnapshotGood(t) /\ t.is = s.is /\ DOMAIN t.events = DOMAIN s.events
<1> DEFINE had_ == s.events[call.e]
           both_ == had_ \o call.runs
           events_ == [s.events EXCEPT ![call.e] = both_]
           runs_ == s.runs \cup {call.runs[i] : i \in DOMAIN call.runs}
<1>1. t = [s EXCEPT !.events = events_, !.runs = runs_]
  BY DEF Replayed, RunsIn
<1>2. had_ \in Seq(LocalRun)
  BY DEF SnapshotGood
<1> HIDE DEF had_
<1>3. /\ both_ \in Seq(LocalRun) /\ DOMAIN both_ = 1..(Len(had_) + Len(call.runs))
      /\ \A i \in DOMAIN had_ : i \in DOMAIN both_ /\ both_[i] = had_[i]
      /\ \A i \in DOMAIN call.runs : /\ i + Len(had_) \in DOMAIN both_
                                     /\ both_[i + Len(had_)] = call.runs[i]
  BY <1>2, JoinedRuns
<1> HIDE DEF both_
<1> USE DEF had_
<1>4. /\ DOMAIN events_ = DOMAIN s.events /\ events_[call.e] = both_
      /\ \A e \in DOMAIN s.events : e # call.e => events_[e] = s.events[e]
  OBVIOUS
<1>5. \A run \in runs_ : run \in s.runs \/ \E i \in DOMAIN call.runs : run = call.runs[i]
  OBVIOUS
<1> HIDE DEF events_, runs_
<1>6. DOMAIN t = {"is", "events", "runs"} /\ t.is = s.is /\ t.events = events_ /\ t.runs = runs_
  BY <1>1 DEF SnapshotGood
<1>7. RunsListed(t)
  <2> SUFFICES ASSUME NEW run \in runs_
               PROVE  run[1] \in DOMAIN events_ /\ \E i \in DOMAIN events_[run[1]] : events_[run[1]][i] = run
    BY <1>6 DEF RunsListed
  <2>1. CASE \E i \in DOMAIN call.runs : run = call.runs[i]
    <3>1. PICK i \in DOMAIN call.runs : run = call.runs[i]
      BY <2>1
    <3>2. run[1] = call.e /\ i + Len(s.events[call.e]) \in DOMAIN both_ /\ both_[i + Len(s.events[call.e])] = run
      BY <1>3, <3>1
    <3> QED
      BY <1>4, <3>2
  <2>2. CASE run \in s.runs
    <3>1. run[1] \in DOMAIN s.events /\ \E i \in DOMAIN s.events[run[1]] : s.events[run[1]][i] = run
      BY <2>2 DEF SnapshotGood, RunsListed
    <3>2. CASE run[1] = call.e
      BY <1>3, <1>4, <3>1, <3>2
    <3>3. CASE run[1] # call.e
      BY <1>4, <3>1, <3>3
    <3> QED
      BY <3>2, <3>3
  <2> QED
    BY <1>5, <2>1, <2>2
<1>8. \A e \in DOMAIN t.events : t.events[e] \in Seq(LocalRun)
  BY <1>3, <1>4, <1>6 DEF SnapshotGood
<1> QED
  BY <1>4, <1>6, <1>7, <1>8 DEF SnapshotGood

\* A call that changes while no client and no file does.
LEMMA LocalCallChanges ==
    ASSUME LocalShape, NEW c \in LocalCallers, NEW call, localCalls' = [localCalls EXCEPT ![c] = call],
           UNCHANGED <<localState, localFile, deaths>>, calls' \in Nat,
           call.at # "idle" => CallGood(call) /\ CallKnown(call),
           call.at # "idle" /\ call.nonce = 0
             => \A d \in LocalCallers : d # c /\ Dispatches(d) => localCalls[d].e # call.e
    PROVE  LocalShape'
<1>1. /\ DOMAIN localCalls' = LocalCallers /\ localCalls'[c] = call
      /\ \A d \in LocalCallers : d # c => localCalls'[d] = localCalls[d]
  BY DEF LocalShape
<1>2. \A d \in LocalCallers : d # c => (InProgress(d)' <=> InProgress(d)) /\ (Dispatches(d)' <=> Dispatches(d))
  BY <1>1 DEF InProgress, Dispatches
<1>3. /\ InProgress(c)' <=> call.at # "idle"
      /\ Dispatches(c)' <=> call.at # "idle" /\ call.nonce = 0
  BY <1>1 DEF InProgress, Dispatches
<1>4. ASSUME NEW d \in LocalCallers, InProgress(d)'
      PROVE  CallGood(localCalls[d])' /\ CallKnown(localCalls[d])'
  <2>1. CallGood(localCalls'[d]) /\ CallKnown(localCalls'[d])
    BY <1>1, <1>2, <1>3, <1>4 DEF LocalShape
  <2> QED
    BY <2>1 DEF CallGood, CallKnown
<1>5. ASSUME NEW d \in LocalCallers, NEW f \in LocalCallers, Dispatches(d)', Dispatches(f)', localCalls'[d].e = localCalls'[f].e
      PROVE  d = f
  <2>1. CASE d # c /\ f # c
    BY <1>1, <1>2, <1>5, <2>1 DEF LocalShape
  <2>2. CASE d = c /\ f # c
    BY <1>1, <1>2, <1>3, <1>5, <2>2
  <2>3. CASE d # c /\ f = c
    BY <1>1, <1>2, <1>3, <1>5, <2>3
  <2> QED
    BY <2>1, <2>2, <2>3
<1> QED
  BY <1>1, <1>4, <1>5 DEF LocalShape

\* What is recorded, when a call that has run nothing of a dispatch begins or is over.
LEMMA CallKeepsRecords ==
    ASSUME StepsAreRecorded, LocalShape, NEW c \in LocalCallers, NEW call, localCalls' = [localCalls EXCEPT ![c] = call],
           UNCHANGED <<localState, localFile, executed>>,
           Dispatches(c) => localCalls[c].runs = <<>>,
           call.at # "idle" /\ call.nonce = 0 => call.e \notin DOMAIN localFile.events
    PROVE  StepsAreRecorded'
<1>1. localCalls'[c] = call /\ \A d \in LocalCallers : d # c => localCalls'[d] = localCalls[d]
  BY DEF LocalShape
<1>2. \A d \in LocalCallers : d # c => (Dispatches(d)' <=> Dispatches(d))
  BY <1>1 DEF InProgress, Dispatches
<1>3. \A d \in LocalCallers : Dispatches(d)' => localCalls'[d].e \notin DOMAIN localFile.events
  BY <1>1, <1>2 DEF InProgress, Dispatches, StepsAreRecorded
<1>4. ASSUME NEW e \in LocalEvents, NEW s \in StepsTaken
      PROVE  \/ executed[<<e, s>>] = 0 \/ e \in DOMAIN localFile.events
             \/ \E d \in LocalCallers : Dispatches(d)' /\ localCalls'[d].e = e
                  /\ \E i \in 1..Len(localCalls'[d].runs) : LocalSteps[i] = s
  <2> SUFFICES ASSUME NEW d \in LocalCallers, Dispatches(d), localCalls[d].e = e,
                      NEW i \in 1..Len(localCalls[d].runs), LocalSteps[i] = s
               PROVE  \E f \in LocalCallers : Dispatches(f)' /\ localCalls'[f].e = e
                        /\ \E j \in 1..Len(localCalls'[f].runs) : LocalSteps[j] = s
    BY DEF StepsAreRecorded
  <2>1. d # c
    <3>1. Len(<<>>) = 0
      OBVIOUS
    <3> QED
      BY <3>1
  <2> QED
    BY <1>1, <1>2, <2>1
<1> QED
  BY <1>3, <1>4 DEF StepsAreRecorded

LEMMA DispatchBegins ==
    ASSUME LocalShape, Undisturbed', NEW c \in LocalCallers, NEW k \in LocalClients, NEW e \in LocalEvents,
           LocalDispatch(c, k, e)
    PROVE  LocalShape' /\ (StepsAreRecorded => StepsAreRecorded')
<1>1. calls' \in Nat /\ UNCHANGED <<localState, localFile, deaths, executed>> /\ localCalls[c].at = "idle"
      /\ localState[k].is = "open" /\ StateKind = "file"
  BY DEF LocalShape, LocalDispatch, Idle, Opened, Undisturbed
<1>2. CASE Known(k, e)
  <2>1. UNCHANGED localCalls
    BY <1>2 DEF LocalDispatch
  <2>2. \A d \in LocalCallers : (InProgress(d)' <=> InProgress(d)) /\ (Dispatches(d)' <=> Dispatches(d))
    BY <2>1 DEF InProgress, Dispatches
  <2>3. \A d \in LocalCallers : /\ CallGood(localCalls[d])' <=> CallGood(localCalls[d])
                                /\ CallKnown(localCalls[d])' <=> CallKnown(localCalls[d])
    BY <1>1, <2>1 DEF CallGood, CallKnown
  <2>4. LocalShape'
    BY <1>1, <2>1, <2>2, <2>3 DEF LocalShape
  <2>5. StepsAreRecorded' <=> StepsAreRecorded
    BY <1>1, <2>1, <2>2 DEF StepsAreRecorded
  <2> QED
    BY <2>4, <2>5
<1>3. CASE ~Known(k, e)
  <2> DEFINE call == [at |-> "matching", client |-> k, e |-> e, nonce |-> 0, runs |-> <<>>]
  <2>1. localCalls' = [localCalls EXCEPT ![c] = call]
    BY <1>3 DEF LocalDispatch, NoLocalCall
  <2>2. /\ DOMAIN call = {"at", "client", "e", "nonce", "runs"} /\ call.at = "matching" /\ call.client = k
        /\ call.e = e /\ call.nonce = 0 /\ call.runs = <<>>
    OBVIOUS
  <2> HIDE DEF call
  <2>3. e \notin DOMAIN localState[k].events /\ (localFile.is = "absent" \/ localFile = localState[k])
    BY <1>1, <1>3 DEF Known, LocalDispatch, Stale, Undisturbed
  <2>4. \A d \in LocalCallers : d # c /\ Dispatches(d) => localCalls[d].e # e
    <3> SUFFICES ASSUME NEW d \in LocalCallers, d # c, Dispatches(d) PROVE localCalls[d].e # e
      OBVIOUS
    <3>1. ~Replays(localCalls[d])
      BY DEF Dispatches, Replays
    <3> QED
      BY <1>3, <3>1 DEF Undisturbed, LocalDispatch
  <2>5. CallGood(call) /\ CallKnown(call)
    <3>1. <<>> \in Seq(LocalRun) /\ Len(<<>>) = 0 /\ DOMAIN <<>> = {} /\ Len(LocalSteps) \in Nat
      OBVIOUS
    <3> QED
      BY <1>1, <2>2, <2>3, <3>1 DEF CallGood, CallKnown
  <2>6. LocalShape'
    BY <1>1, <2>1, <2>2, <2>4, <2>5, LocalCallChanges
  <2>7. e \notin DOMAIN localFile.events
    BY <2>3 DEF LocalShape
  <2>8. StepsAreRecorded => StepsAreRecorded'
    BY <1>1, <2>1, <2>2, <2>7, CallKeepsRecords DEF Dispatches, InProgress
  <2> QED
    BY <2>6, <2>8
<1> QED
  BY <1>2, <1>3

LEMMA ReplayBegins ==
    ASSUME LocalShape, Undisturbed', NEW c \in LocalCallers, NEW k \in LocalClients, NEW e \in LocalEvents,
           LocalReplay(c, k, e)
    PROVE  LocalShape' /\ (StepsAreRecorded => StepsAreRecorded')
<1>1. calls + 1 \in Nat /\ calls + 1 # 0 /\ calls' = calls + 1
  BY DEF LocalShape, LocalReplay
<1>2. UNCHANGED <<localState, localFile, deaths, executed>> /\ localCalls[c].at = "idle" /\ localState[k].is = "open"
      /\ e \in DOMAIN localState[k].events
  BY DEF LocalReplay, Idle, Opened, Known
<1> DEFINE nonce_ == calls + 1
           call == [NoLocalCall EXCEPT !.at = "matching", !.client = k, !.e = e, !.nonce = nonce_]
<1>10. localCalls' = [localCalls EXCEPT ![c] = call]
  BY DEF LocalReplay
<1>4. nonce_ \in Nat /\ nonce_ # 0 /\ calls' \in Nat
  BY <1>1
<1> HIDE DEF nonce_
<1>5. /\ DOMAIN call = {"at", "client", "e", "nonce", "runs"} /\ call.at = "matching" /\ call.client = k
      /\ call.e = e /\ call.nonce = nonce_ /\ call.runs = <<>>
  BY DEF NoLocalCall
<1> HIDE DEF call
<1>6. CallGood(call) /\ CallKnown(call)
  <2>1. <<>> \in Seq(LocalRun) /\ Len(<<>>) = 0 /\ DOMAIN <<>> = {} /\ Len(LocalSteps) \in Nat
    OBVIOUS
  <2> QED
    BY <1>2, <1>4, <1>5, <2>1 DEF CallGood, CallKnown
<1>7. LocalShape'
  BY <1>2, <1>4, <1>5, <1>6, <1>10, LocalCallChanges
<1>8. StepsAreRecorded => StepsAreRecorded'
  BY <1>2, <1>4, <1>5, <1>10, CallKeepsRecords DEF Dispatches, InProgress
<1> QED
  BY <1>7, <1>8

LEMMA CallIsMatched ==
    ASSUME LocalSteps \in Seq(StepsTaken), LocalShape, Undisturbed', NEW c \in LocalCallers, LocalMatch(c)
    PROVE  LocalShape' /\ (StepsAreRecorded => StepsAreRecorded')
<1>1. UNCHANGED <<localState, localFile, calls, deaths, executed>> /\ localCalls[c].at = "matching"
  BY DEF LocalMatch
<1>2. CallGood(localCalls[c]) /\ CallKnown(localCalls[c]) /\ calls' \in Nat
  BY <1>1 DEF LocalShape, InProgress
<1>3. localCalls[c].runs = <<>>
  BY <1>1, <1>2 DEF CallGood
<1>4. CASE localCalls' = [localCalls EXCEPT ![c] = NoLocalCall]
  <2>1. NoLocalCall.at = "idle"
    BY DEF NoLocalCall
  <2> HIDE DEF NoLocalCall
  <2> QED
    BY <1>1, <1>2, <1>3, <1>4, <2>1, LocalCallChanges, CallKeepsRecords
<1>5. CASE localCalls' = [localCalls EXCEPT ![c].at = IF LocalSteps = <<>> THEN "saving" ELSE "executing"]
  <2> DEFINE at_ == IF LocalSteps = <<>> THEN "saving" ELSE "executing"
             call == [localCalls[c] EXCEPT !.at = at_]
  <2>1. localCalls' = [localCalls EXCEPT ![c] = call]
    BY <1>5
  <2>2. at_ \in {"saving", "executing"} /\ (at_ = "executing" => LocalSteps # <<>>)
    OBVIOUS
  <2> HIDE DEF at_
  <2>3. /\ DOMAIN call = {"at", "client", "e", "nonce", "runs"} /\ call.at = at_ /\ call.client = localCalls[c].client
        /\ call.e = localCalls[c].e /\ call.nonce = localCalls[c].nonce /\ call.runs = <<>>
    BY <1>2, <1>3 DEF CallGood
  <2> HIDE DEF call
  <2>4. LocalSteps # <<>> => Len(LocalSteps) > 0
    OBVIOUS
  <2>5. Len(<<>>) = 0
    OBVIOUS
  <2>6. CallGood(call) /\ CallKnown(call)
    BY <1>2, <1>3, <2>2, <2>3, <2>4, <2>5 DEF CallGood, CallKnown
  <2>7. call.at # "idle" /\ call.nonce = 0 => Dispatches(c)
    BY <1>1, <2>3 DEF Dispatches, InProgress
  <2>8. LocalShape'
    <3>1. call.nonce = 0 => \A d \in LocalCallers : d # c /\ Dispatches(d) => localCalls[d].e # call.e
      BY <2>3, <2>2, <2>7 DEF LocalShape
    <3> QED
      BY <1>1, <1>2, <2>1, <2>6, <3>1, LocalCallChanges
  <2>9. ASSUME StepsAreRecorded PROVE StepsAreRecorded'
    <3>1. call.at # "idle" /\ call.nonce = 0 => call.e \notin DOMAIN localFile.events
      BY <2>3, <2>7, <2>9 DEF StepsAreRecorded
    <3> QED
      BY <1>1, <1>3, <2>1, <2>9, <3>1, CallKeepsRecords
  <2> QED
    BY <2>8, <2>9
<1> QED
  BY <1>4, <1>5 DEF LocalMatch

LEMMA StepIsExecuted ==
    ASSUME LocalSteps \in Seq(StepsTaken), \A i, j \in DOMAIN LocalSteps : LocalSteps[i] = LocalSteps[j] => i = j,
           LocalShape, Undisturbed', NEW c \in LocalCallers, ExecuteStep(c)
    PROVE  LocalShape' /\ (StepsAreRecorded => StepsAreRecorded')
<1> DEFINE old == localCalls[c]
           done_ == Len(old.runs)
           step == LocalSteps[done_ + 1]
           run == Run(old.e, step, old.nonce)
           at_ == IF done_ + 1 = Len(LocalSteps) THEN "saving" ELSE "executing"
           runs_ == Append(old.runs, run)
           call == [old EXCEPT !.runs = Append(@, Run(old.e, step, old.nonce)), !.at = at_]
<1>1. UNCHANGED <<localState, localFile, calls, deaths>> /\ old.at = "executing"
  BY DEF ExecuteStep
<1>2. CallGood(old) /\ CallKnown(old) /\ calls' \in Nat
  BY <1>1 DEF LocalShape, InProgress
<1>3. localCalls' = [localCalls EXCEPT ![c] = call]
  BY DEF ExecuteStep
<1>4. executed' = IF old.nonce # 0 THEN executed ELSE [executed EXCEPT ![<<old.e, step>>] = @ + 1]
  BY DEF ExecuteStep, Replays
<1>5. done_ \in Nat /\ done_ < Len(LocalSteps) /\ done_ + 1 \in DOMAIN LocalSteps /\ step \in StepsTaken
  BY <1>1, <1>2 DEF CallGood, StepsTaken
<1>6. run \in LocalRun /\ run[1] = old.e
  BY <1>2, <1>5 DEF CallGood, LocalRun, Run
<1>7. /\ runs_ \in Seq(LocalRun) /\ Len(runs_) = done_ + 1 /\ DOMAIN runs_ = 1..(done_ + 1)
      /\ \A i \in DOMAIN runs_ : runs_[i][1] = old.e
  <2>1. old.runs \in Seq(LocalRun) /\ \A i \in DOMAIN old.runs : old.runs[i][1] = old.e
    BY <1>2 DEF CallGood
  <2> HIDE DEF run, old
  <2> QED
    BY <1>6, <2>1
<1>8. at_ \in {"saving", "executing"} /\ (at_ = "executing" => done_ + 1 # Len(LocalSteps))
  OBVIOUS
<1>9. /\ DOMAIN call = {"at", "client", "e", "nonce", "runs"} /\ call.at = at_ /\ call.client = old.client
      /\ call.e = old.e /\ call.nonce = old.nonce /\ call.runs = runs_
  BY <1>2 DEF CallGood
<1> HIDE DEF call, step, at_, runs_, run
<1>10. CallGood(call) /\ CallKnown(call)
  <2>1. Len(runs_) <= Len(LocalSteps) /\ (at_ = "executing" => Len(runs_) < Len(LocalSteps))
    BY <1>5, <1>7, <1>8
  <2> HIDE DEF done_
  <2> QED
    BY <1>2, <1>7, <1>8, <1>9, <2>1 DEF CallGood, CallKnown
<1>11. call.nonce = 0 => Dispatches(c)
  BY <1>1, <1>9 DEF Dispatches, InProgress
<1>12. LocalShape'
  <2>1. call.nonce = 0 => \A d \in LocalCallers : d # c /\ Dispatches(d) => localCalls[d].e # call.e
    BY <1>9, <1>11 DEF LocalShape
  <2> QED
    BY <1>1, <1>2, <1>3, <1>10, <2>1, LocalCallChanges
<1>13. /\ localCalls'[c] = call
       /\ \A d \in LocalCallers : d # c => localCalls'[d] = localCalls[d]
  BY <1>3 DEF LocalShape
<1>14. ASSUME NEW d \in LocalCallers
       PROVE  (Dispatches(d)' <=> Dispatches(d)) /\ localCalls'[d].e = localCalls[d].e
  BY <1>1, <1>8, <1>9, <1>13 DEF Dispatches, InProgress
<1>15. \A d \in LocalCallers, i \in Nat : i \in 1..Len(localCalls[d].runs) => i \in 1..Len(localCalls'[d].runs)
  <2> SUFFICES ASSUME NEW d \in LocalCallers, NEW i \in Nat, i \in 1..Len(localCalls[d].runs)
               PROVE  i \in 1..Len(localCalls'[d].runs)
    OBVIOUS
  <2>1. CASE d = c
    <3>1. localCalls'[d].runs = runs_
      BY <1>9, <1>13, <2>1
    <3>2. Len(localCalls[d].runs) = done_ /\ i <= done_
      BY <1>5, <2>1
    <3> QED
      BY <1>5, <1>7, <3>1, <3>2
  <2>2. CASE d # c
    BY <1>13, <2>2
  <2> QED
    BY <2>1, <2>2
<1>16. ASSUME StepsAreRecorded PROVE StepsAreRecorded'
  <2>1. \A d \in LocalCallers : Dispatches(d)' => localCalls'[d].e \notin DOMAIN localFile.events
    BY <1>14, <1>16 DEF StepsAreRecorded
  <2>2. ASSUME NEW e \in LocalEvents, NEW s \in StepsTaken, executed[<<e, s>>] # 0, e \notin DOMAIN localFile.events
        PROVE  \E d \in LocalCallers : Dispatches(d) /\ localCalls[d].e = e
                 /\ \E i \in 1..Len(localCalls[d].runs) : LocalSteps[i] = s
    BY <1>16, <2>2 DEF StepsAreRecorded
  <2>3. ASSUME NEW e \in LocalEvents, NEW s \in StepsTaken, executed[<<e, s>>] # 0, e \notin DOMAIN localFile.events
        PROVE  \E d \in LocalCallers : Dispatches(d)' /\ localCalls'[d].e = e
                 /\ \E i \in 1..Len(localCalls'[d].runs) : LocalSteps[i] = s
    <3>1. PICK d \in LocalCallers : Dispatches(d) /\ localCalls[d].e = e
                 /\ \E i \in 1..Len(localCalls[d].runs) : LocalSteps[i] = s
      BY <2>2, <2>3
    <3>2. PICK i \in 1..Len(localCalls[d].runs) : LocalSteps[i] = s
      BY <3>1
    <3> QED
      BY <1>14, <1>15, <3>1, <3>2
  <2>4. CASE old.nonce # 0
    BY <1>1, <1>4, <1>16, <2>1, <2>3, <2>4 DEF StepsAreRecorded
  <2>5. CASE old.nonce = 0
    <3>1. Dispatches(c) /\ old.e \in LocalEvents
      BY <1>1, <1>2, <2>5 DEF Dispatches, InProgress, CallGood
    <3>2. <<old.e, step>> \in DOMAIN executed /\ old.e \notin DOMAIN localFile.events
      BY <1>5, <1>16, <3>1 DEF StepsAreRecorded
    <3>3. executed[<<old.e, step>>] = 0
      <4> SUFFICES ASSUME executed[<<old.e, step>>] # 0 PROVE FALSE
        OBVIOUS
      <4>1. PICK d \in LocalCallers : Dispatches(d) /\ localCalls[d].e = old.e
                 /\ \E i \in 1..Len(localCalls[d].runs) : LocalSteps[i] = step
        BY <1>5, <2>2, <3>1, <3>2
      <4>2. d = c
        BY <3>1, <4>1 DEF LocalShape
      <4>3. PICK i \in 1..done_ : LocalSteps[i] = step
        BY <4>1, <4>2
      <4>4. i \in DOMAIN LocalSteps /\ i # done_ + 1
        BY <1>5
      <4> QED
        BY <1>5, <4>3, <4>4 DEF step
    <3>4. executed' = [executed EXCEPT ![<<old.e, step>>] = 1]
      BY <1>4, <2>5, <3>3
    <3>5. DOMAIN executed' = LocalEvents \X StepsTaken
      BY <1>16, <3>4 DEF StepsAreRecorded
    <3>6. \A e \in LocalEvents, s \in StepsTaken :
            executed'[<<e, s>>] = IF e = old.e /\ s = step THEN 1 ELSE executed[<<e, s>>]
      BY <1>16, <3>4 DEF StepsAreRecorded
    <3>7. ASSUME NEW e \in LocalEvents, NEW s \in StepsTaken
          PROVE  executed'[<<e, s>>] \in {0, 1}
      BY <1>16, <3>6 DEF StepsAreRecorded
    <3>8. ASSUME NEW e \in LocalEvents, NEW s \in StepsTaken
          PROVE  \/ executed'[<<e, s>>] = 0 \/ e \in DOMAIN localFile.events
                 \/ \E d \in LocalCallers : Dispatches(d)' /\ localCalls'[d].e = e
                      /\ \E i \in 1..Len(localCalls'[d].runs) : LocalSteps[i] = s
      <4>1. CASE e = old.e /\ s = step
        <5>1. done_ + 1 \in 1..Len(localCalls'[c].runs) /\ LocalSteps[done_ + 1] = s
          BY <1>5, <1>7, <1>9, <1>13, <4>1 DEF step
        <5> QED
          BY <1>14, <3>1, <4>1, <5>1
      <4>2. CASE ~(e = old.e /\ s = step)
        BY <2>3, <3>6, <4>2
      <4> QED
        BY <4>1, <4>2
    <3> QED
      BY <1>1, <1>16, <2>1, <3>5, <3>7, <3>8 DEF StepsAreRecorded
  <2> QED
    BY <2>4, <2>5
<1> QED
  BY <1>12, <1>16

LEMMA RecordKeeps ==
    ASSUME LocalShape, Undisturbed', NEW c \in LocalCallers, LocalRecord(c)
    PROVE  LocalShape' /\ (StepsAreRecorded => StepsAreRecorded')
<1> DEFINE call == localCalls[c]
           k == call.client
           next == Recorded(localState[k], call)
<1>1. /\ call.at = "saving" /\ localState' = [localState EXCEPT ![k] = next] /\ localFile' = next
      /\ localCalls' = [localCalls EXCEPT ![c] = NoLocalCall] /\ UNCHANGED <<calls, deaths, executed>>
      /\ localFile.is = "absent" \/ localFile = localState[k]
  BY DEF LocalRecord, Stale, Undisturbed
<1>2. CallGood(call) /\ CallKnown(call) /\ SnapshotGood(localState[k]) /\ k \in LocalClients /\ localState[k].is = "open"
  BY <1>1 DEF LocalShape, InProgress, CallGood
<1>3. SnapshotGood(next) /\ next.is = "open" /\ DOMAIN next.events = DOMAIN localState[k].events \cup {call.e}
  <2>1. call.e \in LocalEvents /\ call.runs \in Seq(LocalRun) /\ \A i \in DOMAIN call.runs : call.runs[i][1] = call.e
    BY <1>2 DEF CallGood
  <2>2. CASE call.nonce = 0
    <3>1. next = Dispatched(localState[k], call) /\ call.e \notin DOMAIN localState[k].events
      BY <1>2, <2>2 DEF Recorded, Replays, CallKnown
    <3> HIDE DEF next
    <3> QED
      BY <1>2, <2>1, <3>1, DispatchedGood
  <2>3. CASE call.nonce # 0
    <3>1. next = Replayed(localState[k], call) /\ call.e \in DOMAIN localState[k].events
      BY <1>2, <2>3 DEF Recorded, Replays, CallKnown
    <3> HIDE DEF next
    <3> QED
      BY <1>2, <2>1, <3>1, ReplayedGood
  <2> QED
    BY <2>2, <2>3
<1> HIDE DEF next
<1>4. /\ DOMAIN localState' = LocalClients /\ localState'[k] = next
      /\ \A j \in LocalClients : j # k => localState'[j] = localState[j]
  BY <1>1, <1>2 DEF LocalShape
<1>5. /\ DOMAIN localCalls' = LocalCallers /\ localCalls'[c].at = "idle"
      /\ \A d \in LocalCallers : d # c => localCalls'[d] = localCalls[d]
  BY <1>1 DEF LocalShape, NoLocalCall
<1>6. ASSUME NEW d \in LocalCallers, InProgress(d)'
      PROVE  d # c /\ InProgress(d) /\ localCalls'[d] = localCalls[d] /\ (Dispatches(d)' <=> Dispatches(d))
  BY <1>5, <1>6 DEF InProgress, Dispatches
<1>7. ASSUME NEW d \in LocalCallers, d # c, Dispatches(d), call.nonce = 0 PROVE localCalls[d].e # call.e
  BY <1>1, <1>7 DEF LocalShape, Dispatches, InProgress
<1>8. \A j \in LocalClients : /\ localState[j].is = "open" => localState'[j].is = "open"
                              /\ DOMAIN localState[j].events \subseteq DOMAIN localState'[j].events
  BY <1>3, <1>4
<1>9. ASSUME NEW d \in LocalCallers, InProgress(d)'
      PROVE  CallGood(localCalls[d])' /\ CallKnown(localCalls[d])'
  <2> DEFINE other == localCalls[d]
  <2>1. CallGood(other) /\ CallKnown(other) /\ localCalls'[d] = other /\ d # c /\ InProgress(d)
    BY <1>6, <1>9 DEF LocalShape
  <2>2. other.nonce = 0 /\ call.nonce = 0 => other.e # call.e
    BY <1>7, <2>1 DEF Dispatches
  <2>3. other.client \in LocalClients
    BY <2>1 DEF CallGood
  <2> HIDE DEF other
  <2>4. CallGood(localCalls[d])'
    BY <1>8, <2>1 DEF CallGood
  <2>5. CASE other.nonce # 0
    BY <1>8, <2>1, <2>3, <2>4, <2>5 DEF CallKnown
  <2>6. CASE other.nonce = 0
    <3>1. other.e \notin DOMAIN localState[other.client].events
      BY <2>1, <2>6 DEF CallKnown
    <3>2. CASE other.client # k
      BY <1>4, <2>1, <2>3, <2>4, <2>6, <3>1, <3>2 DEF CallKnown
    <3>3. CASE other.client = k
      <4>1. call.nonce # 0 => call.e \in DOMAIN localState[k].events
        BY <1>2 DEF CallKnown
      <4>2. other.e # call.e
        BY <2>2, <2>6, <3>1, <3>3, <4>1
      <4>3. other.e \notin DOMAIN next.events
        BY <1>3, <3>1, <3>3, <4>2
      <4> QED
        BY <1>4, <2>1, <2>4, <2>6, <3>3, <4>3 DEF CallKnown
    <3> QED
      BY <3>2, <3>3
  <2> QED
    BY <2>4, <2>5, <2>6
<1>10. LocalShape'
  <2>1. ASSUME NEW j \in LocalClients PROVE SnapshotGood(localState'[j]) /\ localState'[j].is \in {"open", "closed"}
    BY <1>3, <1>4 DEF LocalShape
  <2>2. \A d, f \in LocalCallers : Dispatches(d)' /\ Dispatches(f)' /\ localCalls'[d].e = localCalls'[f].e => d = f
    <3> SUFFICES ASSUME NEW d \in LocalCallers, NEW f \in LocalCallers, Dispatches(d)', Dispatches(f)',
                        localCalls'[d].e = localCalls'[f].e
                 PROVE  d = f
      OBVIOUS
    <3>1. InProgress(d)' /\ InProgress(f)'
      BY DEF Dispatches
    <3> QED
      BY <1>6, <3>1 DEF LocalShape
  <2>3. SnapshotGood(localFile') /\ localFile'.is = "open" /\ calls' \in Nat /\ deaths' \in Nat
    BY <1>1, <1>3 DEF LocalShape
  <2> QED
    BY <1>4, <1>5, <1>9, <2>1, <2>2, <2>3 DEF LocalShape
<1>11. ASSUME StepsAreRecorded PROVE StepsAreRecorded'
  <2>1. DOMAIN localFile'.events = DOMAIN localFile.events \cup {call.e}
    <3>1. CASE localFile.is = "absent"
      <4>1. DOMAIN localFile.events = {}
        BY <3>1 DEF LocalShape
      <4>2. DOMAIN localState[k].events = {}
        BY <1>2, <1>11, <4>1 DEF StepsAreRecorded
      <4> QED
        BY <1>1, <1>3, <4>1, <4>2
    <3>2. CASE localFile = localState[k]
      BY <1>1, <1>3, <3>2
    <3> QED
      BY <1>1, <3>1, <3>2
  <2>2. ASSUME NEW j \in LocalClients PROVE DOMAIN localState'[j].events \subseteq DOMAIN localFile'.events
    <3>1. DOMAIN localState[j].events \subseteq DOMAIN localFile.events
      BY <1>11 DEF StepsAreRecorded
    <3> QED
      BY <1>1, <1>4, <2>1, <3>1
  <2>3. ASSUME NEW d \in LocalCallers, Dispatches(d)' PROVE localCalls'[d].e \notin DOMAIN localFile'.events
    <3>1. InProgress(d)'
      BY <2>3 DEF Dispatches
    <3>2. d # c /\ Dispatches(d) /\ localCalls'[d] = localCalls[d]
      BY <1>6, <2>3, <3>1
    <3>3. localCalls[d].e \notin DOMAIN localFile.events
      BY <1>11, <3>2 DEF StepsAreRecorded
    <3>4. call.nonce # 0 => call.e \in DOMAIN localFile.events
      BY <1>2, <1>11 DEF CallKnown, StepsAreRecorded
    <3>5. localCalls[d].e # call.e
      BY <1>7, <3>2, <3>3, <3>4
    <3> QED
      BY <2>1, <3>2, <3>3, <3>5
  <2>4. ASSUME NEW e \in LocalEvents, NEW s \in StepsTaken, executed[<<e, s>>] # 0, e \notin DOMAIN localFile'.events
        PROVE  \E d \in LocalCallers : Dispatches(d)' /\ localCalls'[d].e = e
                 /\ \E i \in 1..Len(localCalls'[d].runs) : LocalSteps[i] = s
    <3>1. PICK d \in LocalCallers : Dispatches(d) /\ localCalls[d].e = e
                 /\ \E i \in 1..Len(localCalls[d].runs) : LocalSteps[i] = s
      BY <1>11, <2>1, <2>4 DEF StepsAreRecorded
    <3>2. d # c
      BY <2>1, <2>4, <3>1
    <3>3. localCalls'[d] = localCalls[d]
      BY <1>5, <3>2
    <3>4. Dispatches(d)'
      BY <3>1, <3>3 DEF Dispatches, InProgress
    <3> QED
      BY <3>1, <3>3, <3>4
  <2>5. executed' = executed
    BY <1>1
  <2> QED
    BY <1>11, <2>2, <2>3, <2>4, <2>5 DEF StepsAreRecorded
<1> QED
  BY <1>10, <1>11

\* The clients come and go: one that is closed has no call.
LEMMA ClientsComeAndGo ==
    ASSUME LocalShape, NEW k \in LocalClients, NEW s, SnapshotGood(s), s.is \in {"open", "closed"},
           localState' = [localState EXCEPT ![k] = s], UNCHANGED <<localFile, localCalls, calls, deaths>>,
           \A c \in LocalCallers : InProgress(c) => localCalls[c].client # k
    PROVE  /\ LocalShape'
           /\ DOMAIN s.events \subseteq DOMAIN localFile.events /\ UNCHANGED executed /\ StepsAreRecorded => StepsAreRecorded'
<1>1. /\ DOMAIN localState' = LocalClients /\ localState'[k] = s
      /\ \A j \in LocalClients : j # k => localState'[j] = localState[j]
  BY DEF LocalShape
<1>2. \A c \in LocalCallers : (InProgress(c)' <=> InProgress(c)) /\ (Dispatches(c)' <=> Dispatches(c))
  BY DEF InProgress, Dispatches
<1>3. ASSUME NEW c \in LocalCallers, InProgress(c)
      PROVE  CallGood(localCalls[c])' /\ CallKnown(localCalls[c])'
  <2>1. CallGood(localCalls[c]) /\ CallKnown(localCalls[c]) /\ localCalls[c].client # k
    BY <1>3 DEF LocalShape
  <2>2. localState'[localCalls[c].client] = localState[localCalls[c].client]
    BY <1>1, <2>1 DEF CallGood
  <2> QED
    BY <2>1, <2>2 DEF CallGood, CallKnown
<1>4. \A j \in LocalClients : SnapshotGood(localState'[j]) /\ localState'[j].is \in {"open", "closed"}
  BY <1>1 DEF LocalShape
<1>5. LocalShape'
  BY <1>1, <1>2, <1>3, <1>4 DEF LocalShape
<1>6. ASSUME DOMAIN s.events \subseteq DOMAIN localFile.events, UNCHANGED executed, StepsAreRecorded PROVE StepsAreRecorded'
  <2>1. \A j \in LocalClients : DOMAIN localState'[j].events \subseteq DOMAIN localFile.events
    BY <1>1, <1>6 DEF StepsAreRecorded
  <2> QED
    BY <1>2, <1>6, <2>1 DEF StepsAreRecorded
<1> QED
  BY <1>5, <1>6

LEMMA ClientOpens ==
    ASSUME LocalShape, Undisturbed', NEW k \in LocalClients, OpenClient(k)
    PROVE  LocalShape' /\ (StepsAreRecorded => StepsAreRecorded')
<1>1. /\ localState[k].is # "open" /\ localFile.is # "torn" /\ localState' = [localState EXCEPT ![k] = Read]
      /\ UNCHANGED <<localFile, localCalls, calls, deaths, executed>>
  BY DEF OpenClient, Opened, Undisturbed
<1>2. \A c \in LocalCallers : InProgress(c) => localCalls[c].client # k
  BY <1>1 DEF LocalShape, CallGood
<1>3. SnapshotGood(Read) /\ Read.is = "open" /\ DOMAIN Read.events = DOMAIN localFile.events
  BY <1>1, ReadGood
<1> QED
  BY <1>1, <1>2, <1>3, ClientsComeAndGo

LEMMA ClosedGood == SnapshotGood(Closed) /\ Closed.is = "closed" /\ DOMAIN Closed.events = {}
<1>1. /\ DOMAIN Closed = {"is", "events", "runs"} /\ Closed.is = "closed" /\ Closed.events = <<>>
      /\ Closed.runs = {}
  BY DEF Closed, Nothing
<1> QED
  BY <1>1 DEF SnapshotGood, RunsListed

LEMMA ClientEnds ==
    ASSUME LocalShape, Undisturbed', NEW k \in LocalClients, ClientLeaves(k)
    PROVE  LocalShape' /\ (StepsAreRecorded => StepsAreRecorded')
<1>1. /\ localState' = [localState EXCEPT ![k] = Closed] /\ \A c \in LocalCallers : localCalls[c].client # k
      /\ UNCHANGED <<localFile, localCalls, calls, deaths, executed>>
  BY DEF ClientLeaves
<1> QED
  BY <1>1, ClosedGood, ClientsComeAndGo

\* A client that dies takes its calls along; what it tears of the file names no run.
LEMMA ClientIsKilled ==
    ASSUME LocalShape, Undisturbed', NEW k \in LocalClients, ClientDies(k)
    PROVE  LocalShape' /\ deaths' # 0
<1>1. /\ localState' = [localState EXCEPT ![k] = Closed] /\ UNCHANGED calls /\ deaths' = deaths + 1
      /\ localCalls' = [c \in LocalCallers |-> IF localCalls[c].client = k THEN NoLocalCall ELSE localCalls[c]]
      /\ localFile' = localFile \/ localFile' = [Nothing EXCEPT !.is = "torn"]
  BY DEF ClientDies
<1>2. deaths' \in Nat /\ deaths' # 0
  BY <1>1 DEF LocalShape
<1>3. /\ SnapshotGood(localFile') /\ localFile'.is \in {"open", "absent", "torn"}
      /\ localFile'.is # "open" => DOMAIN localFile'.events = {}
  <2>1. CASE localFile' = localFile
    BY <2>1 DEF LocalShape
  <2>2. CASE localFile' = [Nothing EXCEPT !.is = "torn"]
    <3>1. /\ DOMAIN localFile' = {"is", "events", "runs"} /\ localFile'.is = "torn" /\ localFile'.events = <<>>
          /\ localFile'.runs = {}
      BY <2>2 DEF Nothing
    <3> QED
      BY <3>1 DEF SnapshotGood, RunsListed
  <2> QED
    BY <1>1, <2>1, <2>2
<1>4. /\ DOMAIN localState' = LocalClients /\ localState'[k] = Closed
      /\ \A j \in LocalClients : j # k => localState'[j] = localState[j]
  BY <1>1 DEF LocalShape
<1>5. \A j \in LocalClients : SnapshotGood(localState'[j]) /\ localState'[j].is \in {"open", "closed"}
  BY <1>4, ClosedGood DEF LocalShape
<1>6. ASSUME NEW c \in LocalCallers, InProgress(c)'
      PROVE  InProgress(c) /\ localCalls'[c] = localCalls[c] /\ localCalls[c].client # k /\ (Dispatches(c)' <=> Dispatches(c))
  BY <1>1, <1>6 DEF InProgress, Dispatches, NoLocalCall
<1>7. ASSUME NEW c \in LocalCallers, InProgress(c)'
      PROVE  CallGood(localCalls[c])' /\ CallKnown(localCalls[c])'
  <2>1. CallGood(localCalls[c]) /\ CallKnown(localCalls[c]) /\ localCalls[c].client # k /\ localCalls'[c] = localCalls[c]
    BY <1>6, <1>7 DEF LocalShape
  <2>2. localState'[localCalls[c].client] = localState[localCalls[c].client]
    BY <1>4, <2>1 DEF CallGood
  <2> QED
    BY <2>1, <2>2 DEF CallGood, CallKnown
<1>8. \A c, d \in LocalCallers : Dispatches(c)' /\ Dispatches(d)' /\ localCalls'[c].e = localCalls'[d].e => c = d
  <2> SUFFICES ASSUME NEW c \in LocalCallers, NEW d \in LocalCallers, Dispatches(c)', Dispatches(d)',
                      localCalls'[c].e = localCalls'[d].e
               PROVE  c = d
    OBVIOUS
  <2>1. InProgress(c)' /\ InProgress(d)'
    BY DEF Dispatches
  <2> QED
    BY <1>6, <2>1 DEF LocalShape
<1>9. DOMAIN localCalls' = LocalCallers /\ calls' \in Nat
  BY <1>1 DEF LocalShape
<1> QED
  BY <1>2, <1>3, <1>4, <1>5, <1>7, <1>8, <1>9 DEF LocalShape

LEMMA LocalInvStep ==
    ASSUME LocalSteps \in Seq(StepsTaken), \A i, j \in DOMAIN LocalSteps : LocalSteps[i] = LocalSteps[j] => i = j,
           LocalInv, [LocalNext]_localVars
    PROVE  LocalInv'
<1>1. CASE UNCHANGED localVars
  <2>1. /\ UNCHANGED <<localState, localFile, localCalls, calls, deaths, executed, overlapped, stale>>
    BY <1>1 DEF localVars
  <2>2. \A c \in LocalCallers : (InProgress(c)' <=> InProgress(c)) /\ (Dispatches(c)' <=> Dispatches(c))
    BY <2>1 DEF InProgress, Dispatches
  <2>3. \A c \in LocalCallers : /\ CallGood(localCalls[c])' <=> CallGood(localCalls[c])
                                /\ CallKnown(localCalls[c])' <=> CallKnown(localCalls[c])
    BY <2>1 DEF CallGood, CallKnown
  <2>4. (LocalShape' <=> LocalShape) /\ (StepsAreRecorded' <=> StepsAreRecorded) /\ (Undisturbed' <=> Undisturbed)
    <3>1. LocalShape' <=> LocalShape
      BY <2>1, <2>2, <2>3 DEF LocalShape
    <3>2. StepsAreRecorded' <=> StepsAreRecorded
      BY <2>1, <2>2 DEF StepsAreRecorded
    <3> QED
      BY <2>1, <3>1, <3>2 DEF Undisturbed
  <2> QED
    BY <2>1, <2>4 DEF LocalInv
<1>2. CASE LocalNext
  <2> DEFINE Goes == /\ overlapped' \in BOOLEAN /\ stale' \in BOOLEAN /\ (Undisturbed' => Undisturbed)
                     /\ deaths' = deaths \/ \E k \in LocalClients : ClientDies(k)
  <2>1. Goes
    <3> USE DEF LocalInv, Undisturbed
    <3>1. ASSUME NEW k \in LocalClients, OpenClient(k) \/ ClientLeaves(k) PROVE Goes
      BY <3>1 DEF OpenClient, ClientLeaves
    <3>2. ASSUME NEW k \in LocalClients, ClientDies(k) PROVE Goes
      BY <3>2 DEF ClientDies
    <3>3. ASSUME NEW k \in LocalClients, NEW c \in LocalCallers, NEW e \in LocalEvents, LocalDispatch(c, k, e) PROVE Goes
      <4>1. CASE Known(k, e)
        BY <3>3, <4>1 DEF LocalDispatch
      <4>2. CASE ~Known(k, e)
        <5>1. /\ overlapped' = (overlapped \/ \E d \in LocalCallers \ {c} :
                                              localCalls[d].e = e /\ ~Replays(localCalls[d]))
              /\ stale' = (stale \/ Stale(k)) /\ deaths' = deaths
          BY <3>3, <4>2 DEF LocalDispatch
        <5> QED
          BY <5>1
      <4> QED
        BY <4>1, <4>2
    <3>4. ASSUME NEW k \in LocalClients, NEW c \in LocalCallers, NEW e \in LocalEvents, LocalReplay(c, k, e) PROVE Goes
      BY <3>4 DEF LocalReplay
    <3>5. ASSUME NEW c \in LocalCallers, LocalMatch(c) PROVE Goes
      BY <3>5 DEF LocalMatch
    <3>6. ASSUME NEW c \in LocalCallers, ExecuteStep(c) PROVE Goes
      BY <3>6 DEF ExecuteStep
    <3>7. ASSUME NEW c \in LocalCallers, LocalRecord(c) PROVE Goes
      BY <3>7 DEF LocalRecord
    <3> HIDE DEF Goes, LocalInv, Undisturbed
    <3> QED
      BY <1>2, <3>1, <3>2, <3>3, <3>4, <3>5, <3>6, <3>7 DEF LocalNext
  <2>2. ASSUME Undisturbed' PROVE LocalShape' /\ (deaths' = 0 => StepsAreRecorded')
    <3>1. LocalShape /\ (deaths = 0 => StepsAreRecorded)
      BY <2>1, <2>2 DEF LocalInv
    <3>2. CASE \E k \in LocalClients : ClientDies(k)
      BY <2>2, <3>1, <3>2, ClientIsKilled
    <3>3. CASE ~\E k \in LocalClients : ClientDies(k)
      <4>1. LocalShape' /\ (StepsAreRecorded => StepsAreRecorded')
        <5>1. CASE \E k \in LocalClients : OpenClient(k) \/ ClientLeaves(k)
          BY <2>2, <3>1, <5>1, ClientOpens, ClientEnds
        <5>2. CASE \E k \in LocalClients, c \in LocalCallers, e \in LocalEvents :
                      LocalDispatch(c, k, e) \/ LocalReplay(c, k, e)
          BY <2>2, <3>1, <5>2, DispatchBegins, ReplayBegins
        <5>3. CASE \E c \in LocalCallers : LocalMatch(c) \/ ExecuteStep(c) \/ LocalRecord(c)
          BY <2>2, <3>1, <5>3, CallIsMatched, StepIsExecuted, RecordKeeps
        <5> QED
          BY <1>2, <3>3, <5>1, <5>2, <5>3 DEF LocalNext
      <4> QED
        BY <2>1, <3>1, <3>3, <4>1
    <3> QED
      BY <3>2, <3>3
  <2> QED
    BY <2>1, <2>2 DEF LocalInv
<1> QED
  BY <1>1, <1>2

LEMMA LocalInvTells == LocalInv => FileTellsTheRuns
<1> SUFFICES ASSUME LocalInv PROVE FileTellsTheRuns
  OBVIOUS
<1>1. SerialDispatchRunsOnce
  <2> SUFFICES ASSUME StateKind = "file", ~overlapped, ~stale, deaths = 0, NEW p \in DOMAIN executed
               PROVE  executed[p] <= 1
    BY DEF SerialDispatchRunsOnce
  <2>1. StepsAreRecorded
    BY DEF LocalInv, Undisturbed
  <2>2. PICK e \in LocalEvents, s \in StepsTaken : p = <<e, s>>
    BY <2>1 DEF StepsAreRecorded
  <2>3. executed[p] \in {0, 1}
    BY <2>1, <2>2 DEF StepsAreRecorded
  <2> QED
    BY <2>3
<1>2. RunsStayListed
  BY DEF LocalInv, Undisturbed, LocalShape, SnapshotGood, RunsListed, RunsStayListed
<1> QED
  BY <1>1, <1>2 DEF FileTellsTheRuns, FileTellsTheRuns

\* Whatever calls and processes interleave, a client's state file executes the steps
\* of an event once and names every run of it, replays included, unless dispatches of
\* the event overlap, a client works on an older file or a process dies.  What is
\* matched is a sequence of names, and no step is matched twice for an event.
THEOREM FileStaysTold ==
    ASSUME LocalSteps \in Seq(StepsTaken), \A i, j \in DOMAIN LocalSteps : LocalSteps[i] = LocalSteps[j] => i = j
    PROVE  LocalSpec => []FileTellsTheRuns
<1> QED
  BY LocalStarts, LocalInvStep, LocalInvTells, PTL DEF LocalSpec
=============================================================================
