-------------------------- MODULE FlowLeasesProofs --------------------------
(***************************************************************************)
(* What TLAPS proves of the Convex control plane for every number of       *)
(* events, flows, workers, attempts and instants.                          *)
(***************************************************************************)
EXTENDS FlowLeases, TLAPS

\* The clamp grants a lease between the two limits, whatever was asked for.
LEMMA LeaseMsRange ==
    ASSUME NEW request \in LeaseRequests
    PROVE  LeaseMs(request) \in Nat /\ LeaseMs(request) >= MinLease
BY LeaseAssumption DEF LeaseMs

AttemptsType == [RunIds -> [AttemptNumbers -> Attempt]]

\* Granting an attempt keeps the types, in whatever state of the table the
\* mutation does it.
LEMMA ClaimExistingRunType ==
    ASSUME TypeOK, NEW r \in RunIds, NEW w \in Workers,
           NEW request \in LeaseRequests, NEW table \in AttemptsType,
           ClaimExistingRun(r, w, request, table)
    PROVE  /\ runs' \in [RunIds -> Run]
           /\ attempts' \in AttemptsType
           /\ runs[r].attemptCount + 1 \in AttemptNumbers
<1> DEFINE n == runs[r].attemptCount + 1
<1>1. n \in AttemptNumbers /\ n \in 0..MaxAttempts
  BY BoundAssumption DEF TypeOK, Run, ClaimExistingRun, AttemptNumbers
<1>2. [status |-> "running", worker |-> w, claimedAt |-> now,
       leaseExpiresAt |-> now + LeaseMs(request), error |-> "none"] \in Attempt
  BY LeaseMsRange, BoundAssumption DEF TypeOK, Attempt, AttemptStatuses, Times
<1>3. attempts' \in AttemptsType
  BY <1>1, <1>2 DEF AttemptsType, ClaimExistingRun
<1>4. runs' \in [RunIds -> Run]
  <2>1. runs[r] \in Run
    BY DEF TypeOK
  <2>2. [runs[r] EXCEPT !.status = "running", !.attemptCount = n] \in Run
    BY <1>1, <2>1 DEF Run, RunStatuses
  <2> QED
    BY <2>2 DEF TypeOK, ClaimExistingRun
<1> QED
  BY <1>1, <1>3, <1>4

LEMMA ExpireAttemptType ==
    ASSUME TypeOK, NEW r \in RunIds, NEW n \in AttemptNumbers
    PROVE  ExpireAttempt(r, n) \in AttemptsType
<1>1. attempts[r][n] \in Attempt
  BY DEF TypeOK
<1>2. [attempts[r][n] EXCEPT !.status = "failed", !.error = "expired"] \in Attempt
  BY <1>1 DEF Attempt, AttemptStatuses
<1> QED
  BY <1>2 DEF TypeOK, AttemptsType, ExpireAttempt

LEMMA ClaimQueuedRunType ==
    ASSUME TypeOK, NEW w \in Workers, NEW request \in LeaseRequests,
           NEW table \in AttemptsType, ClaimQueuedRun(w, request, table)
    PROVE  runs' \in [RunIds -> Run] /\ attempts' \in AttemptsType
BY ClaimExistingRunType DEF ClaimQueuedRun, TypeOK

\* The rows keep their shape: every status is one the schema lists, counters
\* and times stay in range, through every mutation.
LEMMA TypeOKInit == Init => TypeOK
BY LeaseAssumption, BoundAssumption, NoneAssumption
   DEF Init, TypeOK, Times, NoRun, NoAttempt, Run, Attempt, RunStatuses,
       AttemptStatuses

LEMMA InsertRunsType ==
    ASSUME TypeOK, NEW e \in Events, NEW type, NEW nonce, InsertRuns(e, type, nonce)
    PROVE  runs' \in [RunIds -> Run]
<1>1. [event |-> e, status |-> "queued", attemptCount |-> 0, createdAt |-> now] \in Run
  BY BoundAssumption DEF TypeOK, Run, RunStatuses
<1> QED
  BY <1>1 DEF InsertRuns, TypeOK

LEMMA TypeOKStep == TypeOK /\ [Next]_vars => TypeOK'
<1> SUFFICES ASSUME TypeOK, [Next]_vars PROVE TypeOK'
  OBVIOUS
<1> USE DEF TypeOK
<1>1. ASSUME NEW f \in Flows, NEW steps \in ManifestSteps, SyncFlowManifest(f, steps)
      PROVE  TypeOK'
  BY <1>1, ManifestAssumption DEF SyncFlowManifest
<1>2. ASSUME NEW e \in Events, NEW type \in EventTypes, DispatchEvent(e, type)
      PROVE  TypeOK'
  BY <1>2, InsertRunsType DEF DispatchEvent
<1>3. ASSUME NEW e \in Events, ReplayEvent(e) PROVE TypeOK'
  BY <1>3, InsertRunsType, BoundAssumption DEF ReplayEvent
<1>4. ASSUME NEW w \in Workers, NEW request \in LeaseRequests, ClaimRun(w, request)
      PROVE  TypeOK'
  <2>1. runs' \in [RunIds -> Run] /\ attempts' \in AttemptsType
    <3>1. CASE \E r \in RunIds, n \in AttemptNumbers : ReclaimExpired(r, n, w, request)
      BY <3>1, ClaimExistingRunType, ClaimQueuedRunType, ExpireAttemptType
         DEF ReclaimExpired
    <3>2. CASE ClaimQueuedRun(w, request, attempts)
      BY <3>2, ClaimQueuedRunType DEF AttemptsType
    <3> QED
      BY <1>4, <3>1, <3>2 DEF ClaimRun
  <2> QED
    BY <1>4, <2>1 DEF ClaimRun, AttemptsType
<1>5. ASSUME NEW w \in Workers, NEW r \in RunIds, NEW n \in AttemptNumbers,
             NEW request \in LeaseRequests, HeartbeatRun(w, r, n, request)
      PROVE  TypeOK'
  <2>1. now + LeaseMs(request) \in Nat
    BY LeaseMsRange, BoundAssumption DEF Times
  <2>2. [attempts[r][n] EXCEPT !.leaseExpiresAt = now + LeaseMs(request)] \in Attempt
    BY <2>1, attempts[r][n] \in Attempt DEF Attempt
  <2>3. attempts' \in AttemptsType
    BY <1>5, <2>2 DEF HeartbeatRun, AttemptsType
  <2> QED
    BY <1>5, <2>3 DEF HeartbeatRun, AttemptsType
<1>6. ASSUME NEW w \in Workers, NEW r \in RunIds, NEW n \in AttemptNumbers,
             AppendRunOutput(w, r, n)
      PROVE  TypeOK'
  BY <1>6 DEF AppendRunOutput
<1>7. ASSUME NEW w \in Workers, NEW r \in RunIds, NEW n \in AttemptNumbers,
             CompleteRun(w, r, n) \/ FailRun(w, r, n)
      PROVE  TypeOK'
  <2>1. attempts' \in AttemptsType
    <3>1. /\ [attempts[r][n] EXCEPT !.status = "failed", !.error = "reported"] \in Attempt
          /\ [attempts[r][n] EXCEPT !.status = "completed"] \in Attempt
      BY attempts[r][n] \in Attempt DEF Attempt, AttemptStatuses
    <3>2. CASE CompleteRun(w, r, n)
      BY <3>1, <3>2 DEF CompleteRun, AttemptsType
    <3>3. CASE FailRun(w, r, n)
      BY <3>1, <3>3 DEF FailRun, AttemptsType
    <3> QED
      BY <1>7, <3>2, <3>3
  <2>2. runs' \in [RunIds -> Run]
    <3>1. /\ [runs[r] EXCEPT !.status = "failed"] \in Run
          /\ [runs[r] EXCEPT !.status = "completed"] \in Run
      BY DEF Run, RunStatuses
    <3> QED
      BY <1>7, <3>1 DEF CompleteRun, FailRun
  <2> QED
    BY <1>7, <2>1, <2>2 DEF CompleteRun, FailRun, AttemptsType
<1>8. ASSUME NEW r \in RunIds, CancelRun(r) PROVE TypeOK'
  BY <1>8 DEF CancelRun, Run, RunStatuses
<1>9. CASE Tick
  BY <1>9, BoundAssumption DEF Tick, Times
<1>10. CASE UNCHANGED vars
  BY <1>10 DEF vars
<1> QED
  BY <1>1, <1>2, <1>3, <1>4, <1>5, <1>6, <1>7, <1>8, <1>9, <1>10 DEF Next

\* Every table row of the control plane has its type in every reachable state.
THEOREM TypeCorrect == Spec => []TypeOK
BY TypeOKInit, TypeOKStep, PTL DEF Spec

-----------------------------------------------------------------------------
(* The inductive invariant: the types and the agreement of the two tables. *)

IInv == TypeOK /\ TablesAgree

LEMMA IInvInit == Init => IInv
<1> SUFFICES ASSUME Init PROVE TablesAgree
  BY TypeOKInit DEF IInv
<1> QED
  BY BoundAssumption
     DEF Init, TablesAgree, RowsAgree, Numbered, NoRun, NoAttempt, AttemptNumbers

\* A mutation that touches the rows of run r only needs to keep those in step.
LEMMA OneRunChanges ==
    ASSUME TypeOK, TypeOK', TablesAgree, NEW r \in RunIds,
           \A q \in RunIds : q # r => runs'[q] = runs[q] /\ attempts'[q] = attempts[q],
           RowsAgree(runs'[r], attempts'[r])
    PROVE  TablesAgree'
BY DEF TablesAgree

\* A grant keeps the tables in step if the table it finds is in step except
\* that run r has no running attempt.
LEMMA GrantAgrees ==
    ASSUME TypeOK, TypeOK', NEW r \in RunIds, NEW w \in Workers,
           NEW request \in LeaseRequests, NEW table \in AttemptsType,
           ClaimExistingRun(r, w, request, table),
           \A q \in RunIds : q # r => RowsAgree(runs[q], table[q]),
           Numbered(runs[r], table[r]),
           \A m \in AttemptNumbers : table[r][m].status # "running"
    PROVE  TablesAgree'
<1> DEFINE n == runs[r].attemptCount + 1
<1>1. /\ n \in AttemptNumbers
      /\ runs[r] \in Run
      /\ runs[r].attemptCount \in Nat
  BY ClaimExistingRunType, BoundAssumption DEF TypeOK, Run
<1>2. /\ runs'[r].status = "running"
      /\ runs'[r].attemptCount = n
      /\ \A q \in RunIds : q # r => runs'[q] = runs[q]
  BY <1>1 DEF ClaimExistingRun, TypeOK, Run
<1>3. /\ attempts'[r][n].status = "running"
      /\ \A m \in AttemptNumbers : m # n => attempts'[r][m] = table[r][m]
      /\ \A q \in RunIds : q # r => attempts'[q] = table[q]
  BY <1>1 DEF ClaimExistingRun, AttemptsType
<1>4. RowsAgree(runs'[r], attempts'[r])
  <2>1. Numbered(runs'[r], attempts'[r])
    BY <1>1, <1>2, <1>3 DEF Numbered, AttemptNumbers
  <2> QED
    BY <2>1, <1>1, <1>2, <1>3 DEF RowsAgree
<1> QED
  BY <1>2, <1>3, <1>4 DEF TablesAgree

\* The attempt that a claim fails is the latest one of its run; afterwards
\* no attempt of that run is running.
LEMMA ExpiryEndsTheLease ==
    ASSUME IInv, NEW r \in RunIds, NEW n \in AttemptNumbers, Expired(r, n)
    PROVE  /\ n = runs[r].attemptCount
           /\ runs[r].status \in {"running", "canceled"}
           /\ \A q \in RunIds : q # r => ExpireAttempt(r, n)[q] = attempts[q]
           /\ \A m \in AttemptNumbers : ExpireAttempt(r, n)[r][m].status # "running"
           /\ ExpireAttempt(r, n)[r][n].status = "failed"
           /\ Numbered(runs[r], ExpireAttempt(r, n)[r])
<1>1. RowsAgree(runs[r], attempts[r]) /\ runs[r] \in Run /\ attempts[r][n] \in Attempt
  BY DEF IInv, TypeOK, TablesAgree
<1>2. n = runs[r].attemptCount /\ n > 0
  BY <1>1 DEF RowsAgree, Expired, AttemptNumbers
<1>3. runs[r].status \in {"running", "canceled"}
  BY <1>1, <1>2 DEF RowsAgree, Expired, Run, RunStatuses
<1>4. /\ \A q \in RunIds : q # r => ExpireAttempt(r, n)[q] = attempts[q]
      /\ \A m \in AttemptNumbers : m # n => ExpireAttempt(r, n)[r][m] = attempts[r][m]
      /\ ExpireAttempt(r, n)[r][n].status = "failed"
  BY <1>1 DEF IInv, TypeOK, ExpireAttempt, Attempt
<1>5. \A m \in AttemptNumbers : ExpireAttempt(r, n)[r][m].status # "running"
  BY <1>1, <1>2, <1>4 DEF RowsAgree
<1>6. Numbered(runs[r], ExpireAttempt(r, n)[r])
  BY <1>1, <1>2, <1>4 DEF RowsAgree, Numbered, Expired
<1> QED
  BY <1>2, <1>3, <1>4, <1>5, <1>6

\* What a claim that goes to the queue does to tables in step.
LEMMA ClaimQueuedAgrees ==
    ASSUME TypeOK, TypeOK', NEW w \in Workers, NEW request \in LeaseRequests,
           NEW table \in AttemptsType, ClaimQueuedRun(w, request, table),
           \A q \in RunIds : RowsAgree(runs[q], table[q])
    PROVE  TablesAgree'
<1>1. CASE attempts' = table /\ UNCHANGED runs
  BY <1>1 DEF TablesAgree
<1>2. ASSUME NEW r \in RunIds, OldestQueued(r), ClaimExistingRun(r, w, request, table)
      PROVE  TablesAgree'
  <2>1. runs[r].attemptCount = 0 /\ Numbered(runs[r], table[r])
    BY <1>2 DEF OldestQueued, RowsAgree
  <2>2. \A m \in AttemptNumbers : table[r][m].status # "running"
    BY <2>1 DEF Numbered, AttemptNumbers
  <2> QED
    BY <1>2, <2>1, <2>2, GrantAgrees
<1> QED
  BY <1>1, <1>2 DEF ClaimQueuedRun

LEMMA ClaimAgrees ==
    ASSUME IInv, TypeOK', NEW w \in Workers, NEW request \in LeaseRequests,
           ClaimRun(w, request)
    PROVE  TablesAgree'
<1>1. ASSUME NEW r \in RunIds, NEW n \in AttemptNumbers, ReclaimExpired(r, n, w, request)
      PROVE  TablesAgree'
  <2> DEFINE table == ExpireAttempt(r, n)
  <2>1. Expired(r, n) /\ table \in AttemptsType
    BY <1>1, ExpireAttemptType DEF ReclaimExpired, FirstExpired, IInv
  <2>2. \A q \in RunIds : q # r => RowsAgree(runs[q], table[q])
    BY <2>1, ExpiryEndsTheLease DEF IInv, TablesAgree
  <2>3. CASE ClaimExistingRun(r, w, request, table)
    BY <2>1, <2>2, <2>3, ExpiryEndsTheLease, GrantAgrees DEF IInv
  <2>4. CASE runs[r].status # "running" /\ ClaimQueuedRun(w, request, table)
    <3>1. RowsAgree(runs[r], table[r])
      BY <2>1, <2>4, ExpiryEndsTheLease DEF RowsAgree
    <3> QED
      BY <2>1, <2>2, <2>4, <3>1, ClaimQueuedAgrees DEF IInv
  <2> QED
    BY <1>1, <2>3, <2>4 DEF ReclaimExpired
<1>2. CASE ClaimQueuedRun(w, request, attempts)
  BY <1>2, ClaimQueuedAgrees DEF IInv, TablesAgree, TypeOK, AttemptsType
<1> QED
  BY <1>1, <1>2 DEF ClaimRun

\* A lease that passes assertAttemptLease is the latest attempt of a run that
\* is running or was cancelled.
LEMMA LeaseIsLatest ==
    ASSUME IInv, NEW w \in Workers, NEW r \in RunIds, NEW n \in AttemptNumbers,
           AttemptLease(w, r, n)
    PROVE  n = runs[r].attemptCount /\ runs[r].status \in {"running", "canceled"}
<1>1. RowsAgree(runs[r], attempts[r]) /\ runs[r] \in Run
  BY DEF IInv, TypeOK, TablesAgree
<1> QED
  BY <1>1 DEF RowsAgree, AttemptLease, AttemptNumbers, Run, RunStatuses

LEMMA InsertRunsAgrees ==
    ASSUME IInv, NEW e \in Events, NEW type, NEW nonce, InsertRuns(e, type, nonce),
           UNCHANGED attempts
    PROVE  TablesAgree'
<1> SUFFICES ASSUME NEW r \in RunIds PROVE RowsAgree(runs'[r], attempts[r])
  BY DEF TablesAgree
<1>1. RowsAgree(runs[r], attempts[r])
  BY DEF IInv, TablesAgree
<1>2. CASE runs'[r] = runs[r]
  BY <1>1, <1>2
<1>3. CASE /\ runs[r].status = "none"
           /\ runs'[r] = [event |-> e, status |-> "queued",
                          attemptCount |-> 0, createdAt |-> now]
  BY <1>1, <1>3 DEF RowsAgree, Numbered
<1> QED
  BY <1>2, <1>3 DEF InsertRuns

LEMMA IInvStep == IInv /\ [Next]_vars => IInv'
<1> SUFFICES ASSUME IInv, [Next]_vars PROVE IInv'
  OBVIOUS
<1>t. TypeOK /\ TypeOK' /\ TablesAgree
  BY TypeOKStep DEF IInv
<1> SUFFICES TablesAgree'
  BY <1>t DEF IInv
<1>1. CASE \E f \in Flows, steps \in ManifestSteps : SyncFlowManifest(f, steps)
  BY <1>1, <1>t DEF SyncFlowManifest, TablesAgree
<1>2. CASE \E e \in Events, type \in EventTypes : DispatchEvent(e, type)
  BY <1>2, InsertRunsAgrees DEF DispatchEvent
<1>3. CASE \E e \in Events : ReplayEvent(e)
  BY <1>3, InsertRunsAgrees DEF ReplayEvent
<1>4. CASE \E w \in Workers, request \in LeaseRequests : ClaimRun(w, request)
  BY <1>4, <1>t, ClaimAgrees
<1>5. ASSUME NEW w \in Workers, NEW r \in RunIds, NEW n \in AttemptNumbers,
             NEW request \in LeaseRequests, HeartbeatRun(w, r, n, request)
      PROVE  TablesAgree'
  <2>1. /\ \A m \in AttemptNumbers : attempts'[r][m].status = attempts[r][m].status
        /\ \A q \in RunIds : q # r => attempts'[q] = attempts[q]
    BY <1>5, <1>t DEF HeartbeatRun, TypeOK, Attempt
  <2>2. RowsAgree(runs'[r], attempts'[r])
    BY <1>5, <1>t, <2>1, BoundAssumption
       DEF HeartbeatRun, TablesAgree, RowsAgree, Numbered, TypeOK, Run, AttemptNumbers
  <2> QED
    BY <1>5, <1>t, <2>1, <2>2, OneRunChanges DEF HeartbeatRun
<1>6. ASSUME NEW w \in Workers, NEW r \in RunIds, NEW n \in AttemptNumbers,
             AppendRunOutput(w, r, n)
      PROVE  TablesAgree'
  BY <1>6, <1>t DEF AppendRunOutput, TablesAgree
<1>7. ASSUME NEW w \in Workers, NEW r \in RunIds, NEW n \in AttemptNumbers,
             NEW s \in {"completed", "failed"}, AttemptLease(w, r, n),
             \/ CompleteRun(w, r, n) /\ s = "completed"
             \/ FailRun(w, r, n) /\ s = "failed"
      PROVE  TablesAgree'
  <2>1. n = runs[r].attemptCount /\ runs[r] \in Run /\ attempts[r][n] \in Attempt
    BY <1>7, <1>t, LeaseIsLatest DEF TypeOK
  <2>2. /\ attempts'[r][n].status = s
        /\ \A m \in AttemptNumbers : m # n => attempts'[r][m] = attempts[r][m]
        /\ \A q \in RunIds : q # r => attempts'[q] = attempts[q]
    <3>1. CASE CompleteRun(w, r, n) /\ s = "completed"
      BY <1>t, <2>1, <3>1 DEF CompleteRun, TypeOK, Attempt
    <3>2. CASE FailRun(w, r, n) /\ s = "failed"
      BY <1>t, <2>1, <3>2 DEF FailRun, TypeOK, Attempt
    <3> QED
      BY <1>7, <3>1, <3>2
  <2>3. /\ runs'[r].status = s
        /\ runs'[r].attemptCount = n
        /\ \A q \in RunIds : q # r => runs'[q] = runs[q]
    BY <1>7, <1>t, <2>1 DEF CompleteRun, FailRun, TypeOK, Run
  <2>4. RowsAgree(runs'[r], attempts'[r])
    BY <1>7, <1>t, <2>1, <2>2, <2>3
       DEF TablesAgree, RowsAgree, Numbered, AttemptLease, AttemptNumbers
  <2> QED
    BY <1>t, <2>2, <2>3, <2>4, OneRunChanges
<1>8. ASSUME NEW r \in RunIds, CancelRun(r) PROVE TablesAgree'
  <2>1. /\ runs[r] \in Run
        /\ RowsAgree(runs[r], attempts[r])
        /\ UNCHANGED attempts
        /\ runs[r].status \in Cancellable
    BY <1>8, <1>t DEF CancelRun, TypeOK, TablesAgree
  <2>2. /\ runs'[r].status = "canceled"
        /\ runs'[r].attemptCount = runs[r].attemptCount
        /\ \A q \in RunIds : q # r => runs'[q] = runs[q]
    BY <1>8, <1>t DEF CancelRun, TypeOK, Run
  <2>3. RowsAgree(runs'[r], attempts'[r])
    BY <2>1, <2>2 DEF RowsAgree, Numbered, Cancellable, RunStatuses, Run
  <2> QED
    BY <1>t, <2>1, <2>2, <2>3, OneRunChanges
<1>9. CASE Tick
  BY <1>9, <1>t DEF Tick, TablesAgree
<1>10. CASE UNCHANGED vars
  BY <1>10, <1>t DEF vars, TablesAgree
<1>11. ASSUME NEW w \in Workers, NEW r \in RunIds, NEW n \in AttemptNumbers,
              CompleteRun(w, r, n) \/ FailRun(w, r, n)
       PROVE  TablesAgree'
  BY <1>7, <1>11 DEF CompleteRun, FailRun
<1> QED
  BY <1>1, <1>2, <1>3, <1>4, <1>5, <1>6, <1>8, <1>9, <1>10, <1>11 DEF Next

\* The run table and the attempt table tell one story in every reachable
\* state, however claims, heartbeats, settlements, cancellations, replays and
\* expiries interleave.
THEOREM TablesAlwaysAgree == Spec => []TablesAgree
<1>1. IInv => TablesAgree
  BY DEF IInv
<1> QED
  BY <1>1, IInvInit, IInvStep, PTL DEF Spec

\* Two leases on one run are never good at the same time.
THEOREM LeaseIsExclusive == Spec => []OneValidLease
<1>1. IInv => OneValidLease
  BY DEF IInv, TablesAgree, RowsAgree, OneValidLease, ValidLease
<1> QED
  BY <1>1, IInvInit, IInvStep, PTL DEF Spec

\* A claim takes a queued run or a running one whose lease has run out.
LEMMA ClaimTakesOpenRun ==
    ASSUME IInv, NEW w \in Workers, NEW request \in LeaseRequests,
           ClaimRun(w, request), NEW r \in RunIds, runs'[r] # runs[r]
    PROVE  runs[r].status \in {"queued", "running"}
BY DEF ClaimRun, ReclaimExpired, ClaimQueuedRun, ClaimExistingRun, OldestQueued,
       IInv, TypeOK

\* No mutation touches a completed run.
THEOREM CompletionIsFinal == Spec => CompletedIsFinal
<1>1. ASSUME IInv, [Next]_vars, NEW r \in RunIds, runs[r].status = "completed"
      PROVE  runs'[r] = runs[r]
  <2>1. ASSUME NEW e \in Events, NEW type, NEW nonce, InsertRuns(e, type, nonce)
        PROVE  runs'[r] = runs[r]
    BY <1>1, <2>1 DEF InsertRuns
  <2>2. ASSUME NEW w \in Workers, NEW q \in RunIds, NEW n \in AttemptNumbers,
               CompleteRun(w, q, n) \/ FailRun(w, q, n)
        PROVE  runs'[r] = runs[r]
    <3>1. runs[q].status \in {"running", "canceled"}
      BY <1>1, <2>2, LeaseIsLatest DEF CompleteRun, FailRun
    <3> QED
      BY <1>1, <2>2, <3>1 DEF CompleteRun, FailRun, IInv, TypeOK
  <2>3. ASSUME NEW q \in RunIds, CancelRun(q) PROVE runs'[r] = runs[r]
    BY <1>1, <2>3 DEF CancelRun, Cancellable, IInv, TypeOK
  <2>4. ASSUME NEW w \in Workers, NEW request \in LeaseRequests, ClaimRun(w, request)
        PROVE  runs'[r] = runs[r]
    BY <1>1, <2>4, ClaimTakesOpenRun
  <2> QED
    BY <1>1, <2>1, <2>2, <2>3, <2>4
       DEF Next, vars, SyncFlowManifest, DispatchEvent, ReplayEvent, HeartbeatRun,
           AppendRunOutput, Tick
<1>2. IInv /\ [Next]_vars
        => [\A r \in RunIds : runs[r].status = "completed" => runs'[r] = runs[r]]_vars
  BY <1>1
<1> QED
  BY <1>2, IInvInit, IInvStep, PTL DEF Spec, CompletedIsFinal

-----------------------------------------------------------------------------
(* What a step may never do.                                               *)

\* A running attempt was claimed at or before the present instant, its lease
\* ends the shortest duration after the claim or later, and nothing has
\* marked it with an error.
LeasedLong(time, row) ==
    row.status = "running" =>
        /\ row.claimedAt <= time
        /\ row.leaseExpiresAt >= row.claimedAt + MinLease
        /\ row.error = "none"

LeasesAreLong == \A r \in RunIds, n \in AttemptNumbers : LeasedLong(now, attempts[r][n])

LEMMA LeasesAreLongInit == Init => LeasesAreLong
BY DEF Init, LeasesAreLong, LeasedLong, NoAttempt

\* Failing the expired attempt leaves the other rows alone.
LEMMA ExpiryKeepsLeases ==
    ASSUME TypeOK, LeasesAreLong, NEW r \in RunIds, NEW n \in AttemptNumbers
    PROVE  \A q \in RunIds, m \in AttemptNumbers : LeasedLong(now, ExpireAttempt(r, n)[q][m])
<1> SUFFICES ASSUME NEW q \in RunIds, NEW m \in AttemptNumbers
             PROVE  LeasedLong(now, ExpireAttempt(r, n)[q][m])
  OBVIOUS
<1>1. attempts[q][m] \in Attempt
  BY DEF TypeOK
<1>2. CASE q = r /\ m = n
  BY <1>1, <1>2 DEF TypeOK, ExpireAttempt, LeasedLong, Attempt
<1>3. CASE ~(q = r /\ m = n)
  BY <1>3 DEF TypeOK, ExpireAttempt, LeasesAreLong
<1> QED
  BY <1>2, <1>3

\* A claim grants at least the shortest lease.
LEMMA GrantKeepsLeases ==
    ASSUME TypeOK, NEW w \in Workers, NEW request \in LeaseRequests, NEW r \in RunIds,
           NEW table \in AttemptsType, ClaimExistingRun(r, w, request, table),
           \A q \in RunIds, m \in AttemptNumbers : LeasedLong(now, table[q][m])
    PROVE  \A q \in RunIds, m \in AttemptNumbers : LeasedLong(now, attempts'[q][m])
<1> SUFFICES ASSUME NEW q \in RunIds, NEW m \in AttemptNumbers
             PROVE  LeasedLong(now, attempts'[q][m])
  OBVIOUS
<1> DEFINE k == runs[r].attemptCount + 1
<1>1. k \in AttemptNumbers
  BY ClaimExistingRunType
<1>2. CASE q = r /\ m = k
  <2>1. /\ attempts'[q][m].claimedAt = now
        /\ attempts'[q][m].leaseExpiresAt = now + LeaseMs(request)
        /\ attempts'[q][m].error = "none"
    BY <1>1, <1>2 DEF ClaimExistingRun, AttemptsType
  <2>2. now \in Nat /\ MinLease \in Nat
    BY BoundAssumption, LeaseAssumption DEF TypeOK, Times
  <2> QED
    BY <2>1, <2>2, LeaseMsRange DEF LeasedLong
<1>3. CASE ~(q = r /\ m = k)
  <2>1. attempts'[q][m] = table[q][m]
    BY <1>1, <1>3 DEF ClaimExistingRun, AttemptsType
  <2> QED
    BY <2>1
<1> QED
  BY <1>2, <1>3

LEMMA ClaimKeepsLeases ==
    ASSUME TypeOK, LeasesAreLong, NEW w \in Workers, NEW request \in LeaseRequests,
           ClaimRun(w, request)
    PROVE  LeasesAreLong'
<1>1. now' = now
  BY DEF ClaimRun
<1>2. ASSUME NEW table \in AttemptsType, ClaimQueuedRun(w, request, table),
             \A q \in RunIds, m \in AttemptNumbers : LeasedLong(now, table[q][m])
      PROVE  \A q \in RunIds, m \in AttemptNumbers : LeasedLong(now, attempts'[q][m])
  BY <1>2, GrantKeepsLeases DEF ClaimQueuedRun
<1>3. ASSUME NEW r \in RunIds, NEW n \in AttemptNumbers, ReclaimExpired(r, n, w, request)
      PROVE  \A q \in RunIds, m \in AttemptNumbers : LeasedLong(now, attempts'[q][m])
  <2> DEFINE table == ExpireAttempt(r, n)
  <2>1. table \in AttemptsType
    BY ExpireAttemptType
  <2>2. \A q \in RunIds, m \in AttemptNumbers : LeasedLong(now, table[q][m])
    BY ExpiryKeepsLeases
  <2>3. ClaimExistingRun(r, w, request, table) \/ ClaimQueuedRun(w, request, table)
    BY <1>3 DEF ReclaimExpired
  <2> HIDE DEF table
  <2> QED
    BY <1>2, <2>1, <2>2, <2>3, GrantKeepsLeases
<1>4. ASSUME ClaimQueuedRun(w, request, attempts)
      PROVE  \A q \in RunIds, m \in AttemptNumbers : LeasedLong(now, attempts'[q][m])
  <2>1. attempts \in AttemptsType
    BY DEF TypeOK, AttemptsType
  <2>2. \A q \in RunIds, m \in AttemptNumbers : LeasedLong(now, attempts[q][m])
    BY DEF LeasesAreLong
  <2> QED
    BY <1>2, <1>4, <2>1, <2>2
<1>5. \A q \in RunIds, m \in AttemptNumbers : LeasedLong(now, attempts'[q][m])
  BY <1>3, <1>4 DEF ClaimRun
<1> QED
  BY <1>1, <1>5 DEF LeasesAreLong, LeasedLong

LEMMA LeasesAreLongStep == TypeOK /\ LeasesAreLong /\ [Next]_vars => LeasesAreLong'
<1> SUFFICES ASSUME TypeOK, LeasesAreLong, [Next]_vars PROVE LeasesAreLong'
  OBVIOUS
<1>t. /\ now \in Nat /\ MinLease \in Nat
      /\ \A r \in RunIds, n \in AttemptNumbers : attempts[r][n] \in Attempt
  BY BoundAssumption, LeaseAssumption DEF TypeOK, Times
<1>1. ASSUME UNCHANGED <<now, attempts>> PROVE LeasesAreLong'
  BY <1>1 DEF LeasesAreLong
<1>2. CASE \E w \in Workers, request \in LeaseRequests : ClaimRun(w, request)
  BY <1>2, ClaimKeepsLeases
<1>3. ASSUME NEW w \in Workers, NEW r \in RunIds, NEW n \in AttemptNumbers,
             NEW request \in LeaseRequests, HeartbeatRun(w, r, n, request)
      PROVE  LeasesAreLong'
  <2> SUFFICES ASSUME NEW q \in RunIds, NEW m \in AttemptNumbers
               PROVE  LeasedLong(now, attempts'[q][m])
    BY <1>3 DEF HeartbeatRun, LeasesAreLong
  <2>1. CASE q = r /\ m = n
    <3>1. /\ attempts'[q][m].claimedAt = attempts[q][m].claimedAt
          /\ attempts'[q][m].error = attempts[q][m].error
          /\ attempts'[q][m].leaseExpiresAt = now + LeaseMs(request)
      BY <1>3, <1>t, <2>1 DEF HeartbeatRun, TypeOK, Attempt
    <3>2. attempts[q][m].claimedAt <= now /\ attempts[q][m].error = "none"
      BY <1>3, <2>1 DEF HeartbeatRun, AttemptLease, LeasesAreLong, LeasedLong
    <3>3. attempts[q][m].claimedAt \in Nat
      BY <1>t, BoundAssumption DEF Attempt, Times
    <3>4. LeaseMs(request) \in Nat /\ LeaseMs(request) >= MinLease
      BY LeaseMsRange
    <3>5. now + LeaseMs(request) >= attempts[q][m].claimedAt + MinLease
      BY <1>t, <3>2, <3>3, <3>4
    <3> QED
      BY <3>1, <3>2, <3>5 DEF LeasedLong
  <2>2. CASE ~(q = r /\ m = n)
    BY <1>3, <2>2 DEF HeartbeatRun, TypeOK, LeasesAreLong
  <2> QED
    BY <2>1, <2>2
<1>4. ASSUME NEW w \in Workers, NEW r \in RunIds, NEW n \in AttemptNumbers,
             CompleteRun(w, r, n) \/ FailRun(w, r, n)
      PROVE  LeasesAreLong'
  <2>1. now' = now
    BY <1>4 DEF CompleteRun, FailRun
  <2> SUFFICES ASSUME NEW q \in RunIds, NEW m \in AttemptNumbers
               PROVE  LeasedLong(now, attempts'[q][m])
    BY <2>1 DEF LeasesAreLong
  <2>2. CASE q = r /\ m = n
    <3>1. CASE CompleteRun(w, r, n)
      BY <1>t, <2>2, <3>1 DEF CompleteRun, TypeOK, Attempt, LeasedLong
    <3>2. CASE FailRun(w, r, n)
      BY <1>t, <2>2, <3>2 DEF FailRun, TypeOK, Attempt, LeasedLong
    <3> QED
      BY <1>4, <3>1, <3>2
  <2>3. CASE ~(q = r /\ m = n)
    BY <1>4, <2>3 DEF CompleteRun, FailRun, TypeOK, LeasesAreLong
  <2> QED
    BY <2>2, <2>3
<1>5. CASE Tick
  <2>1. now' = now + 1 /\ attempts' = attempts
    BY <1>5 DEF Tick
  <2> SUFFICES ASSUME NEW q \in RunIds, NEW m \in AttemptNumbers
               PROVE  LeasedLong(now + 1, attempts[q][m])
    BY <2>1 DEF LeasesAreLong
  <2>2. LeasedLong(now, attempts[q][m]) /\ attempts[q][m].claimedAt \in Nat
    BY <1>t, BoundAssumption DEF LeasesAreLong, Attempt, Times
  <2> QED
    BY <1>t, <2>2 DEF LeasedLong
<1> QED
  BY <1>1, <1>2, <1>3, <1>4, <1>5
     DEF Next, vars, SyncFlowManifest, DispatchEvent, ReplayEvent, AppendRunOutput, CancelRun

\* An attempt becomes expired only in a claim that finds it expired.
LEMMA OnlyClaimsExpire ==
    ASSUME TypeOK, LeasesAreLong, [Next]_vars, NEW r \in RunIds, NEW n \in AttemptNumbers,
           attempts[r][n].status = "running", attempts'[r][n].error = "expired"
    PROVE  Expired(r, n)
<1>t. attempts[r][n] \in Attempt /\ attempts[r][n].error = "none"
  BY DEF TypeOK, LeasesAreLong, LeasedLong
<1>1. attempts'[r][n] # attempts[r][n]
  BY <1>t
<1>2. ASSUME NEW w \in Workers, NEW request \in LeaseRequests, ClaimRun(w, request)
      PROVE  Expired(r, n)
  <2>1. ASSUME NEW q \in RunIds, NEW table \in AttemptsType,
               ClaimExistingRun(q, w, request, table)
        PROVE  attempts'[r][n].error = "none" \/ attempts'[r][n] = table[r][n]
    <3>1. runs[q].attemptCount + 1 \in AttemptNumbers
      BY <2>1, ClaimExistingRunType
    <3> QED
      BY <2>1, <3>1 DEF ClaimExistingRun, AttemptsType
  <2>2. ASSUME NEW table \in AttemptsType, ClaimQueuedRun(w, request, table)
        PROVE  attempts'[r][n] = table[r][n]
    BY <2>1, <2>2 DEF ClaimQueuedRun
  <2>3. attempts \in AttemptsType
    BY DEF TypeOK, AttemptsType
  <2>4. ~ClaimQueuedRun(w, request, attempts)
    BY <1>1, <2>2, <2>3
  <2>5. PICK q \in RunIds, m \in AttemptNumbers : ReclaimExpired(q, m, w, request)
    BY <1>2, <2>4 DEF ClaimRun
  <2>6. attempts'[r][n] = ExpireAttempt(q, m)[r][n]
    <3>1. ExpireAttempt(q, m) \in AttemptsType
      BY ExpireAttemptType
    <3> QED
      BY <2>1, <2>2, <2>5, <3>1 DEF ReclaimExpired
  <2>7. q = r /\ m = n
    BY <1>1, <2>6 DEF ExpireAttempt, TypeOK
  <2> QED
    BY <2>5, <2>7 DEF ReclaimExpired, FirstExpired
<1>3. ASSUME NEW w \in Workers, NEW q \in RunIds, NEW m \in AttemptNumbers,
             CompleteRun(w, q, m) \/ FailRun(w, q, m)
      PROVE  attempts'[r][n].error # "expired"
  <2>1. CASE CompleteRun(w, q, m)
    BY <1>t, <2>1 DEF CompleteRun, TypeOK, Attempt
  <2>2. CASE FailRun(w, q, m)
    BY <1>t, <2>2 DEF FailRun, TypeOK, Attempt
  <2> QED
    BY <1>3, <2>1, <2>2
<1>4. ASSUME NEW w \in Workers, NEW q \in RunIds, NEW m \in AttemptNumbers,
             NEW request \in LeaseRequests, HeartbeatRun(w, q, m, request)
      PROVE  attempts'[r][n].error # "expired"
  BY <1>t, <1>4 DEF HeartbeatRun, TypeOK, Attempt
<1> QED
  BY <1>1, <1>2, <1>3, <1>4
     DEF Next, vars, SyncFlowManifest, DispatchEvent, ReplayEvent, AppendRunOutput, CancelRun, Tick

\* No worker loses its run before the shortest lease has passed since its
\* claim, whatever duration it asked for and whenever others claim.
THEOREM LeaseLastsItsMinimum == Spec => LeaseLastsMinimum
<1>1. ASSUME TypeOK, LeasesAreLong, [Next]_vars, NEW r \in RunIds, NEW n \in AttemptNumbers,
             attempts[r][n].status = "running", attempts'[r][n].error = "expired"
      PROVE  now > attempts[r][n].claimedAt + MinLease
  <2>1. attempts[r][n].leaseExpiresAt < now
    BY <1>1, OnlyClaimsExpire DEF Expired
  <2>2. attempts[r][n].leaseExpiresAt >= attempts[r][n].claimedAt + MinLease
    BY <1>1 DEF LeasesAreLong, LeasedLong
  <2>3. /\ attempts[r][n].leaseExpiresAt \in Nat /\ now \in Nat
        /\ attempts[r][n].claimedAt \in Nat /\ MinLease \in Nat
    BY <1>1, BoundAssumption, LeaseAssumption DEF TypeOK, Attempt, Times
  <2> QED
    BY <2>1, <2>2, <2>3
<1>2. TypeOK /\ LeasesAreLong /\ [Next]_vars
        => [\A r \in RunIds, n \in AttemptNumbers :
              attempts[r][n].status = "running" /\ attempts'[r][n].error = "expired"
                => now > attempts[r][n].claimedAt + MinLease]_vars
  BY <1>1
<1> QED
  BY <1>2, TypeOKInit, TypeOKStep, LeasesAreLongInit, LeasesAreLongStep, PTL
     DEF Spec, LeaseLastsMinimum

\* A superseded worker writes no output, and nobody writes to a settled run.
THEOREM OutputIsTheHolders == Spec => OutputIsFromTheHolder
<1>1. ASSUME IInv, [Next]_vars, NEW r \in RunIds, NEW n \in AttemptNumbers,
             output' = <<r, n>>, output' # output
      PROVE  n = runs[r].attemptCount /\ runs[r].status \in {"running", "canceled"}
  <2>1. PICK w \in Workers, q \in RunIds, m \in AttemptNumbers : AppendRunOutput(w, q, m)
    BY <1>1 DEF Next, vars, SyncFlowManifest, DispatchEvent, ReplayEvent, ClaimRun,
                HeartbeatRun, CompleteRun, FailRun, CancelRun, Tick
  <2>2. q = r /\ m = n
    BY <1>1, <2>1 DEF AppendRunOutput
  <2>3. AttemptLease(w, r, n)
    BY <2>1, <2>2 DEF AppendRunOutput
  <2> QED
    BY <1>1, <2>3, LeaseIsLatest
<1>2. IInv /\ [Next]_vars
        => [\A r \in RunIds, n \in AttemptNumbers :
              output' = <<r, n>> /\ output' # output =>
                /\ n = runs[r].attemptCount
                /\ runs[r].status \in {"running", "canceled"}]_vars
  BY <1>1
<1> QED
  BY <1>2, IInvInit, IInvStep, PTL DEF Spec, OutputIsFromTheHolder

\* A run that is not a replay is created by the dispatch that stores its event.
THEOREM DispatchCreatesOnce == Spec => DispatchRunsOnce
<1>1. ASSUME IInv, [Next]_vars, NEW r \in RunIds, r[4] = NoNonce, runs[r].status = "none",
             runs'[r].status # "none"
      PROVE  events[runs'[r].event] = NoType
  <2>1. ASSUME NEW e \in Events, NEW type \in EventTypes, DispatchEvent(e, type)
        PROVE  events[runs'[r].event] = NoType
    <3>1. runs'[r].event = e
      BY <1>1, <2>1 DEF DispatchEvent, InsertRuns
    <3> QED
      BY <2>1, <3>1 DEF DispatchEvent, Known
  <2>2. ASSUME NEW e \in Events, ReplayEvent(e) PROVE FALSE
    <3>1. r[4] = now
      BY <1>1, <2>2 DEF ReplayEvent, InsertRuns, MatchedRunIds, ReplayNonce
    <3>2. now \in Nat
      BY <1>1, BoundAssumption DEF IInv, TypeOK, Times
    <3> QED
      BY <1>1, <3>1, <3>2 DEF NoNonce
  <2>3. ASSUME NEW w \in Workers, NEW request \in LeaseRequests, ClaimRun(w, request)
        PROVE FALSE
    BY <1>1, <2>3, ClaimTakesOpenRun
  <2>4. ASSUME NEW w \in Workers, NEW q \in RunIds, NEW n \in AttemptNumbers,
               CompleteRun(w, q, n) \/ FailRun(w, q, n)
        PROVE  FALSE
    <3>1. runs[q].status \in {"running", "canceled"}
      BY <1>1, <2>4, LeaseIsLatest DEF CompleteRun, FailRun
    <3> QED
      BY <1>1, <2>4, <3>1 DEF CompleteRun, FailRun, IInv, TypeOK
  <2>5. ASSUME NEW q \in RunIds, CancelRun(q) PROVE FALSE
    BY <1>1, <2>5 DEF CancelRun, Cancellable, IInv, TypeOK
  <2> QED
    BY <1>1, <2>1, <2>2, <2>3, <2>4, <2>5
       DEF Next, vars, SyncFlowManifest, HeartbeatRun, AppendRunOutput, Tick
<1>2. IInv /\ [Next]_vars
        => [\A r \in RunIds :
              r[4] = NoNonce /\ runs[r].status = "none" /\ runs'[r].status # "none"
                => events[runs'[r].event] = NoType]_vars
  BY <1>1
<1> QED
  BY <1>2, IInvInit, IInvStep, PTL DEF Spec, DispatchRunsOnce

-----------------------------------------------------------------------------
(* The control plane implements the run lifecycle.                         *)

\* Whoever holds a run is the worker of its one good lease.
LEMMA HolderOfLease ==
    ASSUME IInv, NEW r \in RunIds, NEW n \in AttemptNumbers, n = runs[r].attemptCount
    PROVE  /\ ValidLease(r, n) => holder[r] = attempts[r][n].worker
           /\ ~ValidLease(r, n) => holder[r] = NoWorker
BY DEF holder, Latest

\* The holder of a run depends on nothing but its own rows and the clock.
LEMMA HolderIsLocal ==
    ASSUME NEW r \in RunIds, now' = now, runs'[r].attemptCount = runs[r].attemptCount,
           attempts'[r] = attempts[r]
    PROVE  holder'[r] = holder[r]
BY DEF holder, Latest, ValidLease

LEMMA InitMaps == Init => Lifecycle!Init
BY BoundAssumption
   DEF Init, Lifecycle!Init, runStatus, holder, ValidLease, NoRun, NoAttempt, AttemptNumbers

LEMMA InsertMaps ==
    ASSUME IInv, NEW e \in Events, NEW type, NEW nonce, InsertRuns(e, type, nonce),
           UNCHANGED <<now, attempts>>
    PROVE  \E R \in SUBSET RunIds : Lifecycle!Create(R)
<1> DEFINE R == {r \in MatchedRunIds(e, type, nonce) : runs[r].status = "none"}
<1>1. R \in SUBSET RunIds
  BY DEF MatchedRunIds
<1>2. runStatus' = [r \in RunIds |-> IF r \in R THEN "queued" ELSE runStatus[r]]
  BY DEF runStatus, InsertRuns
<1>3. \A r \in RunIds : runs'[r].attemptCount = runs[r].attemptCount
  BY DEF IInv, TablesAgree, RowsAgree, InsertRuns
<1>4. holder' = holder
  BY <1>3, HolderIsLocal DEF holder
<1>5. \A r \in R : runStatus[r] = "none"
  BY <1>1 DEF runStatus
<1> QED
  BY <1>1, <1>2, <1>4, <1>5 DEF Lifecycle!Create

\* A grant on a table whose other rows still have their holders maps to Grant.
LEMMA GrantMaps ==
    ASSUME IInv, IInv', NEW r \in RunIds, NEW w \in Workers,
           NEW request \in LeaseRequests, NEW table \in AttemptsType,
           ClaimExistingRun(r, w, request, table), now' = now,
           runs[r].status \in {"queued", "running"},
           holder[r] = NoWorker,
           \A q \in RunIds : q # r => table[q] = attempts[q] \/ holder[q] = NoWorker,
           \A q \in RunIds, m \in AttemptNumbers :
              table[q][m] # attempts[q][m] => table[q][m].status # "running"
    PROVE  Lifecycle!Grant(r, w)
<1>0. PICK n \in AttemptNumbers : n = runs[r].attemptCount + 1
  BY ClaimExistingRunType DEF IInv
<1>1. n \in AttemptNumbers /\ runs[r] \in Run /\ now \in Nat
  BY BoundAssumption DEF IInv, TypeOK, Times
<1>2. /\ runs'[r].attemptCount = n
      /\ runs' = [runs EXCEPT ![r] = [@ EXCEPT !.status = "running", !.attemptCount = n]]
      /\ \A q \in RunIds : q # r => runs'[q] = runs[q] /\ attempts'[q] = table[q]
      /\ attempts'[r][n].status = "running"
      /\ attempts'[r][n].worker = w
      /\ attempts'[r][n].leaseExpiresAt = now + LeaseMs(request)
  BY <1>0, <1>1 DEF ClaimExistingRun, IInv, TypeOK, Run, AttemptsType
<1>3. runStatus' = [runStatus EXCEPT ![r] = "running"]
  <2>1. runs'[r].status = "running" /\ \A q \in RunIds : q # r => runs'[q].status = runs[q].status
    BY <1>1, <1>2 DEF IInv, TypeOK, Run
  <2> QED
    BY <2>1 DEF runStatus
<1>4. holder'[r] = w
  <2>1. ValidLease(r, n)'
    BY <1>1, <1>2, LeaseMsRange DEF ValidLease
  <2> QED
    BY <1>1, <1>2, <2>1 DEF holder, Latest
<1>5. ASSUME NEW q \in RunIds, q # r PROVE holder'[q] = holder[q]
  <2>1. CASE table[q] = attempts[q]
    BY <1>2, <1>5, <2>1, HolderIsLocal
  <2>2. CASE holder[q] = NoWorker /\ runs[q].attemptCount \notin AttemptNumbers
    BY <1>2, <1>5, <2>2 DEF holder
  <2>3. CASE holder[q] = NoWorker /\ runs[q].attemptCount \in AttemptNumbers
    <3> DEFINE m == runs[q].attemptCount
    <3>1. attempts[q][m].worker \in Workers \cup {NoWorker}
      BY <2>3 DEF IInv, TypeOK, Attempt
    <3>2. CASE table[q][m] # attempts[q][m]
      <4>1. attempts'[q][m].status # "running" /\ runs'[q] = runs[q]
        BY <1>2, <1>5, <2>3, <3>2
      <4>2. ~ValidLease(q, m)'
        BY <4>1 DEF ValidLease
      <4> QED
        BY <2>3, <4>1, <4>2 DEF holder
    <3>3. CASE table[q][m] = attempts[q][m]
      BY <1>2, <1>5, <2>3, <3>3 DEF holder, Latest, ValidLease
    <3> QED
      BY <3>2, <3>3
  <2> QED
    BY <1>5, <2>1, <2>2, <2>3
<1>6. holder' = [holder EXCEPT ![r] = w]
  BY <1>4, <1>5 DEF holder
<1> QED
  BY <1>3, <1>6 DEF Lifecycle!Grant, runStatus

\* An expired attempt leaves its run without a holder.
LEMMA ExpiredHasNoHolder ==
    ASSUME IInv, NEW r \in RunIds, NEW n \in AttemptNumbers, Expired(r, n)
    PROVE  holder[r] = NoWorker
<1>1. attempts[r][n].leaseExpiresAt \in Nat /\ now \in Nat
  BY BoundAssumption DEF IInv, TypeOK, Attempt, Times
<1>2. ~ValidLease(r, n)
  BY <1>1 DEF ValidLease, Expired
<1> QED
  BY <1>2, ExpiryEndsTheLease, HolderOfLease

\* A queued run has no attempt and therefore no holder.
LEMMA QueuedHasNoHolder ==
    ASSUME IInv, NEW r \in RunIds, runs[r].status = "queued"
    PROVE  holder[r] = NoWorker
BY DEF IInv, TablesAgree, RowsAgree, holder, AttemptNumbers

LEMMA ClaimMaps ==
    ASSUME IInv, IInv', NEW w \in Workers, NEW request \in LeaseRequests,
           ClaimRun(w, request)
    PROVE  \/ \E r \in RunIds : Lifecycle!Grant(r, w)
           \/ UNCHANGED <<runStatus, holder>>
<1>0. now' = now
  BY DEF ClaimRun
<1>1. ASSUME NEW table \in AttemptsType, ClaimQueuedRun(w, request, table),
             \A q \in RunIds : table[q] = attempts[q] \/ holder[q] = NoWorker,
             \A q \in RunIds, m \in AttemptNumbers :
               table[q][m] # attempts[q][m] => table[q][m].status # "running"
      PROVE  \/ \E r \in RunIds : Lifecycle!Grant(r, w)
             \/ UNCHANGED <<runStatus, holder>>
  <2>1. CASE attempts' = table /\ UNCHANGED runs
    <3>1. ASSUME NEW q \in RunIds PROVE holder'[q] = holder[q]
      BY <1>0, <1>1, <2>1, <3>1 DEF holder, Latest, ValidLease
    <3> QED
      BY <2>1, <3>1 DEF holder, runStatus
  <2>2. ASSUME NEW r \in RunIds, OldestQueued(r), ClaimExistingRun(r, w, request, table)
        PROVE  Lifecycle!Grant(r, w)
    BY <1>0, <1>1, <2>2, QueuedHasNoHolder, GrantMaps DEF OldestQueued
  <2> QED
    BY <1>1, <2>1, <2>2 DEF ClaimQueuedRun
<1>2. ASSUME NEW r \in RunIds, NEW n \in AttemptNumbers, ReclaimExpired(r, n, w, request)
      PROVE  \/ \E q \in RunIds : Lifecycle!Grant(q, w)
             \/ UNCHANGED <<runStatus, holder>>
  <2> DEFINE table == ExpireAttempt(r, n)
  <2>1. Expired(r, n) /\ table \in AttemptsType
    BY <1>2, ExpireAttemptType DEF ReclaimExpired, FirstExpired, IInv
  <2>2. /\ holder[r] = NoWorker
        /\ \A q \in RunIds : q # r => table[q] = attempts[q]
        /\ \A m \in AttemptNumbers : table[r][m].status # "running"
    BY <2>1, ExpiredHasNoHolder, ExpiryEndsTheLease
  <2> HIDE DEF table
  <2>3. CASE runs[r].status = "running" /\ ClaimExistingRun(r, w, request, table)
    <3>1. Lifecycle!Grant(r, w)
      BY <1>0, <2>1, <2>2, <2>3, GrantMaps
    <3> QED
      BY <3>1
  <2>4. CASE ClaimQueuedRun(w, request, table)
    BY <1>1, <2>1, <2>2, <2>4
  <2> QED
    BY <1>2, <2>3, <2>4 DEF ReclaimExpired, table
<1>3. CASE ClaimQueuedRun(w, request, attempts)
  <2>1. attempts \in AttemptsType
    BY DEF IInv, TypeOK, AttemptsType
  <2> QED
    BY <1>1, <1>3, <2>1
<1> QED
  BY <1>2, <1>3 DEF ClaimRun

\* A settlement that passes assertAttemptLease is made by the holder.
LEMMA SettleMaps ==
    ASSUME IInv, IInv', NEW w \in Workers, NEW r \in RunIds, NEW n \in AttemptNumbers,
           CompleteRun(w, r, n) \/ FailRun(w, r, n)
    PROVE  \E s \in Lifecycle!Settled : Lifecycle!Settle(r, s)
<1>1. PICK s \in {"completed", "failed"} :
        \/ CompleteRun(w, r, n) /\ s = "completed"
        \/ FailRun(w, r, n) /\ s = "failed"
  OBVIOUS
<1>2. /\ AttemptLease(w, r, n)
      /\ n = runs[r].attemptCount
      /\ runs[r] \in Run
      /\ attempts[r][n] \in Attempt
      /\ now' = now
  BY <1>1, LeaseIsLatest DEF CompleteRun, FailRun, IInv, TypeOK
<1>3. holder[r] # NoWorker
  BY <1>2, HolderOfLease, NoneAssumption DEF AttemptLease, ValidLease
<1>4. /\ runs' = [runs EXCEPT ![r].status = s]
      /\ runs'[r].attemptCount = n
      /\ \A q \in RunIds : q # r => runs'[q] = runs[q]
  BY <1>1, <1>2 DEF CompleteRun, FailRun, IInv, TypeOK, Run
<1>5. /\ attempts'[r][n].status # "running"
      /\ \A q \in RunIds : q # r => attempts'[q] = attempts[q]
  <2>1. CASE CompleteRun(w, r, n)
    BY <1>2, <2>1 DEF CompleteRun, IInv, TypeOK, Attempt
  <2>2. CASE FailRun(w, r, n)
    BY <1>2, <2>2 DEF FailRun, IInv, TypeOK, Attempt
  <2> QED
    BY <1>1, <2>1, <2>2
<1>6. holder' = [holder EXCEPT ![r] = NoWorker]
  <2>1. holder'[r] = NoWorker
    BY <1>4, <1>5 DEF holder, ValidLease
  <2>2. \A q \in RunIds : q # r => holder'[q] = holder[q]
    BY <1>2, <1>4, <1>5, HolderIsLocal
  <2> QED
    BY <2>1, <2>2 DEF holder
<1>7. runStatus' = [runStatus EXCEPT ![r] = s]
  <2>1. runs'[r].status = s
    BY <1>2, <1>4 DEF IInv, TypeOK, Run
  <2>2. \A q \in RunIds : q # r => runs'[q].status = runs[q].status
    BY <1>4
  <2> QED
    BY <2>1, <2>2 DEF runStatus
<1> QED
  BY <1>3, <1>6, <1>7 DEF Lifecycle!Settle, Lifecycle!Settled

\* A heartbeat renews a good lease, so the holder stays.
LEMMA HeartbeatMaps ==
    ASSUME IInv, IInv', NEW w \in Workers, NEW r \in RunIds, NEW n \in AttemptNumbers,
           NEW request \in LeaseRequests, HeartbeatRun(w, r, n, request)
    PROVE  UNCHANGED <<runStatus, holder>>
<1>1. /\ n = runs[r].attemptCount
      /\ attempts[r][n] \in Attempt
      /\ now \in Nat
      /\ now' = now /\ runs' = runs
  BY LeaseIsLatest, BoundAssumption DEF HeartbeatRun, IInv, TypeOK, Times
<1>2. /\ attempts'[r][n].status = "running"
      /\ attempts'[r][n].worker = attempts[r][n].worker
      /\ attempts'[r][n].leaseExpiresAt = now + LeaseMs(request)
      /\ \A q \in RunIds : q # r => attempts'[q] = attempts[q]
  BY <1>1 DEF HeartbeatRun, AttemptLease, IInv, TypeOK, Attempt
<1>3. holder'[r] = holder[r]
  <2>1. ValidLease(r, n)
    BY DEF HeartbeatRun, AttemptLease, ValidLease
  <2>2. ValidLease(r, n)'
    BY <1>1, <1>2, LeaseMsRange DEF ValidLease
  <2>3. Latest(r)'.worker = Latest(r).worker
    BY <1>1, <1>2 DEF Latest
  <2> QED
    BY <1>1, <2>1, <2>2, <2>3 DEF holder
<1>4. \A q \in RunIds : holder'[q] = holder[q]
  BY <1>1, <1>2, <1>3, HolderIsLocal
<1> QED
  BY <1>1, <1>4 DEF holder, runStatus

\* The clock only takes leases away.
LEMMA TickMaps ==
    ASSUME IInv, Tick
    PROVE  \E R \in SUBSET RunIds : Lifecycle!Lapse(R)
<1> DEFINE R == {r \in RunIds : holder'[r] = NoWorker}
<1>1. ASSUME NEW r \in RunIds, holder'[r] # NoWorker PROVE holder'[r] = holder[r]
  <2>1. now \in Nat /\ now' = now + 1 /\ runs' = runs /\ attempts' = attempts
    BY BoundAssumption DEF Tick, IInv, TypeOK, Times
  <2>2. runs[r].attemptCount \in AttemptNumbers /\ ValidLease(r, runs[r].attemptCount)'
    BY <1>1, <2>1 DEF holder
  <2>3. attempts[r][runs[r].attemptCount].leaseExpiresAt \in Nat
    BY <2>2 DEF IInv, TypeOK, Attempt
  <2>4. ValidLease(r, runs[r].attemptCount)
    BY <2>1, <2>2, <2>3 DEF ValidLease
  <2> QED
    BY <2>1, <2>2, <2>4 DEF holder, Latest
<1>2. holder' = [r \in RunIds |-> IF r \in R THEN NoWorker ELSE holder[r]]
  BY <1>1 DEF holder
<1>3. UNCHANGED runStatus
  BY DEF Tick, runStatus
<1> QED
  BY <1>2, <1>3 DEF Lifecycle!Lapse

LEMMA CancelMaps ==
    ASSUME IInv, NEW r \in RunIds, CancelRun(r)
    PROVE  Lifecycle!Cancel(r)
<1>1. /\ runStatus[r] \notin {"none", "completed"}
      /\ runStatus' = [runStatus EXCEPT ![r] = "canceled"]
  BY DEF CancelRun, Cancellable, runStatus, IInv, TypeOK, Run
<1>2. \A q \in RunIds : holder'[q] = holder[q]
  BY HolderIsLocal DEF CancelRun, IInv, TypeOK, Run
<1> QED
  BY <1>1, <1>2 DEF Lifecycle!Cancel, holder

LEMMA StepMaps ==
    ASSUME IInv, IInv', [Next]_vars
    PROVE  [Lifecycle!Next]_(Lifecycle!vars)
<1> USE DEF Lifecycle!Next, Lifecycle!vars
<1>1. CASE \E f \in Flows, steps \in ManifestSteps : SyncFlowManifest(f, steps)
  BY <1>1 DEF SyncFlowManifest, runStatus, holder, Latest, ValidLease
<1>2. CASE \E e \in Events, type \in EventTypes : DispatchEvent(e, type)
  BY <1>2, InsertMaps DEF DispatchEvent
<1>3. CASE \E e \in Events : ReplayEvent(e)
  BY <1>3, InsertMaps DEF ReplayEvent
<1>4. CASE \E w \in Workers, request \in LeaseRequests : ClaimRun(w, request)
  BY <1>4, ClaimMaps
<1>5. CASE \E w \in Workers, r \in RunIds, n \in AttemptNumbers, request \in LeaseRequests :
             HeartbeatRun(w, r, n, request)
  BY <1>5, HeartbeatMaps
<1>6. CASE \E w \in Workers, r \in RunIds, n \in AttemptNumbers : AppendRunOutput(w, r, n)
  BY <1>6 DEF AppendRunOutput, runStatus, holder, Latest, ValidLease
<1>7. CASE \E w \in Workers, r \in RunIds, n \in AttemptNumbers :
             CompleteRun(w, r, n) \/ FailRun(w, r, n)
  BY <1>7, SettleMaps
<1>8. CASE \E r \in RunIds : CancelRun(r)
  BY <1>8, CancelMaps
<1>9. CASE Tick
  BY <1>9, TickMaps
<1>10. CASE UNCHANGED vars
  BY <1>10 DEF vars, runStatus, holder, Latest, ValidLease
<1> QED
  BY <1>1, <1>2, <1>3, <1>4, <1>5, <1>6, <1>7, <1>8, <1>9, <1>10 DEF Next

\* Every behaviour of the control plane, with its clock, tokens and retries,
\* is a behaviour of the run lifecycle: one holder at a time, a run granted
\* again only after its holder lost it, settled only by its holder.
THEOREM ControlPlaneRefines == Spec => ImplementsLifecycle
<1>1. IInv /\ IInv' /\ [Next]_vars => [Lifecycle!Next]_(Lifecycle!vars)
  BY StepMaps
<1> QED
  BY <1>1, InitMaps, IInvInit, IInvStep, PTL
     DEF Spec, ImplementsLifecycle, Lifecycle!Spec
=============================================================================
