------------------------ MODULE WorkspacePartsProofs ------------------------
(***************************************************************************)
(* What TLAPS proves of the parts of MCWorkspaceParts, for every value of  *)
(* their constants: the records that the flow backend and the local flow   *)
(* client keep of their runs, the operator session of the home channel,    *)
(* the Discord threads of the workspace, the start of the bridge, the      *)
(* pickers of Discord and the voice gateway (its observer of the hook      *)
(* spool and its announcer thread).                                        *)
(***************************************************************************)
EXTENDS MCWorkspaceParts, SequenceTheorems, FiniteSetTheorems, WellFoundedInduction, TLAPS

-----------------------------------------------------------------------------
(* The rows of the flow backend (backend.ts, store.ts, executor.ts).       *)

CallFields == {"at", "e", "nonce", "wait", "runs"}
Settled(id) == flowRuns[id] \in {"completed", "failed"}
\* The command does not wait for its runs, or one of its steps could not be started.
LeavesRuns(c) == ~flowCalls[c].wait \/ flowCalls[c].at = "error"

FlowsShape ==
    /\ DOMAIN flowCalls = Flows!Callers /\ DOMAIN spawned = DOMAIN flowRuns /\ stops \in Nat
    /\ \A c \in Flows!Callers :
         /\ DOMAIN flowCalls[c] = CallFields /\ flowCalls[c].runs \subseteq DOMAIN flowRuns
         /\ flowCalls[c].at \in {"idle", "matching"} => flowCalls[c].runs = {}
    /\ \A id \in DOMAIN executors : id \in DOMAIN flowRuns /\ DOMAIN executors[id] = {"by", "open"}
    /\ \A id \in DOMAIN spawned : spawned[id] = 1

\* Who follows a run, and what becomes of its row: the run of a command is one of its
\* call; a store that is closed is the server's after a stop, or a command's that leaves
\* its runs; and a call that waits follows each of its runs that is not settled.
RunsAreFollowed ==
    /\ \A id \in DOMAIN executors :
         LET c == executors[id].by IN
         /\ c \in CommandLines => id \in flowCalls[c].runs /\ flowCalls[c].at \in {"waiting", "accepted", "error"}
         /\ executors[id].open \/ stops > 0 \/ (c \in CommandLines /\ LeavesRuns(c))
    /\ \A id \in DOMAIN flowRuns :
         \/ flowRuns[id] # "running" \/ id \in DOMAIN executors \/ stops > 0
         \/ \E c \in CommandLines : id \in flowCalls[c].runs /\ LeavesRuns(c)
    /\ \A c \in Flows!Callers :
         flowCalls[c].at = "waiting" =>
             /\ flowCalls[c].wait
             /\ \A id \in flowCalls[c].runs :
                  Settled(id) \/ (id \in DOMAIN executors /\ executors[id].by = c /\ executors[id].open)
    /\ \A c \in Flows!Callers :
         flowCalls[c].wait /\ flowCalls[c].at = "accepted" => \A id \in flowCalls[c].runs : Settled(id)

FlowsInv == FlowsShape /\ RunsAreFollowed

LEMMA FlowsStart == Flows!FlowInit => FlowsInv
<1> SUFFICES ASSUME Flows!FlowInit PROVE FlowsInv
  OBVIOUS
<1>1. /\ DOMAIN flowRuns = {} /\ DOMAIN executors = {} /\ DOMAIN spawned = {} /\ stops = 0
      /\ flowCalls = [c \in Flows!Callers |-> [at |-> "idle", e |-> "none", nonce |-> 0, wait |-> FALSE, runs |-> {}]]
  BY DEF Flows!FlowInit, Flows!NoCall
<1>2. FlowsShape
  BY <1>1 DEF FlowsShape, CallFields
<1>3. RunsAreFollowed
  BY <1>1 DEF RunsAreFollowed, Settled, LeavesRuns, Flows!Callers
<1> QED
  BY <1>2, <1>3 DEF FlowsInv

\* A call that begins, or one of the server's that is over, has no run of its own.
LEMMA CallChanges ==
    ASSUME ServerCalls \cap CommandLines = {}, FlowsInv, NEW c \in Flows!Callers,
           flowCalls[c].at \in {"idle", "matching"} \/ c \in ServerCalls, NEW call,
           flowCalls' = [flowCalls EXCEPT ![c] = call], DOMAIN call = CallFields,
           call.at \in {"idle", "matching", "duplicate", "error"}, call.runs \subseteq DOMAIN flowRuns,
           call.at \in {"idle", "matching"} => call.runs = {},
           UNCHANGED <<flowRuns, executors, spawned, stops>>
    PROVE  FlowsInv'
<1>1. /\ DOMAIN flowCalls' = Flows!Callers /\ flowCalls'[c] = call
      /\ \A d \in Flows!Callers : d # c => flowCalls'[d] = flowCalls[d]
  BY DEF FlowsInv, FlowsShape
<1>2. \A d \in CommandLines : d \in Flows!Callers /\ (d = c => flowCalls[d].runs = {} /\ flowCalls[d].at \in {"idle", "matching"})
  BY DEF FlowsInv, FlowsShape, Flows!Callers
<1>3. FlowsShape'
  BY <1>1 DEF FlowsInv, FlowsShape, Flows!Callers
<1>4. \A id \in DOMAIN executors : executors[id].by \in CommandLines => executors[id].by # c
  BY <1>2 DEF FlowsInv, RunsAreFollowed
<1>5. \A d \in CommandLines : d # c => (LeavesRuns(d) <=> LeavesRuns(d)')
  BY <1>1, <1>2 DEF LeavesRuns
<1>6. \A id \in DOMAIN executors :
         /\ executors[id].by \in CommandLines =>
              id \in flowCalls'[executors[id].by].runs /\ flowCalls'[executors[id].by].at \in {"waiting", "accepted", "error"}
         /\ executors[id].open \/ stops > 0 \/ (executors[id].by \in CommandLines /\ LeavesRuns(executors[id].by)')
  BY <1>1, <1>2, <1>4, <1>5 DEF FlowsInv, RunsAreFollowed
<1>7. \A id \in DOMAIN flowRuns :
         \/ flowRuns[id] # "running" \/ id \in DOMAIN executors \/ stops > 0
         \/ \E d \in CommandLines : id \in flowCalls'[d].runs /\ LeavesRuns(d)'
  BY <1>1, <1>2, <1>5 DEF FlowsInv, RunsAreFollowed
<1>8. \A d \in Flows!Callers : flowCalls'[d].at \in {"waiting", "accepted"} => d # c /\ flowCalls'[d] = flowCalls[d]
  BY <1>1
<1>9. \A id : Settled(id)' <=> Settled(id)
  BY DEF Settled
<1>10. RunsAreFollowed'
  <2>1. \A d \in Flows!Callers :
         flowCalls'[d].at = "waiting" =>
             /\ flowCalls'[d].wait
             /\ \A id \in flowCalls'[d].runs :
                  Settled(id)' \/ (id \in DOMAIN executors /\ executors[id].by = d /\ executors[id].open)
    BY <1>8, <1>9 DEF FlowsInv, RunsAreFollowed
  <2>2. \A d \in Flows!Callers :
         flowCalls'[d].wait /\ flowCalls'[d].at = "accepted" => \A id \in flowCalls'[d].runs : Settled(id)'
    BY <1>8, <1>9 DEF FlowsInv, RunsAreFollowed
  <2> QED
    BY <1>6, <1>7, <2>1, <2>2 DEF RunsAreFollowed, Flows!Callers
<1> QED
  BY <1>3, <1>10 DEF FlowsInv

LEMMA CallBegins ==
    ASSUME ServerCalls \cap CommandLines = {}, FlowsInv, NEW c \in Flows!Callers, NEW e, NEW wait,
           Flows!Dispatch(c, e, wait) \/ Flows!Replay(c, e, wait) \/ Flows!NextCall(c)
    PROVE  FlowsInv'
<1> DEFINE Fits(call) ==
             /\ flowCalls' = [flowCalls EXCEPT ![c] = call] /\ DOMAIN call = CallFields
             /\ call.at \in {"idle", "matching", "duplicate", "error"} /\ call.runs \subseteq DOMAIN flowRuns
             /\ call.at \in {"idle", "matching"} => call.runs = {}
<1>1. PICK call : Fits(call)
  <2>1. CASE Flows!Dispatch(c, e, wait)
    <3> DEFINE call1 == [at |-> "matching", e |-> e, nonce |-> 0, wait |-> wait, runs |-> {}]
    <3> DEFINE call2 == [at |-> "duplicate", e |-> e, nonce |-> 0, wait |-> FALSE, runs |-> Flows!RowsOf(e)]
    <3>1. flowCalls' = [flowCalls EXCEPT ![c] = call1] \/ flowCalls' = [flowCalls EXCEPT ![c] = call2]
      BY <2>1 DEF Flows!Dispatch, Flows!NoCall
    <3>2. DOMAIN call1 = CallFields /\ call1.at = "matching" /\ call1.runs \subseteq DOMAIN flowRuns /\ call1.runs = {}
      BY DEF CallFields
    <3>3. DOMAIN call2 = CallFields /\ call2.at = "duplicate" /\ call2.runs \subseteq DOMAIN flowRuns
      BY DEF CallFields, Flows!RowsOf
    <3> HIDE DEF call1, call2
    <3>4. CASE flowCalls' = [flowCalls EXCEPT ![c] = call1]
      BY <3>2, <3>4
    <3>5. CASE flowCalls' = [flowCalls EXCEPT ![c] = call2]
      BY <3>3, <3>5
    <3> QED
      BY <3>1, <3>4, <3>5
  <2>2. CASE Flows!Replay(c, e, wait)
    <3> DEFINE call1 == [at |-> "matching", e |-> e, nonce |-> nonces + 1, wait |-> wait, runs |-> {}]
    <3> DEFINE call2 == [at |-> "error", e |-> e, nonce |-> 0, wait |-> FALSE, runs |-> {}]
    <3>1. flowCalls' = [flowCalls EXCEPT ![c] = call1] \/ flowCalls' = [flowCalls EXCEPT ![c] = call2]
      BY <2>2 DEF Flows!Replay, Flows!NoCall
    <3>2. DOMAIN call1 = CallFields /\ call1.at = "matching" /\ call1.runs \subseteq DOMAIN flowRuns /\ call1.runs = {}
      BY DEF CallFields
    <3>3. DOMAIN call2 = CallFields /\ call2.at = "error" /\ call2.runs \subseteq DOMAIN flowRuns /\ call2.runs = {}
      BY DEF CallFields
    <3> HIDE DEF call1, call2
    <3>4. CASE flowCalls' = [flowCalls EXCEPT ![c] = call1]
      BY <3>2, <3>4
    <3>5. CASE flowCalls' = [flowCalls EXCEPT ![c] = call2]
      BY <3>3, <3>5
    <3> QED
      BY <3>1, <3>4, <3>5
  <2>3. CASE Flows!NextCall(c)
    <3> DEFINE call1 == [at |-> "idle", e |-> "none", nonce |-> 0, wait |-> FALSE, runs |-> {}]
    <3>1. flowCalls' = [flowCalls EXCEPT ![c] = call1]
      BY <2>3 DEF Flows!NextCall, Flows!NoCall
    <3>2. DOMAIN call1 = CallFields /\ call1.at = "idle" /\ call1.runs \subseteq DOMAIN flowRuns /\ call1.runs = {}
      BY DEF CallFields
    <3> HIDE DEF call1
    <3> QED
      BY <3>1, <3>2
  <2> QED
    BY <2>1, <2>2, <2>3
<1>2. flowCalls[c].at \in {"idle", "matching"} \/ c \in ServerCalls
  BY DEF Flows!Dispatch, Flows!Replay, Flows!NextCall
<1>3. UNCHANGED <<flowRuns, executors, spawned, stops>>
  BY DEF Flows!Dispatch, Flows!Replay, Flows!NextCall
<1> QED
  BY <1>1, <1>2, <1>3, CallChanges

LEMMA RunEndIsRecorded ==
    ASSUME FlowsInv, NEW id \in DOMAIN executors, Flows!RunEnds(id)
    PROVE  FlowsInv'
<1>1. UNCHANGED <<flowCalls, spawned, stops>>
  BY DEF Flows!RunEnds
<1>2. PICK outcome \in {"completed", "failed"} :
         flowRuns' = IF executors[id].open THEN [flowRuns EXCEPT ![id] = outcome] ELSE flowRuns
  BY DEF Flows!RunEnds, Flows!Completed, Flows!Outcomes
<1>3. /\ DOMAIN executors' = DOMAIN executors \ {id}
      /\ \A i \in DOMAIN executors' : executors'[i] = executors[i]
  BY DEF Flows!RunEnds, Flows!Restrict
<1>4. /\ DOMAIN flowRuns' = DOMAIN flowRuns /\ id \in DOMAIN flowRuns
      /\ \A i \in DOMAIN flowRuns : i # id => flowRuns'[i] = flowRuns[i]
      /\ executors[id].open => Settled(id)'
      /\ ~executors[id].open => flowRuns' = flowRuns
  BY <1>2 DEF FlowsInv, FlowsShape, Settled
<1>5. \A i \in DOMAIN flowRuns : Settled(i) => Settled(i)'
  BY <1>4 DEF Settled
<1>6. FlowsShape'
  BY <1>1, <1>3, <1>4 DEF FlowsInv, FlowsShape, Flows!Callers
<1>7. \A c : LeavesRuns(c)' <=> LeavesRuns(c)
  BY <1>1 DEF LeavesRuns
<1>8. \A i \in DOMAIN executors' :
         LET c == executors'[i].by IN
         /\ c \in CommandLines => i \in flowCalls[c].runs /\ flowCalls[c].at \in {"waiting", "accepted", "error"}
         /\ executors'[i].open \/ stops > 0 \/ (c \in CommandLines /\ LeavesRuns(c))
  BY <1>3 DEF FlowsInv, RunsAreFollowed
<1>9. ASSUME NEW i \in DOMAIN flowRuns
      PROVE  \/ flowRuns'[i] # "running" \/ i \in DOMAIN executors' \/ stops > 0
             \/ \E c \in CommandLines : i \in flowCalls[c].runs /\ LeavesRuns(c)
  <2>1. CASE i # id
    BY <1>3, <1>4, <2>1 DEF FlowsInv, RunsAreFollowed
  <2>2. CASE i = id /\ executors[id].open
    BY <1>4, <2>2 DEF Settled
  <2>3. CASE i = id /\ ~executors[id].open
    <3>1. stops > 0 \/ (executors[id].by \in CommandLines /\ LeavesRuns(executors[id].by))
      BY <2>3 DEF FlowsInv, RunsAreFollowed
    <3>2. executors[id].by \in CommandLines => id \in flowCalls[executors[id].by].runs
      BY DEF FlowsInv, RunsAreFollowed
    <3> QED
      BY <2>3, <3>1, <3>2
  <2> QED
    BY <2>1, <2>2, <2>3
<1>10. ASSUME NEW c \in Flows!Callers, flowCalls[c].at = "waiting", NEW i \in flowCalls[c].runs
       PROVE  Settled(i)' \/ (i \in DOMAIN executors' /\ executors'[i].by = c /\ executors'[i].open)
  <2>1. i \in DOMAIN flowRuns
    BY DEF FlowsInv, FlowsShape
  <2>2. Settled(i) \/ (i \in DOMAIN executors /\ executors[i].by = c /\ executors[i].open)
    BY <1>10 DEF FlowsInv, RunsAreFollowed
  <2> QED
    BY <1>3, <1>4, <1>5, <2>1, <2>2
<1>11. \A c \in Flows!Callers : flowCalls[c].at = "waiting" => flowCalls[c].wait
  BY DEF FlowsInv, RunsAreFollowed
<1>12. ASSUME NEW c \in Flows!Callers, flowCalls[c].wait, flowCalls[c].at = "accepted", NEW i \in flowCalls[c].runs
       PROVE  Settled(i)'
  <2>1. i \in DOMAIN flowRuns
    BY DEF FlowsInv, FlowsShape
  <2> QED
    BY <1>5, <1>12, <2>1 DEF FlowsInv, RunsAreFollowed
<1>13. RunsAreFollowed'
  BY <1>1, <1>4, <1>7, <1>8, <1>9, <1>10, <1>11, <1>12 DEF RunsAreFollowed, Flows!Callers
<1> QED
  BY <1>6, <1>13 DEF FlowsInv

\* A command that waited has no open run when it closes its store.
LEMMA AnswerIsSettled ==
    ASSUME ServerCalls \cap CommandLines = {}, FlowsInv, NEW c \in Flows!Callers, Flows!Answer(c)
    PROVE  FlowsInv'
<1>1. /\ UNCHANGED <<flowRuns, spawned, stops>> /\ flowCalls[c].at = "waiting"
      /\ flowCalls[c].runs \cap DOMAIN executors = {}
      /\ flowCalls' = [flowCalls EXCEPT ![c].at = "accepted"]
      /\ executors' = [id \in DOMAIN executors |->
                         IF executors[id].by = c /\ c \in CommandLines THEN [executors[id] EXCEPT !.open = FALSE] ELSE executors[id]]
  BY DEF Flows!Answer, Flows!AllDone
<1>2. DOMAIN executors' = DOMAIN executors /\ \A id \in DOMAIN executors : executors'[id] = executors[id]
  <2>1. \A id \in DOMAIN executors : ~(executors[id].by = c /\ c \in CommandLines)
    BY <1>1 DEF FlowsInv, RunsAreFollowed
  <2> QED
    BY <1>1, <2>1
<1>3. /\ DOMAIN flowCalls' = Flows!Callers /\ DOMAIN flowCalls'[c] = CallFields
      /\ flowCalls'[c].at = "accepted" /\ flowCalls'[c].runs = flowCalls[c].runs /\ flowCalls'[c].wait = flowCalls[c].wait
      /\ \A d \in Flows!Callers : d # c => flowCalls'[d] = flowCalls[d]
  <2>1. DOMAIN flowCalls = Flows!Callers /\ DOMAIN flowCalls[c] = {"at", "e", "nonce", "wait", "runs"}
    BY DEF FlowsInv, FlowsShape, CallFields
  <2> DEFINE call == [flowCalls[c] EXCEPT !.at = "accepted"]
  <2>2. flowCalls' = [flowCalls EXCEPT ![c] = call]
    BY <1>1
  <2>3. DOMAIN call = CallFields /\ call.at = "accepted" /\ call.runs = flowCalls[c].runs /\ call.wait = flowCalls[c].wait
    BY <2>1 DEF CallFields
  <2> HIDE DEF call
  <2> QED
    BY <2>1, <2>2, <2>3
<1>4. flowCalls[c].wait /\ \A id \in flowCalls[c].runs : Settled(id)
  BY <1>1 DEF FlowsInv, RunsAreFollowed
<1>5. \A d \in CommandLines : d \in Flows!Callers
  BY DEF Flows!Callers
<1>6. \A d \in CommandLines : flowCalls'[d].runs = flowCalls[d].runs /\ (LeavesRuns(d) => LeavesRuns(d)')
  BY <1>1, <1>3, <1>4, <1>5 DEF LeavesRuns
<1>7. \A id : Settled(id)' <=> Settled(id)
  BY <1>1 DEF Settled
<1>8. FlowsShape'
  BY <1>1, <1>2, <1>3 DEF FlowsInv, FlowsShape, Flows!Callers
<1>9. \A id \in DOMAIN executors : \A d :
         d = executors[id].by =>
             /\ d \in CommandLines => id \in flowCalls'[d].runs /\ flowCalls'[d].at \in {"waiting", "accepted", "error"}
             /\ executors[id].open \/ stops > 0 \/ (d \in CommandLines /\ LeavesRuns(d)')
  <2> SUFFICES ASSUME NEW id \in DOMAIN executors, NEW d, d = executors[id].by
               PROVE  /\ d \in CommandLines => id \in flowCalls'[d].runs /\ flowCalls'[d].at \in {"waiting", "accepted", "error"}
                      /\ executors[id].open \/ stops > 0 \/ (d \in CommandLines /\ LeavesRuns(d)')
    OBVIOUS
  <2>1. /\ d \in CommandLines => id \in flowCalls[d].runs /\ flowCalls[d].at \in {"waiting", "accepted", "error"}
        /\ executors[id].open \/ stops > 0 \/ (d \in CommandLines /\ LeavesRuns(d))
    BY DEF FlowsInv, RunsAreFollowed
  <2>2. d \in CommandLines => flowCalls'[d].at \in {"waiting", "accepted", "error"}
    BY <1>3, <1>5, <2>1
  <2> QED
    BY <1>6, <2>1, <2>2
<1>10. \A id \in DOMAIN flowRuns :
         \/ flowRuns[id] # "running" \/ id \in DOMAIN executors \/ stops > 0
         \/ \E d \in CommandLines : id \in flowCalls'[d].runs /\ LeavesRuns(d)'
  BY <1>6 DEF FlowsInv, RunsAreFollowed
<1>11. \A d \in Flows!Callers :
         flowCalls'[d].at = "waiting" =>
             /\ flowCalls'[d].wait
             /\ \A id \in flowCalls'[d].runs :
                  Settled(id)' \/ (id \in DOMAIN executors /\ executors[id].by = d /\ executors[id].open)
  BY <1>3, <1>7 DEF FlowsInv, RunsAreFollowed
<1>12. \A d \in Flows!Callers :
         flowCalls'[d].wait /\ flowCalls'[d].at = "accepted" => \A id \in flowCalls'[d].runs : Settled(id)'
  BY <1>3, <1>4, <1>7 DEF FlowsInv, RunsAreFollowed
<1>13. RunsAreFollowed'
  BY <1>1, <1>2, <1>9, <1>10, <1>11, <1>12 DEF RunsAreFollowed, Flows!Callers
<1> QED
  BY <1>8, <1>13 DEF FlowsInv

LEMMA ServerEndLeavesRuns ==
    ASSUME ServerCalls \cap CommandLines = {}, FlowsInv, NEW killed, Flows!ServerEnds(killed)
    PROVE  FlowsInv'
<1> DEFINE mine == {id \in DOMAIN executors : executors[id].by \in ServerCalls}
<1>1. UNCHANGED <<flowRuns, spawned>> /\ stops' \in Nat /\ stops' > 0
  BY DEF Flows!ServerEnds, FlowsInv, FlowsShape
<1>2. /\ DOMAIN executors' \subseteq DOMAIN executors
      /\ \A id \in DOMAIN executors' : DOMAIN executors'[id] = {"by", "open"} /\ executors'[id].by = executors[id].by
      /\ \A id \in DOMAIN executors : executors[id].by \notin ServerCalls => id \in DOMAIN executors' /\ executors'[id] = executors[id]
  <2>1. \A id \in DOMAIN executors : DOMAIN executors[id] = {"by", "open"}
    BY DEF FlowsInv, FlowsShape
  <2>2. CASE executors' = [id \in DOMAIN executors \ mine |-> executors[id]]
    BY <2>1, <2>2
  <2>3. CASE executors' = [id \in DOMAIN executors |-> IF id \in mine THEN [executors[id] EXCEPT !.open = FALSE] ELSE executors[id]]
    BY <2>1, <2>3
  <2> QED
    BY <2>2, <2>3 DEF Flows!ServerEnds, Flows!Restrict
<1>3. /\ DOMAIN flowCalls' = Flows!Callers
      /\ \A c \in Flows!Callers :
           \/ flowCalls'[c] = flowCalls[c] /\ (c \in ServerCalls => flowCalls[c].at \notin {"matching", "waiting"})
           \/ /\ c \in ServerCalls /\ DOMAIN flowCalls'[c] = CallFields
              /\ flowCalls'[c].at = "error" /\ flowCalls'[c].runs = flowCalls[c].runs
  <2>1. flowCalls' = [c \in Flows!Callers |->
                        IF c \in ServerCalls /\ flowCalls[c].at \in {"matching", "waiting"}
                        THEN [flowCalls[c] EXCEPT !.at = "error"] ELSE flowCalls[c]]
    BY DEF Flows!ServerEnds
  <2>2. \A c \in Flows!Callers : DOMAIN flowCalls[c] = {"at", "e", "nonce", "wait", "runs"}
    BY DEF FlowsInv, FlowsShape, CallFields
  <2>3. ASSUME NEW c \in Flows!Callers
        PROVE  LET call == [flowCalls[c] EXCEPT !.at = "error"] IN
               DOMAIN call = CallFields /\ call.at = "error" /\ call.runs = flowCalls[c].runs
    BY <2>2 DEF CallFields
  <2> QED
    BY <2>1, <2>3
<1>4. \A c \in CommandLines : c \in Flows!Callers /\ flowCalls'[c] = flowCalls[c]
  BY <1>3 DEF Flows!Callers
<1>5. \A id : Settled(id)' <=> Settled(id)
  BY <1>1 DEF Settled
<1>6. FlowsShape'
  BY <1>1, <1>2, <1>3 DEF FlowsInv, FlowsShape, Flows!Callers
<1>7. \A id \in DOMAIN executors' :
         LET c == executors'[id].by IN
         c \in CommandLines => id \in flowCalls'[c].runs /\ flowCalls'[c].at \in {"waiting", "accepted", "error"}
  BY <1>2, <1>4 DEF FlowsInv, RunsAreFollowed
<1>8. ASSUME NEW c \in Flows!Callers, flowCalls'[c].at = "waiting"
      PROVE  /\ flowCalls'[c].wait
             /\ \A id \in flowCalls'[c].runs :
                  Settled(id)' \/ (id \in DOMAIN executors' /\ executors'[id].by = c /\ executors'[id].open)
  <2>1. flowCalls'[c] = flowCalls[c] /\ c \notin ServerCalls /\ flowCalls[c].at = "waiting"
    BY <1>3, <1>8
  <2> QED
    BY <1>2, <1>5, <2>1 DEF FlowsInv, RunsAreFollowed
<1>9. \A c \in Flows!Callers :
         flowCalls'[c].wait /\ flowCalls'[c].at = "accepted" => \A id \in flowCalls'[c].runs : Settled(id)'
  BY <1>3, <1>5 DEF FlowsInv, RunsAreFollowed
<1>10. RunsAreFollowed'
  BY <1>1, <1>7, <1>8, <1>9 DEF RunsAreFollowed, Flows!Callers
<1> QED
  BY <1>6, <1>10 DEF FlowsInv

\* The rows that are made are those of a prefix of the matches, in which no step has the
\* name of another and no run is there already.
LEMMA MadeIsPrefix ==
    ASSUME NEW call, NEW matches \in Seq(STRING)
    PROVE  \E n \in 0..Len(matches) :
             /\ Flows!Made(call, matches) = SubSeq(matches, 1, n)
             /\ \A i \in 1..n : Flows!Creatable(call, matches, i)
<1> DEFINE Stops(n) == n = Len(matches) \/ ~Flows!Creatable(call, matches, n + 1)
           T == {n \in 0..Len(matches) : Stops(n)}
           P(n) == (\A i \in 1..n : Flows!Creatable(call, matches, i)) /\ Stops(n)
<1>1. Len(matches) \in Nat
  OBVIOUS
<1>2. T \subseteq Nat /\ Len(matches) \in T
  BY <1>1
<1>3. PICK n \in T : \A m \in T : ~ (<<m, n>> \in OpToRel(<, Nat))
  BY <1>2, NatLessThanWellFounded, WFMin
<1>4. n \in Nat /\ n \in 0..Len(matches) /\ \A m \in T : ~ (m < n)
  <2>1. \A m \in T : m \in Nat /\ ~ (<<m, n>> \in OpToRel(<, Nat))
    BY <1>2, <1>3
  <2> QED
    BY <1>2, <1>3, <2>1 DEF OpToRel
<1>5. \A i \in 1..n : Flows!Creatable(call, matches, i)
  <2> SUFFICES ASSUME NEW i \in 1..n PROVE Flows!Creatable(call, matches, i)
    OBVIOUS
  <2>1. i - 1 \in 0..Len(matches) /\ i - 1 < n /\ i - 1 # Len(matches) /\ (i - 1) + 1 = i
    BY <1>1, <1>4
  <2>2. i - 1 \notin T
    BY <1>4, <2>1
  <2>3. ~Stops(i - 1)
    BY <2>1, <2>2
  <2> QED
    BY <2>1, <2>3
<1>6. P(n) /\ n \in 0..Len(matches)
  BY <1>3, <1>4, <1>5
<1>7. Flows!Made(call, matches) = SubSeq(matches, 1, CHOOSE k \in 0..Len(matches) : P(k))
  BY DEF Flows!Made
<1> DEFINE k == CHOOSE k \in 0..Len(matches) : P(k)
<1>8. k \in 0..Len(matches) /\ P(k)
  BY <1>6
<1> QED
  BY <1>7, <1>8

\* A row and a child is made for each of them.
LEMMA RunsAreMade ==
    ASSUME NEW call, NEW matches \in Seq(STRING), NEW rows_, rows_ = Flows!Made(call, matches), NEW id,
           \E i \in DOMAIN rows_ : id = Flows!RunId(call.e, rows_[i], call.nonce)
    PROVE  id \notin DOMAIN flowRuns /\ Flows!Cardinality({i \in DOMAIN rows_ : rows_[i] = id[2]}) = 1
<1>1. PICK n \in 0..Len(matches) :
         rows_ = SubSeq(matches, 1, n) /\ \A i \in 1..n : Flows!Creatable(call, matches, i)
  BY MadeIsPrefix
<1>2. DOMAIN rows_ = 1..n /\ \A i \in 1..n : rows_[i] = matches[i]
  BY <1>1
<1> PICK i \in 1..n : id = Flows!RunId(call.e, rows_[i], call.nonce)
  BY <1>2
<1>3. id \notin DOMAIN flowRuns
  BY <1>1, <1>2 DEF Flows!Creatable
<1>4. id[2] = rows_[i]
  BY DEF Flows!RunId
<1>5. \A j \in 1..n : j < i => rows_[j] # rows_[i]
  <2> SUFFICES ASSUME NEW j \in 1..n, j < i PROVE rows_[j] # rows_[i]
    OBVIOUS
  <2>1. j \in 1..(i - 1)
    OBVIOUS
  <2> QED
    BY <1>1, <1>2, <2>1 DEF Flows!Creatable
<1>6. \A j \in 1..n : i < j => rows_[j] # rows_[i]
  <2> SUFFICES ASSUME NEW j \in 1..n, i < j PROVE rows_[j] # rows_[i]
    OBVIOUS
  <2>1. i \in 1..(j - 1)
    OBVIOUS
  <2> QED
    BY <1>1, <1>2, <2>1 DEF Flows!Creatable
<1>7. {j \in DOMAIN rows_ : rows_[j] = id[2]} = {i}
  BY <1>2, <1>4, <1>5, <1>6
<1>8. Flows!Cardinality({i}) = 1
  <2>1. Flows!Cardinality({i}) = Cardinality({i})
    BY DEF Flows!Cardinality, Cardinality
  <2> QED
    BY <2>1, FS_Singleton
<1> QED
  BY <1>3, <1>7, <1>8

LEMMA NoRunStarts ==
    ASSUME ServerCalls \cap CommandLines = {}, FlowsInv, NEW c \in Flows!Callers, flowCalls[c].at = "matching",
           flowCalls' = [flowCalls EXCEPT ![c].at = "error"], UNCHANGED <<flowRuns, executors, spawned, stops>>
    PROVE  FlowsInv'
<1> DEFINE call == [flowCalls[c] EXCEPT !.at = "error"]
<1>1. DOMAIN flowCalls[c] = {"at", "e", "nonce", "wait", "runs"} /\ flowCalls[c].runs = {}
  BY DEF FlowsInv, FlowsShape, CallFields
<1>2. DOMAIN call = CallFields /\ call.at = "error" /\ call.runs = {}
  BY <1>1 DEF CallFields
<1>3. flowCalls' = [flowCalls EXCEPT ![c] = call]
  OBVIOUS
<1> HIDE DEF call
<1> QED
  BY <1>2, <1>3, CallChanges

\* What StartRuns leaves of a call that made the runs ids, all of them or not.
RunsBegin(c, ids, whole, executor, call, at) ==
    /\ flowCalls[c].at = "matching" /\ UNCHANGED stops
    /\ DOMAIN executor = {"by", "open"} /\ executor.by = c
    /\ executor.open = (c \in ServerCalls \/ (flowCalls[c].wait /\ whole))
    /\ \A id \in ids : id \notin DOMAIN flowRuns
    /\ DOMAIN flowRuns' = ids \cup DOMAIN flowRuns
    /\ \A id \in DOMAIN flowRuns : flowRuns'[id] = flowRuns[id]
    /\ DOMAIN spawned' = ids \cup DOMAIN spawned /\ \A id \in DOMAIN spawned' : spawned'[id] = 1
    /\ DOMAIN executors' = ids \cup DOMAIN executors
    /\ \A id \in DOMAIN executors' : executors'[id] = IF id \in ids THEN executor ELSE executors[id]
    /\ DOMAIN call = CallFields /\ call.at = at /\ call.runs = ids /\ call.wait = flowCalls[c].wait
    /\ at \in {"error", "waiting", "accepted"} /\ (at = "error" <=> ~whole)
    /\ (at = "waiting" => flowCalls[c].wait) /\ (at = "accepted" => ~flowCalls[c].wait \/ ids = {})
    /\ flowCalls' = [flowCalls EXCEPT ![c] = call]

LEMMA SomeRunsStart ==
    ASSUME ServerCalls \cap CommandLines = {}, FlowsInv, NEW c \in Flows!Callers, NEW ids, NEW whole \in BOOLEAN,
           NEW executor, NEW call, NEW at, RunsBegin(c, ids, whole, executor, call, at)
    PROVE  FlowsInv'
<1> USE DEF RunsBegin
<1>1. DOMAIN flowCalls = Flows!Callers /\ flowCalls[c].runs = {}
  BY DEF FlowsInv, FlowsShape
<1>5. /\ DOMAIN flowCalls' = Flows!Callers /\ DOMAIN flowCalls'[c] = CallFields
      /\ flowCalls'[c].at = at /\ flowCalls'[c].runs = ids /\ flowCalls'[c].wait = flowCalls[c].wait
      /\ \A d \in Flows!Callers : d # c => flowCalls'[d] = flowCalls[d]
  BY <1>1
<1>6. \A id \in DOMAIN executors : id \notin ids /\ id \in DOMAIN flowRuns
  BY DEF FlowsInv, FlowsShape
<1>7. \A id \in DOMAIN executors : executors[id].by \in CommandLines => executors[id].by # c
  BY DEF FlowsInv, RunsAreFollowed
<1>8. FlowsShape'
  <2>1. \A d \in Flows!Callers :
         /\ DOMAIN flowCalls'[d] = CallFields /\ flowCalls'[d].runs \subseteq DOMAIN flowRuns'
         /\ flowCalls'[d].at \in {"idle", "matching"} => flowCalls'[d].runs = {}
    BY <1>5 DEF FlowsInv, FlowsShape
  <2>2. \A id \in DOMAIN executors' : id \in DOMAIN flowRuns' /\ DOMAIN executors'[id] = {"by", "open"}
    BY DEF FlowsInv, FlowsShape
  <2>3. DOMAIN flowCalls' = Flows!Callers /\ DOMAIN spawned' = DOMAIN flowRuns' /\ stops' \in Nat
    BY <1>5 DEF FlowsInv, FlowsShape
  <2> QED
    BY <2>1, <2>2, <2>3 DEF FlowsShape, Flows!Callers
<1>9. \A d \in CommandLines : d \in Flows!Callers /\ d \notin ServerCalls
  BY DEF Flows!Callers
<1>10. \A d \in CommandLines : d # c => (LeavesRuns(d)' <=> LeavesRuns(d))
  BY <1>5, <1>9 DEF LeavesRuns
<1>11. c \in CommandLines => executor.open \/ LeavesRuns(c)'
  BY <1>5, <1>9 DEF LeavesRuns
<1>12. ASSUME NEW id \in DOMAIN executors', NEW d, d = executors'[id].by
       PROVE  /\ d \in CommandLines => id \in flowCalls'[d].runs /\ flowCalls'[d].at \in {"waiting", "accepted", "error"}
              /\ executors'[id].open \/ stops > 0 \/ (d \in CommandLines /\ LeavesRuns(d)')
  <2>1. CASE id \in ids
    <3>1. executors'[id] = executor /\ d = c
      BY <1>12, <2>1
    <3>2. c \in CommandLines \/ executor.open
      BY DEF Flows!Callers
    <3> QED
      BY <1>5, <1>11, <2>1, <3>1, <3>2
  <2>2. CASE id \notin ids
    <3>1. executors'[id] = executors[id] /\ id \in DOMAIN executors /\ d = executors[id].by
      BY <1>12, <2>2
    <3>2. /\ d \in CommandLines => id \in flowCalls[d].runs /\ flowCalls[d].at \in {"waiting", "accepted", "error"}
          /\ executors[id].open \/ stops > 0 \/ (d \in CommandLines /\ LeavesRuns(d))
      BY <3>1 DEF FlowsInv, RunsAreFollowed
    <3>3. d \in CommandLines => d # c /\ d \in Flows!Callers
      BY <1>7, <1>9, <3>1
    <3> QED
      BY <1>5, <1>10, <3>1, <3>2, <3>3
  <2> QED
    BY <2>1, <2>2
<1>13. ASSUME NEW id \in DOMAIN flowRuns'
       PROVE  \/ flowRuns'[id] # "running" \/ id \in DOMAIN executors' \/ stops > 0
              \/ \E d \in CommandLines : id \in flowCalls'[d].runs /\ LeavesRuns(d)'
  <2>1. CASE id \in ids
    BY <2>1
  <2>2. CASE id \notin ids
    <3>1. id \in DOMAIN flowRuns /\ flowRuns'[id] = flowRuns[id]
      BY <2>2
    <3>2. \/ flowRuns[id] # "running" \/ id \in DOMAIN executors \/ stops > 0
          \/ \E d \in CommandLines : id \in flowCalls[d].runs /\ LeavesRuns(d)
      BY <3>1 DEF FlowsInv, RunsAreFollowed
    <3>3. \A d \in CommandLines : id \in flowCalls[d].runs => d # c /\ flowCalls'[d] = flowCalls[d]
      BY <1>1, <1>5, <1>9
    <3> QED
      BY <1>10, <3>1, <3>2, <3>3
  <2> QED
    BY <2>1, <2>2
<1>14. \A id \in DOMAIN flowRuns : Settled(id) => Settled(id)'
  BY DEF Settled
<1>15. ASSUME NEW d \in Flows!Callers, flowCalls'[d].at = "waiting"
       PROVE  /\ flowCalls'[d].wait
              /\ \A id \in flowCalls'[d].runs :
                   Settled(id)' \/ (id \in DOMAIN executors' /\ executors'[id].by = d /\ executors'[id].open)
  <2>1. CASE d = c
    <3>1. flowCalls[c].wait /\ whole /\ flowCalls'[c].wait /\ flowCalls'[c].runs = ids
      BY <1>5, <1>15, <2>1
    <3>2. executor.open
      BY <3>1
    <3> QED
      BY <2>1, <3>1, <3>2
  <2>2. CASE d # c
    <3>1. flowCalls'[d] = flowCalls[d] /\ flowCalls[d].at = "waiting" /\ flowCalls[d].runs \subseteq DOMAIN flowRuns
      BY <1>5, <1>15, <2>2 DEF FlowsInv, FlowsShape
    <3>2. /\ flowCalls[d].wait
          /\ \A id \in flowCalls[d].runs :
               Settled(id) \/ (id \in DOMAIN executors /\ executors[id].by = d /\ executors[id].open)
      BY <3>1 DEF FlowsInv, RunsAreFollowed
    <3>3. \A id \in DOMAIN executors : id \in DOMAIN executors' /\ executors'[id] = executors[id]
      BY <1>6
    <3> QED
      BY <1>14, <3>1, <3>2, <3>3
  <2> QED
    BY <2>1, <2>2
<1>16. ASSUME NEW d \in Flows!Callers, flowCalls'[d].wait, flowCalls'[d].at = "accepted", NEW id \in flowCalls'[d].runs
       PROVE  Settled(id)'
  <2>1. d # c
    BY <1>5, <1>16
  <2>2. flowCalls'[d] = flowCalls[d] /\ id \in DOMAIN flowRuns
    BY <1>5, <1>16, <2>1 DEF FlowsInv, FlowsShape
  <2>3. Settled(id)
    BY <1>16, <2>2 DEF FlowsInv, RunsAreFollowed
  <2> QED
    BY <1>14, <2>2, <2>3
<1>17. RunsAreFollowed'
  BY <1>12, <1>13, <1>15, <1>16 DEF RunsAreFollowed, Flows!Callers
<1> QED
  BY <1>8, <1>17 DEF FlowsInv

LEMMA RunsStart ==
    ASSUME ServerCalls \cap CommandLines = {}, FlowMatches \subseteq Seq(STRING), FlowsInv, NEW c \in Flows!Callers,
           Flows!StartRuns(c)
    PROVE  FlowsInv'
<1>1. flowCalls[c].at = "matching" /\ UNCHANGED stops
  BY DEF Flows!StartRuns
<1>2. CASE flowCalls' = [flowCalls EXCEPT ![c].at = "error"] /\ UNCHANGED <<flowRuns, executors, spawned>>
  BY <1>1, <1>2, NoRunStarts
<1>3. ASSUME NEW matches \in FlowMatches,
             LET call == flowCalls[c]
                 rows_ == Flows!Made(call, matches)
                 ids == {Flows!RunId(call.e, rows_[i], call.nonce) : i \in DOMAIN rows_}
                 Children(id) == Flows!Cardinality({i \in DOMAIN rows_ : rows_[i] = id[2]})
                 executor == [by |-> c, open |-> c \in ServerCalls \/ (call.wait /\ rows_ = matches)] IN
             /\ flowRuns' = Flows!Over([id \in ids |-> "running"], flowRuns)
             /\ spawned' = Flows!Over([id \in ids |-> Children(id) + IF id \in DOMAIN spawned THEN spawned[id] ELSE 0], spawned)
             /\ executors' = Flows!Over([id \in ids |-> executor], executors)
             /\ flowCalls' = [flowCalls EXCEPT ![c] =
                                [@ EXCEPT !.runs = ids,
                                          !.at = IF rows_ # matches THEN "error"
                                                 ELSE IF call.wait /\ ids # {} THEN "waiting" ELSE "accepted"]]
      PROVE  FlowsInv'
  <2> DEFINE call == flowCalls[c]
             rows_ == Flows!Made(call, matches)
             ids == {Flows!RunId(call.e, rows_[i], call.nonce) : i \in DOMAIN rows_}
             whole == rows_ = matches
             executor == [by |-> c, open |-> c \in ServerCalls \/ (call.wait /\ whole)]
             Children(id) == Flows!Cardinality({i \in DOMAIN rows_ : rows_[i] = id[2]})
  <2>1. matches \in Seq(STRING)
    OBVIOUS
  <2>2. \A id \in ids : id \notin DOMAIN flowRuns /\ Children(id) = 1
    <3> SUFFICES ASSUME NEW id \in ids PROVE id \notin DOMAIN flowRuns /\ Children(id) = 1
      OBVIOUS
    <3> HIDE DEF rows_, call
    <3>1. \E i \in DOMAIN rows_ : id = Flows!RunId(call.e, rows_[i], call.nonce)
      OBVIOUS
    <3>2. rows_ = Flows!Made(call, matches)
      BY DEF rows_
    <3> QED
      BY <2>1, <3>1, <3>2, RunsAreMade
  <2>3. /\ flowRuns' = Flows!Over([id \in ids |-> "running"], flowRuns)
        /\ spawned' = Flows!Over([id \in ids |-> Children(id) + IF id \in DOMAIN spawned THEN spawned[id] ELSE 0], spawned)
        /\ executors' = Flows!Over([id \in ids |-> executor], executors)
    BY <1>3
  <2>4. flowCalls' = [flowCalls EXCEPT ![c] =
                        [@ EXCEPT !.runs = ids,
                                  !.at = IF ~whole THEN "error"
                                         ELSE IF flowCalls[c].wait /\ ids # {} THEN "waiting" ELSE "accepted"]]
    BY <1>3
  <2>5. DOMAIN executor = {"by", "open"} /\ executor.by = c /\ executor.open = (c \in ServerCalls \/ (flowCalls[c].wait /\ whole))
    OBVIOUS
  <2>6. DOMAIN spawned = DOMAIN flowRuns /\ \A id \in DOMAIN spawned : spawned[id] = 1
    BY DEF FlowsInv, FlowsShape
  <2>7. whole \in BOOLEAN
    OBVIOUS
  <2> DEFINE at == IF ~whole THEN "error" ELSE IF flowCalls[c].wait /\ ids # {} THEN "waiting" ELSE "accepted"
             next == [flowCalls[c] EXCEPT !.runs = ids, !.at = at]
  <2>12. flowCalls' = [flowCalls EXCEPT ![c] = next]
    BY <2>4
  <2>13. DOMAIN flowCalls[c] = {"at", "e", "nonce", "wait", "runs"}
    BY DEF FlowsInv, FlowsShape, CallFields
  <2>14. /\ at \in {"error", "waiting", "accepted"} /\ (at = "error" <=> ~whole)
         /\ (at = "waiting" => flowCalls[c].wait) /\ (at = "accepted" => ~flowCalls[c].wait \/ ids = {})
    OBVIOUS
  <2> HIDE DEF ids, whole, executor, Children, at
  <2>15. DOMAIN next = CallFields /\ next.at = at /\ next.runs = ids /\ next.wait = flowCalls[c].wait
    BY <2>13 DEF CallFields
  <2> HIDE DEF next
  <2>8. DOMAIN flowRuns' = ids \cup DOMAIN flowRuns /\ \A id \in DOMAIN flowRuns : flowRuns'[id] = flowRuns[id]
    BY <2>2, <2>3 DEF Flows!Over
  <2>9. DOMAIN spawned' = ids \cup DOMAIN spawned /\ \A id \in DOMAIN spawned' : spawned'[id] = 1
    <3> DEFINE begun_ == [id \in ids |-> Children(id) + IF id \in DOMAIN spawned THEN spawned[id] ELSE 0]
    <3>1. DOMAIN begun_ = ids /\ \A id \in ids : begun_[id] = 1
      BY <2>2, <2>6
    <3>2. spawned' = Flows!Over(begun_, spawned)
      BY <2>3
    <3> HIDE DEF begun_
    <3> QED
      BY <2>6, <3>1, <3>2 DEF Flows!Over
  <2>10. /\ DOMAIN executors' = ids \cup DOMAIN executors
         /\ \A id \in DOMAIN executors' : executors'[id] = IF id \in ids THEN executor ELSE executors[id]
    BY <2>3 DEF Flows!Over
  <2>11. \A id \in ids : id \notin DOMAIN flowRuns
    BY <2>2
  <2> QED
    <3>1. RunsBegin(c, ids, whole, executor, next, at)
      BY <1>1, <2>5, <2>8, <2>9, <2>10, <2>11, <2>12, <2>14, <2>15 DEF RunsBegin
    <3> QED
      BY <2>7, <3>1, SomeRunsStart
<1> QED
  BY <1>2, <1>3 DEF Flows!StartRuns

LEMMA FlowsInvStep ==
    ASSUME ServerCalls \cap CommandLines = {}, FlowMatches \subseteq Seq(STRING), FlowsInv, [Flows!FlowNext]_flowsVars
    PROVE  FlowsInv'
<1>1. CASE UNCHANGED <<flowRuns, flowCalls, executors, spawned, stops>>
  <2>1. FlowsShape' <=> FlowsShape
    BY <1>1 DEF FlowsShape, Flows!Callers
  <2>2. RunsAreFollowed' <=> RunsAreFollowed
    BY <1>1 DEF RunsAreFollowed, LeavesRuns, Settled, Flows!Callers
  <2> QED
    BY <2>1, <2>2 DEF FlowsInv
<1>2. CASE UNCHANGED flowsVars \/ Flows!ServerStarts
  BY <1>1, <1>2 DEF flowsVars, Flows!ServerStarts
<1>3. CASE \E c \in Flows!Callers :
             \/ \E e \in FlowEvents, wait \in BOOLEAN : Flows!Dispatch(c, e, wait) \/ Flows!Replay(c, e, wait)
             \/ Flows!NextCall(c)
  BY <1>3, CallBegins
<1>4. CASE \E c \in Flows!Callers : Flows!StartRuns(c) \/ Flows!Answer(c)
  BY <1>4, RunsStart, AnswerIsSettled
<1>5. CASE (\E id \in DOMAIN executors : Flows!RunEnds(id)) \/ (\E killed \in BOOLEAN : Flows!ServerEnds(killed))
  BY <1>5, RunEndIsRecorded, ServerEndLeavesRuns
<1> QED
  BY <1>2, <1>3, <1>4, <1>5 DEF Flows!FlowNext

LEMMA FlowsInvTells == FlowsInv => RowsTellTheRuns
<1> SUFFICES ASSUME FlowsInv PROVE RowsTellTheRuns
  OBVIOUS
<1>1. Flows!RunsStartOnce
  BY DEF FlowsInv, FlowsShape, Flows!RunsStartOnce
<1>2. Flows!RunningIsFollowed
  BY DEF FlowsInv, RunsAreFollowed, LeavesRuns, Flows!RunningIsFollowed
<1>3. Flows!AnsweredIsSettled
  BY DEF FlowsInv, RunsAreFollowed, Settled, Flows!AnsweredIsSettled
<1> QED
  BY <1>1, <1>2, <1>3 DEF RowsTellTheRuns, Flows!RowsTellTheRuns

-----------------------------------------------------------------------------
(* The records of the flow backend and, with the theorem of its module, of *)
(* the local flow client.                                                  *)

\* Whatever calls, processes and stops interleave: the backend's store begins a run once,
\* with an executor that follows it unless a stop or its command left it, and answers a
\* waiting call when its runs are settled (store.ts, executor.ts); and a client's state file
\* executes the steps of an event once and names every run of it, replays included, unless
\* dispatches of the event overlap, a client works on an older file or a process dies
\* (local-client.ts).  The callers' kinds are disjoint, what is matched is a sequence of
\* names, and no step is matched twice for an event.
THEOREM FlowRecordsStaySound ==
    ASSUME ServerCalls \cap CommandLines = {}, FlowMatches \subseteq Seq(STRING),
           LocalSteps \in Seq(Local!StepsTaken),
           \A i, j \in DOMAIN LocalSteps : LocalSteps[i] = LocalSteps[j] => i = j
    PROVE  Spec => []FlowRecordsAreSound
<1>1. Init => FlowsInv /\ Local!LocalInit
  BY FlowsStart DEF Init
<1>2. FlowsInv /\ [Next]_vars => FlowsInv'
  <2>1. [Next]_vars => [Flows!FlowNext]_flowsVars
    BY DEF Next, vars, FlowsNext, LocalNext, HookNext, AnnouncerNext, ThreadsNext, PickersNext, HomeNext, StartNext,
           SweepNext, DashboardsNext, InboundNext, StateFileNext, SpoolNext
  <2> QED
    BY <2>1, FlowsInvStep
<1>3. [Next]_vars => [Local!LocalNext]_(Local!localVars)
  BY DEF Next, vars, FlowsNext, LocalNext, HookNext, AnnouncerNext, ThreadsNext, PickersNext, HomeNext, StartNext,
         SweepNext, DashboardsNext, InboundNext, StateFileNext, SpoolNext, localVars, Local!localVars
<1>4. Spec => Local!LocalSpec
  BY <1>1, <1>3, PTL DEF Spec, Local!LocalSpec
<1>5. Local!LocalSpec => []Local!FileTellsTheRuns
  BY Local!FileStaysTold
<1>6. FlowsInv /\ Local!FileTellsTheRuns => FlowRecordsAreSound
  BY FlowsInvTells DEF FlowRecordsAreSound, FileTellsTheRuns
<1> QED
  BY <1>1, <1>2, <1>4, <1>5, <1>6, PTL DEF Spec

-----------------------------------------------------------------------------
(* The operator session of the home channel, with the theorems of its      *)
(* module.                                                                 *)

LEMMA HomeChannelRuns == Spec => HomeChannel!OperatorSpec
<1>1. Init => HomeChannel!OperatorInit
  BY DEF Init
<1>2. [Next]_vars => [HomeChannel!OperatorNext]_(HomeChannel!vars)
  BY DEF Next, vars, FlowsNext, LocalNext, HookNext, AnnouncerNext, ThreadsNext, PickersNext, HomeNext, StartNext,
         SweepNext, DashboardsNext, InboundNext, StateFileNext, SpoolNext,
         homeVars, HomeChannel!vars, HomeChannel!state, HomeChannel!runners, HomeChannel!outside, HomeChannel!budgets
<1> QED
  BY <1>1, <1>2, PTL DEF Spec, HomeChannel!OperatorSpec

\* Whatever is configured, lost, cleared or crashed between the starts of a bridge: the
\* main thread that is saved is only given up for one that the user configured, for
\* tools that it does not have, or because it is lost (#ensureWorkspaceSession of
\* local-workspace-backend.ts).
THEOREM MainThreadIsKept ==
    ASSUME HomeChannel!HomeBounds PROVE Spec => MemoryIsKept
<1>1. HomeChannel!OperatorSpec => HomeChannel!MemoryIsKept
  BY HomeChannel!OperatorIsKept
<1> QED
  BY <1>1, HomeChannelRuns DEF MemoryIsKept

\* The bridge makes no thread of its own accord: there is the first one with the tools,
\* and each of the others follows one that was lost, or one whose bridge crashed before
\* it had saved it (start of local-workspace-backend.ts).
THEOREM ThreadsArePaidFor ==
    ASSUME HomeChannel!HomeBounds PROVE Spec => []RestartsMakeNoThread
<1>1. HomeChannel!OperatorSpec => []HomeChannel!RestartsMakeNoThread
  BY HomeChannel!RestartsArePaidFor
<1> QED
  BY <1>1, HomeChannelRuns, PTL DEF RestartsMakeNoThread

-----------------------------------------------------------------------------
(* The Discord threads, with the theorem of their module.                  *)

\* Task threads are opened once, sessions are served by their own runner and nothing
\* is queued for a session that is not stored (#materializeWorkspaceThread,
\* #registerRunner, #handleClear).
THEOREM DiscordThreadsStayTracked == ASSUME Delegated \subseteq Codex PROVE Spec => []ThreadsAreTracked
<1>1. Init => Discord!ThreadInit
  BY DEF Init
<1>2. [Next]_vars => [Discord!ThreadNext]_(Discord!threadVars)
  BY DEF Next, vars, FlowsNext, LocalNext, HookNext, AnnouncerNext, ThreadsNext, PickersNext, HomeNext, StartNext,
         SweepNext, DashboardsNext, InboundNext, StateFileNext, SpoolNext, threadsVars, Discord!threadVars
<1>3. Spec => Discord!ThreadSpec
  BY <1>1, <1>2, PTL DEF Spec, Discord!ThreadSpec
<1>4. Discord!ThreadSpec => []Discord!ThreadsAreTracked
  BY Discord!ThreadsStayTracked
<1> QED
  BY <1>3, <1>4, PTL DEF ThreadsAreTracked

-----------------------------------------------------------------------------
(* Starting the bridge (bridge.ts): its commands and the turns before it.  *)

\* The guilds that are done, while a start goes through them one by one.
CommandsAdvance ==
    /\ phase = "global" => resolved = {}
    /\ phase \in {"clear", "guilds"} => resolved # {} /\ left \subseteq resolved
    /\ phase = "clear" => left = resolved
    /\ phase = "guilds" => ~globalSet /\ resolved \ left \subseteq guildSet
StartInv == activeTurns \subseteq Chats \cup TaskThreads /\ CommandsAdvance /\ StartIsSound

LEMMA CommandsStep ==
    ASSUME StartInv, BridgeStart!StartNext
    PROVE  CommandsAdvance' /\ BridgeStart!CommandsAreOffered'
<1> USE DEF StartInv, StartIsSound, BridgeStart!StartIsSound, CommandsAdvance, BridgeStart!CommandsAreOffered
<1>1. CASE BridgeStart!Lookup
  <2>1. PICK found : resolved' = found /\ left' = found /\ phase' = IF found = {} THEN "global" ELSE "clear"
    BY <1>1 DEF BridgeStart!Lookup, BridgeStart!AfterLookup
  <2> QED
    BY <2>1
<1>2. CASE BridgeStart!SetGlobal \/ BridgeStart!ClearGlobal
  BY <1>2 DEF BridgeStart!SetGlobal, BridgeStart!ClearGlobal, BridgeStart!Goes
<1>3. ASSUME NEW g \in Guilds, BridgeStart!SetGuild(g) PROVE CommandsAdvance' /\ BridgeStart!CommandsAreOffered'
  <2>1. /\ phase = "guilds" /\ left' = left \ {g} /\ guildSet' = guildSet \cup {g}
        /\ phase' = IF left' = {} THEN "background" ELSE "guilds"
        /\ UNCHANGED <<resolved, globalSet>>
    BY <1>3 DEF BridgeStart!SetGuild
  <2>2. resolved' \ left' \subseteq guildSet' /\ resolved' # {} /\ ~globalSet' /\ left' \subseteq resolved'
    BY <2>1
  <2> QED
    BY <2>1, <2>2
<1>4. CASE UNCHANGED BridgeStart!commandVars /\ phase' \notin {"global", "clear", "guilds"}
           /\ (phase' \in {"background", "up", "stopping"} => phase \in {"background", "up", "stopping"})
  BY <1>4 DEF BridgeStart!commandVars
<1>5. CASE UNCHANGED <<BridgeStart!commandVars, phase>>
  BY <1>5 DEF BridgeStart!commandVars
<1>6. CASE BridgeStart!Start
  BY <1>6 DEF BridgeStart!Start, BridgeStart!Goes
<1> USE DEF BridgeStart!Goes
<1>7. CASE BridgeStart!BackendStarted \/ BridgeStart!LoggedIn \/ BridgeStart!WorkbenchDone \/ BridgeStart!ClientReady
  BY <1>4, <1>7 DEF BridgeStart!BackendStarted, BridgeStart!LoggedIn, BridgeStart!WorkbenchDone, BridgeStart!ClientReady
<1>8. CASE BridgeStart!StartRunners \/ BridgeStart!StartFails \/ BridgeStart!Stop
  BY <1>4, <1>8 DEF BridgeStart!StartRunners, BridgeStart!StartFails, BridgeStart!Stop
<1>9. CASE BridgeStart!Stopped \/ BridgeStart!Killed
  BY <1>4, <1>9 DEF BridgeStart!Stopped, BridgeStart!Killed, BridgeStart!Down
<1>10. ASSUME NEW s, \/ BridgeStart!TakeMessage(s) \/ BridgeStart!TurnEnds(s) \/ BridgeStart!Reconcile(s) \/ BridgeStart!RunnerStarts(s)
       PROVE  CommandsAdvance' /\ BridgeStart!CommandsAreOffered'
  BY <1>5, <1>10 DEF BridgeStart!TakeMessage, BridgeStart!TurnEnds, BridgeStart!Reconcile, BridgeStart!RunnerStarts
<1> QED
  BY <1>1, <1>2, <1>3, <1>6, <1>7, <1>8, <1>9, <1>10 DEF BridgeStart!StartNext

LEMMA TurnsStep ==
    ASSUME StartInv, BridgeStart!StartNext
    PROVE  (activeTurns \subseteq Chats \cup TaskThreads)' /\ BridgeStart!TurnsAreFollowed'
<1> USE DEF StartInv, StartIsSound, BridgeStart!StartIsSound, BridgeStart!TurnsAreFollowed
<1>1. CASE BridgeStart!StartRunners
  BY <1>1 DEF BridgeStart!StartRunners, BridgeStart!Goes
<1>2. CASE phase' # "up" /\ UNCHANGED activeTurns
  BY <1>2
<1>3. CASE BridgeStart!Stopped \/ BridgeStart!Killed \/ BridgeStart!Stop
  BY <1>2, <1>3 DEF BridgeStart!Stopped, BridgeStart!Killed, BridgeStart!Down, BridgeStart!Stop, BridgeStart!Goes
<1>4. CASE BridgeStart!Start \/ BridgeStart!BackendStarted \/ BridgeStart!LoggedIn \/ BridgeStart!WorkbenchDone \/ BridgeStart!ClientReady
  BY <1>2, <1>4 DEF BridgeStart!Start, BridgeStart!BackendStarted, BridgeStart!LoggedIn, BridgeStart!WorkbenchDone,
                    BridgeStart!ClientReady, BridgeStart!Goes, BridgeStart!turnVars
<1>5. CASE BridgeStart!Lookup
  BY <1>2, <1>5 DEF BridgeStart!Lookup, BridgeStart!AfterLookup, BridgeStart!turnVars
<1>6. CASE BridgeStart!SetGlobal \/ BridgeStart!ClearGlobal \/ BridgeStart!StartFails \/ \E g \in Guilds : BridgeStart!SetGuild(g)
  BY <1>2, <1>6 DEF BridgeStart!SetGlobal, BridgeStart!ClearGlobal, BridgeStart!StartFails, BridgeStart!SetGuild,
                    BridgeStart!Goes, BridgeStart!turnVars
<1>7. ASSUME NEW s \in BridgeStart!Talks, BridgeStart!TakeMessage(s) \/ BridgeStart!TurnEnds(s) \/ BridgeStart!Reconcile(s)
      PROVE  (activeTurns \subseteq Chats \cup TaskThreads)' /\ BridgeStart!TurnsAreFollowed'
  BY <1>7 DEF BridgeStart!TakeMessage, BridgeStart!TurnEnds, BridgeStart!Reconcile, BridgeStart!Completed, BridgeStart!Talks
<1>8. ASSUME NEW s, BridgeStart!RunnerStarts(s)
      PROVE  (activeTurns \subseteq Chats \cup TaskThreads)' /\ BridgeStart!TurnsAreFollowed'
  BY <1>8 DEF BridgeStart!RunnerStarts, BridgeStart!Completed
<1> QED
  BY <1>1, <1>3, <1>4, <1>5, <1>6, <1>7, <1>8 DEF BridgeStart!StartNext

\* Whatever earlier starts left, and however the calls of Discord fail: a start that
\* found the guilds gives each of them the commands and no command is shown twice, and
\* the turns that the state calls active are going to be looked at (start and
\* registerCommands, bridge.ts and discord-transport.ts).
THEOREM StartStaysSound == Spec => []StartIsSound
<1>1. Init => StartInv
  BY DEF Init, BridgeStart!StartInit, StartInv, CommandsAdvance, StartIsSound, BridgeStart!StartIsSound,
         BridgeStart!CommandsAreOffered, BridgeStart!TurnsAreFollowed
<1>2. StartInv /\ [Next]_vars => StartInv'
  <2>1. [Next]_vars => BridgeStart!StartNext \/ UNCHANGED startVars
    BY DEF Next, vars, FlowsNext, LocalNext, HookNext, AnnouncerNext, ThreadsNext, PickersNext, HomeNext, StartNext,
           SweepNext, DashboardsNext, InboundNext, StateFileNext, SpoolNext
  <2>2. StartInv /\ BridgeStart!StartNext => StartInv'
    BY CommandsStep, TurnsStep DEF StartInv, StartIsSound, BridgeStart!StartIsSound
  <2>3. StartInv /\ UNCHANGED startVars => StartInv'
    BY DEF startVars, StartInv, CommandsAdvance, StartIsSound, BridgeStart!StartIsSound,
           BridgeStart!CommandsAreOffered, BridgeStart!TurnsAreFollowed
  <2> QED
    BY <2>1, <2>2, <2>3
<1>3. StartInv => StartIsSound
  BY DEF StartInv
<1> QED
  BY <1>1, <1>2, <1>3, PTL DEF Spec

-----------------------------------------------------------------------------
(* The pickers of the Discord commands (local-workspace-backend.ts).       *)

ElementsOf(list) == {list[i] : i \in DOMAIN list}
\* A picker that is kept was not used, and two replies show no picker together.
PickersShape ==
    /\ screen \in [Commands -> Nat] /\ taken \in Seq(Nat)
    /\ shownAs \in Seq(ElementsOf(shownAs)) /\ Len(shownAs) = Len(taken)
    /\ pickers \subseteq DOMAIN taken
    /\ \A c \in Commands : screen[c] <= Len(taken)
    /\ \A c, d \in Commands : screen[c] = screen[d] /\ screen[c] # 0 => c = d
    /\ \A p \in pickers : taken[p] = 0
    /\ \A a \in acting : a.command \in Commands
PickersInv == PickersShape /\ PickersAreSound

LEMMA PickersInvIs ==
    PickersInv <=> PickersShape /\ Choices!PickedOnce /\ Choices!ButtonsAreAlive
  BY DEF PickersInv, PickersAreSound, Choices!PickersAreSound

LEMMA OneMoreShown ==
    ASSUME NEW s, s \in Seq(ElementsOf(s)), NEW p
    PROVE  /\ Len(Append(s, p)) = Len(s) + 1
           /\ Append(s, p) \in Seq(ElementsOf(Append(s, p)))
<1> DEFINE S == ElementsOf(s)
           S2 == S \cup {p}
           r == Append(s, p)
<1>1. s \in Seq(S2) /\ p \in S2
  <2>1. s \in Seq(S) /\ S \subseteq S2 /\ p \in S2
    OBVIOUS
  <2> HIDE DEF S, S2
  <2> QED
    BY <2>1
<1> HIDE DEF S2
<1>2. r \in Seq(S2) /\ Len(r) = Len(s) + 1
  BY <1>1
<1> HIDE DEF r
<1>3. DOMAIN r = 1..Len(r) /\ Len(r) \in Nat /\ r = [i \in 1..Len(r) |-> r[i]]
  BY <1>2
<1>4. r \in Seq(ElementsOf(r))
  BY <1>3 DEF ElementsOf
<1> QED
  BY <1>2, <1>4 DEF r

\* The reply of a command shows the picker, or nothing.
LEMMA ShownPicker ==
    ASSUME PickersInv, NEW c \in Commands, NEW p, NEW kept_ \in SUBSET pickers, NEW sent \in BOOLEAN,
           Choices!ShowPicker(c, p, kept_, sent),
           acting' \subseteq acting, UNCHANGED rebooted,
           ~rebooted => \A d \in Commands \ {c} :
               screen[d] = 0 \/ screen[d] \in kept_ \/ \E a \in acting' : a.command = d /\ a.picker = screen[d]
    PROVE  PickersInv'
<1>0. PickersShape /\ Choices!PickedOnce
  BY PickersInvIs
<1>1. CASE screen' = [screen EXCEPT ![c] = 0] /\ pickers' = kept_ /\ UNCHANGED <<shownAs, taken>>
  <2>1. screen' \in [Commands -> Nat] /\ screen'[c] = 0 /\ \A d \in Commands \ {c} : screen'[d] = screen[d]
    BY <1>0, <1>1 DEF PickersShape
  <2>2. PickersShape'
    BY <1>0, <1>1, <2>1 DEF PickersShape
  <2>3. Choices!PickedOnce' /\ Choices!ButtonsAreAlive'
    BY <1>0, <1>1, <2>1 DEF Choices!PickedOnce, Choices!ButtonsAreAlive
  <2> QED
    BY <2>2, <2>3 DEF PickersInv, PickersAreSound, Choices!PickersAreSound
<1>2. CASE /\ shownAs' = Append(shownAs, p) /\ taken' = Append(taken, 0)
           /\ pickers' = kept_ \cup (IF sent \/ p.kind = "actions" THEN {Len(shownAs')} ELSE {})
           /\ screen' = [screen EXCEPT ![c] = IF sent THEN Len(shownAs') ELSE 0]
  <2> DEFINE n == Len(taken)
  <2>1. /\ taken' \in Seq(Nat) /\ Len(taken') = n + 1 /\ n \in Nat /\ DOMAIN taken = 1..n /\ DOMAIN taken' = 1..(n + 1)
        /\ taken'[n + 1] = 0 /\ \A q \in 1..n : taken'[q] = taken[q]
    BY <1>0, <1>2 DEF PickersShape
  <2>2. Len(shownAs') = n + 1 /\ shownAs' \in Seq(ElementsOf(shownAs'))
    <3>1. shownAs \in Seq(ElementsOf(shownAs)) /\ Len(shownAs) = n
      BY <1>0 DEF PickersShape
    <3>2. /\ Len(Append(shownAs, p)) = Len(shownAs) + 1
          /\ Append(shownAs, p) \in Seq(ElementsOf(Append(shownAs, p)))
      BY <3>1, OneMoreShown
    <3>3. shownAs' = Append(shownAs, p)
      BY <1>2
    <3> HIDE DEF n
    <3> QED
      BY <3>1, <3>2, <3>3
  <2>3. screen' \in [Commands -> Nat] /\ screen'[c] = (IF sent THEN n + 1 ELSE 0) /\ \A d \in Commands \ {c} : screen'[d] = screen[d]
    BY <1>0, <1>2, <2>1, <2>2 DEF PickersShape
  <2>4. kept_ \subseteq pickers' /\ pickers' \subseteq kept_ \cup {n + 1} /\ (sent => n + 1 \in pickers')
    BY <1>2, <2>2
  <2>5. \A d \in Commands : screen[d] <= n /\ screen[d] \in Nat
    BY <1>0 DEF PickersShape
  <2>6. \A q \in pickers : q \in 1..n /\ taken[q] = 0
    BY <1>0, <2>1 DEF PickersShape
  <2>7. \A d, e \in Commands : screen[d] = screen[e] /\ screen[d] # 0 => d = e
    BY <1>0 DEF PickersShape
  <2>8. \A q \in 1..n : taken[q] <= 1
    BY <1>0, <2>1 DEF Choices!PickedOnce
  <2> HIDE DEF n
  <2>9. pickers' \subseteq DOMAIN taken' /\ \A q \in pickers' : taken'[q] = 0
    BY <2>1, <2>4, <2>6
  <2>10. \A d \in Commands : screen'[d] <= n + 1
    <3> SUFFICES ASSUME NEW d \in Commands PROVE screen'[d] <= n + 1
      OBVIOUS
    <3>1. CASE d = c
      BY <2>1, <2>3, <3>1
    <3>2. CASE d # c
      <4>1. screen'[d] = screen[d] /\ screen[d] <= n /\ screen[d] \in Nat
        BY <2>3, <2>5, <3>2
      <4> QED
        BY <2>1, <4>1
    <3> QED
      BY <3>1, <3>2
  <2>11. \A d, e \in Commands : screen'[d] = screen'[e] /\ screen'[d] # 0 => d = e
    <3>1. \A d \in Commands \ {c} : screen'[d] # n + 1
      BY <2>1, <2>3, <2>5
    <3> QED
      BY <2>3, <2>7, <3>1
  <2>12. PickersShape'
    BY <1>0, <2>1, <2>2, <2>3, <2>9, <2>10, <2>11 DEF PickersShape
  <2>13. Choices!PickedOnce'
    <3> SUFFICES ASSUME NEW q \in 1..(n + 1) PROVE taken'[q] <= 1
      BY <2>1 DEF Choices!PickedOnce
    <3> QED
      BY <2>1, <2>8
  <2>14. Choices!ButtonsAreAlive'
    BY <2>3, <2>4 DEF Choices!ButtonsAreAlive
  <2> QED
    BY <2>12, <2>13, <2>14 DEF PickersInv, PickersAreSound, Choices!PickersAreSound
<1> QED
  BY <1>1, <1>2 DEF Choices!ShowPicker

\* A picker that is pressed is used up, and its reply waits for what it does.
LEMMA PickerPressed ==
    ASSUME PickersInv, NEW c \in Commands, NEW option, Choices!Press(c, option)
    PROVE  PickersInv'
<1> DEFINE p == screen[c]
<1>0. PickersShape /\ Choices!PickedOnce /\ Choices!ButtonsAreAlive /\ p > 0 /\ UNCHANGED rebooted /\ p \in Nat
  BY PickersInvIs DEF Choices!Press, PickersShape
<1>1. CASE p \notin pickers /\ screen' = [screen EXCEPT ![c] = 0] /\ UNCHANGED <<pickers, shownAs, acting, taken>>
  <2>1. screen' \in [Commands -> Nat] /\ screen'[c] = 0 /\ \A d \in Commands \ {c} : screen'[d] = screen[d]
    BY <1>0, <1>1 DEF PickersShape
  <2>2. PickersShape'
    BY <1>0, <1>1, <2>1 DEF PickersShape
  <2>3. Choices!PickedOnce' /\ Choices!ButtonsAreAlive'
    BY <1>0, <1>1, <2>1 DEF Choices!PickedOnce, Choices!ButtonsAreAlive
  <2> QED
    BY <2>2, <2>3 DEF PickersInv, PickersAreSound, Choices!PickersAreSound
<1>2. \A d \in Commands \ {c} : screen[d] # p
  BY <1>0 DEF PickersShape
<1>3. ASSUME NEW q, p \in pickers, Choices!ShowPicker(c, q, Choices!Used(p), TRUE), UNCHANGED acting PROVE PickersInv'
  <2>1. Choices!Used(p) = pickers \ {p}
    BY DEF Choices!Used
  <2>2. ~rebooted => \A d \in Commands \ {c} :
          screen[d] = 0 \/ screen[d] \in Choices!Used(p) \/ \E a \in acting' : a.command = d /\ a.picker = screen[d]
    BY <1>0, <1>2, <1>3, <2>1 DEF Choices!ButtonsAreAlive
  <2>3. Choices!Used(p) \in SUBSET pickers /\ TRUE \in BOOLEAN /\ acting' \subseteq acting
    BY <1>3, <2>1
  <2> HIDE DEF p
  <2> QED
    BY <1>0, <1>3, <2>2, <2>3, ShownPicker
<1>4. CASE p \in pickers /\ Choices!Begin(c, p, option)
  <2>1. /\ pickers' = pickers \ {p} /\ taken' = [taken EXCEPT ![p] = @ + 1]
        /\ acting' = acting \cup {[command |-> c, picker |-> p, option |-> option]}
        /\ UNCHANGED <<shownAs, screen>>
    BY <1>4 DEF Choices!Begin, Choices!Used
  <2>2. taken[p] = 0 /\ p \in DOMAIN taken /\ taken \in Seq(Nat)
    BY <1>0, <1>4 DEF PickersShape
  <2>3. /\ taken' \in Seq(Nat) /\ Len(taken') = Len(taken) /\ DOMAIN taken' = DOMAIN taken
        /\ taken'[p] = 1 /\ \A q \in DOMAIN taken \ {p} : taken'[q] = taken[q]
    BY <2>1, <2>2
  <2>4. \A a \in acting' : a.command \in Commands
    BY <1>0, <2>1 DEF PickersShape
  <2>5. pickers' \subseteq DOMAIN taken' /\ \A q \in pickers' : taken'[q] = 0
    BY <1>0, <2>1, <2>3 DEF PickersShape
  <2>6. PickersShape'
    BY <1>0, <2>1, <2>3, <2>4, <2>5 DEF PickersShape
  <2>7. Choices!PickedOnce'
    BY <1>0, <2>3 DEF Choices!PickedOnce
  <2>8. \E a \in acting' : a.command = c /\ a.picker = screen[c]
    <3> DEFINE new == [command |-> c, picker |-> p, option |-> option]
    <3>1. new \in acting' /\ new.command = c /\ new.picker = screen[c]
      BY <2>1
    <3> HIDE DEF new
    <3> QED
      BY <3>1
  <2>9. Choices!ButtonsAreAlive'
    BY <1>0, <1>2, <2>1, <2>8 DEF Choices!ButtonsAreAlive
  <2> QED
    BY <2>6, <2>7, <2>9 DEF PickersInv, PickersAreSound, Choices!PickersAreSound
<1> QED
  BY <1>1, <1>3, <1>4 DEF Choices!Press

\* What was chosen is over: its reply shows what can be done next, or text.
LEMMA PickerIsCarried ==
    ASSUME PickersInv, NEW a \in acting, Choices!Carried(a) \/ Choices!Refused(a)
    PROVE  PickersInv'
<1>0. /\ PickersShape /\ Choices!PickedOnce /\ Choices!ButtonsAreAlive /\ a.command \in Commands
      /\ acting' = acting \ {a} /\ acting' \subseteq acting /\ UNCHANGED rebooted
  BY PickersInvIs DEF Choices!Carried, Choices!Refused, PickersShape
<1>1. \A d \in Commands \ {a.command} : \A b \in acting : b.command = d => b \in acting'
  BY <1>0
<1>2. CASE screen' = [screen EXCEPT ![a.command] = 0] /\ UNCHANGED <<pickers, shownAs, taken>>
  <2>1. screen' \in [Commands -> Nat] /\ screen'[a.command] = 0 /\ \A d \in Commands \ {a.command} : screen'[d] = screen[d]
    BY <1>0, <1>2 DEF PickersShape
  <2>2. PickersShape'
    BY <1>0, <1>2, <2>1 DEF PickersShape
  <2>3. Choices!PickedOnce' /\ Choices!ButtonsAreAlive'
    BY <1>0, <1>1, <1>2, <2>1 DEF Choices!PickedOnce, Choices!ButtonsAreAlive
  <2> QED
    BY <2>2, <2>3 DEF PickersInv, PickersAreSound, Choices!PickersAreSound
<1>3. ASSUME NEW q, Choices!ShowPicker(a.command, q, pickers, TRUE) PROVE PickersInv'
  <2>1. ~rebooted => \A d \in Commands \ {a.command} :
          screen[d] = 0 \/ screen[d] \in pickers \/ \E b \in acting' : b.command = d /\ b.picker = screen[d]
    BY <1>0, <1>1 DEF Choices!ButtonsAreAlive
  <2>2. pickers \in SUBSET pickers /\ TRUE \in BOOLEAN
    OBVIOUS
  <2> QED
    BY <1>0, <1>3, <2>1, <2>2, ShownPicker
<1>4. CASE Choices!Refused(a)
  BY <1>2, <1>4 DEF Choices!Refused
<1>5. CASE Choices!Carried(a)
  BY <1>2, <1>3, <1>5 DEF Choices!Carried
<1> QED
  BY <1>4, <1>5

LEMMA PickersStep == PickersInv /\ [Choices!PickerNext]_pickersVars => PickersInv'
<1> SUFFICES ASSUME PickersInv, Choices!PickerNext \/ UNCHANGED pickersVars PROVE PickersInv'
  OBVIOUS
<1>0. PickersShape /\ Choices!PickedOnce /\ Choices!ButtonsAreAlive
  BY PickersInvIs
<1>1. CASE UNCHANGED <<pickers, shownAs, screen, acting, taken, rebooted>>
  <2>1. PickersShape'
    BY <1>0, <1>1 DEF PickersShape
  <2>2. Choices!PickedOnce' /\ Choices!ButtonsAreAlive'
    BY <1>0, <1>1 DEF Choices!PickedOnce, Choices!ButtonsAreAlive
  <2> QED
    BY <2>1, <2>2 DEF PickersInv, PickersAreSound, Choices!PickersAreSound
<1>2. ASSUME NEW c \in Commands, NEW q, NEW sent \in BOOLEAN, Choices!ShowPicker(c, q, pickers, sent), UNCHANGED <<rebooted, acting>>
      PROVE  PickersInv'
  <2>1. ~rebooted => \A d \in Commands \ {c} :
          screen[d] = 0 \/ screen[d] \in pickers \/ \E b \in acting' : b.command = d /\ b.picker = screen[d]
    BY <1>0, <1>2 DEF Choices!ButtonsAreAlive
  <2>2. pickers \in SUBSET pickers /\ acting' \subseteq acting /\ UNCHANGED rebooted
    BY <1>2
  <2> QED
    BY <1>2, <2>1, <2>2, ShownPicker
<1>3. ASSUME NEW c \in Commands, NEW kind, Choices!AskList(c, kind) PROVE PickersInv'
  BY <1>2, <1>3 DEF Choices!AskList
<1>4. ASSUME NEW c \in Commands, NEW t, NEW g, Choices!AskGoal(c, t, g) PROVE PickersInv'
  BY <1>2, <1>4 DEF Choices!AskGoal
<1>5. ASSUME NEW t, Choices!ClearGoal(t) \/ Choices!OtherSetsGoal(t) PROVE PickersInv'
  BY <1>1, <1>5 DEF Choices!ClearGoal, Choices!OtherSetsGoal
<1>6. CASE Choices!Reboot
  <2>1. pickers' = {} /\ acting' = {} /\ rebooted' = TRUE /\ UNCHANGED <<shownAs, screen, taken>>
    BY <1>6 DEF Choices!Reboot
  <2>2. PickersShape'
    BY <1>0, <2>1 DEF PickersShape
  <2>3. Choices!PickedOnce' /\ Choices!ButtonsAreAlive'
    BY <1>0, <2>1 DEF Choices!PickedOnce, Choices!ButtonsAreAlive
  <2> QED
    BY <2>2, <2>3 DEF PickersInv, PickersAreSound, Choices!PickersAreSound
<1>7. CASE UNCHANGED pickersVars
  BY <1>1, <1>7 DEF pickersVars
<1>8. CASE Choices!PickerNext
  BY <1>3, <1>4, <1>5, <1>6, <1>8, PickerPressed, PickerIsCarried DEF Choices!PickerNext
<1> QED
  BY <1>7, <1>8

\* However often the buttons of a picker are pressed, and by whichever commands they
\* are shown: one choice of it is carried out, and unless the bridge was restarted
\* the buttons that are shown are those of a picker that is kept or being carried out
\* (handleThreadPicker of local-workspace-backend.ts, discord-transport.ts).
THEOREM PickersStaySound == Spec => []PickersAreSound
<1>1. Init => PickersInv
  <2> SUFFICES ASSUME Choices!PickerInit PROVE PickersInv
    BY DEF Init
  <2>1. pickers = {} /\ shownAs = <<>> /\ screen = [c \in Commands |-> 0] /\ acting = {} /\ taken = <<>>
    BY DEF Choices!PickerInit
  <2>2. PickersShape
    BY <2>1 DEF PickersShape
  <2>3. Choices!PickedOnce /\ Choices!ButtonsAreAlive
    BY <2>1 DEF Choices!PickedOnce, Choices!ButtonsAreAlive
  <2> QED
    BY <2>2, <2>3, PickersInvIs
<1>2. PickersInv /\ [Next]_vars => PickersInv'
  <2>1. [Next]_vars => [Choices!PickerNext]_pickersVars
    BY DEF Next, vars, FlowsNext, LocalNext, HookNext, AnnouncerNext, ThreadsNext, PickersNext, HomeNext, StartNext,
           SweepNext, DashboardsNext, InboundNext, StateFileNext, SpoolNext
  <2> QED
    BY <2>1, PickersStep
<1>3. PickersInv => PickersAreSound
  BY DEF PickersInv
<1> QED
  BY <1>1, <1>2, <1>3, PTL DEF Spec

-----------------------------------------------------------------------------
(* The voice gateway's observer of the hook spool (hook-spool.ts).         *)

IsScan(scan) == scan = [at |-> scan.at, left |-> scan.left]

\* What is left of a scan is read until nothing is; what was seen is not announced
\* again, and what a scan still has to read is what it found.
HookInv ==
    /\ pendingFiles \subseteq Hook!HookFiles
    /\ IsScan(hookScan)
    /\ hookScan.left \in Seq(Hook!HookFiles)
    /\ hookScan.at = "reading" <=> hookScan.left # <<>>
    /\ heardHooks \in [Hook!HookFiles -> Nat]
    /\ \A f \in Hook!HookFiles :
         /\ heardHooks[f] <= 1
         /\ heardHooks[f] = 1 => f \in seenFiles /\ f \notin OldFiles
    /\ Hook!NewHookIsScanned

LEMMA HookStart == Hook!HookInit => HookInv
<1> SUFFICES ASSUME Hook!HookInit PROVE HookInv
  OBVIOUS
<1>1. pendingFiles \subseteq Hook!HookFiles /\ Hook!NewHookIsScanned
  BY DEF Hook!HookInit, Hook!HookFiles, Hook!NewHookIsScanned
<1>2. hookScan = [at |-> "none", left |-> <<>>]
  BY DEF Hook!HookInit, Hook!NoScan
<1>3. heardHooks = [f \in Hook!HookFiles |-> 0]
  BY DEF Hook!HookInit
<1> QED
  BY <1>1, <1>2, <1>3 DEF HookInv, IsScan

LEMMA HookCards == \A S : Hook!Cardinality(S) = Cardinality(S)
  BY DEF Hook!Cardinality, Cardinality

\* A listing is a sequence of the files of the directory, and has all of them.
LEMMA ListingIsWhole ==
    ASSUME NEW S, IsFiniteSet(S), NEW s \in Hook!SetToSeqs(S)
    PROVE  s \in Seq(S) /\ \A f \in S : f \in Hook!ToSet(s)
<1> DEFINE D == 1..Cardinality(S)
<1>1. Cardinality(S) \in Nat
  BY FS_CardinalityType
<1>2. s \in [D -> S] /\ \A i, j \in D : i # j => s[i] # s[j]
  BY HookCards DEF Hook!SetToSeqs
<1>3. s \in Injection(D, S)
  BY <1>2 DEF Injection, IsInjective
<1>4. Cardinality(D) = Cardinality(S)
  BY <1>1, FS_Interval
<1>5. s \in Surjection(D, S)
  BY <1>3, <1>4, FS_Injection
<1>6. s \in Seq(S)
  BY <1>1, <1>2
<1>7. \A f \in S : \E i \in D : s[i] = f
  BY <1>5 DEF Surjection
<1> QED
  BY <1>2, <1>6, <1>7 DEF Hook!ToSet

\* A file of the directory keeps its place among those to be read, unless it is the first.
LEMMA RestIsLeft ==
    ASSUME NEW S, NEW s \in Seq(S), s # <<>>
    PROVE  /\ Head(s) \in S /\ Tail(s) \in Seq(S) /\ (Len(s) = 1 <=> Tail(s) = <<>>)
           /\ \A f \in Hook!ToSet(s) : f = Head(s) \/ f \in Hook!ToSet(Tail(s))
<1>1. Head(s) \in S /\ Tail(s) \in Seq(S) /\ Len(Tail(s)) = Len(s) - 1 /\ Len(s) \in Nat
  OBVIOUS
<1>2. Len(s) = 1 <=> Tail(s) = <<>>
  <2> DEFINE rest == Tail(s)
  <2>1. rest \in Seq(S) /\ Len(rest) = Len(s) - 1 /\ Len(s) \in Nat
    BY <1>1
  <2> HIDE DEF rest
  <2>2. Len(rest) = 0 <=> rest = <<>>
    BY <2>1, EmptySeq
  <2>3. Len(s) = 1 <=> rest = <<>>
    BY <2>1, <2>2
  <2> QED
    BY <2>3 DEF rest
<1>3. ASSUME NEW f \in Hook!ToSet(s), f # Head(s) PROVE f \in Hook!ToSet(Tail(s))
  <2>1. PICK i \in 1..Len(s) : s[i] = f
    BY <1>3 DEF Hook!ToSet
  <2>2. i # 1
    BY <1>3, <2>1
  <2>3. i - 1 \in 1..Len(Tail(s)) /\ Tail(s)[i - 1] = f
    BY <1>1, <2>1, <2>2
  <2>4. i - 1 \in DOMAIN Tail(s)
    BY <1>1, <2>3
  <2> QED
    BY <2>3, <2>4 DEF Hook!ToSet
<1> QED
  BY <1>1, <1>2, <1>3

\* The files that come and go leave a scan to be made.
LEMMA SpoolChanges ==
    HookInv /\ (\E f \in Hook!HookFiles : Hook!WriteHook(f) \/ Hook!ArchiveHook(f)) => HookInv'
<1> SUFFICES ASSUME HookInv, NEW f \in Hook!HookFiles, Hook!WriteHook(f) \/ Hook!ArchiveHook(f)
             PROVE  HookInv'
  OBVIOUS
<1>1. /\ pendingFiles' \subseteq Hook!HookFiles /\ scanTimer'
      /\ UNCHANGED <<seenFiles, hookScan, heardHooks>>
  BY DEF HookInv, Hook!WriteHook, Hook!ArchiveHook
<1>2. Hook!NewHookIsScanned'
  BY <1>1 DEF Hook!NewHookIsScanned
<1> QED
  BY <1>1, <1>2 DEF HookInv, IsScan, Hook!HookFiles

LEMMA ScanStarts == HookInv /\ Hook!Scan => HookInv'
<1> SUFFICES ASSUME HookInv, Hook!Scan PROVE HookInv'
  OBVIOUS
<1>1. UNCHANGED <<pendingFiles, seenFiles, heardHooks>>
  BY DEF Hook!Scan
<1>2. CASE hookScan' = [at |-> "listing", left |-> <<>>]
  <2>1. Hook!NewHookIsScanned'
    BY <1>2 DEF Hook!NewHookIsScanned
  <2> QED
    BY <1>1, <1>2, <2>1 DEF HookInv, IsScan, Hook!HookFiles
<1>3. CASE /\ hookScan.at # "none" /\ UNCHANGED hookScan
           /\ dropped' = dropped \cup (pendingFiles \ (seenFiles \cup Hook!ToSet(hookScan.left)))
  <2>1. Hook!NewHookIsScanned'
    BY <1>1, <1>3 DEF Hook!NewHookIsScanned, Hook!ToSet
  <2> QED
    BY <1>1, <1>3, <2>1 DEF HookInv, IsScan, Hook!HookFiles
<1> QED
  BY <1>2, <1>3 DEF Hook!Scan, Hook!NoScan

LEMMA DirectoryIsListed ==
    ASSUME IsFiniteSet(Hook!HookFiles), HookInv, Hook!ListHooks
    PROVE  HookInv'
<1>1. UNCHANGED <<pendingFiles, seenFiles, scanTimer, heardHooks>>
  BY DEF Hook!ListHooks
<1>2. CASE hookScan' = Hook!NoScan /\ dropped' = dropped \cup (pendingFiles \ seenFiles)
  <2>1. Hook!NewHookIsScanned'
    BY <1>1, <1>2 DEF Hook!NewHookIsScanned
  <2> QED
    BY <1>1, <1>2, <2>1 DEF HookInv, IsScan, Hook!HookFiles, Hook!NoScan
<1>3. ASSUME NEW names \in Hook!Listing(pendingFiles), UNCHANGED dropped,
             hookScan' = IF names = <<>> THEN Hook!NoScan ELSE [at |-> "reading", left |-> names]
      PROVE  HookInv'
  <2>1. names \in Seq(Hook!HookFiles) /\ \A f \in pendingFiles : f \in Hook!ToSet(names)
    <3>1. CASE pendingFiles = {}
      BY <3>1 DEF Hook!Listing
    <3>2. CASE pendingFiles # {}
      <4>1. IsFiniteSet(pendingFiles)
        BY FS_Subset DEF HookInv
      <4>2. names \in Hook!SetToSeqs(pendingFiles)
        BY <3>2 DEF Hook!Listing
      <4>3. names \in Seq(pendingFiles) /\ \A f \in pendingFiles : f \in Hook!ToSet(names)
        BY <4>1, <4>2, ListingIsWhole
      <4> QED
        BY <4>3 DEF HookInv
    <3> QED
      BY <3>1, <3>2
  <2>2. hookScan'.left = names /\ hookScan'.at = (IF names = <<>> THEN "none" ELSE "reading")
        /\ hookScan' = [at |-> hookScan'.at, left |-> hookScan'.left]
    BY <1>3 DEF Hook!NoScan
  <2>3. \A f \in pendingFiles : f \in Hook!ToSet(hookScan'.left)
    BY <2>1, <2>2
  <2>4. Hook!NewHookIsScanned'
    BY <1>1, <2>3 DEF Hook!NewHookIsScanned, Hook!ToSet
  <2> QED
    BY <1>1, <2>1, <2>2, <2>4 DEF HookInv, IsScan, Hook!HookFiles
<1> QED
  BY <1>2, <1>3 DEF Hook!ListHooks

LEMMA ScanRecord ==
    ASSUME NEW scan, IsScan(scan), NEW rest
    PROVE  [scan EXCEPT !.left = rest] = [at |-> scan.at, left |-> rest]
<1>1. [scan EXCEPT !.left = rest] = [x \in {"at", "left"} |-> IF x = "left" THEN rest ELSE scan[x]]
  BY DEF IsScan
<1> QED
  BY <1>1

LEMMA FileIsProcessed == HookInv /\ Hook!ProcessFile => HookInv'
<1> SUFFICES ASSUME HookInv, Hook!ProcessFile PROVE HookInv'
  OBVIOUS
<1> DEFINE f == Head(hookScan.left)
           announce == f \notin seenFiles /\ f \in pendingFiles /\ f \notin OldFiles /\ f \notin TornFiles
<1>1. hookScan.left # <<>> /\ hookScan.left \in Seq(Hook!HookFiles)
  BY DEF HookInv, Hook!ProcessFile
<1>2. /\ f \in Hook!HookFiles /\ Tail(hookScan.left) \in Seq(Hook!HookFiles)
      /\ Len(hookScan.left) = 1 <=> Tail(hookScan.left) = <<>>
      /\ \A g \in Hook!ToSet(hookScan.left) : g = f \/ g \in Hook!ToSet(Tail(hookScan.left))
  BY <1>1, RestIsLeft
<1>3. /\ UNCHANGED <<pendingFiles, scanTimer, dropped>>
      /\ (f \in seenFiles' \/ f \in TornFiles)
      /\ seenFiles \subseteq seenFiles'
      /\ heardHooks' = IF announce THEN [heardHooks EXCEPT ![f] = @ + 1] ELSE heardHooks
      /\ announce => f \in seenFiles'
  BY DEF Hook!ProcessFile, Hook!Old
<1>4. hookScan' = [at |-> IF Tail(hookScan.left) = <<>> THEN "none" ELSE "reading", left |-> Tail(hookScan.left)]
  <2>1. hookScan' = IF Len(hookScan.left) = 1 THEN [at |-> "none", left |-> <<>>]
                    ELSE [hookScan EXCEPT !.left = Tail(hookScan.left)]
    BY DEF Hook!ProcessFile, Hook!NoScan
  <2>2. hookScan.at = "reading" /\ IsScan(hookScan)
    BY DEF HookInv, Hook!ProcessFile
  <2>3. [hookScan EXCEPT !.left = Tail(hookScan.left)] = [at |-> "reading", left |-> Tail(hookScan.left)]
    BY <2>2, ScanRecord
  <2> QED
    BY <1>2, <2>1, <2>3
<1>5. Hook!NewHookIsScanned'
  <2> SUFFICES ASSUME NEW g \in (pendingFiles \cap NewFiles) \ (seenFiles' \cup TornFiles)
               PROVE  scanTimer \/ g \in Hook!ToSet(Tail(hookScan.left)) \/ g \in dropped
    BY <1>3, <1>4 DEF Hook!NewHookIsScanned, Hook!ToSet
  <2>1. g \notin seenFiles /\ g # f
    BY <1>3
  <2>2. scanTimer \/ g \in Hook!ToSet(hookScan.left) \/ g \in dropped
    BY <2>1 DEF HookInv, Hook!NewHookIsScanned, Hook!ProcessFile
  <2> QED
    BY <1>2, <2>1, <2>2
<1>6. /\ heardHooks' \in [Hook!HookFiles -> Nat]
      /\ \A g \in Hook!HookFiles : heardHooks'[g] <= 1 /\ (heardHooks'[g] = 1 => g \in seenFiles' /\ g \notin OldFiles)
  <2>1. CASE announce
    <3>1. heardHooks' = [heardHooks EXCEPT ![f] = @ + 1] /\ f \in seenFiles' /\ f \notin OldFiles /\ f \notin seenFiles
      BY <1>3, <2>1
    <3>2. heardHooks[f] = 0
      BY <1>2, <3>1 DEF HookInv
    <3>3. heardHooks' \in [Hook!HookFiles -> Nat] /\ heardHooks'[f] = 1 /\ \A g \in Hook!HookFiles : g # f => heardHooks'[g] = heardHooks[g]
      BY <1>2, <3>1, <3>2 DEF HookInv
    <3> QED
      BY <1>3, <3>1, <3>3 DEF HookInv
  <2>2. CASE ~announce
    <3>1. heardHooks' = heardHooks
      BY <1>3, <2>2
    <3> QED
      BY <1>3, <3>1 DEF HookInv
  <2> QED
    BY <2>1, <2>2
<1> QED
  BY <1>2, <1>3, <1>4, <1>5, <1>6 DEF HookInv, IsScan, Hook!HookFiles

LEMMA HookInvStep ==
    ASSUME IsFiniteSet(Hook!HookFiles), HookInv, [Hook!HookNext]_hookVars
    PROVE  HookInv'
<1>1. CASE UNCHANGED hookVars
  BY <1>1 DEF hookVars, HookInv, IsScan, Hook!NewHookIsScanned, Hook!HookFiles, Hook!ToSet
<1>2. CASE Hook!HookNext
  BY <1>2, SpoolChanges, ScanStarts, DirectoryIsListed, FileIsProcessed DEF Hook!HookNext
<1> QED
  BY <1>1, <1>2

LEMMA HookInvTells == HookInv => HookHeardOnce /\ NewHookIsScanned
<1> SUFFICES ASSUME HookInv PROVE HookHeardOnce /\ NewHookIsScanned
  OBVIOUS
<1>1. \A f \in Hook!HookFiles : heardHooks[f] \in Nat
  BY DEF HookInv
<1>2. \A f \in Hook!HookFiles : heardHooks[f] <= IF f \in OldFiles THEN 0 ELSE 1
  BY <1>1 DEF HookInv
<1> QED
  BY <1>2 DEF HookInv, HookHeardOnce, NewHookIsScanned, Hook!HookHeardOnce

-----------------------------------------------------------------------------
(* The announcer thread of the voice gateway (gateway.ts, announcer.ts).   *)

Completion == [thread: Nat, turn: VoiceTurns \cup Nat]
OwnTurn == [thread: Nat, runs: BOOLEAN]
IsPolish(c) == c = [of |-> c.of, own |-> c.own, thread |-> c.thread, at |-> c.at]

\* The known announcer thread is the last one; every turn, call and completion is
\* of a thread that was started; and with a single one none was taken for news.
AnnouncerInv ==
    /\ ownThreads \in Nat /\ announcer = ownThreads
    /\ completions \in Seq(Completion)
    /\ \A i \in DOMAIN completions : completions[i].thread <= ownThreads
    /\ ownTurns \in Seq(OwnTurn)
    /\ \A i \in DOMAIN ownTurns : ownTurns[i].thread <= ownThreads
    /\ \A c \in polish : IsPolish(c) /\ c.thread \in 0..ownThreads
    /\ Announcer!OneAnnouncerIsSilent

LEMMA AnnouncerStart == Announcer!AnnouncerInit => AnnouncerInv
  BY DEF Announcer!AnnouncerInit, AnnouncerInv, Announcer!OneAnnouncerIsSilent

\* A completion joins those on their way.
LEMMA CompletionJoins ==
    ASSUME AnnouncerInv, NEW t \in 0..ownThreads, NEW u \in VoiceTurns \cup Nat,
           completions' = Append(completions, [thread |-> t, turn |-> u])
    PROVE  /\ completions' \in Seq(Completion)
           /\ \A i \in DOMAIN completions' : completions'[i].thread <= ownThreads
<1> DEFINE n == [thread |-> t, turn |-> u]
<1>1. n \in Completion /\ n.thread <= ownThreads
  BY DEF AnnouncerInv, Completion
<1>2. completions \in Seq(Completion)
  BY DEF AnnouncerInv
<1>3. completions' \in Seq(Completion) /\ Len(completions') = Len(completions) + 1
  BY <1>1, <1>2
<1>4. \A i \in DOMAIN completions' : (i \in DOMAIN completions /\ completions'[i] = completions[i]) \/ completions'[i] = n
  BY <1>1, <1>2, <1>3
<1> QED
  BY <1>1, <1>3, <1>4 DEF AnnouncerInv

LEMMA TurnEndIsTold ==
    ASSUME AnnouncerInv, NEW t \in VoiceTurns, Announcer!WorkspaceTurnEnds(t)
    PROVE  AnnouncerInv'
<1>1. UNCHANGED <<polish, announcer, ownThreads, ownTurns, heardItself>>
  BY DEF Announcer!WorkspaceTurnEnds
<1>2. completions' = Append(completions, [thread |-> 0, turn |-> t])
  BY DEF Announcer!WorkspaceTurnEnds, Announcer!Workspace
<1>3. 0 \in 0..ownThreads /\ t \in VoiceTurns \cup Nat
  BY DEF AnnouncerInv
<1>4. /\ completions' \in Seq(Completion)
      /\ \A i \in DOMAIN completions' : completions'[i].thread <= ownThreads
  BY <1>2, <1>3, CompletionJoins
<1> QED
  BY <1>1, <1>4 DEF AnnouncerInv, Announcer!OneAnnouncerIsSilent

LEMMA OwnTurnEndIsTold ==
    ASSUME AnnouncerInv, NEW i \in DOMAIN ownTurns, Announcer!OwnTurnEnds(i)
    PROVE  AnnouncerInv'
<1>1. UNCHANGED <<polish, announcer, ownThreads, heardItself>> /\ ownTurns' = [ownTurns EXCEPT ![i].runs = FALSE]
  BY DEF Announcer!OwnTurnEnds
<1>2. completions' = Append(completions, [thread |-> ownTurns[i].thread, turn |-> i])
  BY DEF Announcer!OwnTurnEnds
<1>3. /\ ownTurns \in Seq(OwnTurn) /\ i \in Nat /\ ownThreads \in Nat
      /\ ownTurns[i].thread \in Nat /\ ownTurns[i].thread <= ownThreads
  <2>1. ownTurns \in Seq(OwnTurn) /\ ownThreads \in Nat /\ ownTurns[i].thread <= ownThreads
    BY DEF AnnouncerInv
  <2>2. ownTurns[i] \in OwnTurn /\ i \in Nat
    BY <2>1
  <2> QED
    BY <2>1, <2>2 DEF OwnTurn
<1>4. /\ completions' \in Seq(Completion)
      /\ \A j \in DOMAIN completions' : completions'[j].thread <= ownThreads
  <2>1. ownTurns[i].thread \in 0..ownThreads /\ i \in VoiceTurns \cup Nat
    BY <1>3
  <2> QED
    BY <1>2, <2>1, CompletionJoins
<1>5. ownTurns' \in Seq(OwnTurn) /\ DOMAIN ownTurns' = DOMAIN ownTurns
  <2>1. [ownTurns[i] EXCEPT !.runs = FALSE] \in OwnTurn
    <3>1. ownTurns[i] \in OwnTurn
      BY <1>3
    <3> QED
      BY <3>1 DEF OwnTurn
  <2> QED
    BY <1>1, <1>3, <2>1
<1>6. \A j \in DOMAIN ownTurns' : ownTurns'[j].thread = ownTurns[j].thread
  BY <1>1, <1>3, <1>5
<1> QED
  BY <1>1, <1>4, <1>5, <1>6 DEF AnnouncerInv, Announcer!OneAnnouncerIsSilent

\* With one announcer thread, its completions are the only ones of another thread
\* than the workspace's, and they are ignored.
LEMMA CompletionIsHandled == AnnouncerInv /\ Announcer!HandleCompletion => AnnouncerInv'
<1> SUFFICES ASSUME AnnouncerInv, Announcer!HandleCompletion PROVE AnnouncerInv'
  OBVIOUS
<1> DEFINE n == Head(completions)
<1>1. UNCHANGED <<announcer, ownThreads, ownTurns>> /\ completions # <<>> /\ completions' = Tail(completions)
  BY DEF Announcer!HandleCompletion
<1>2. completions \in Seq(Completion) /\ ownThreads \in Nat /\ announcer = ownThreads
  BY DEF AnnouncerInv
<1>3. n.thread \in Nat /\ n.thread <= ownThreads
  <2>1. 1 \in DOMAIN completions /\ n = completions[1]
    BY <1>1, <1>2
  <2>2. n \in Completion
    BY <1>2, <2>1
  <2>3. n.thread <= ownThreads
    BY <2>1 DEF AnnouncerInv
  <2> QED
    BY <2>2, <2>3 DEF Completion
<1>4. /\ completions' \in Seq(Completion)
      /\ \A i \in DOMAIN completions' : completions'[i].thread <= ownThreads
  <2>1. completions' \in Seq(Completion) /\ Len(completions') = Len(completions) - 1
    BY <1>1, <1>2
  <2>2. \A i \in DOMAIN completions' : i + 1 \in DOMAIN completions /\ completions'[i] = completions[i + 1]
    BY <1>1, <1>2, <2>1
  <2> QED
    BY <2>1, <2>2 DEF AnnouncerInv
<1>5. \A c \in polish' : IsPolish(c) /\ c.thread \in 0..ownThreads
  <2>1. \A c \in polish' : c \in polish \/ (IsPolish(c) /\ (c.thread = announcer \/ c.thread = 0))
    BY DEF Announcer!HandleCompletion, IsPolish
  <2> QED
    BY <1>2, <2>1 DEF AnnouncerInv
<1>6. ownThreads <= 1 => ~heardItself'
  <2> SUFFICES ASSUME ownThreads <= 1 PROVE ~heardItself'
    OBVIOUS
  <2>1. ~heardItself
    BY DEF AnnouncerInv, Announcer!OneAnnouncerIsSilent
  <2>2. n.thread = 0 \/ n.thread = announcer
    BY <1>2, <1>3
  <2>3. n.thread = 0 \/ n.thread \in Announcer!Ignored
    BY <2>2 DEF Announcer!Ignored, Announcer!Workspace
  <2> QED
    BY <2>1, <2>3 DEF Announcer!HandleCompletion, Announcer!Workspace
<1> QED
  BY <1>1, <1>4, <1>5, <1>6 DEF AnnouncerInv, Announcer!OneAnnouncerIsSilent

\* The steps of a call that polishes.
LEMMA PolishGoesOn ==
    ASSUME AnnouncerInv, NEW c \in polish,
           Announcer!Connected(c) \/ Announcer!Polished(c) \/ Announcer!PolishFails(c)
    PROVE  AnnouncerInv'
<1>1. UNCHANGED <<completions, announcer, ownThreads, ownTurns, heardItself>>
  BY DEF Announcer!Connected, Announcer!Polished, Announcer!PolishFails
<1>2. IsPolish(c) /\ c.thread \in 0..ownThreads /\ announcer = ownThreads /\ ownThreads \in Nat
  BY DEF AnnouncerInv
<1>3. \A d \in polish' : IsPolish(d) /\ d.thread \in 0..ownThreads
  <2>1. CASE Announcer!Connected(c)
    <3> DEFINE a == IF announcer = 0 THEN "thread" ELSE "start"
               d == [c EXCEPT !.thread = announcer, !.at = a]
    <3> HIDE DEF a
    <3>0. d = [x \in {"of", "own", "thread", "at"} |-> IF x = "at" THEN a ELSE IF x = "thread" THEN announcer ELSE c[x]]
      BY <1>2 DEF IsPolish
    <3> HIDE DEF d
    <3>1. IsPolish(d) /\ d.thread = announcer
      BY <3>0 DEF IsPolish
    <3>2. IsPolish(d) /\ d.thread \in 0..ownThreads
      BY <1>2, <3>1
    <3>3. polish' = (polish \ {c}) \cup {d}
      BY <2>1 DEF Announcer!Connected, Announcer!Step, a, d
    <3> QED
      BY <3>2, <3>3 DEF AnnouncerInv
  <2>2. CASE Announcer!Polished(c) \/ Announcer!PolishFails(c)
    <3>1. polish' = polish \ {c}
      BY <2>2 DEF Announcer!Polished, Announcer!PolishFails, Announcer!Announce
    <3> QED
      BY <3>1 DEF AnnouncerInv
  <2> QED
    BY <2>1, <2>2
<1> QED
  BY <1>1, <1>3 DEF AnnouncerInv, Announcer!OneAnnouncerIsSilent

LEMMA AnnouncerThreadStarts ==
    ASSUME AnnouncerInv, NEW c \in polish, Announcer!ThreadStarted(c)
    PROVE  AnnouncerInv'
<1>1. /\ UNCHANGED <<completions, ownTurns, heardItself>>
      /\ ownThreads' = ownThreads + 1 /\ announcer' = ownThreads + 1
  BY DEF Announcer!ThreadStarted
<1>2. ownThreads \in Nat /\ IsPolish(c)
  BY DEF AnnouncerInv
<1>3. \A d \in polish' : IsPolish(d) /\ d.thread \in 0..ownThreads'
  <2> DEFINE d == [c EXCEPT !.at = "start", !.thread = ownThreads + 1]
  <2>0. d = [x \in {"of", "own", "thread", "at"} |-> IF x = "at" THEN "start" ELSE IF x = "thread" THEN ownThreads + 1 ELSE c[x]]
    BY <1>2 DEF IsPolish
  <2> HIDE DEF d
  <2>1. IsPolish(d) /\ d.thread = ownThreads + 1
    BY <2>0 DEF IsPolish
  <2>2. IsPolish(d) /\ d.thread \in 0..ownThreads'
    BY <1>1, <1>2, <2>1
  <2>3. polish' = (polish \ {c}) \cup {d}
    BY DEF Announcer!ThreadStarted, Announcer!Step, d
  <2>4. 0..ownThreads \subseteq 0..ownThreads'
    BY <1>1, <1>2
  <2> QED
    BY <2>2, <2>3, <2>4 DEF AnnouncerInv
<1>4. completions \in Seq(Completion) /\ ownTurns \in Seq(OwnTurn)
  BY DEF AnnouncerInv
<1>5. /\ \A i \in DOMAIN completions : completions[i].thread \in Nat /\ completions[i].thread <= ownThreads
      /\ \A i \in DOMAIN ownTurns : ownTurns[i].thread \in Nat /\ ownTurns[i].thread <= ownThreads
  <2>1. \A i \in DOMAIN completions : completions[i] \in Completion
    BY <1>4
  <2>2. \A i \in DOMAIN ownTurns : ownTurns[i] \in OwnTurn
    BY <1>4
  <2> QED
    BY <2>1, <2>2 DEF AnnouncerInv, Completion, OwnTurn
<1>6. /\ \A i \in DOMAIN completions : completions[i].thread <= ownThreads'
      /\ \A i \in DOMAIN ownTurns : ownTurns[i].thread <= ownThreads'
  BY <1>1, <1>2, <1>5
<1>7. ownThreads' <= 1 => ~heardItself'
  BY <1>1, <1>2 DEF AnnouncerInv, Announcer!OneAnnouncerIsSilent
<1>8. ownThreads' \in Nat /\ announcer' = ownThreads'
  BY <1>1, <1>2
<1> QED
  BY <1>1, <1>3, <1>4, <1>6, <1>7, <1>8 DEF AnnouncerInv, Announcer!OneAnnouncerIsSilent

LEMMA PolishTurnStarts ==
    ASSUME AnnouncerInv, NEW c \in polish, Announcer!PolishTurn(c)
    PROVE  AnnouncerInv'
<1>1. /\ UNCHANGED <<completions, announcer, ownThreads, heardItself>>
      /\ ownTurns' = Append(ownTurns, [thread |-> c.thread, runs |-> TRUE])
  BY DEF Announcer!PolishTurn
<1>2. /\ ownThreads \in Nat /\ IsPolish(c) /\ c.thread \in 0..ownThreads
      /\ ownTurns \in Seq(OwnTurn)
  BY DEF AnnouncerInv
<1>3. \A d \in polish' : IsPolish(d) /\ d.thread \in 0..ownThreads
  <2> DEFINE d == [c EXCEPT !.at = "wait", !.own = Len(ownTurns) + 1]
  <2>0. d = [x \in {"of", "own", "thread", "at"} |-> IF x = "at" THEN "wait" ELSE IF x = "own" THEN Len(ownTurns) + 1 ELSE c[x]]
    BY <1>2 DEF IsPolish
  <2> HIDE DEF d
  <2>1. IsPolish(d) /\ d.thread = c.thread
    BY <2>0 DEF IsPolish
  <2>2. IsPolish(d) /\ d.thread \in 0..ownThreads
    BY <1>2, <2>1
  <2>3. polish' = (polish \ {c}) \cup {d}
    BY DEF Announcer!PolishTurn, Announcer!Step, d
  <2> QED
    BY <2>2, <2>3 DEF AnnouncerInv
<1>4. [thread |-> c.thread, runs |-> TRUE] \in OwnTurn
  BY <1>2 DEF OwnTurn
<1>5. ownTurns' \in Seq(OwnTurn) /\ Len(ownTurns') = Len(ownTurns) + 1
  BY <1>1, <1>2, <1>4
<1>6. \A i \in DOMAIN ownTurns' : (i \in DOMAIN ownTurns /\ ownTurns'[i] = ownTurns[i]) \/ ownTurns'[i].thread = c.thread
  BY <1>1, <1>2, <1>4, <1>5
<1>7. \A i \in DOMAIN ownTurns' : ownTurns'[i].thread <= ownThreads
  BY <1>2, <1>6 DEF AnnouncerInv
<1> QED
  BY <1>1, <1>3, <1>5, <1>7 DEF AnnouncerInv, Announcer!OneAnnouncerIsSilent

LEMMA AnnouncerInvStep == AnnouncerInv /\ [Announcer!AnnouncerNext]_announcerVars => AnnouncerInv'
<1> SUFFICES ASSUME AnnouncerInv, [Announcer!AnnouncerNext]_announcerVars PROVE AnnouncerInv'
  OBVIOUS
<1>1. CASE UNCHANGED announcerVars
  BY <1>1 DEF announcerVars, AnnouncerInv, Announcer!OneAnnouncerIsSilent
<1>2. CASE Announcer!AnnouncerNext
  BY <1>2, TurnEndIsTold, OwnTurnEndIsTold, CompletionIsHandled, PolishGoesOn, AnnouncerThreadStarts, PolishTurnStarts
     DEF Announcer!AnnouncerNext
<1> QED
  BY <1>1, <1>2

\* Whatever files come and go, scans fall together and announcements are polished at a
\* time: the voice gateway announces a Stop event once and none from before its start, a
\* new one is about to be read unless its scan failed or fell into another (hook-spool.ts),
\* and with one announcer thread it announces nothing of its own (gateway.ts).
THEOREM VoiceStaysSound ==
    ASSUME IsFiniteSet(OldFiles), IsFiniteSet(NewFiles) PROVE Spec => []VoiceIsSound
<1>1. IsFiniteSet(Hook!HookFiles)
  BY FS_Union DEF Hook!HookFiles
<1>2. Init => HookInv /\ AnnouncerInv
  BY HookStart, AnnouncerStart DEF Init
<1>3. HookInv /\ [Next]_vars => HookInv'
  <2>1. [Next]_vars => [Hook!HookNext]_hookVars
    BY DEF Next, vars, FlowsNext, LocalNext, HookNext, AnnouncerNext, ThreadsNext, PickersNext, HomeNext, StartNext,
           SweepNext, DashboardsNext, InboundNext, StateFileNext, SpoolNext
  <2> QED
    BY <1>1, <2>1, HookInvStep
<1>4. AnnouncerInv /\ [Next]_vars => AnnouncerInv'
  <2>1. [Next]_vars => [Announcer!AnnouncerNext]_announcerVars
    BY DEF Next, vars, FlowsNext, LocalNext, HookNext, AnnouncerNext, ThreadsNext, PickersNext, HomeNext, StartNext,
           SweepNext, DashboardsNext, InboundNext, StateFileNext, SpoolNext
  <2> QED
    BY <2>1, AnnouncerInvStep
<1>5. HookInv /\ AnnouncerInv => VoiceIsSound
  BY HookInvTells DEF AnnouncerInv, VoiceIsSound, OneAnnouncerIsSilent
<1> QED
  BY <1>2, <1>3, <1>4, <1>5, PTL DEF Spec

=============================================================================
