---------------------------- MODULE RunLifecycle ----------------------------
(***************************************************************************)
(* What the Convex control plane promises about one flow run: a run is     *)
(* created queued, is handed to at most one worker at a time, may be       *)
(* handed out again only when the previous holder has lost it, and is      *)
(* completed or failed only by the worker that holds it.  No clock, no     *)
(* attempt numbers, no lease tokens: FlowLeases implements this.           *)
(***************************************************************************)
EXTENDS FiniteSets

CONSTANTS
    Runs,      \* the run ids that can ever exist
    Workers,   \* the external workers that claim runs
    NoWorker   \* stands for "nobody holds the run"

VARIABLES
    status,    \* status[r]: "none" while the run does not exist
    holder     \* holder[r]: the worker that may still settle r, or NoWorker

vars == <<status, holder>>

Statuses == {"none", "queued", "running", "completed", "failed", "canceled"}
Settled == {"completed", "failed"}

TypeOK ==
    /\ status \in [Runs -> Statuses]
    /\ holder \in [Runs -> Workers \cup {NoWorker}]

Init ==
    /\ status = [r \in Runs |-> "none"]
    /\ holder = [r \in Runs |-> NoWorker]

\* A dispatch or a replay creates any number of runs that did not exist.
Create(R) ==
    /\ \A r \in R : status[r] = "none"
    /\ status' = [r \in Runs |-> IF r \in R THEN "queued" ELSE status[r]]
    /\ UNCHANGED holder

\* A queued run, or one whose holder lost it, is handed to a worker.
Grant(r, w) ==
    /\ status[r] \in {"queued", "running"}
    /\ holder[r] = NoWorker
    /\ status' = [status EXCEPT ![r] = "running"]
    /\ holder' = [holder EXCEPT ![r] = w]

\* Time passes and the holders of the runs in R lose them.
Lapse(R) ==
    /\ holder' = [r \in Runs |-> IF r \in R THEN NoWorker ELSE holder[r]]
    /\ UNCHANGED status

\* The holder reports the end.  A cancelled run is settled just the same.
Settle(r, s) ==
    /\ holder[r] # NoWorker
    /\ status' = [status EXCEPT ![r] = s]
    /\ holder' = [holder EXCEPT ![r] = NoWorker]

\* A cancellation does not take the run away from its holder.
Cancel(r) ==
    /\ status[r] \notin {"none", "completed"}
    /\ status' = [status EXCEPT ![r] = "canceled"]
    /\ UNCHANGED holder

Next ==
    \/ \E R \in SUBSET Runs : Create(R) \/ Lapse(R)
    \/ \E r \in Runs, w \in Workers : Grant(r, w)
    \/ \E r \in Runs, s \in Settled : Settle(r, s)
    \/ \E r \in Runs : Cancel(r)

Spec == Init /\ [][Next]_vars
=============================================================================
