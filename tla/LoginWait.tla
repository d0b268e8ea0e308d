------------------------------ MODULE LoginWait ------------------------------
(***************************************************************************)
(* A login through the app-server and the wait for its end                 *)
(* (CodexAuthClient in packages/codex-client/src/app-server/auth.ts).      *)
(*                                                                         *)
(* The end of a login is a notification; before the wait's listener is     *)
(* called, onChange asks the app-server for the account.                   *)
(***************************************************************************)
EXTENDS Integers

CONSTANTS
    Own,      \* the login that is waited for
    Others,   \* logins of other callers
    Nobody,   \* the loginId of a completion that names no login
    MaxChecks \* bound on the completions of other logins

VARIABLES
    caller,  \* the caller of startChatGptLogin or startDeviceCodeLogin
    logins,  \* the app-server: logins and how they ended
    signed,  \* the app-server: somebody is logged in
    notices, \* account/login/completed on its way
    checks,  \* completions for which onChange waits for the account
    seen,    \* completions that were handed to the listener
    listens, \* the subscription of the wait
    others   \* completions of other logins so far

loginVars == <<caller, logins, signed, notices, checks, seen, listens, others>>

Callers == {"idle", "starting", "started", "waiting", "reading", "resolved", "failed", "timedOut"}
Names == {Own, Nobody} \cup Others
Completion == [login: Names, success: BOOLEAN]

TypeOK ==
    /\ caller \in Callers
    /\ logins \in [Names -> {"none", "running", "succeeded", "failed", "cancelled"}]
    /\ signed \in BOOLEAN /\ listens \in BOOLEAN
    /\ notices \subseteq Completion /\ checks \subseteq Completion /\ seen \subseteq Completion

Init ==
    /\ caller = "idle" /\ logins = [l \in Names |-> "none"] /\ signed = FALSE
    /\ notices = {} /\ checks = {} /\ seen = {} /\ listens = FALSE /\ others = 0

-----------------------------------------------------------------------------

\* startChatGptLogin, startDeviceCodeLogin: the request and its answer; an
\* answer of another type is an error.
StartLogin ==
    /\ caller = "idle" /\ caller' = "starting"
    /\ logins' = [logins EXCEPT ![Own] = "running"]
    /\ UNCHANGED <<signed, notices, checks, seen, listens, others>>

LoginStarted ==
    /\ caller = "starting" /\ caller' \in {"started", "failed"}
    /\ UNCHANGED <<logins, signed, notices, checks, seen, listens, others>>

\* waitForLogin: the timeout and the subscription.
WaitForLogin ==
    /\ caller = "started" /\ caller' = "waiting"
    /\ listens' = TRUE
    /\ UNCHANGED <<logins, signed, notices, checks, seen, others>>

\* cancelLogin: the app-server takes a login that runs back.
CancelLogin ==
    /\ caller \in {"started", "waiting"} /\ logins[Own] = "running"
    /\ logins' = [logins EXCEPT ![Own] = "cancelled"]
    /\ notices' = notices \cup {[login |-> Own, success |-> FALSE]}
    /\ UNCHANGED <<caller, signed, checks, seen, listens, others>>

\* handleNotification of onChange: without a subscription nobody hears it.
HearCompletion(c) ==
    /\ c \in notices /\ notices' = notices \ {c}
    /\ checks' = IF listens THEN checks \cup {c} ELSE checks
    /\ UNCHANGED <<caller, logins, signed, seen, listens, others>>

\* Mutant: any completion ends the wait.
Any(c) == TRUE
\* A completion without a loginId counts for every wait.
Concerns(c) == c.login \in {Own, Nobody}

\* The account arrived: the listener of waitForLogin.
CompletionChecked(c) ==
    /\ c \in checks /\ checks' = checks \ {c}
    /\ seen' = seen \cup {c}
    /\ IF caller = "waiting" /\ Concerns(c)
       THEN caller' \in (IF c.success THEN {"reading", "resolved"} ELSE {"failed"})
       ELSE UNCHANGED caller
    /\ listens' = (listens /\ ~Concerns(c))
    /\ UNCHANGED <<logins, signed, notices, others>>

\* getState after the completion, unless refreshState is off; it reports
\* errors as a state.
StateRead ==
    /\ caller = "reading" /\ caller' = "resolved"
    /\ UNCHANGED <<logins, signed, notices, checks, seen, listens, others>>

WaitTimesOut ==
    /\ caller = "waiting" /\ caller' = "timedOut"
    /\ listens' = FALSE
    /\ UNCHANGED <<logins, signed, notices, checks, seen, others>>

-----------------------------------------------------------------------------
(* The app-server and the other callers.                                   *)

LoginEnds(success) ==
    /\ logins[Own] = "running"
    /\ logins' = [logins EXCEPT ![Own] = IF success THEN "succeeded" ELSE "failed"]
    /\ signed' = (signed \/ success)
    /\ notices' = notices \cup {[login |-> Own, success |-> success]}
    /\ UNCHANGED <<caller, checks, seen, listens, others>>

\* Another login ends, or one that has no id (an API key).
OtherLoginEnds(l, success) ==
    /\ l \in Others \cup {Nobody} /\ others < MaxChecks /\ others' = others + 1
    /\ logins' = [logins EXCEPT ![l] = IF success THEN "succeeded" ELSE "failed"]
    /\ signed' = (signed \/ success)
    /\ notices' = notices \cup {[login |-> l, success |-> success]}
    /\ UNCHANGED <<caller, checks, seen, listens>>

Next ==
    \/ StartLogin \/ LoginStarted \/ WaitForLogin \/ StateRead \/ CancelLogin \/ WaitTimesOut
    \/ \E c \in Completion : HearCompletion(c) \/ CompletionChecked(c)
    \/ \E success \in BOOLEAN :
         LoginEnds(success) \/ \E l \in Others \cup {Nobody} : OtherLoginEnds(l, success)

Spec == Init /\ [][Next]_loginVars

-----------------------------------------------------------------------------
(* Properties.                                                             *)

\* A wait resolves after its own login succeeded, or one that no id was given
\* for: the logins of others never end it.
ResolvedByOwnLogin ==
    caller \in {"reading", "resolved"} =>
        \E l \in {Own, Nobody} : logins[l] # "none" /\ [login |-> l, success |-> TRUE] \in seen
=============================================================================
