------------------------------ MODULE ReleaseFlows ------------------------------
(***************************************************************************)
(* What a release of openai/codex sets off: the flow that rebases the fork *)
(* (flows/peezy-codex-fork), the script that does so by hand               *)
(* (scripts/run-codex-release-update-thread.ts and                         *)
(* codex-release-update.code-mode.js) and the flow that regenerates the    *)
(* bindings (flows/openai-codex-bindings).  Each is a sequence of commands *)
(* in one of two checkouts that outlive it: a command fails, the step runs *)
(* into its timeout, a rebase stops at a conflict, the user works there,   *)
(* and the next run starts with what was left.                             *)
(***************************************************************************)
EXTENDS Integers, FiniteSets

CONSTANTS
    Releases,  \* numbers, the later the greater
    Settings,  \* configurations: squash, push, publish
    MaxPipelines, \* bounds: on runs
    MaxTroubles   \* and on failures, timeouts and works of the user

VARIABLES
    setting,
    fork,     \* the checkout of the fork
    service,  \* the checkout of codex-flows
    origin,   \* the remotes: what was pushed
    npm,      \* releases of which a package is published
    job,      \* the runs
    runs, troubles,
    checked,  \* bases of the fork that a run has verified
    crossed   \* two runs, or a run and the user, were in one checkout

releaseVars == <<setting, fork, service, origin, npm, job, runs, troubles, checked, crossed>>

Pipelines == 1 .. MaxPipelines
Kinds == {"flow", "script", "bindings"}
\* The flow and the script begin with the same commands, up to the rebase.
Rebases(k) == k \in {"flow", "script"}
\* The checkouts it works in.
Places(k) == (IF Rebases(k) THEN {"fork"} ELSE {}) \cup (IF k # "flow" THEN {"service"} ELSE {})
NoJob == [kind |-> "flow", release |-> 0, at |-> "idle", said |-> "none", began |-> 0, left |-> 0, alone |-> TRUE]
Asleep == {"idle", "over"}

\* A checkout of the fork: its branch, the release its patches are on (one
\* commit, several, or only staged), the rebase that is paused and the user's edits.
ForkTypeOK ==
    /\ fork.branch \in {"target", "other"} /\ fork.base \in {0} \cup Releases
    /\ fork.patches \in {"several", "one", "staged"} /\ fork.paused \in {0} \cup Releases
    /\ fork.edited \in BOOLEAN /\ fork.tags \subseteq Releases /\ fork.broken \in BOOLEAN
ReleaseTypeOK ==
    /\ setting \in Settings /\ ForkTypeOK
    /\ service.generated \in {0} \cup Releases /\ service.committed \in {0} \cup Releases /\ service.edited \in BOOLEAN
    /\ origin.fork \in {0} \cup Releases /\ origin.service \in {0} \cup Releases /\ origin.tags \subseteq Releases \X Releases
    /\ npm.fork \subseteq Releases /\ npm.service \subseteq Releases /\ checked \subseteq Releases
    /\ \A j \in Pipelines : job[j].kind \in Kinds /\ job[j].release \in {0} \cup Releases

ReleaseInit ==
    /\ setting \in Settings
    /\ fork = [branch |-> "target", base |-> 0, patches |-> "several", paused |-> 0,
               edited |-> FALSE, tags |-> {}, broken |-> FALSE]
    /\ service = [generated |-> 0, committed |-> 0, edited |-> FALSE]
    /\ origin = [fork |-> 0, service |-> 0, tags |-> {}]
    /\ npm = [fork |-> {}, service |-> {}]
    /\ job = [j \in Pipelines |-> NoJob]
    /\ runs = 0 /\ troubles = 0 /\ checked = {} /\ crossed = FALSE

-----------------------------------------------------------------------------
(* Runs.                                                                   *)

At(j, phase) == job[j].at = phase
Rel(j) == job[j].release
Running(k) == {j \in Pipelines : job[j].at \notin Asleep /\ Places(job[j].kind) \cap Places(k) # {}}
Trouble == troubles < MaxTroubles /\ troubles' = troubles + 1
Smooth == UNCHANGED troubles
Goes(j, phase) == job' = [job EXCEPT ![j].at = phase]
Where(k) == IF Rebases(k) THEN fork ELSE service

\* An event, or the user, starts one; a replay may start it again.
Begin(j, k, r) ==
    /\ j = runs + 1 /\ runs' = j
    /\ LET others == Running(k) IN
       /\ job' = [i \in Pipelines |->
                    IF i = j THEN [NoJob EXCEPT !.kind = k, !.release = r, !.at = "published",
                                                !.began = Where(k), !.alone = others = {}]
                    ELSE IF i \in others THEN [job[i] EXCEPT !.alone = FALSE] ELSE job[i]]
       /\ crossed' = (crossed \/ others # {})
    /\ UNCHANGED <<setting, fork, service, origin, npm, troubles, checked>>

\* finish: the status, and what the run leaves.
Ends(j, said, repo) == job' = [job EXCEPT ![j].at = "over", ![j].said = said, ![j].left = repo]
Says(j, said) == Ends(j, said, Where(job[j].kind)) /\ Smooth
Fails(j) == Ends(j, "failed", Where(job[j].kind)) /\ Trouble
Still == UNCHANGED <<setting, npm, runs, crossed>>
NoChange == Still /\ UNCHANGED <<fork, service, origin, checked>>

\* The package is looked up first; that npm fails means that it is not there.
Published(j) ==
    /\ At(j, "published")
    /\ \/ /\ Rel(j) \in (IF Rebases(job[j].kind) THEN npm.fork ELSE npm.service) /\ Says(j, "skipped")
       \/ /\ Rel(j) \notin (IF Rebases(job[j].kind) THEN npm.fork ELSE npm.service) /\ Smooth
          /\ Goes(j, IF Rebases(job[j].kind) THEN "paused" ELSE "tidy")
       \/ /\ Trouble /\ Goes(j, IF Rebases(job[j].kind) THEN "paused" ELSE "tidy")
    /\ NoChange

-----------------------------------------------------------------------------
(* The rebase.                                                             *)

\* A conflict and staged patches show in git status, as edits do.
ForkDirty == fork.edited \/ fork.paused # 0 \/ fork.patches = "staged"

\* check existing rebase state
PausedCheck(j) ==
    /\ At(j, "paused")
    /\ IF fork.paused # 0 THEN Says(j, "blocked") ELSE Goes(j, "switch") /\ Smooth
    /\ NoChange
\* git switch, when the target branch is not the one that is out.
Switch(j) ==
    /\ At(j, "switch") /\ Smooth
    /\ IF fork.branch = "target" /\ fork.paused = 0
       THEN Goes(j, "clean") /\ UNCHANGED fork
       ELSE IF ForkDirty THEN Says(j, "blocked") /\ UNCHANGED fork
       ELSE Goes(j, "clean") /\ fork' = [fork EXCEPT !.branch = "target"]
    /\ Still /\ UNCHANGED <<service, origin, checked>>
\* Mutant: only what the user edited is looked for.
EditedOnly(j) == IF fork.edited THEN "blocked" ELSE "rebase"
\* dirty check on target branch; then the remote, its tags and the commit of the release.
CleanOrBlocked(j) == IF ForkDirty THEN "blocked" ELSE "rebase"
Clean(j) ==
    /\ At(j, "clean")
    /\ IF CleanOrBlocked(j) = "blocked" THEN Says(j, "blocked") ELSE Goes(j, "rebase") /\ Smooth
    /\ NoChange
\* git rebase: it refuses to run in a checkout that is not clean, has nothing to
\* do, succeeds or pauses; every failure is told as a conflict.
Conflict(j) == IF job[j].kind = "flow" THEN "needs_intervention" ELSE "conflict"
Rebase(j) ==
    /\ At(j, "rebase")
    /\ \/ /\ ForkDirty /\ Says(j, Conflict(j)) /\ UNCHANGED fork
       \/ /\ ~ForkDirty /\ fork' = [fork EXCEPT !.base = Rel(j)] /\ Smooth
          /\ Goes(j, IF job[j].kind = "flow" /\ setting.squash THEN "squash" ELSE "verify")
       \/ /\ ~ForkDirty /\ fork.base # Rel(j) /\ Trouble
          /\ fork' = [fork EXCEPT !.paused = Rel(j)] /\ Ends(j, Conflict(j), fork')
    /\ Still /\ UNCHANGED <<service, origin, checked>>
\* The patches become one commit: git reset --soft, and git commit.
Squash(j) ==
    /\ At(j, "squash") /\ Smooth
    /\ IF fork.patches = "one" THEN Goes(j, "verify") /\ UNCHANGED fork
       ELSE /\ Goes(j, "commit")
            /\ fork' = [fork EXCEPT !.patches = "staged", !.broken = @ \/ fork.paused # 0]
    /\ Still /\ UNCHANGED <<service, origin, checked>>
CommitSquashed(j) ==
    /\ At(j, "commit") /\ Smooth
    /\ fork' = [fork EXCEPT !.patches = "one"] /\ Goes(j, "verify")
    /\ Still /\ UNCHANGED <<service, origin, checked>>
\* The build, the tests and the format.
Verified(j) ==
    /\ At(j, "verify") /\ Smooth
    /\ checked' = checked \cup {fork.base}
    /\ Still /\ UNCHANGED <<fork, service, origin>>
VerifyFork(j) == job[j].kind = "flow" /\ Verified(j) /\ Goes(j, "push")
VerifyByHand(j) == job[j].kind = "script" /\ Verified(j) /\ Goes(j, "generate")
Push(j) ==
    /\ At(j, "push") /\ Smooth /\ Goes(j, "tag")
    /\ origin' = IF setting.push THEN [origin EXCEPT !.fork = fork.base] ELSE origin
    /\ Still /\ UNCHANGED <<fork, service, checked>>
\* git tag -a refuses a tag that is there.
Tag(j) ==
    /\ At(j, "tag") /\ Smooth
    /\ IF ~setting.publish THEN Says(j, "changed") /\ UNCHANGED fork
       ELSE IF Rel(j) \in fork.tags THEN Says(j, "failed") /\ UNCHANGED fork
       ELSE Goes(j, "pushTag") /\ fork' = [fork EXCEPT !.tags = @ \cup {Rel(j)}]
    /\ Still /\ UNCHANGED <<service, origin, checked>>
PushTag(j) ==
    /\ At(j, "pushTag") /\ Says(j, "changed")
    /\ origin' = [origin EXCEPT !.tags = @ \cup {<<Rel(j), fork.base>>}]
    /\ Still /\ UNCHANGED <<fork, service, checked>>
\* The script goes on in the other checkout: the bindings of the binary it built,
\* whatever is there.
GenerateHere(j) ==
    /\ At(j, "generate") /\ service' = [service EXCEPT !.generated = fork.base]
    /\ Says(j, "completed") \/ Fails(j)
    /\ Still /\ UNCHANGED <<fork, origin, checked>>

-----------------------------------------------------------------------------
(* The bindings.                                                           *)

ServiceDirty == service.edited \/ service.generated # service.committed
\* requireCleanWorktree
Tidy(j) ==
    /\ At(j, "tidy")
    /\ IF ServiceDirty THEN Says(j, "blocked") ELSE Goes(j, "bindings") /\ Smooth
    /\ NoChange
\* The bindings and the version of the package; then the checks.
Generate(j) ==
    /\ At(j, "bindings") /\ service' = [service EXCEPT !.generated = Rel(j)]
    /\ \/ Smooth /\ Goes(j, "compare")
       \/ Trouble /\ Ends(j, "failed", service')
    /\ Still /\ UNCHANGED <<fork, origin, checked>>
\* final git status: nothing to commit is nothing to push.
Compare(j) ==
    /\ At(j, "compare")
    /\ IF ServiceDirty THEN Goes(j, "commitBindings") /\ Smooth ELSE Says(j, "skipped")
    /\ NoChange
CommitBindings(j) ==
    /\ At(j, "commitBindings") /\ Smooth /\ Goes(j, "pushBindings")
    /\ service' = [service EXCEPT !.committed = service.generated]
    /\ Still /\ UNCHANGED <<fork, origin, checked>>
PushBindings(j) ==
    /\ At(j, "pushBindings") /\ Says(j, "changed")
    /\ origin' = IF setting.push \/ setting.publish THEN [origin EXCEPT !.service = service.committed] ELSE origin
    /\ Still /\ UNCHANGED <<fork, service, checked>>

-----------------------------------------------------------------------------
(* What else happens.                                                      *)

\* A command fails, or the timeout of the step or of the launcher ends the process;
\* before the first command that changes anything it is one case.
TimesOut(j) == job[j].at \notin Asleep \cup {"published", "paused", "switch", "tidy"} /\ Fails(j) /\ NoChange
\* The workflows of the remotes publish what was pushed.
Publish ==
    /\ npm' = [fork |-> npm.fork \cup {t[1] : t \in origin.tags},
               service |-> IF setting.publish /\ origin.service # 0 THEN npm.service \cup {origin.service} ELSE npm.service]
    /\ npm' # npm
    /\ UNCHANGED <<setting, fork, service, origin, job, runs, troubles, checked, crossed>>
\* The user resolves the conflict, edits, changes the branch, commits or cleans up.
UserWorks(k) ==
    /\ Trouble
    /\ crossed' = (crossed \/ Running(k) # {})
    /\ job' = [j \in Pipelines |-> IF j \in Running(k) THEN [job[j] EXCEPT !.alone = FALSE] ELSE job[j]]
    /\ UNCHANGED <<setting, origin, npm, runs, checked>>
UserInFork ==
    /\ UserWorks("flow") /\ UNCHANGED service
    /\ \/ fork.paused # 0 /\ fork' = [fork EXCEPT !.base = fork.paused, !.paused = 0, !.branch = "target", !.edited = FALSE]
       \/ fork.paused = 0 /\ ~fork.edited /\ fork' = [fork EXCEPT !.edited = TRUE]
       \/ fork.paused = 0 /\ ~ForkDirty /\ fork.branch = "target" /\ fork' = [fork EXCEPT !.branch = "other"]
       \/ fork.paused = 0 /\ ForkDirty
          /\ fork' = [fork EXCEPT !.edited = FALSE, !.patches = IF @ = "staged" THEN "one" ELSE @]
UserInService ==
    /\ UserWorks("bindings") /\ UNCHANGED fork
    /\ \/ ~service.edited /\ service' = [service EXCEPT !.edited = TRUE]
       \/ ServiceDirty /\ service' = [service EXCEPT !.edited = FALSE, !.generated = service.committed]

ReleaseNext ==
    \/ \E j \in Pipelines :
         \/ \E k \in Kinds, r \in Releases : Begin(j, k, r)
         \/ Published(j)
         \/ PausedCheck(j) \/ Switch(j) \/ Clean(j) \/ Rebase(j)
         \/ Squash(j) \/ CommitSquashed(j) \/ VerifyFork(j) \/ VerifyByHand(j) \/ Push(j) \/ Tag(j) \/ PushTag(j)
         \/ GenerateHere(j)
         \/ Tidy(j) \/ Generate(j) \/ Compare(j) \/ CommitBindings(j) \/ PushBindings(j)
         \/ TimesOut(j)
    \/ Publish \/ UserInFork \/ UserInService

ReleaseSpec == ReleaseInit /\ [][ReleaseNext]_releaseVars
-----------------------------------------------------------------------------
(* Properties.                                                             *)

Over(j, said) == job[j].at = "over" /\ job[j].alone /\ job[j].said \in said

\* What a run says is how it left its checkout, when nobody else was there: the
\* patches are on the release in commits of their own, or the rebase is paused, or
\* nothing but the branch has changed.
ResultIsTrue ==
    \A j \in Pipelines :
        LET run == job[j] IN
        /\ Over(j, {"changed", "completed"}) /\ Rebases(run.kind) =>
             /\ run.left.base = Rel(j) /\ run.left.paused = 0 /\ run.left.patches # "staged" /\ ~run.left.edited
             /\ setting.publish /\ run.kind = "flow" => <<Rel(j), Rel(j)>> \in origin.tags
        /\ Over(j, {"needs_intervention", "conflict"}) => run.left.paused = Rel(j)
        /\ Over(j, {"blocked"}) /\ Rebases(run.kind) => [run.left EXCEPT !.branch = run.began.branch] = run.began
        /\ Over(j, {"blocked"}) /\ ~Rebases(run.kind) => run.left = run.began

\* What is pushed was verified, and a tag names what it was made of, as long as
\* the runs and the user keep out of each other's way.
OnlyCheckedIsPushed ==
    ~crossed => /\ origin.fork \in {0} \cup checked
                /\ \A t \in origin.tags : t[1] = t[2] /\ t[2] \in checked

\* No run touches a rebase that was paused for the user ("preserve the paused
\* rebase state", run-codex-release-update-thread.ts:304), but one that had passed
\* its checks when another run paused it.
PausedIsLeft == ~crossed => ~fork.broken

ReleasesAreSound == ResultIsTrue /\ OnlyCheckedIsPushed /\ PausedIsLeft
=============================================================================
