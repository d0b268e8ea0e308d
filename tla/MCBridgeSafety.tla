---------------------------- MODULE MCBridgeSafety ----------------------------
(***************************************************************************)
(* The two parts of the Discord bridge that deliver answers, the runner of *)
(* a thread and the delegations, in one run: a behaviour is one of the     *)
(* part that was chosen for it.                                            *)
(***************************************************************************)
EXTENDS ThreadRunner, WorkspaceDelegation, TLC

VARIABLE part \* the part that was chosen

\* WorkspaceDelegation's scenarios: two members of a group that end in any order.
Group == [delegated |-> Delegations, grouped |-> Delegations, tools |-> {}, modes |-> {"wake_on_group"},
          policies |-> {}, user |-> 1, flushes |-> 0, faults |-> 0, crashes |-> 0]
\* One delegation, a failing request or a crash.
Crashing == [delegated |-> {}, grouped |-> {"yes"}, tools |-> {}, modes |-> {"wake_on_done"},
             policies |-> {}, user |-> 1, flushes |-> 0, faults |-> 0, crashes |-> 1]
Failing == [Crashing EXCEPT !.faults = 1, !.crashes = 0]
\* A delegation whose results are asked for, with two turns, or read before.
Asked == [delegated |-> {}, grouped |-> {}, tools |-> {"flush", "send"}, modes |-> {"manual"},
          policies |-> {}, user |-> 1, flushes |-> 1, faults |-> 0, crashes |-> 0]
ReadFirst == [Asked EXCEPT !.tools = {"flush", "read"}, !.modes = {"detached"}]
\* A delegation that is taken over while its result is on its way.
Resumed == [delegated |-> {}, grouped |-> {"yes"}, tools |-> {"resume", "policy"},
            modes |-> {"wake_on_done"}, policies |-> {"detached"},
            user |-> 1, flushes |-> 0, faults |-> 0, crashes |-> 0]
\* Either thread may be the one that is delegated: the instance is symmetric.
For(s, d) == [s EXCEPT !.delegated = {d}, !.grouped = IF @ = {} THEN {} ELSE {d}]
DelegationScenes == {Group} \cup {For(s, d) : s \in {Crashing, Failing, Asked, ReadFirst, Resumed}, d \in Delegations}
Swap == Permutations(Delegations)

\* ThreadRunner's scenarios: two messages, with a crash and a lost notification at
\* any point; one message, a failing call and two of three: another failing call,
\* a crash, somebody else's turn.
OneMessage == [msgs |-> {CHOOSE m \in Msgs : TRUE}, attempts |-> 1,
               kinds |-> {"start", "lost", "read", "send", "typing", "steer", "notify"},
               faults |-> 2, crashes |-> 1, external |-> 1]
RunnerScenarios ==
    {[msgs |-> Msgs, attempts |-> 2, kinds |-> {"notify"}, faults |-> 1, crashes |-> 1, external |-> 0],
     [OneMessage EXCEPT !.faults = 1], [OneMessage EXCEPT !.crashes = 0],
     [OneMessage EXCEPT !.external = 0]}

partsVars == <<part, vars, delegationVars>>

PartsInit ==
    /\ part \in {"runner", "delegation"}
    /\ Init
    /\ part # "runner" => scenario.attempts = 2
    /\ DelegationInit
    /\ part # "delegation" => delegationScenario = Group

RunnerStep ==
    /\ part = "runner" /\ Next
    /\ UNCHANGED <<part, delegationVars>>
DelegationStep ==
    /\ part = "delegation" /\ DelegationNext
    /\ UNCHANGED <<part, vars>>
PartsNext ==
    \/ RunnerStep \/ DelegationStep

PartsSpec == PartsInit /\ [][PartsNext]_partsVars

\* The type invariants of the parts: one that was not chosen stays as it began, which
\* the behaviours that choose it check.
PartsTypeOK ==
    /\ part = "runner" => TypeOK
    /\ part = "delegation" => DelegationTypeOK
=============================================================================
