----------------------- MODULE MCWorkspaceDelegation -----------------------
(* Instances of WorkspaceDelegation for TLC; the safety properties that hold *)
(* are checked with MCBridgeSafety.                                          *)
EXTENDS WorkspaceDelegation

\* What the liveness property is asked of: a crash at any await.
Recovering == [delegated |-> Delegations, grouped |-> {}, tools |-> {}, modes |-> {"wake_on_done"},
               policies |-> {}, user |-> 1, flushes |-> 0, faults |-> 0, crashes |-> 1]
\* A delegation that is sent a second turn, or read, while its first one ends.
SentTo == [Recovering EXCEPT !.tools = {"send"}, !.crashes = 0]
SentOrRead == [SentTo EXCEPT !.tools = {"send", "read"}]
\* Tools beside the way of the results, for a delegation that nothing returns by itself.
ByHand(tools) == [Recovering EXCEPT !.tools = tools, !.flushes = 1, !.crashes = 0, !.grouped = Delegations,
                                    !.modes = {"manual"}, !.policies = {"detached"}]

RecoveryScenarios == {Recovering} \cup {ByHand(tools) : tools \in {{"flush"}, {"policy"}, {"send"}, {"read"}, {"resume"}}}
LostScenarios == {SentOrRead}
SecondScenarios == {SentTo}
=============================================================================
