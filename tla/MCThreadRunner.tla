--------------------------- MODULE MCThreadRunner ---------------------------
(* An instance of ThreadRunner for TLC: the other ones are parts of         *)
(* MCBridgeSafety and MCWorkspaceLive.                                      *)
EXTENDS ThreadRunner

\* A completion that is lost while somebody else starts a turn.
MissedScenarios == {[msgs |-> Msgs, attempts |-> 2, kinds |-> {"notify"},
                     faults |-> 1, crashes |-> 0, external |-> 1]}
=============================================================================
