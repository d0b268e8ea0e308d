------------------------------ MODULE MCLocalFlows ------------------------------
(***************************************************************************)
(* LocalFlows by itself, for the run of overlapping dispatches.            *)
(***************************************************************************)
EXTENDS LocalFlows

\* The steps an event matches.
TwoSteps == <<"first", "second">>
=============================================================================
