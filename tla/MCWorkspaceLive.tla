--------------------------- MODULE MCWorkspaceLive ---------------------------
(***************************************************************************)
(* The parts whose liveness is checked, in one run: a behaviour is one of  *)
(* the part that was chosen for it. Each part states its own fairness.     *)
(***************************************************************************)
EXTENDS TurnWait, WorkspacePeers, VoiceSpeech, ThreadRunner

VARIABLE part \* the part that was chosen

\* TurnWait's scenarios.
Watching == [poll |-> TRUE, lose |-> TRUE, faults |-> 0, giveUp |-> FALSE]
Hearing == [poll |-> FALSE, lose |-> FALSE, faults |-> 0, giveUp |-> FALSE]
Failing == [poll |-> TRUE, lose |-> TRUE, faults |-> 2, giveUp |-> FALSE]
Leaving == [poll |-> TRUE, lose |-> FALSE, faults |-> 1, giveUp |-> TRUE]
Waits == {Watching, Hearing, Failing, Leaving}

\* ThreadRunner's scenario: a call that may fail, a lost notification, a crash
\* and a turn that somebody else starts.
RunnerScenarios ==
    {[msgs |-> Msgs, attempts |-> 2, kinds |-> {"start", "read", "steer", "notify"},
      faults |-> 1, crashes |-> 1, external |-> 1]}

partsVars == <<part, waitVars, peerVars, speechVars, vars>>

PartsInit ==
    /\ part \in {"wait", "peers", "speech", "bridge"}
    /\ WaitInit
    /\ part # "wait" => patience = Hearing
    /\ PeersInit /\ SpeechInit /\ Init

WaitStep ==
    /\ part = "wait" /\ WaitNext
    /\ UNCHANGED <<part, peerVars, speechVars, vars>>
PeersStep ==
    /\ part = "peers" /\ PeersNext
    /\ UNCHANGED <<part, waitVars, speechVars, vars>>
SpeechStep ==
    /\ part = "speech" /\ SpeechNext
    /\ UNCHANGED <<part, waitVars, peerVars, vars>>
BridgeStep ==
    /\ part = "bridge" /\ Next
    /\ UNCHANGED <<part, waitVars, peerVars, speechVars>>
PartsNext ==
    \/ WaitStep \/ PeersStep \/ SpeechStep \/ BridgeStep

\* The fairness each part states, in its own behaviours.
PartsFairness ==
    /\ WF_waitVars(part = "wait" /\ Flow)
    /\ WF_waitVars(part = "wait" /\ TurnEnds)
    /\ WF_waitVars(part = "wait" /\ Reads)
    /\ WF_waitVars(part = "wait" /\ ReadThread)
    /\ WF_peerVars(part = "peers" /\ HandleLine)
    /\ \A p \in Peers : WF_peerVars(part = "peers" /\ SendAnswer(p))
    /\ WF_speechVars(part = "speech" /\ Play)
    /\ WF_speechVars(part = "speech" /\ PlayerIdle)
    /\ WF_speechVars(part = "speech" /\ SpeakNext)
    /\ WF_vars(part = "bridge" /\ Runner)
    /\ WF_vars(part = "bridge" /\ ReconcileActiveTurn)
    /\ WF_vars(part = "bridge" /\ Boot)
    /\ \A m \in Msgs : WF_vars(part = "bridge" /\ RetryFires(m))
    /\ \A t \in TurnIds : WF_vars(part = "bridge" /\ FinishTurn(t))

PartsSpec == PartsInit /\ [][PartsNext]_partsVars /\ PartsFairness

\* The type invariants of the parts.
PartsTypeOK ==
    /\ WaitTypeOK /\ PeersTypeOK /\ SpeechTypeOK /\ TypeOK
=============================================================================
