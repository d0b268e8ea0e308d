---------------------------- MODULE WorkspacePeers ----------------------------
(***************************************************************************)
(* The workspace backend between its peers and one app-server              *)
(* (CodexWorkspaceBackendProtocolServer and CodexWorkspaceBackendClient in *)
(* packages/codex-client/src/workspace-backend, main in                    *)
(* apps/workspace-backend/src/index.ts).                                   *)
(*                                                                         *)
(* What the app-server writes is read line by line.  A notification or a   *)
(* request of its own is broadcast at once, while the answer to a call     *)
(* resolves a promise and is sent when the await of its handler returns.   *)
(***************************************************************************)
EXTENDS Integers, Sequences

CONSTANTS
    Peers,    \* WebSocket connections
    Everyone, \* what is not the answer to a call is for every peer
    MaxLines, \* bound on the lines the app-server writes
    MaxExits  \* bound on the exits of the app-server

ASSUME PeersAssumption == Everyone \notin Peers /\ MaxLines \in Nat /\ MaxExits \in Nat

VARIABLES
    link,       \* the connection of each peer
    call,       \* a request of each peer, and how far it is
    line,       \* the line that answered it, 0 for an error
    peersInbox, \* what each peer was sent
    wire,       \* lines on their way from the app-server
    written,    \* lines written so far
    exits,      \* its exits
    down        \* the signal to shut down came

peerVars == <<link, call, line, peersInbox, wire, written, exits, down>>

Lines == 1..MaxLines
\* A line is a notification or a request of the app-server, or the answer to a
\* peer's call; at is its place in the app-server's output.
Items == [to: Peers \cup {Everyone}, at: 0..MaxLines]

PeersTypeOK ==
    /\ link \in [Peers -> {"new", "open", "closed"}]
    /\ call \in [Peers -> {"none", "asked", "resolved", "sent", "dropped"}]
    /\ line \in [Peers -> 0..MaxLines]
    /\ peersInbox \in [Peers -> Seq(Items)]
    /\ wire \in Seq(Items) /\ written \in 0..MaxLines
    /\ exits \in 0..MaxExits /\ down \in BOOLEAN

PeersInit ==
    /\ link = [p \in Peers |-> "new"]
    /\ call = [p \in Peers |-> "none"] /\ line = [p \in Peers |-> 0]
    /\ peersInbox = [p \in Peers |-> <<>>]
    /\ wire = <<>> /\ written = 0 /\ exits = 0 /\ down = FALSE

-----------------------------------------------------------------------------

Open == {p \in Peers : link[p] = "open"}

\* broadcastNotification
Broadcast(item) ==
    peersInbox' = [p \in Peers |-> IF p \in Open THEN Append(peersInbox[p], item) ELSE peersInbox[p]]

\* open and addPeer; events of the backend itself are left out.
AddPeer(p) ==
    /\ link[p] = "new" /\ ~down
    /\ link' = [link EXCEPT ![p] = "open"]
    /\ UNCHANGED <<call, line, peersInbox, wire, written, exits, down>>

\* close and removePeer: handlers that run go on.
RemovePeer(p) ==
    /\ p \in Open
    /\ link' = [link EXCEPT ![p] = "closed"]
    /\ UNCHANGED <<call, line, peersInbox, wire, written, exits, down>>

\* handleMessage with a call: anything but appServer.call is answered at once
\* (initialize, a notification or a reply for the app-server, an unknown or
\* unsupported method, wrong parameters, a message that is no request).
HandleMessage(p) ==
    /\ p \in Open /\ call[p] = "none" /\ ~down
    /\ call' \in {[call EXCEPT ![p] = "asked"], [call EXCEPT ![p] = "resolved"]}
    /\ UNCHANGED <<link, line, peersInbox, wire, written, exits, down>>

\* The await returns: one answer, which a closed socket swallows.
SendAnswer(p) ==
    /\ call[p] = "resolved"
    /\ call' = [call EXCEPT ![p] = IF p \in Open THEN "sent" ELSE "dropped"]
    /\ peersInbox' = IF p \in Open
                THEN [peersInbox EXCEPT ![p] = Append(@, [to |-> p, at |-> line[p]])]
                ELSE peersInbox
    /\ UNCHANGED <<link, line, wire, written, exits, down>>

\* Mutant: an answer is handled as soon as it is written.
AnswersFirst ==
    IF \E i \in DOMAIN wire : wire[i].to # Everyone
    THEN CHOOSE i \in DOMAIN wire : wire[i].to # Everyone
    ELSE 1
\* readLines hands the lines on in their order.
NextLine == 1

\* A line of the app-server: a broadcast, or the answer to a call that is
\* still pending.
HandleLine ==
    /\ wire # <<>>
    /\ LET item == wire[NextLine] IN
       /\ wire' = SubSeq(wire, 1, NextLine - 1) \o SubSeq(wire, NextLine + 1, Len(wire))
       /\ IF item.to # Everyone
          THEN /\ UNCHANGED peersInbox
               /\ IF call[item.to] = "asked"
                  THEN call' = [call EXCEPT ![item.to] = "resolved"]
                       /\ line' = [line EXCEPT ![item.to] = item.at]
                  ELSE UNCHANGED <<call, line>>
          ELSE Broadcast(item) /\ UNCHANGED <<call, line>>
    /\ UNCHANGED <<link, written, exits, down>>

\* Mutant: the calls that wait are left to their timeout.
NoneRejected == {}
\* rejectAll of the transport.
Rejected == {p \in Peers : call[p] = "asked"}

\* The app-server exits: its calls fail.
AppServerCloses ==
    /\ exits < MaxExits /\ exits' = exits + 1
    /\ call' = [p \in Peers |-> IF p \in Rejected THEN "resolved" ELSE call[p]]
    /\ UNCHANGED <<link, line, peersInbox, wire, written, down>>

\* SIGINT or SIGTERM: server.stop(true), client.close.
Shutdown ==
    /\ ~down /\ down' = TRUE
    /\ link' = [p \in Peers |-> "closed"]
    /\ call' = [p \in Peers |-> IF p \in Rejected THEN "resolved" ELSE call[p]]
    /\ UNCHANGED <<line, peersInbox, wire, written, exits>>

\* The app-server.
Write(p) ==
    /\ written < MaxLines /\ written' = written + 1 /\ ~down
    /\ p # Everyone => call[p] = "asked" /\ \A i \in DOMAIN wire : wire[i].to # p
    /\ wire' = Append(wire, [to |-> p, at |-> written'])
    /\ UNCHANGED <<link, call, line, peersInbox, exits, down>>

PeersNext ==
    \/ HandleLine \/ AppServerCloses \/ Shutdown \/ Write(Everyone)
    \/ \E p \in Peers : \/ AddPeer(p) \/ RemovePeer(p) \/ HandleMessage(p)
                        \/ SendAnswer(p)
                        \/ Write(p)

PeersSpec == PeersInit /\ [][PeersNext]_peerVars

\* Lines are read and handlers go on.
PeerFairness == WF_peerVars(HandleLine) /\ \A p \in Peers : WF_peerVars(SendAnswer(p))

-----------------------------------------------------------------------------
(* Properties.                                                             *)

\* A peer that hears the answer to its call has heard everything the app-server
\* said before it: turn/started may come before the answer to turn/start, never
\* an old notification after it.
AnswerComesLast ==
    \A p \in Peers : \A i, j \in DOMAIN peersInbox[p] :
        (i < j /\ peersInbox[p][j].to = Everyone) => peersInbox[p][i].at < peersInbox[p][j].at

Heard(p) == {peersInbox[p][i].at : i \in {k \in DOMAIN peersInbox[p] : peersInbox[p][k].to = Everyone}}
\* Every peer that is connected hears every line: what is between two lines one
\* peer heard, another peer that heard them both heard too.
PeersHearTheSame ==
    \A p, q \in Peers : \A first, last \in Heard(p) \cap Heard(q) : \A at \in first..last :
        at \in Heard(p) <=> at \in Heard(q)

\* The order of the app-server's output is the order every peer sees.
PeersHearInOrder == AnswerComesLast /\ PeersHearTheSame

\* A call that was answered or rejected reaches its peer, unless it has left;
\* the exit of the app-server leaves no call behind.
CallIsAnswered ==
    \A p \in Peers : (call[p] = "asked" /\ (down \/ \E i \in DOMAIN wire : wire[i].to = p))
                        ~> call[p] \in {"sent", "dropped"}
=============================================================================
