-------------------------- MODULE WebSocketTransport --------------------------
(***************************************************************************)
(* CodexWebSocketTransport (packages/codex-client/src/app-server/          *)
(* websocket-transport.ts): one field for the socket and one for the       *)
(* promise of its connection, both written by listeners of every socket    *)
(* the transport ever opened.                                              *)
(***************************************************************************)
EXTENDS Integers, FiniteSets

CONSTANTS
    Requests,   \* requests that callers make
    MaxSockets, \* bound on the sockets opened
    MaxShuts    \* bound on the calls of close

VARIABLES
    socket,     \* #socket, 0 when undefined
    connecting, \* the socket of the promise #connecting, 0 when undefined
    sock,       \* readyState of each socket
    request,    \* where each request is
    via,        \* the socket whose promise it waits for, or that it was written to
    stuck,      \* entries of #pending whose caller was answered by an exception
    overtaken,  \* sockets whose last events came while the fields held another
    shuts       \* calls of close

socketVars == <<socket, connecting, sock, request, via, stuck, overtaken, shuts>>

Sockets == 1..MaxSockets
NoSocket == 0
\* An aborted socket was closed while it was connecting.
SockStates == {"none", "connecting", "open", "closing", "aborted", "closed"}
RequestStates == {"none", "waiting", "pending", "answered", "failed", "timedOut"}

TypeOK ==
    /\ socket \in Sockets \cup {NoSocket} /\ connecting \in Sockets \cup {NoSocket}
    /\ sock \in [Sockets -> SockStates]
    /\ request \in [Requests -> RequestStates]
    /\ via \in [Requests -> Sockets \cup {NoSocket}]
    /\ stuck \subseteq Requests /\ overtaken \subseteq Sockets

Init ==
    /\ socket = NoSocket /\ connecting = NoSocket
    /\ sock = [s \in Sockets |-> "none"]
    /\ request = [r \in Requests |-> "none"] /\ via = [r \in Requests |-> NoSocket]
    /\ stuck = {} /\ overtaken = {} /\ shuts = 0

-----------------------------------------------------------------------------

IsOpen(s) == s # NoSocket /\ sock[s] = "open"
In(state) == {r \in Requests : request[r] = state}
Pending == In("pending")

\* #connect returns the promise that is already there.
SharedPromise == connecting # NoSocket

Unused(s) == sock[s] = "none" /\ \A q \in Sockets : q < s => sock[q] # "none"

\* request up to its await of #connect, and on to the write when the socket is
\* open already.
Ask(r) ==
    /\ request[r] = "none"
    /\ \/ /\ IsOpen(socket)
          /\ request' = [request EXCEPT ![r] = "pending"] /\ via' = [via EXCEPT ![r] = socket]
          /\ UNCHANGED <<socket, connecting, sock>>
       \/ /\ ~IsOpen(socket) /\ SharedPromise
          /\ request' = [request EXCEPT ![r] = "waiting"] /\ via' = [via EXCEPT ![r] = connecting]
          /\ UNCHANGED <<socket, connecting, sock>>
       \/ /\ ~IsOpen(socket) /\ ~SharedPromise
          /\ \E s \in Sockets :
               /\ Unused(s)
               /\ sock' = [sock EXCEPT ![s] = "connecting"]
               /\ socket' = s /\ connecting' = s
               /\ request' = [request EXCEPT ![r] = "waiting"] /\ via' = [via EXCEPT ![r] = s]
    /\ UNCHANGED <<stuck, overtaken, shuts>>

\* The open event: the callers that waited for this socket get their entry and
\* write to the socket the field holds now; where that one is not open the
\* write throws, and the entry stays until its timer.
OpenEvent(s) ==
    /\ sock[s] = "connecting"
    /\ sock' = [sock EXCEPT ![s] = "open"]
    /\ connecting' = NoSocket
    /\ LET callers == {r \in In("waiting") : via[r] = s}
           written == socket = s \/ IsOpen(socket) IN
       /\ request' = [r \in Requests |-> IF r \notin callers THEN request[r]
                                         ELSE IF written THEN "pending" ELSE "failed"]
       /\ via' = [r \in Requests |-> IF r \in callers /\ written THEN socket ELSE via[r]]
       /\ stuck' = IF written THEN stuck ELSE stuck \cup callers
    /\ UNCHANGED <<socket, overtaken, shuts>>

\* Mutant: the error event is only reported.
NobodyFails(s) == {}
\* rejectAll, and the rejection of the promise of this socket.
FailedBy(s) == Pending \cup {r \in In("waiting") : via[r] = s}

Fail(rs) == request' = [r \in Requests |-> IF r \in rs THEN "failed" ELSE request[r]]

\* The error event of a connection that fails, or that was closed before it
\* was open; the close event follows.
ErrorEvent(s) ==
    /\ sock[s] \in {"connecting", "aborted"}
    /\ sock' = [sock EXCEPT ![s] = "closing"]
    /\ connecting' = NoSocket
    /\ Fail(FailedBy(s)) /\ stuck' = {}
    /\ overtaken' = IF connecting \notin {s, NoSocket} THEN overtaken \cup {s} ELSE overtaken
    /\ UNCHANGED <<socket, via, shuts>>

\* The close event: of a closed socket, or of one the other side closed.
CloseEvent(s) ==
    /\ sock[s] \in {"open", "closing"}
    /\ sock' = [sock EXCEPT ![s] = "closed"]
    /\ socket' = NoSocket /\ connecting' = NoSocket
    /\ Fail(Pending) /\ stuck' = {}
    /\ overtaken' = IF socket \notin {s, NoSocket} THEN overtaken \cup {s} ELSE overtaken
    /\ UNCHANGED <<via, shuts>>

\* close.
Shut ==
    /\ shuts < MaxShuts /\ shuts' = shuts + 1
    /\ socket' = NoSocket /\ connecting' = NoSocket
    /\ sock' = [s \in Sockets |->
                  IF s # socket THEN sock[s]
                  ELSE IF sock[s] = "open" THEN "closing"
                  ELSE IF sock[s] = "connecting" THEN "aborted" ELSE sock[s]]
    /\ Fail(Pending) /\ stuck' = {}
    /\ UNCHANGED <<via, overtaken>>

\* #handleMessage, for any socket that still delivers.
Answered(r) ==
    /\ request[r] = "pending" /\ sock[via[r]] \in {"open", "closing"}
    /\ request' = [request EXCEPT ![r] = "answered"]
    /\ UNCHANGED <<socket, connecting, sock, via, stuck, overtaken, shuts>>

TimesOut(r) ==
    /\ \/ /\ request[r] = "pending" /\ request' = [request EXCEPT ![r] = "timedOut"]
          /\ UNCHANGED stuck
       \/ /\ r \in stuck /\ stuck' = stuck \ {r} /\ UNCHANGED request
    /\ UNCHANGED <<socket, connecting, sock, via, overtaken, shuts>>

Next ==
    \/ Shut
    \/ \E r \in Requests : Ask(r) \/ Answered(r) \/ TimesOut(r)
    \/ \E s \in Sockets : OpenEvent(s) \/ ErrorEvent(s) \/ CloseEvent(s)

Spec == Init /\ [][Next]_socketVars

-----------------------------------------------------------------------------
(* Properties.                                                             *)

Current(s) == socket = s \/ connecting = s
\* Two sockets are in use at a time only after a late error or close event of
\* another one cleared the fields.
OneSocketInUse ==
    \A s \in Sockets : sock[s] \in {"connecting", "open"} => Current(s) \/ overtaken # {}

\* A request that waits for a connection waits for one that will still open or
\* fail: no order of close, errors and new connections leaves it behind.
WaitsForLiveSocket == \A r \in In("waiting") : sock[via[r]] \in {"connecting", "aborted"}

\* A request is written to the socket that was opened for it, unless such a
\* late event came before: then the write throws, or goes to another socket.
WrittenWhereAsked ==
    overtaken = {} => /\ stuck = {}
                      /\ \A r \in Pending : Current(via[r]) \/ sock[via[r]] = "closing"

\* Callers that connect at once share one connection, and a request stays with
\* the socket it was made for, whatever order the events of old sockets take.
SocketIsShared == OneSocketInUse /\ WaitsForLiveSocket /\ WrittenWhereAsked
=============================================================================
