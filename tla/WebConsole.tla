----------------------------- MODULE WebConsole -----------------------------
(***************************************************************************)
(* The web console (apps/web/src/App.tsx): one user, the current client of *)
(* the workspace backend, and the requests in flight, which are answered   *)
(* in any order.  A callback sees the state of the render it was made in:  *)
(* the handler of notifications keeps the selection of the moment at which *)
(* the user connected.                                                     *)
(***************************************************************************)
EXTENDS Integers, FiniteSets

CONSTANTS
    Listed,   \* the threads of the app-server at the start
    Fresh,    \* one that may be started
    Nothing,  \* no thread
    MaxClients, MaxAsked, MaxWishes, MaxNews, MaxFaults \* bounds

VARIABLES
    focus,     \* what the user is after: threads or the account
    status, current, socket, late, \* the connection: the current client, the sockets, events to come
    heardFor,  \* the selection that the handler of notifications knows
    threads, selection, shown,
    asked, asks, \* requests in flight, and how many were made
    busy,
    prompt, sent, disturbed, \* the text, how often a text was taken, and which were sent beside something else
    signed, logins, authState, \* at the app-server: the account, and whether a login goes on; as shown
    astray,    \* an answer came late, or not at all, since the last selection
    wishes, news, faults

webVars == <<focus, status, current, socket, late, heardFor, threads, selection, shown, asked, asks, busy,
             prompt, sent, disturbed, signed, logins, authState, astray, wishes, news, faults>>

AllThreads == Listed \cup {Fresh}
Clients == 1 .. MaxClients
Texts == 1 .. MaxWishes
Connecting == -1 \* in place of the action that a request belongs to
NoAction == 0

WebTypeOK ==
    /\ status \in {"disconnected", "connecting", "connected", "error"}
    /\ current \in {0} \cup Clients /\ socket \in [Clients -> {"none", "opening", "open", "closed", "again"}]
    /\ threads \subseteq AllThreads /\ {heardFor, selection, shown} \subseteq AllThreads \cup {Nothing}
    /\ prompt \in {0} \cup Texts /\ disturbed \subseteq Texts
    /\ signed \in {"in", "out"} /\ logins \in BOOLEAN /\ authState \in {"none", "in", "out", "login"}

WebInit ==
    /\ focus \in {"threads", "account"}
    /\ status = "disconnected" /\ current = 0 /\ socket = [c \in Clients |-> "none"] /\ late = {}
    /\ heardFor = Nothing /\ threads = Listed /\ selection = Nothing /\ shown = Nothing
    /\ asked = {} /\ asks = 0 /\ busy = "none"
    /\ prompt = 0 /\ sent = [p \in Texts |-> 0] /\ disturbed = {}
    /\ signed = "out" /\ logins = FALSE /\ authState = "none" /\ astray = FALSE
    /\ wishes = 0 /\ news = 0 /\ faults = 0

-----------------------------------------------------------------------------
(* Requests.                                                               *)

\* For an action (its first request), of a thread; a list knows a selection.
Request(n, kind, action, of, was) == [n |-> asks + n, kind |-> kind, action |-> action, of |-> of, was |-> was]
Read(n, action, t) == Request(n, "read", action, t, Nothing)
List(n, action, was) == Request(n, "list", action, Nothing, was)
Account(n, kind, action) == Request(n, kind, action, Nothing, Nothing)

Goes(requests) ==
    /\ asked' = asked \cup requests /\ asks' = asks + Cardinality(requests) /\ asks' <= MaxAsked
\* q is answered, and more is asked; the last answer of an action ends it, and
\* with it whatever is busy.
Answered(q, more) ==
    /\ q \in asked /\ current # 0 /\ socket[current] \in {"open", "again"} /\ asked' = (asked \ {q}) \cup more
    /\ asks' = asks + Cardinality(more) /\ asks' <= MaxAsked
    /\ LET ends == q.action > 0 /\ \A r \in asked' : r.action # q.action IN
       /\ busy' = IF ends THEN "none" ELSE busy
       /\ disturbed' = IF ends THEN disturbed \cup {r.was : r \in {r \in asked' : r.kind = "turn"}} ELSE disturbed
Server == <<signed, logins>>
Connection == <<status, current, socket, late, heardFor>>
Writing == <<prompt, sent>>
Bounds == <<focus, wishes, news, faults>>

\* refreshThreads: what is selected, or else some thread.
Picked(was) == IF was # Nothing THEN {was} ELSE threads
ListAnswered(q) ==
    /\ q.kind = "list"
    /\ \E next \in Picked(q.was) : selection' = next /\ Answered(q, {Read(1, q.action, next)})
    /\ UNCHANGED <<Connection, Writing, Bounds, threads, shown, Server, authState, astray>>
\* readThread
Overtakes(q) == \E r \in asked : r.kind = "read" /\ r.n < q.n
ReadAnswered(q) ==
    /\ q.kind = "read" /\ Answered(q, {}) /\ shown' = q.of /\ astray' = (astray \/ Overtakes(q))
    /\ UNCHANGED <<Connection, Writing, Bounds, threads, selection, Server, authState>>
\* sendPrompt: thread/start,
StartAnswered(q) ==
    /\ q.kind = "start" /\ Answered(q, {[Request(1, "turn", q.action, Fresh, q.was) EXCEPT !.kind = "turn"]})
    /\ threads' = threads \cup {Fresh} /\ selection' = Fresh /\ shown' = Fresh
    /\ UNCHANGED <<Connection, Writing, Bounds, Server, authState, astray>>
\* and turn/start; the list still knows the selection of the moment of sending.
TurnAnswered(q) ==
    /\ q.kind = "turn"
    /\ Answered(q, {List(1, q.action, IF q.n = q.action THEN q.of ELSE Nothing), Read(2, q.action, q.of)})
    /\ sent' = [sent EXCEPT ![q.was] = @ + 1] /\ prompt' = 0 /\ astray' = (astray \/ q.of # selection)
    /\ UNCHANGED <<Connection, Bounds, threads, selection, shown, Server, authState>>
\* interruptTurn
InterruptAnswered(q) ==
    /\ q.kind = "interrupt" /\ Answered(q, {Read(1, q.action, q.of)}) /\ astray' = (astray \/ q.of # selection)
    /\ UNCHANGED <<Connection, Writing, Bounds, threads, selection, shown, Server, authState>>
\* The account: auth.getState, a login that goes on elsewhere, a login at once, logout.
StateRead(q) ==
    /\ q.kind = "account" /\ Answered(q, {}) /\ authState' = signed
    /\ UNCHANGED <<Connection, Writing, Bounds, threads, selection, shown, Server, astray>>
LoginStarted(q) ==
    /\ q.kind = "login" /\ Answered(q, {}) /\ logins' = TRUE /\ authState' = "login"
    /\ UNCHANGED <<Connection, Writing, Bounds, signed, threads, selection, shown, astray>>
SignedInOrOut(q) ==
    /\ q.kind \in {"in", "out"} /\ Answered(q, {Account(1, "account", q.action)}) /\ signed' = q.kind
    /\ UNCHANGED <<logins, Connection, Writing, Bounds, threads, selection, shown, authState, astray>>

\* close() rejects what is in flight; the events of its socket come later.
Closed(c) == [socket EXCEPT ![c] = "closed"]
LateOf(c) ==
    IF c = 0 \/ socket[c] \notin {"opening", "open", "again"} THEN {}
    ELSE {[client |-> c, event |-> e] : e \in IF socket[c] = "opening" THEN {"error", "close"} ELSE {"close"}}
\* A request is refused: its action is over, and what else it asked goes on.  A
\* turn may have been taken all the same.
Dropped(requests, rest) ==
    /\ asked' = {[r EXCEPT !.action = IF \E q \in requests : q.action = @ THEN NoAction ELSE @] : r \in rest}
    /\ busy' = IF \E q \in requests : q.action > 0 THEN "none" ELSE busy
    /\ \E taken \in SUBSET {q.was : q \in {q \in requests : q.kind = "turn"}} :
         sent' = [p \in Texts |-> IF p \in taken THEN sent[p] + 1 ELSE sent[p]]
    /\ disturbed' = disturbed \cup {q.was : q \in {q \in asked : q.kind = "turn"}}
    /\ astray' = (astray \/ requests # {}) /\ UNCHANGED asks
\* An account that cannot be read is not known.
Unread(requests) == IF \E q \in requests : q.kind = "account" THEN "none" ELSE authState
\* The first list of a connection is what it needs to stand: without, the client is closed.
Needed(q) == q.action = Connecting /\ q.kind # "account"
Refused(q) ==
    /\ q \in asked /\ faults < MaxFaults /\ faults' = faults + 1
    /\ IF Needed(q)
       THEN /\ Dropped(asked, {}) /\ authState' = Unread(asked)
            /\ current' = 0 /\ status' = "error" /\ socket' = Closed(current) /\ late' = late \cup LateOf(current)
       ELSE /\ Dropped({q}, asked \ {q}) /\ authState' = Unread({q})
            /\ UNCHANGED <<status, current, socket, late>>
    /\ UNCHANGED <<heardFor, threads, selection, shown, prompt, Server, focus, wishes, news>>

-----------------------------------------------------------------------------
(* The connection.                                                         *)

\* Any wish of the user.
Wish(f) == focus \in f /\ wishes < MaxWishes /\ wishes' = wishes + 1 /\ UNCHANGED <<focus, news, faults>>
Both == {"threads", "account"}

Connect ==
    /\ status # "connecting" /\ Wish(Both)
    /\ \E c \in Clients :
         /\ \A d \in Clients : socket[d] = "none" <=> d >= c
         /\ current' = c
         /\ socket' = [d \in Clients |-> IF d = c THEN "opening" ELSE IF d = current THEN "closed" ELSE socket[d]]
    /\ late' = late \cup LateOf(current) /\ status' = "connecting" /\ heardFor' = selection
    /\ Dropped(asked, {}) /\ authState' = Unread(asked)
    /\ UNCHANGED <<threads, selection, shown, prompt, Server>>
Opened ==
    /\ current # 0 /\ socket[current] = "opening" /\ socket' = [socket EXCEPT ![current] = "open"]
    /\ status' = "connected"
    /\ Goes({List(1, Connecting, heardFor), Account(2, "account", Connecting)})
    /\ UNCHANGED <<current, late, heardFor, threads, selection, shown, busy, Writing, disturbed, Server, authState, astray, Bounds>>
CannotOpen ==
    /\ current # 0 /\ socket[current] = "opening" /\ socket' = Closed(current)
    /\ late' = late \cup {[client |-> current, event |-> "close"]} /\ current' = 0 /\ status' = "error"
    /\ faults < MaxFaults /\ faults' = faults + 1 /\ Dropped(asked, {})
    /\ UNCHANGED <<heardFor, threads, selection, shown, prompt, Server, authState, focus, wishes, news>>
Disconnect ==
    /\ current # 0 /\ Wish(Both)
    /\ late' = late \cup LateOf(current) /\ socket' = Closed(current)
    /\ current' = 0 /\ status' = "disconnected" /\ authState' = "none" /\ Dropped(asked, {})
    /\ UNCHANGED <<heardFor, threads, selection, shown, prompt, Server>>
\* The server ends it: the client stays, and its next request opens a socket.
ServerCloses ==
    /\ current # 0 /\ socket[current] \in {"open", "again"} /\ faults < MaxFaults /\ faults' = faults + 1
    /\ socket' = Closed(current) /\ Dropped(asked, {}) /\ authState' = Unread(asked)
    /\ IF \E q \in asked : Needed(q)
       THEN status' = "error" /\ current' = 0
       ELSE status' = "disconnected" /\ UNCHANGED current
    /\ UNCHANGED <<late, heardFor, threads, selection, shown, prompt, Server, focus, wishes, news>>
\* Mutant: the event of a client that was replaced counts.
AnyClose(c) == TRUE
\* An event of a socket that its client closed.
IsCurrent(c) == c = current
LateEvent(e) ==
    /\ e \in late /\ late' = late \ {e}
    /\ status' = IF e.event = "error" THEN "error" ELSE IF IsCurrent(e.client) THEN "disconnected" ELSE status
    /\ UNCHANGED <<current, socket, heardFor, threads, selection, shown, asked, asks, busy, Writing, disturbed, Server, authState, astray, Bounds>>

-----------------------------------------------------------------------------
(* The user and the backend.                                               *)

\* An action starts: it is the one that is busy, whatever runs beside it.
Acts(name, requests) ==
    /\ current # 0 /\ Goes(requests) /\ busy' = name
    /\ disturbed' = disturbed \cup {q.was : q \in {q \in asked : q.kind \in {"start", "turn"}}}
Act == asks + 1
Online == status = "connected"
\* A thread may be clicked at any time, and a turn on the screen interrupted.
Reopens == socket' = IF socket[current] = "closed" THEN [socket EXCEPT ![current] = "again"] ELSE socket
SelectThread(t) ==
    /\ Wish({"threads"}) /\ t \in threads /\ Acts("read", {Read(1, Act, t)})
    /\ selection' = t /\ astray' = (asked # {})
    /\ Reopens /\ UNCHANGED <<status, current, late, heardFor, threads, shown, Writing, Server, authState>>
NewThread ==
    /\ Wish({"threads"}) /\ Online /\ selection # Nothing
    /\ selection' = Nothing /\ shown' = Nothing /\ astray' = (asked # {})
    /\ UNCHANGED <<Connection, threads, asked, asks, busy, Writing, disturbed, Server, authState>>
refreshCurrent ==
    /\ Wish({"threads"}) /\ Online /\ busy # "refresh"
    /\ Acts("refresh", {List(1, Act, selection)} \cup IF selection = Nothing THEN {} ELSE {Read(2, Act, selection)})
    /\ UNCHANGED <<Connection, threads, selection, shown, Writing, Server, authState, astray>>
Type ==
    /\ Wish({"threads"}) /\ Online /\ busy # "send" /\ prompt' = wishes'
    /\ UNCHANGED <<Connection, threads, selection, shown, asked, asks, busy, sent, disturbed, Server, authState, astray>>
\* The text goes along as "was".
Mark(p) == [Request(1, IF selection = Nothing THEN "start" ELSE "turn", Act, selection, Nothing) EXCEPT !.was = p]
MaySend == busy # "send"
sendPrompt ==
    /\ Wish({"threads"}) /\ Online /\ prompt # 0 /\ MaySend
    /\ Acts("send", {Mark(prompt)})
    /\ UNCHANGED <<Connection, threads, selection, shown, Writing, Server, authState, astray>>
interruptTurn ==
    /\ Wish({"threads"}) /\ shown # Nothing /\ selection # Nothing /\ busy # "interrupt"
    /\ Acts("interrupt", {Request(1, "interrupt", Act, selection, Nothing)}) /\ Reopens
    /\ UNCHANGED <<status, current, late, heardFor, threads, selection, shown, Writing, Server, authState, astray>>
SignIn(kind) ==
    /\ Wish({"account"}) /\ Online /\ busy # "auth" /\ Acts("auth", {Account(1, kind, Act)})
    /\ UNCHANGED <<Connection, threads, selection, shown, Writing, Server, authState, astray>>
\* A login ends in the browser, or another client signs in or out: the
\* notification has the account read.
AccountChanges(how) ==
    /\ focus = "account" /\ signed' = how
    /\ \/ logins /\ logins' = FALSE /\ UNCHANGED news
       \/ news < MaxNews /\ news' = news + 1 /\ UNCHANGED logins
    /\ IF current # 0 /\ socket[current] \in {"open", "again"} THEN Goes({Account(1, "account", NoAction)}) ELSE UNCHANGED <<asked, asks>>
    /\ UNCHANGED <<Connection, threads, selection, shown, busy, Writing, disturbed, authState, astray, focus, wishes, faults>>
\* handleNotification, for a thread.
Notified(t) ==
    /\ current # 0 /\ socket[current] \in {"open", "again"} /\ t \in threads /\ focus = "threads"
    /\ news < MaxNews /\ news' = news + 1
    /\ LET wanted == heardFor \in {Nothing, t} IN
       /\ selection' = IF wanted THEN t ELSE selection
       /\ Goes((IF wanted THEN {Read(1, NoAction, t)} ELSE {}) \cup {List(IF wanted THEN 2 ELSE 1, NoAction, heardFor)})
    /\ UNCHANGED <<Connection, threads, shown, busy, Writing, disturbed, Server, authState, astray, focus, wishes, faults>>

WebNext ==
    \/ \E q \in asked : \/ ListAnswered(q) \/ ReadAnswered(q) \/ StartAnswered(q) \/ TurnAnswered(q) \/ InterruptAnswered(q)
                        \/ StateRead(q) \/ LoginStarted(q) \/ SignedInOrOut(q) \/ Refused(q)
    \/ Connect \/ Opened \/ CannotOpen \/ Disconnect \/ ServerCloses \/ \E e \in late : LateEvent(e)
    \/ \E t \in AllThreads : SelectThread(t) \/ Notified(t)
    \/ NewThread \/ refreshCurrent \/ Type \/ sendPrompt \/ interruptTurn
    \/ \E kind \in {"login", "in", "out"} : SignIn(kind)
    \/ \E how \in {"in", "out"} : AccountChanges(how)

WebSpec == WebInit /\ [][WebNext]_webVars
-----------------------------------------------------------------------------
(* Properties.                                                             *)

\* What the header says of the connection is true of the current client.
ConnectionIsTold ==
    /\ status = "connected" => current # 0 /\ socket[current] = "open"
    /\ status = "connecting" => socket[current] = "opening"
    /\ status = "disconnected" => current = 0 \/ socket[current] \in {"closed", "again"}

\* Once everything is answered, in order, the items on the screen are those of the
\* selected thread, however the answers and the user moved the selection; only
\* what was asked before New Thread, refused, overtaken, or read again for a thread
\* that the user has left may remain.
ScreenIsOfSelection == asked = {} /\ ~astray => shown = selection

\* So is the account while somebody listens, where the header tells one at all:
\* a login that ended in the browser is not shown as going on.
AccountIsTold ==
    asked = {} /\ status = "connected" => authState \in {"none", signed} \/ (logins /\ authState = "login")

\* A text is sent once, unless another action began or ended, or a request
\* failed, while it was being sent.
SentOnce == \A p \in Texts : sent[p] > 1 => p \in disturbed

ConsoleIsSound == ConnectionIsTold /\ ScreenIsOfSelection /\ AccountIsTold /\ SentOnce
=============================================================================
