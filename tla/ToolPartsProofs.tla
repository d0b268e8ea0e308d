--------------------------- MODULE ToolPartsProofs ---------------------------
(***************************************************************************)
(* What TLAPS proves of the parts of MCToolParts: the web console keeps to *)
(* its connection, whatever events come late and whoever answers first,    *)
(* for every bound on what the user does; the client on a child process    *)
(* leaves none behind and settles its requests for reasons of their own,   *)
(* for every number of processes and requests; the requests over a         *)
(* WebSocket share its connection, for every set of requests and every     *)
(* number of sockets; a login is only waited for to its own end, for every *)
(* set of logins; so that all the connections to the app-server are sound. *)
(***************************************************************************)
EXTENDS MCToolParts, FiniteSetTheorems, TLAPS

-----------------------------------------------------------------------------
(* The web console (App.tsx).                                              *)

Sends == {"start", "turn"}

\* What the header tells of the connection, and that the events to come are those of
\* other clients than the current one.
ConnectionOK ==
    /\ status \in {"disconnected", "connecting", "connected", "error"}
    /\ current \in {0} \cup Web!Clients
    /\ webSocket \in [Web!Clients -> {"none", "opening", "open", "closed", "again"}]
    /\ current # 0 => webSocket[current] # "none"
    /\ status = "connecting" => current # 0
    /\ \A e \in webLate : e.client \in Web!Clients /\ e.client # current /\ webSocket[e.client] # "none"
    /\ Web!ConnectionIsTold

\* The requests are numbered.
IsRequest(r) == r = [n |-> r.n, kind |-> r.kind, action |-> r.action, of |-> r.of, was |-> r.was]
Numbered == asks \in Nat /\ \A r \in asked : IsRequest(r) /\ r.n \in Nat /\ r.n <= asks

\* What is in flight brings the screen to the selection.
Newest(r) == \A s \in asked : s.kind = "read" => s = r \/ s.n < r.n
ScreenFollows ==
    ~astray => \/ webShown = selection /\ \A r \in asked : r.kind # "read"
               \/ \E r \in asked : r.kind = "read" /\ r.of = selection /\ Newest(r)
               \/ \E r \in asked : r.kind \in {"turn", "interrupt"}

\* The header shows the account, or it is being read.
ShowsAccount == authState \in {"none", webSigned} \/ (webLogins /\ authState = "login")
AccountFollows == status = "connected" => ShowsAccount \/ \E r \in asked : r.kind = "account"

\* A text that nothing disturbed is written, or on its way, or taken.
TextIsOnce ==
    /\ webSent \in [Web!Texts -> Nat] /\ wishes \in Nat /\ prompt \in Nat /\ prompt <= wishes
    /\ \A r \in asked : r.kind \in Sends => r.was \in Nat /\ r.was <= wishes
    /\ \A p \in Web!Texts \ disturbed :
         /\ webSent[p] <= 1
         /\ webSent[p] = 1 => p <= wishes /\ prompt # p /\ \A r \in asked : r.kind \in Sends => r.was # p
         /\ \A r \in asked, s \in asked : (r.kind \in Sends /\ s.kind \in Sends /\ r.was = p /\ s.was = p) => r = s

WebInv == ConnectionOK /\ Numbered /\ ScreenFollows /\ AccountFollows /\ TextIsOnce

\* The numbers of the requests that an action makes: none, one or two.
LEMMA Counts ==
    /\ Web!Cardinality({}) = 0
    /\ \A x : Web!Cardinality({x}) = 1
    /\ \A x, y : x # y => Web!Cardinality({x, y}) = 2
<1>1. \A S : Web!Cardinality(S) = Cardinality(S)
  BY DEF Web!Cardinality, Cardinality
<1>2. Cardinality({}) = 0
  BY FS_EmptySet
<1>3. \A x : IsFiniteSet({x}) /\ Cardinality({x}) = 1
  BY FS_Singleton
<1>4. ASSUME NEW x, NEW y, x # y PROVE Cardinality({x, y}) = 2
  <2>1. Cardinality({x} \cup {y}) = Cardinality({x}) + 1
    BY <1>3, <1>4, FS_AddElement
  <2>2. {x} \cup {y} = {x, y}
    OBVIOUS
  <2> QED
    BY <1>3, <2>1, <2>2
<1> QED
  BY <1>1, <1>2, <1>3, <1>4

LEMMA WebStart == Web!WebInit => WebInv
<1> SUFFICES ASSUME Web!WebInit PROVE WebInv
  OBVIOUS
<1>1. ConnectionOK
  BY DEF Web!WebInit, ConnectionOK, Web!ConnectionIsTold
<1>2. Numbered /\ ScreenFollows /\ AccountFollows
  BY DEF Web!WebInit, Numbered, ScreenFollows, AccountFollows, ShowsAccount
<1>3. TextIsOnce
  BY DEF Web!WebInit, TextIsOnce, Web!Texts
<1> QED
  BY <1>1, <1>2, <1>3 DEF WebInv

\* What an answer asks next: nothing, one request or two.
Asks(q) ==
    /\ q \in asked /\ asks' \in Nat /\ asks <= asks' /\ asked \ {q} \subseteq asked'
    /\ \A r \in asked' : r \in asked \ {q} \/ (IsRequest(r) /\ r.n \in Nat /\ asks < r.n /\ r.n <= asks')
    /\ disturbed \subseteq disturbed'

LEMMA AsksNothing ==
    ASSUME asks \in Nat, NEW q, Web!Answered(q, {})
    PROVE  Asks(q) /\ asked' = asked \ {q}
  BY Counts DEF Web!Answered, Asks

LEMMA AsksOne ==
    ASSUME asks \in Nat, NEW q, NEW x, IsRequest(x), x.n = asks + 1, Web!Answered(q, {x})
    PROVE  Asks(q) /\ asked' = (asked \ {q}) \cup {x}
<1>1. asks' = asks + 1 /\ q \in asked /\ asked' = (asked \ {q}) \cup {x} /\ disturbed \subseteq disturbed'
  BY Counts DEF Web!Answered
<1> QED
  BY <1>1 DEF Asks

LEMMA AsksTwo ==
    ASSUME asks \in Nat, NEW q, NEW x, NEW y, IsRequest(x), IsRequest(y), x.n = asks + 1, y.n = asks + 2, Web!Answered(q, {x, y})
    PROVE  Asks(q) /\ asked' = (asked \ {q}) \cup {x, y}
<1>1. x # y
  OBVIOUS
<1>2. asks' = asks + 2 /\ q \in asked /\ asked' = (asked \ {q}) \cup {x, y} /\ disturbed \subseteq disturbed'
  BY <1>1, Counts DEF Web!Answered
<1> QED
  BY <1>2 DEF Asks

LEMMA ListAsks ==
    ASSUME asks \in Nat, NEW q, Web!ListAnswered(q)
    PROVE  \E x : /\ x = [n |-> asks + 1, kind |-> "read", action |-> q.action, of |-> selection', was |-> Nothing]
                  /\ Asks(q) /\ asked' = (asked \ {q}) \cup {x}
<1>1. PICK t \in Web!Picked(q.was) : selection' = t /\ Web!Answered(q, {Web!Read(1, q.action, t)})
  BY DEF Web!ListAnswered
<1> DEFINE x == [n |-> asks + 1, kind |-> "read", action |-> q.action, of |-> t, was |-> Nothing]
<1>2. Web!Answered(q, {x}) /\ x.n = asks + 1 /\ IsRequest(x)
  BY <1>1 DEF Web!Read, Web!Request, IsRequest
<1> HIDE DEF x
<1>3. Asks(q) /\ asked' = (asked \ {q}) \cup {x}
  BY <1>2, AsksOne
<1> QED
  BY <1>1, <1>3 DEF x

LEMMA StartAsks ==
    ASSUME asks \in Nat, NEW q, Web!StartAnswered(q)
    PROVE  \E x : /\ x = [n |-> asks + 1, kind |-> "turn", action |-> q.action, of |-> Fresh, was |-> q.was]
                  /\ Asks(q) /\ asked' = (asked \ {q}) \cup {x}
<1> DEFINE x == [n |-> asks + 1, kind |-> "turn", action |-> q.action, of |-> Fresh, was |-> q.was]
<1>2. Web!Answered(q, {x}) /\ x.n = asks + 1 /\ IsRequest(x)
  BY DEF Web!StartAnswered, Web!Request, IsRequest
<1> HIDE DEF x
<1>3. Asks(q) /\ asked' = (asked \ {q}) \cup {x}
  BY <1>2, AsksOne
<1> QED
  BY <1>3 DEF x

LEMMA TurnAsks ==
    ASSUME asks \in Nat, NEW q, Web!TurnAnswered(q)
    PROVE  \E x, y : /\ x.n = asks + 1 /\ x.kind = "list"
                     /\ y = [n |-> asks + 2, kind |-> "read", action |-> q.action, of |-> q.of, was |-> Nothing]
                     /\ Asks(q) /\ asked' = (asked \ {q}) \cup {x, y}
<1> DEFINE x == Web!List(1, q.action, IF q.n = q.action THEN q.of ELSE Nothing)
           y == [n |-> asks + 2, kind |-> "read", action |-> q.action, of |-> q.of, was |-> Nothing]
<1>1. x.n = asks + 1 /\ x.kind = "list" /\ y.n = asks + 2 /\ IsRequest(x) /\ IsRequest(y)
  BY DEF Web!List, Web!Request, IsRequest
<1>2. Web!Answered(q, {x, y})
  BY DEF Web!TurnAnswered, Web!Read, Web!Request
<1> HIDE DEF x, y
<1>3. Asks(q) /\ asked' = (asked \ {q}) \cup {x, y}
  BY <1>1, <1>2, AsksTwo
<1>4. y = [n |-> asks + 2, kind |-> "read", action |-> q.action, of |-> q.of, was |-> Nothing]
  BY DEF y
<1> QED
  BY <1>1, <1>3, <1>4

LEMMA InterruptAsks ==
    ASSUME asks \in Nat, NEW q, Web!InterruptAnswered(q)
    PROVE  \E x : /\ x = [n |-> asks + 1, kind |-> "read", action |-> q.action, of |-> q.of, was |-> Nothing]
                  /\ Asks(q) /\ asked' = (asked \ {q}) \cup {x}
<1> DEFINE x == [n |-> asks + 1, kind |-> "read", action |-> q.action, of |-> q.of, was |-> Nothing]
<1>2. Web!Answered(q, {x}) /\ x.n = asks + 1 /\ IsRequest(x)
  BY DEF Web!InterruptAnswered, Web!Read, Web!Request, IsRequest
<1> HIDE DEF x
<1>3. Asks(q) /\ asked' = (asked \ {q}) \cup {x}
  BY <1>2, AsksOne
<1> QED
  BY <1>3 DEF x

LEMMA AccountAsks ==
    ASSUME asks \in Nat, NEW q, Web!SignedInOrOut(q)
    PROVE  \E x : /\ x = [n |-> asks + 1, kind |-> "account", action |-> q.action, of |-> Nothing, was |-> Nothing]
                  /\ Asks(q) /\ asked' = (asked \ {q}) \cup {x}
<1> DEFINE x == [n |-> asks + 1, kind |-> "account", action |-> q.action, of |-> Nothing, was |-> Nothing]
<1>2. Web!Answered(q, {x}) /\ x.n = asks + 1 /\ IsRequest(x)
  BY DEF Web!SignedInOrOut, Web!Account, Web!Request, IsRequest
<1> HIDE DEF x
<1>3. Asks(q) /\ asked' = (asked \ {q}) \cup {x}
  BY <1>2, AsksOne
<1> QED
  BY <1>3 DEF x

\* What the user or a notification asks.
Makes(xs) ==
    /\ asked' = asked \cup xs /\ asks' \in Nat /\ asks <= asks'
    /\ \A x \in xs : IsRequest(x) /\ x.n \in Nat /\ asks < x.n /\ x.n <= asks'

LEMMA GoesOne ==
    ASSUME asks \in Nat, NEW x, IsRequest(x), x.n = asks + 1, Web!Goes({x})
    PROVE  Makes({x})
<1>1. asks' = asks + 1 /\ asked' = asked \cup {x}
  BY Counts DEF Web!Goes
<1> QED
  BY <1>1 DEF Makes

LEMMA GoesTwo ==
    ASSUME asks \in Nat, NEW x, NEW y, IsRequest(x), IsRequest(y), x.n = asks + 1, y.n = asks + 2, Web!Goes({x, y})
    PROVE  Makes({x, y})
<1>1. x # y
  OBVIOUS
<1>2. asks' = asks + 2 /\ asked' = asked \cup {x, y}
  BY <1>1, Counts DEF Web!Goes
<1> QED
  BY <1>2 DEF Makes

LEMMA OpenedMakes ==
    ASSUME asks \in Nat, Web!Opened
    PROVE  \E x, y : Makes({x, y}) /\ x.kind = "list" /\ y.kind = "account"
<1> DEFINE x == Web!List(1, Web!Connecting, heardFor)
           y == Web!Account(2, "account", Web!Connecting)
<1>1. x.n = asks + 1 /\ y.n = asks + 2 /\ IsRequest(x) /\ IsRequest(y) /\ x.kind = "list" /\ y.kind = "account"
  BY DEF Web!List, Web!Account, Web!Request, IsRequest
<1>2. Web!Goes({x, y})
  BY DEF Web!Opened
<1> HIDE DEF x, y
<1> QED
  BY <1>1, <1>2, GoesTwo

LEMMA SelectMakes ==
    ASSUME asks \in Nat, NEW t, Web!SelectThread(t)
    PROVE  \E x : Makes({x}) /\ x.kind = "read" /\ x.of = selection'
<1> DEFINE x == Web!Read(1, Web!Act, t)
<1>1. x.n = asks + 1 /\ IsRequest(x) /\ x.kind = "read" /\ x.of = t
  BY DEF Web!Read, Web!Request, IsRequest
<1>2. Web!Goes({x}) /\ selection' = t
  BY DEF Web!SelectThread, Web!Acts
<1> HIDE DEF x
<1> QED
  BY <1>1, <1>2, GoesOne

LEMMA RefreshMakes ==
    ASSUME asks \in Nat, Web!refreshCurrent
    PROVE  \/ \E x : Makes({x}) /\ x.kind = "list"
           \/ \E x, y : Makes({x, y}) /\ x.kind = "list" /\ y.kind = "read" /\ y.of = selection /\ y.n = asks + 2
<1> DEFINE x == Web!List(1, Web!Act, selection)
           y == Web!Read(2, Web!Act, selection)
<1>1. x.n = asks + 1 /\ y.n = asks + 2 /\ IsRequest(x) /\ IsRequest(y) /\ x.kind = "list" /\ y.kind = "read" /\ y.of = selection
  BY DEF Web!List, Web!Read, Web!Request, IsRequest
<1>2. Web!Goes({x} \cup IF selection = Nothing THEN {} ELSE {y})
  BY DEF Web!refreshCurrent, Web!Acts
<1> HIDE DEF x, y
<1>3. {x} \cup {} = {x} /\ {x} \cup {y} = {x, y}
  OBVIOUS
<1>4. CASE selection = Nothing
  BY <1>1, <1>2, <1>3, <1>4, GoesOne
<1>5. CASE selection # Nothing
  BY <1>1, <1>2, <1>3, <1>5, GoesTwo
<1> QED
  BY <1>4, <1>5

LEMMA SendMakes ==
    ASSUME asks \in Nat, Web!sendPrompt
    PROVE  \E x : Makes({x}) /\ x.kind \in Sends /\ x.was = prompt
<1> DEFINE x == Web!Mark(prompt)
<1>1. x.n = asks + 1 /\ IsRequest(x) /\ x.kind \in Sends /\ x.was = prompt
  BY DEF Web!Mark, Web!Request, IsRequest, Sends
<1>2. Web!Goes({x})
  BY DEF Web!sendPrompt, Web!Acts
<1> HIDE DEF x
<1> QED
  BY <1>1, <1>2, GoesOne

LEMMA InterruptMakes ==
    ASSUME asks \in Nat, Web!interruptTurn
    PROVE  \E x : Makes({x}) /\ x.kind = "interrupt"
<1> DEFINE x == Web!Request(1, "interrupt", Web!Act, selection, Nothing)
<1>1. x.n = asks + 1 /\ IsRequest(x) /\ x.kind = "interrupt"
  BY DEF Web!Request, IsRequest
<1>2. Web!Goes({x})
  BY DEF Web!interruptTurn, Web!Acts
<1> HIDE DEF x
<1> QED
  BY <1>1, <1>2, GoesOne

LEMMA SignInMakes ==
    ASSUME asks \in Nat, NEW kind, Web!SignIn(kind)
    PROVE  \E x : Makes({x}) /\ x.kind = kind
<1> DEFINE x == Web!Account(1, kind, Web!Act)
<1>1. x.n = asks + 1 /\ IsRequest(x) /\ x.kind = kind
  BY DEF Web!Account, Web!Request, IsRequest
<1>2. Web!Goes({x})
  BY DEF Web!SignIn, Web!Acts
<1> HIDE DEF x
<1> QED
  BY <1>1, <1>2, GoesOne

LEMMA ChangeMakes ==
    ASSUME asks \in Nat, NEW how, Web!AccountChanges(how), current # 0, webSocket[current] \in {"open", "again"}
    PROVE  \E x : Makes({x}) /\ x.kind = "account"
<1> DEFINE x == Web!Account(1, "account", Web!NoAction)
<1>1. x.n = asks + 1 /\ IsRequest(x) /\ x.kind = "account"
  BY DEF Web!Account, Web!Request, IsRequest
<1>2. Web!Goes({x})
  BY DEF Web!AccountChanges
<1> HIDE DEF x
<1> QED
  BY <1>1, <1>2, GoesOne

LEMMA NoticeMakes ==
    ASSUME asks \in Nat, NEW t, Web!Notified(t)
    PROVE  \/ \E x : Makes({x}) /\ x.kind = "list" /\ selection' = selection
           \/ \E x, y : Makes({x, y}) /\ x.kind = "read" /\ x.of = selection' /\ y.kind = "list"
<1> DEFINE x == Web!Read(1, Web!NoAction, t)
           y == Web!List(2, Web!NoAction, heardFor)
           z == Web!List(1, Web!NoAction, heardFor)
<1>1. /\ x.n = asks + 1 /\ y.n = asks + 2 /\ IsRequest(x) /\ IsRequest(y) /\ x.kind = "read" /\ x.of = t /\ y.kind = "list"
      /\ z.n = asks + 1 /\ z.kind = "list" /\ IsRequest(z)
  BY DEF Web!List, Web!Read, Web!Request, IsRequest
<1>2. CASE heardFor \in {Nothing, t}
  <2>1. Web!Goes({x} \cup {y}) /\ selection' = t
    BY <1>2 DEF Web!Notified
  <2> HIDE DEF x, y
  <2>2. {x} \cup {y} = {x, y}
    OBVIOUS
  <2> QED
    BY <1>1, <2>1, <2>2, GoesTwo
<1>3. CASE heardFor \notin {Nothing, t}
  <2>1. Web!Goes({} \cup {z}) /\ selection' = selection
    BY <1>3 DEF Web!Notified
  <2> HIDE DEF z
  <2>2. {} \cup {z} = {z}
    OBVIOUS
  <2> QED
    BY <1>1, <2>1, <2>2, GoesOne
<1> QED
  BY <1>2, <1>3

-----------------------------------------------------------------------------
(* Every step of the console keeps its invariant.                          *)

\* What is left of the requests when some are dropped.
Without(requests, r) ==
    [r EXCEPT !.action = IF \E q \in requests : q.action = r.action THEN Web!NoAction ELSE r.action]
LEMMA DropsSome ==
    ASSUME Numbered, NEW requests, NEW rest \in SUBSET asked, Web!Dropped(requests, rest)
    PROVE  /\ asks' = asks /\ asked' = {Without(requests, r) : r \in rest} /\ disturbed \subseteq disturbed'
           /\ \A r \in rest : /\ IsRequest(Without(requests, r)) /\ Without(requests, r).n = r.n
                              /\ Without(requests, r).kind = r.kind /\ Without(requests, r).was = r.was
           /\ \A q \in asked : q.kind = "turn" => q.was \in disturbed'
           /\ requests # {} => astray'
<1>1. asks' = asks /\ (requests # {} => astray')
  BY DEF Web!Dropped
<1>2. asked' = {Without(requests, r) : r \in rest}
  BY DEF Web!Dropped, Without
<1>3. disturbed \subseteq disturbed' /\ \A q \in asked : q.kind = "turn" => q.was \in disturbed'
  BY DEF Web!Dropped
<1>4. ASSUME NEW r \in rest
      PROVE  /\ IsRequest(Without(requests, r)) /\ Without(requests, r).n = r.n
             /\ Without(requests, r).kind = r.kind /\ Without(requests, r).was = r.was
  <2> DEFINE a == IF \E q \in requests : q.action = r.action THEN Web!NoAction ELSE r.action
  <2>1. IsRequest(r)
    BY DEF Numbered
  <2> HIDE DEF a
  <2>2. [r EXCEPT !.action = a] = [n |-> r.n, kind |-> r.kind, action |-> a, of |-> r.of, was |-> r.was]
    BY <2>1 DEF IsRequest
  <2>3. Without(requests, r) = [r EXCEPT !.action = a]
    BY DEF Without, a
  <2> QED
    BY <2>2, <2>3 DEF IsRequest
<1> QED
  BY <1>1, <1>2, <1>3, <1>4

\* The steps that drop requests, and what they leave.
LEMMA DroppingSteps ==
    ASSUME NEW q, Web!Refused(q) \/ Web!Connect \/ Web!CannotOpen \/ Web!Disconnect \/ Web!ServerCloses
    PROVE  \/ \E requests : Web!Dropped(requests, {}) /\ requests = asked
           \/ Web!Dropped({q}, asked \ {q}) /\ Web!Refused(q) /\ q \in asked
  BY DEF Web!Refused, Web!Connect, Web!CannotOpen, Web!Disconnect, Web!ServerCloses

LEMMA NumberedStep == ASSUME WebInv, Web!WebNext PROVE Numbered'
<1>1. asks \in Nat
  BY DEF WebInv, Numbered
<1>2. ASSUME NEW q, Asks(q) PROVE Numbered'
  BY <1>2 DEF Asks, WebInv, Numbered, IsRequest
<1>3. ASSUME NEW xs, Makes(xs) PROVE Numbered'
  BY <1>3 DEF Makes, WebInv, Numbered, IsRequest
<1>4. ASSUME NEW requests, NEW rest \in SUBSET asked, Web!Dropped(requests, rest) PROVE Numbered'
  <2>1. Numbered
    BY DEF WebInv
  <2>2. /\ asks' = asks /\ asked' = {Without(requests, r) : r \in rest}
        /\ \A r \in rest : IsRequest(Without(requests, r)) /\ Without(requests, r).n = r.n
    BY <1>4, <2>1, DropsSome
  <2> QED
    BY <2>1, <2>2 DEF Numbered, IsRequest
<1>5. ASSUME UNCHANGED <<asked, asks>> PROVE Numbered'
  BY <1>5 DEF WebInv, Numbered, IsRequest
<1>6. ASSUME NEW q \in asked, Web!ListAnswered(q) PROVE Numbered'
  BY <1>1, <1>2, <1>6, ListAsks
<1>7. ASSUME NEW q \in asked, Web!ReadAnswered(q) \/ Web!StateRead(q) \/ Web!LoginStarted(q) PROVE Numbered'
  <2>1. Web!Answered(q, {})
    BY <1>7 DEF Web!ReadAnswered, Web!StateRead, Web!LoginStarted
  <2> QED
    BY <1>1, <1>2, <2>1, AsksNothing
<1>8. ASSUME NEW q \in asked, Web!StartAnswered(q) PROVE Numbered'
  BY <1>1, <1>2, <1>8, StartAsks
<1>9. ASSUME NEW q \in asked, Web!TurnAnswered(q) PROVE Numbered'
  BY <1>1, <1>2, <1>9, TurnAsks
<1>10. ASSUME NEW q \in asked, Web!InterruptAnswered(q) PROVE Numbered'
  BY <1>1, <1>2, <1>10, InterruptAsks
<1>11. ASSUME NEW q \in asked, Web!SignedInOrOut(q) PROVE Numbered'
  BY <1>1, <1>2, <1>11, AccountAsks
<1>12. ASSUME NEW q, Web!Refused(q) \/ Web!Connect \/ Web!CannotOpen \/ Web!Disconnect \/ Web!ServerCloses PROVE Numbered'
  <2>1. CASE \E requests : Web!Dropped(requests, {}) /\ requests = asked
    BY <1>4, <2>1
  <2>2. CASE Web!Dropped({q}, asked \ {q})
    BY <1>4, <2>2
  <2> QED
    BY <1>12, <2>1, <2>2, DroppingSteps
<1>13. CASE Web!Opened
  BY <1>1, <1>3, <1>13, OpenedMakes
<1>14. ASSUME NEW e, Web!LateEvent(e) \/ Web!NewThread \/ Web!Type PROVE Numbered'
  BY <1>5, <1>14 DEF Web!LateEvent, Web!NewThread, Web!Type
<1>15. ASSUME NEW t, Web!SelectThread(t) PROVE Numbered'
  BY <1>1, <1>3, <1>15, SelectMakes
<1>16. ASSUME NEW t, Web!Notified(t) PROVE Numbered'
  BY <1>1, <1>3, <1>16, NoticeMakes
<1>17. CASE Web!refreshCurrent
  BY <1>1, <1>3, <1>17, RefreshMakes
<1>18. CASE Web!sendPrompt
  BY <1>1, <1>3, <1>18, SendMakes
<1>19. CASE Web!interruptTurn
  BY <1>1, <1>3, <1>19, InterruptMakes
<1>20. ASSUME NEW kind, Web!SignIn(kind) PROVE Numbered'
  BY <1>1, <1>3, <1>20, SignInMakes
<1>21. ASSUME NEW how, Web!AccountChanges(how) PROVE Numbered'
  <2>1. CASE current # 0 /\ webSocket[current] \in {"open", "again"}
    BY <1>1, <1>3, <1>21, <2>1, ChangeMakes
  <2>2. CASE ~(current # 0 /\ webSocket[current] \in {"open", "again"})
    BY <1>5, <1>21, <2>2 DEF Web!AccountChanges
  <2> QED
    BY <2>1, <2>2
<1> QED
  BY <1>6, <1>7, <1>8, <1>9, <1>10, <1>11, <1>12, <1>13, <1>14, <1>15, <1>16, <1>17, <1>18, <1>19, <1>20, <1>21
  DEF Web!WebNext

\* The steps that leave the connection alone.
LEMMA ConnectionKept == ASSUME ConnectionOK, UNCHANGED <<status, current, webSocket, webLate>> PROVE ConnectionOK'
  BY DEF ConnectionOK, Web!ConnectionIsTold

LEMMA ConnectionClosed ==
    ASSUME ConnectionOK, current # 0, current' = 0, webSocket' = Web!Closed(current), status' \in {"error", "disconnected"},
           \A e \in webLate' : e \in webLate \/ e.client = current
    PROVE  ConnectionOK'
<1>1. current \in Web!Clients /\ 0 \notin Web!Clients
  BY DEF ConnectionOK, Web!Clients
<1>2. /\ webSocket' \in [Web!Clients -> {"none", "opening", "open", "closed", "again"}]
      /\ \A c \in Web!Clients : webSocket[c] # "none" => webSocket'[c] # "none"
  BY <1>1 DEF ConnectionOK, Web!Closed
<1> QED
  BY <1>1, <1>2 DEF ConnectionOK, Web!ConnectionIsTold

LEMMA ConnectionStep == ASSUME WebInv, Web!WebNext PROVE ConnectionOK'
<1>1. ConnectionOK
  BY DEF WebInv
<1>2. ASSUME UNCHANGED <<status, current, webSocket, webLate>> PROVE ConnectionOK'
  BY <1>1, <1>2, ConnectionKept
<1>3. \A e \in Web!LateOf(current) : current # 0 /\ e.client = current
  BY DEF Web!LateOf
<1>4. \A c \in Web!Clients : c # 0
  BY DEF Web!Clients
<1>5. ASSUME NEW q \in asked, Web!ListAnswered(q) \/ Web!ReadAnswered(q) \/ Web!StartAnswered(q) \/ Web!TurnAnswered(q)
                              \/ Web!InterruptAnswered(q) \/ Web!StateRead(q) \/ Web!LoginStarted(q) \/ Web!SignedInOrOut(q)
      PROVE ConnectionOK'
  BY <1>2, <1>5 DEF Web!ListAnswered, Web!ReadAnswered, Web!StartAnswered, Web!TurnAnswered,
                    Web!InterruptAnswered,
                    Web!StateRead, Web!LoginStarted, Web!SignedInOrOut, Web!Connection
<1>6. ASSUME NEW q \in asked, Web!Refused(q) PROVE ConnectionOK'
  <2>1. CASE Web!Needed(q)
    <3>1. /\ current' = 0 /\ status' = "error" /\ webSocket' = Web!Closed(current)
          /\ webLate' = webLate \cup Web!LateOf(current)
      BY <1>6, <2>1 DEF Web!Refused
    <3>2. CASE current # 0
      BY <1>1, <1>3, <3>1, <3>2, ConnectionClosed
    <3>3. CASE current = 0
      BY <1>1, <1>3, <3>1, <3>3 DEF ConnectionOK, Web!ConnectionIsTold, Web!Closed
    <3> QED
      BY <3>2, <3>3
  <2>2. CASE ~Web!Needed(q)
    BY <1>2, <1>6, <2>2 DEF Web!Refused
  <2> QED
    BY <2>1, <2>2
<1>7. CASE Web!Connect
  <2>1. PICK c \in Web!Clients :
          /\ \A d \in Web!Clients : webSocket[d] = "none" <=> d >= c
          /\ current' = c
          /\ webSocket' = [d \in Web!Clients |-> IF d = c THEN "opening" ELSE IF d = current THEN "closed" ELSE webSocket[d]]
    BY <1>7 DEF Web!Connect
  <2>2. webSocket[c] = "none"
    BY <2>1 DEF Web!Clients
  <2>3. webLate' = webLate \cup Web!LateOf(current) /\ status' = "connecting"
    BY <1>7 DEF Web!Connect
  <2>4. webSocket' \in [Web!Clients -> {"none", "opening", "open", "closed", "again"}]
    BY <1>1, <2>1 DEF ConnectionOK
  <2>5. webSocket'[c] = "opening" /\ c # 0 /\ \A d \in Web!Clients : webSocket[d] # "none" => webSocket'[d] # "none"
    BY <1>4, <2>1
  <2>6. ASSUME NEW e \in webLate' PROVE e.client \in Web!Clients /\ webSocket[e.client] # "none" /\ e.client # c
    <3>1. CASE e \in webLate
      BY <1>1, <2>2, <3>1 DEF ConnectionOK
    <3>2. CASE e \in Web!LateOf(current)
      BY <1>1, <1>3, <2>2, <3>2 DEF ConnectionOK
    <3> QED
      BY <2>3, <3>1, <3>2
  <2> QED
    BY <2>1, <2>3, <2>4, <2>5, <2>6 DEF ConnectionOK, Web!ConnectionIsTold
<1>8. CASE Web!Opened
  <2>1. /\ current # 0 /\ current' = current /\ webSocket' = [webSocket EXCEPT ![current] = "open"]
        /\ status' = "connected" /\ webLate' = webLate
    BY <1>8 DEF Web!Opened
  <2>2. current \in Web!Clients
    BY <1>1, <2>1 DEF ConnectionOK
  <2>3. /\ webSocket' \in [Web!Clients -> {"none", "opening", "open", "closed", "again"}] /\ webSocket'[current] = "open"
        /\ \A c \in Web!Clients : webSocket[c] # "none" => webSocket'[c] # "none"
    BY <1>1, <2>1, <2>2 DEF ConnectionOK
  <2> QED
    BY <1>1, <2>1, <2>2, <2>3 DEF ConnectionOK, Web!ConnectionIsTold
<1>9. CASE Web!CannotOpen
  BY <1>1, <1>9, ConnectionClosed DEF Web!CannotOpen
<1>10. CASE Web!Disconnect
  BY <1>1, <1>3, <1>10, ConnectionClosed DEF Web!Disconnect
<1>11. CASE Web!ServerCloses
  <2>1. CASE \E q \in asked : Web!Needed(q)
    BY <1>1, <1>11, <2>1, ConnectionClosed DEF Web!ServerCloses
  <2>2. CASE ~\E q \in asked : Web!Needed(q)
    <3>1. /\ current # 0 /\ current' = current /\ webSocket' = [webSocket EXCEPT ![current] = "closed"]
          /\ status' = "disconnected" /\ webLate' = webLate
      BY <1>11, <2>2 DEF Web!ServerCloses, Web!Closed
    <3>2. current \in Web!Clients
      BY <1>1, <3>1 DEF ConnectionOK
    <3>3. /\ webSocket' \in [Web!Clients -> {"none", "opening", "open", "closed", "again"}] /\ webSocket'[current] = "closed"
          /\ \A c \in Web!Clients : webSocket[c] # "none" => webSocket'[c] # "none"
      BY <1>1, <3>1, <3>2 DEF ConnectionOK
    <3> QED
      BY <1>1, <3>1, <3>2, <3>3 DEF ConnectionOK, Web!ConnectionIsTold
  <2> QED
    BY <2>1, <2>2
<1>12. ASSUME NEW e \in webLate, Web!LateEvent(e) PROVE ConnectionOK'
  <2>1. e.client # current
    BY <1>1 DEF ConnectionOK
  <2>2. /\ webLate' = webLate \ {e} /\ UNCHANGED <<current, webSocket>>
        /\ status' = IF e.event = "error" THEN "error" ELSE status
    BY <1>12, <2>1 DEF Web!LateEvent, Web!IsCurrent
  <2> QED
    BY <1>1, <2>2 DEF ConnectionOK, Web!ConnectionIsTold
<1>13. ASSUME Web!Reopens, current # 0, UNCHANGED <<status, current, webLate>> PROVE ConnectionOK'
  <2>1. CASE webSocket[current] = "closed"
    <3>1. webSocket' = [webSocket EXCEPT ![current] = "again"] /\ current \in Web!Clients
      BY <1>1, <1>13, <2>1 DEF Web!Reopens, ConnectionOK
    <3>2. /\ webSocket' \in [Web!Clients -> {"none", "opening", "open", "closed", "again"}] /\ webSocket'[current] = "again"
          /\ \A c \in Web!Clients : webSocket[c] # "none" => webSocket'[c] # "none"
      BY <1>1, <3>1 DEF ConnectionOK
    <3>3. status # "connected" /\ status # "connecting"
      BY <1>1, <2>1 DEF ConnectionOK, Web!ConnectionIsTold
    <3> QED
      BY <1>1, <1>13, <3>1, <3>2, <3>3 DEF ConnectionOK, Web!ConnectionIsTold
  <2>2. CASE webSocket[current] # "closed"
    BY <1>2, <1>13, <2>2 DEF Web!Reopens
  <2> QED
    BY <2>1, <2>2
<1>14. ASSUME NEW t, Web!SelectThread(t) \/ Web!interruptTurn PROVE ConnectionOK'
  BY <1>13, <1>14 DEF Web!SelectThread, Web!interruptTurn, Web!Acts
<1>15. ASSUME NEW t, NEW kind, NEW how,
              Web!NewThread \/ Web!refreshCurrent \/ Web!Type \/ Web!sendPrompt \/ Web!Notified(t) \/ Web!SignIn(kind) \/ Web!AccountChanges(how)
       PROVE ConnectionOK'
  BY <1>2, <1>15 DEF Web!NewThread, Web!refreshCurrent, Web!Type, Web!sendPrompt, Web!Notified, Web!SignIn,
                     Web!AccountChanges, Web!Connection
<1> QED
  BY <1>5, <1>6, <1>7, <1>8, <1>9, <1>10, <1>11, <1>12, <1>14, <1>15 DEF Web!WebNext

LEMMA ScreenStep == ASSUME WebInv, Web!WebNext PROVE ScreenFollows'
<1>1. asks \in Nat /\ Numbered /\ ScreenFollows
  BY DEF WebInv, Numbered
\* The selection is asked for after all that was asked before.
<1>2. ASSUME NEW y \in asked', y.kind = "read", y.of = selection', asks < y.n, y.n \in Nat,
             \A s \in asked' : s \in asked \/ s = y \/ s.kind # "read"
      PROVE  ScreenFollows'
  <2>1. \A s \in asked' : s.kind = "read" => s = y \/ s.n < y.n
    BY <1>1, <1>2 DEF Numbered
  <2> QED
    BY <1>2, <2>1 DEF ScreenFollows, Newest
<1>3. ASSUME NEW xs, Makes(xs), NEW y \in xs, y.kind = "read", y.of = selection', \A x \in xs : x = y \/ x.kind # "read"
      PROVE  ScreenFollows'
  BY <1>2, <1>3 DEF Makes
\* Nothing moves, and what is asked or answered is not about items.
<1>4. ASSUME \A r \in asked : r \in asked' \/ r.kind \notin {"read", "turn", "interrupt"},
             \A r \in asked' : r \in asked \/ r.kind \notin {"read", "turn", "interrupt"},
             UNCHANGED <<webShown, selection, astray>>
      PROVE  ScreenFollows'
  BY <1>1, <1>4 DEF ScreenFollows, Newest
\* A turn, or an interrupt, is on its way.
<1>5. ASSUME NEW r \in asked', r.kind \in {"turn", "interrupt"} PROVE ScreenFollows'
  BY <1>5 DEF ScreenFollows
<1>6. ASSUME NEW q \in asked, Web!ListAnswered(q) PROVE ScreenFollows'
  <2>1. PICK x : /\ x = [n |-> asks + 1, kind |-> "read", action |-> q.action, of |-> selection', was |-> Nothing]
                 /\ Asks(q) /\ asked' = (asked \ {q}) \cup {x}
    BY <1>1, <1>6, ListAsks
  <2>2. x.kind = "read" /\ x.of = selection' /\ x.n = asks + 1
    BY <2>1
  <2> QED
    BY <1>1, <1>2, <2>1, <2>2
<1>7. ASSUME NEW q \in asked, Web!ReadAnswered(q) PROVE ScreenFollows'
  <2>1. q.kind = "read" /\ asked' = asked \ {q} /\ webShown' = q.of /\ selection' = selection
    BY <1>7 DEF Web!ReadAnswered, Web!Answered
  <2>2. SUFFICES ASSUME ~astray' PROVE ScreenFollows'
    BY DEF ScreenFollows
  <2>3. ~astray /\ \A r \in asked : r.kind = "read" => ~(r.n < q.n)
    BY <1>7, <2>2 DEF Web!ReadAnswered, Web!Overtakes
  <2>4. CASE \E r \in asked : r.kind \in {"turn", "interrupt"}
    BY <1>5, <2>1, <2>4
  <2>5. CASE \E r \in asked : r.kind = "read" /\ r.of = selection /\ Newest(r)
    <3>1. PICK r \in asked : r.kind = "read" /\ r.of = selection /\ Newest(r)
      BY <2>5
    <3>2. CASE r = q
      BY <2>1, <2>3, <3>1, <3>2 DEF ScreenFollows, Newest
    <3>3. CASE r # q
      BY <2>1, <3>1, <3>3 DEF ScreenFollows, Newest
    <3> QED
      BY <3>2, <3>3
  <2> QED
    BY <1>1, <2>1, <2>3, <2>4, <2>5 DEF ScreenFollows
<1>8. ASSUME NEW q \in asked, Web!StartAnswered(q) PROVE ScreenFollows'
  <2>1. PICK x : x.kind = "turn" /\ asked' = (asked \ {q}) \cup {x}
    BY <1>1, <1>8, StartAsks
  <2> QED
    BY <1>5, <2>1
<1>9. ASSUME NEW q \in asked, Web!TurnAnswered(q) PROVE ScreenFollows'
  <2>1. PICK x, y : /\ x.n = asks + 1 /\ x.kind = "list"
                    /\ y = [n |-> asks + 2, kind |-> "read", action |-> q.action, of |-> q.of, was |-> Nothing]
                    /\ Asks(q) /\ asked' = (asked \ {q}) \cup {x, y}
    BY <1>1, <1>9, TurnAsks
  <2>2. y.kind = "read" /\ y.of = q.of /\ y.n = asks + 2
    BY <2>1
  <2>3. selection' = selection /\ (astray' \/ q.of = selection)
    BY <1>9 DEF Web!TurnAnswered
  <2>4. CASE astray'
    BY <2>4 DEF ScreenFollows
  <2>5. CASE q.of = selection
    BY <1>1, <1>2, <2>1, <2>2, <2>3, <2>5
  <2> QED
    BY <2>3, <2>4, <2>5
<1>10. ASSUME NEW q \in asked, Web!InterruptAnswered(q) PROVE ScreenFollows'
  <2>1. PICK x : /\ x = [n |-> asks + 1, kind |-> "read", action |-> q.action, of |-> q.of, was |-> Nothing]
                 /\ Asks(q) /\ asked' = (asked \ {q}) \cup {x}
    BY <1>1, <1>10, InterruptAsks
  <2>2. x.kind = "read" /\ x.of = q.of /\ x.n = asks + 1
    BY <2>1
  <2>3. selection' = selection /\ (astray' \/ q.of = selection)
    BY <1>10 DEF Web!InterruptAnswered
  <2>4. CASE astray'
    BY <2>4 DEF ScreenFollows
  <2>5. CASE q.of = selection
    BY <1>1, <1>2, <2>1, <2>2, <2>3, <2>5
  <2> QED
    BY <2>3, <2>4, <2>5
<1>11. ASSUME NEW q \in asked, Web!StateRead(q) \/ Web!LoginStarted(q) PROVE ScreenFollows'
  <2>1. q.kind \in {"account", "login"} /\ UNCHANGED <<webShown, selection, astray>> /\ asked' = (asked \ {q}) \cup {}
    BY <1>11 DEF Web!StateRead, Web!LoginStarted, Web!Answered
  <2> QED
    BY <1>4, <2>1
<1>12. ASSUME NEW q \in asked, Web!SignedInOrOut(q) PROVE ScreenFollows'
  <2>1. PICK x : x.kind = "account" /\ asked' = (asked \ {q}) \cup {x}
    BY <1>1, <1>12, AccountAsks
  <2>2. q.kind \in {"in", "out"} /\ UNCHANGED <<webShown, selection, astray>>
    BY <1>12 DEF Web!SignedInOrOut
  <2> QED
    BY <1>4, <2>1, <2>2
<1>13. ASSUME NEW q, Web!Refused(q) \/ Web!Connect \/ Web!CannotOpen \/ Web!Disconnect \/ Web!ServerCloses PROVE ScreenFollows'
  <2>1. CASE \E requests : Web!Dropped(requests, {}) /\ requests = asked
    <3>1. Web!Dropped(asked, {})
      BY <2>1
    <3>2. asked' = {} /\ (asked # {} => astray')
      BY <1>1, <3>1, DropsSome
    <3>3. UNCHANGED <<webShown, selection>> /\ (astray => astray')
      BY <1>13, <3>1 DEF Web!Refused, Web!Connect, Web!CannotOpen, Web!Disconnect, Web!ServerCloses, Web!Dropped
    <3> QED
      BY <1>1, <3>2, <3>3 DEF ScreenFollows
  <2>2. CASE Web!Dropped({q}, asked \ {q})
    <3>1. astray'
      BY <1>1, <2>2, DropsSome
    <3> QED
      BY <3>1 DEF ScreenFollows
  <2> QED
    BY <1>13, <2>1, <2>2, DroppingSteps
<1>14. CASE Web!Opened
  <2>1. PICK x, y : Makes({x, y}) /\ x.kind = "list" /\ y.kind = "account"
    BY <1>1, <1>14, OpenedMakes
  <2>2. UNCHANGED <<webShown, selection, astray>>
    BY <1>14 DEF Web!Opened
  <2>3. asked' = (asked \ {}) \cup {x, y}
    BY <2>1 DEF Makes
  <2> QED
    BY <1>4, <2>1, <2>2, <2>3
<1>15. ASSUME NEW e, Web!LateEvent(e) \/ Web!Type PROVE ScreenFollows'
  <2>1. UNCHANGED <<asked, webShown, selection, astray>>
    BY <1>15 DEF Web!LateEvent, Web!Type
  <2> QED
    BY <1>1, <2>1 DEF ScreenFollows, Newest
<1>16. ASSUME NEW t, Web!SelectThread(t) PROVE ScreenFollows'
  <2>1. PICK x : Makes({x}) /\ x.kind = "read" /\ x.of = selection'
    BY <1>1, <1>16, SelectMakes
  <2> QED
    BY <1>3, <2>1
<1>17. ASSUME NEW t, Web!Notified(t) PROVE ScreenFollows'
  <2>1. UNCHANGED <<webShown, astray>>
    BY <1>17 DEF Web!Notified
  <2>2. CASE \E x : Makes({x}) /\ x.kind = "list" /\ selection' = selection
    <3>1. PICK x : Makes({x}) /\ x.kind = "list" /\ selection' = selection
      BY <2>2
    <3>2. asked' = (asked \ {}) \cup {x}
      BY <3>1 DEF Makes
    <3> QED
      BY <1>4, <2>1, <3>1, <3>2
  <2>3. CASE \E x, y : Makes({x, y}) /\ x.kind = "read" /\ x.of = selection' /\ y.kind = "list"
    <3>1. PICK x, y : Makes({x, y}) /\ x.kind = "read" /\ x.of = selection' /\ y.kind = "list"
      BY <2>3
    <3> QED
      BY <1>3, <3>1
  <2> QED
    BY <1>1, <1>17, <2>2, <2>3, NoticeMakes
<1>18. CASE Web!NewThread
  <2>1. asked' = asked /\ selection' = webShown' /\ astray' = (asked # {})
    BY <1>18 DEF Web!NewThread
  <2> QED
    BY <2>1 DEF ScreenFollows
<1>19. CASE Web!refreshCurrent
  <2>1. UNCHANGED <<webShown, selection, astray>>
    BY <1>19 DEF Web!refreshCurrent
  <2>2. CASE \E x : Makes({x}) /\ x.kind = "list"
    <3>1. PICK x : Makes({x}) /\ x.kind = "list"
      BY <2>2
    <3>2. asked' = (asked \ {}) \cup {x}
      BY <3>1 DEF Makes
    <3> QED
      BY <1>4, <2>1, <3>1, <3>2
  <2>3. CASE \E x, y : Makes({x, y}) /\ x.kind = "list" /\ y.kind = "read" /\ y.of = selection /\ y.n = asks + 2
    <3>1. PICK x, y : Makes({x, y}) /\ x.kind = "list" /\ y.kind = "read" /\ y.of = selection /\ y.n = asks + 2
      BY <2>3
    <3> QED
      BY <1>3, <2>1, <3>1
  <2> QED
    BY <1>1, <1>19, <2>2, <2>3, RefreshMakes
<1>20. CASE Web!sendPrompt
  <2>1. PICK x : Makes({x}) /\ x.kind \in Sends
    BY <1>1, <1>20, SendMakes
  <2>2. UNCHANGED <<webShown, selection, astray>> /\ asked' = (asked \ {}) \cup {x}
    BY <1>20, <2>1 DEF Web!sendPrompt, Makes
  <2>3. CASE x.kind = "turn"
    BY <1>5, <2>2, <2>3
  <2>4. CASE x.kind = "start"
    BY <1>4, <2>2, <2>4
  <2> QED
    BY <2>1, <2>3, <2>4 DEF Sends
<1>21. CASE Web!interruptTurn
  <2>1. PICK x : Makes({x}) /\ x.kind = "interrupt"
    BY <1>1, <1>21, InterruptMakes
  <2> QED
    BY <1>5, <2>1 DEF Makes
<1>22. ASSUME NEW kind \in {"login", "in", "out"}, Web!SignIn(kind) PROVE ScreenFollows'
  <2>1. PICK x : Makes({x}) /\ x.kind = kind
    BY <1>1, <1>22, SignInMakes
  <2>2. UNCHANGED <<webShown, selection, astray>> /\ asked' = (asked \ {}) \cup {x}
    BY <1>22, <2>1 DEF Web!SignIn, Makes
  <2> QED
    BY <1>4, <2>1, <2>2
<1>23. ASSUME NEW how, Web!AccountChanges(how) PROVE ScreenFollows'
  <2>1. UNCHANGED <<webShown, selection, astray>>
    BY <1>23 DEF Web!AccountChanges
  <2>2. CASE current # 0 /\ webSocket[current] \in {"open", "again"}
    <3>1. PICK x : Makes({x}) /\ x.kind = "account"
      BY <1>1, <1>23, <2>2, ChangeMakes
    <3>2. asked' = (asked \ {}) \cup {x}
      BY <3>1 DEF Makes
    <3> QED
      BY <1>4, <2>1, <3>1, <3>2
  <2>3. CASE ~(current # 0 /\ webSocket[current] \in {"open", "again"})
    <3>1. asked' = (asked \ {}) \cup {}
      BY <1>23, <2>3 DEF Web!AccountChanges
    <3> QED
      BY <1>4, <2>1, <3>1
  <2> QED
    BY <2>2, <2>3
<1> QED
  BY <1>6, <1>7, <1>8, <1>9, <1>10, <1>11, <1>12, <1>13, <1>14, <1>15, <1>16, <1>17, <1>18, <1>19, <1>20, <1>21, <1>22, <1>23
  DEF Web!WebNext

LEMMA AccountStep == ASSUME WebInv, Web!WebNext PROVE AccountFollows'
<1>1. asks \in Nat /\ Numbered /\ AccountFollows /\ ConnectionOK
  BY DEF WebInv, Numbered
\* The account is being read.
<1>2. ASSUME NEW r \in asked', r.kind = "account" PROVE AccountFollows'
  BY <1>2 DEF AccountFollows
\* Nothing about the account happens.
<1>3. ASSUME status' = "connected" => status = "connected", UNCHANGED <<authState, webSigned, webLogins>>,
             \A r \in asked : r \in asked' \/ r.kind # "account"
      PROVE  AccountFollows'
  BY <1>1, <1>3 DEF AccountFollows, ShowsAccount
<1>4. ASSUME NEW q \in asked, Web!ListAnswered(q) \/ Web!ReadAnswered(q) \/ Web!StartAnswered(q) \/ Web!TurnAnswered(q) \/ Web!InterruptAnswered(q)
      PROVE  AccountFollows'
  <2>1. q.kind # "account" /\ UNCHANGED <<status, authState, webSigned, webLogins>>
    BY <1>4 DEF Web!ListAnswered, Web!ReadAnswered, Web!StartAnswered, Web!TurnAnswered, Web!InterruptAnswered,
                Web!Connection, Web!Server
  <2>2. asked \ {q} \subseteq asked'
    BY <1>4 DEF Web!ListAnswered, Web!ReadAnswered, Web!StartAnswered, Web!TurnAnswered, Web!InterruptAnswered,
                Web!Answered
  <2> QED
    BY <1>3, <2>1, <2>2
<1>5. ASSUME NEW q \in asked, Web!StateRead(q) PROVE AccountFollows'
  BY <1>5 DEF Web!StateRead, Web!Server, AccountFollows, ShowsAccount
<1>6. ASSUME NEW q \in asked, Web!LoginStarted(q) PROVE AccountFollows'
  BY <1>6 DEF Web!LoginStarted, AccountFollows, ShowsAccount
<1>7. ASSUME NEW q \in asked, Web!SignedInOrOut(q) PROVE AccountFollows'
  <2>1. PICK x : x.kind = "account" /\ asked' = (asked \ {q}) \cup {x}
    BY <1>1, <1>7, AccountAsks
  <2> QED
    BY <1>2, <2>1
<1>8. ASSUME NEW q \in asked, Web!Refused(q) PROVE AccountFollows'
  <2>1. CASE Web!Needed(q)
    BY <1>8, <2>1 DEF Web!Refused, AccountFollows
  <2>2. CASE ~Web!Needed(q)
    <3>1. /\ Web!Dropped({q}, asked \ {q}) /\ UNCHANGED <<status, webSigned, webLogins>>
          /\ authState' = IF q.kind = "account" THEN "none" ELSE authState
      BY <1>8, <2>2 DEF Web!Refused, Web!Unread, Web!Server
    <3>2. CASE q.kind = "account"
      BY <3>1, <3>2 DEF AccountFollows, ShowsAccount
    <3>3. CASE q.kind # "account"
      <4>1. \A r \in asked \ {q} : Without({q}, r) \in asked' /\ Without({q}, r).kind = r.kind
        BY <1>1, <3>1, DropsSome
      <4>2. CASE \E r \in asked : r.kind = "account"
        BY <1>2, <3>3, <4>1, <4>2
      <4>3. CASE ~\E r \in asked : r.kind = "account"
        BY <1>1, <3>1, <3>3, <4>3 DEF AccountFollows, ShowsAccount
      <4> QED
        BY <4>2, <4>3
    <3> QED
      BY <3>2, <3>3
  <2> QED
    BY <2>1, <2>2
<1>9. CASE Web!Connect \/ Web!CannotOpen \/ Web!Disconnect \/ Web!ServerCloses
  BY <1>9 DEF Web!Connect, Web!CannotOpen, Web!Disconnect, Web!ServerCloses, AccountFollows
<1>10. CASE Web!Opened
  <2>1. PICK x, y : Makes({x, y}) /\ y.kind = "account"
    BY <1>1, <1>10, OpenedMakes
  <2> QED
    BY <1>2, <2>1 DEF Makes
<1>11. ASSUME NEW e, Web!LateEvent(e) PROVE AccountFollows'
  <2>1. /\ status' = "connected" => status = "connected"
        /\ UNCHANGED <<authState, webSigned, webLogins>> /\ asked \ {} \subseteq asked'
    BY <1>11 DEF Web!LateEvent, Web!Server
  <2> QED
    BY <1>3, <2>1
<1>12. ASSUME NEW t, NEW kind, Web!SelectThread(t) \/ Web!Notified(t) \/ Web!refreshCurrent \/ Web!sendPrompt \/ Web!interruptTurn \/ Web!SignIn(kind)
       PROVE  AccountFollows'
  <2>1. UNCHANGED <<status, authState, webSigned, webLogins>>
    BY <1>12 DEF Web!SelectThread, Web!Notified, Web!refreshCurrent, Web!sendPrompt, Web!interruptTurn,
                 Web!SignIn, Web!Server, Web!Connection
  <2>2. asked \ {} \subseteq asked'
    BY <1>12 DEF Web!SelectThread, Web!Notified, Web!refreshCurrent, Web!sendPrompt, Web!interruptTurn,
                 Web!SignIn, Web!Acts, Web!Goes
  <2> QED
    BY <1>3, <2>1, <2>2
<1>13. CASE Web!NewThread \/ Web!Type
  <2>1. UNCHANGED <<status, authState, webSigned, webLogins>> /\ asked \ {} \subseteq asked'
    BY <1>13 DEF Web!NewThread, Web!Type, Web!Server, Web!Connection
  <2> QED
    BY <1>3, <2>1
<1>14. ASSUME NEW how, Web!AccountChanges(how) PROVE AccountFollows'
  <2>1. CASE current # 0 /\ webSocket[current] \in {"open", "again"}
    <3>1. PICK x : Makes({x}) /\ x.kind = "account"
      BY <1>1, <1>14, <2>1, ChangeMakes
    <3> QED
      BY <1>2, <3>1 DEF Makes
  <2>2. CASE ~(current # 0 /\ webSocket[current] \in {"open", "again"})
    <3>1. status' = status /\ status # "connected"
      BY <1>1, <1>14, <2>2 DEF Web!AccountChanges, Web!Connection, ConnectionOK, Web!ConnectionIsTold
    <3> QED
      BY <3>1 DEF AccountFollows
  <2> QED
    BY <2>1, <2>2
<1> QED
  BY <1>4, <1>5, <1>6, <1>7, <1>8, <1>9, <1>10, <1>11, <1>12, <1>13, <1>14 DEF Web!WebNext

LEMMA TextStep == ASSUME WebInv, Web!WebNext PROVE TextIsOnce'
<1>1. asks \in Nat /\ Numbered /\ TextIsOnce
  BY DEF WebInv, Numbered
\* No text is sent or taken.
<1>2. ASSUME \A r \in asked' : r \in asked \/ r.kind \notin Sends,
             disturbed \subseteq disturbed', webSent' = webSent,
             wishes' \in Nat, wishes <= wishes', prompt' \in {0, prompt} \/ (prompt' \in Nat /\ wishes < prompt' /\ prompt' <= wishes')
      PROVE  TextIsOnce'
  <2>1. /\ webSent' \in [Web!Texts -> Nat] /\ wishes' \in Nat /\ prompt' \in Nat /\ prompt' <= wishes'
        /\ \A r \in asked' : r.kind \in Sends => r.was \in Nat /\ r.was <= wishes'
    BY <1>1, <1>2 DEF TextIsOnce
  <2>2. ASSUME NEW p \in Web!Texts \ disturbed'
        PROVE  /\ webSent'[p] <= 1
               /\ webSent'[p] = 1 => p <= wishes' /\ prompt' # p /\ \A r \in asked' : r.kind \in Sends => r.was # p
               /\ \A r \in asked', s \in asked' : (r.kind \in Sends /\ s.kind \in Sends /\ r.was = p /\ s.was = p) => r = s
    <3>1. p \in Web!Texts \ disturbed /\ p \in Int /\ p >= 1
      BY <1>2 DEF Web!Texts
    <3> QED
      BY <1>1, <1>2, <3>1 DEF TextIsOnce
  <2> QED
    BY <2>1, <2>2 DEF TextIsOnce
<1>3. ASSUME NEW q \in asked, Web!ListAnswered(q) PROVE TextIsOnce'
  <2>1. PICK x : x.kind = "read" /\ Asks(q) /\ asked' = (asked \ {q}) \cup {x}
    BY <1>1, <1>3, ListAsks
  <2>2. UNCHANGED <<webSent, wishes, prompt>>
    BY <1>3 DEF Web!ListAnswered, Web!Writing, Web!Bounds
  <2> QED
    BY <1>1, <1>2, <2>1, <2>2 DEF Asks, TextIsOnce, Sends
<1>4. ASSUME NEW q \in asked, Web!ReadAnswered(q) \/ Web!StateRead(q) \/ Web!LoginStarted(q) PROVE TextIsOnce'
  <2>1. Web!Answered(q, {}) /\ UNCHANGED <<webSent, wishes, prompt>>
    BY <1>4 DEF Web!ReadAnswered, Web!StateRead, Web!LoginStarted, Web!Writing, Web!Bounds
  <2>2. Asks(q) /\ asked' = asked \ {q}
    BY <1>1, <2>1, AsksNothing
  <2> QED
    BY <1>1, <1>2, <2>1, <2>2 DEF Asks, TextIsOnce
<1>5. ASSUME NEW q \in asked, Web!StartAnswered(q) PROVE TextIsOnce'
  <2>1. PICK x : /\ x = [n |-> asks + 1, kind |-> "turn", action |-> q.action, of |-> Fresh, was |-> q.was]
                 /\ Asks(q) /\ asked' = (asked \ {q}) \cup {x}
    BY <1>1, <1>5, StartAsks
  <2>2. UNCHANGED <<webSent, wishes, prompt>> /\ q.kind \in Sends /\ disturbed \subseteq disturbed'
    BY <1>5, <2>1 DEF Web!StartAnswered, Web!Writing, Web!Bounds, Sends, Asks
  <2>3. x.kind \in Sends /\ x.was = q.was
    BY <2>1 DEF Sends
  <2>4. /\ webSent' \in [Web!Texts -> Nat] /\ wishes' \in Nat /\ prompt' \in Nat /\ prompt' <= wishes'
        /\ \A r \in asked' : r.kind \in Sends => r.was \in Nat /\ r.was <= wishes'
    BY <1>1, <2>1, <2>2, <2>3 DEF TextIsOnce
  <2>5. ASSUME NEW p \in Web!Texts \ disturbed'
        PROVE  /\ webSent'[p] <= 1
               /\ webSent'[p] = 1 => p <= wishes' /\ prompt' # p /\ \A r \in asked' : r.kind \in Sends => r.was # p
               /\ \A r \in asked', s \in asked' : (r.kind \in Sends /\ s.kind \in Sends /\ r.was = p /\ s.was = p) => r = s
    BY <1>1, <2>1, <2>2, <2>3 DEF TextIsOnce
  <2> QED
    BY <2>4, <2>5 DEF TextIsOnce
<1>6. ASSUME NEW q \in asked, Web!TurnAnswered(q) PROVE TextIsOnce'
  <2>1. PICK x, y : x.kind = "list" /\ y.kind = "read" /\ Asks(q) /\ asked' = (asked \ {q}) \cup {x, y}
    BY <1>1, <1>6, TurnAsks
  <2>2. /\ q.kind = "turn" /\ wishes' = wishes /\ prompt' = 0
        /\ webSent' = [webSent EXCEPT ![q.was] = @ + 1]
    BY <1>6 DEF Web!TurnAnswered, Web!Bounds
  <2>3. \A r \in asked' : r.kind \in Sends => r \in asked /\ r # q
    BY <2>1 DEF Sends
  <2>4. disturbed \subseteq disturbed' /\ q.kind \in Sends
    BY <2>1, <2>2 DEF Asks, Sends
  <2>5. /\ webSent' \in [Web!Texts -> Nat] /\ wishes' \in Nat /\ prompt' \in Nat /\ prompt' <= wishes'
        /\ \A r \in asked' : r.kind \in Sends => r.was \in Nat /\ r.was <= wishes'
    <3>1. webSent' \in [Web!Texts -> Nat]
      <4> DEFINE was == q.was
      <4>1. webSent \in [Web!Texts -> Nat] /\ webSent' = [webSent EXCEPT ![was] = @ + 1]
        BY <1>1, <2>2 DEF TextIsOnce
      <4> HIDE DEF was
      <4>2. CASE was \in Web!Texts
        BY <4>1, <4>2
      <4>3. CASE was \notin Web!Texts
        BY <4>1, <4>3
      <4> QED
        BY <4>2, <4>3
    <3>2. wishes' \in Nat /\ prompt' \in Nat /\ prompt' <= wishes'
      BY <1>1, <2>2 DEF TextIsOnce
    <3> QED
      BY <1>1, <2>2, <2>3, <3>1, <3>2 DEF TextIsOnce
  <2>6. ASSUME NEW p \in Web!Texts \ disturbed'
        PROVE  /\ webSent'[p] <= 1
               /\ webSent'[p] = 1 => p <= wishes' /\ prompt' # p /\ \A r \in asked' : r.kind \in Sends => r.was # p
               /\ \A r \in asked', s \in asked' : (r.kind \in Sends /\ s.kind \in Sends /\ r.was = p /\ s.was = p) => r = s
    <3>1. p \in Web!Texts \ disturbed /\ p \in Int /\ p >= 1 /\ webSent[p] \in Nat
      BY <1>1, <2>4 DEF Web!Texts, TextIsOnce
    <3>2. CASE q.was = p
      <4>1. webSent[p] = 0 /\ webSent'[p] = 1
        BY <1>1, <2>2, <2>4, <3>1, <3>2 DEF TextIsOnce
      <4>2. p <= wishes /\ \A r \in asked' : r.kind \in Sends => r.was # p
        BY <1>1, <2>3, <2>4, <3>1, <3>2 DEF TextIsOnce
      <4> QED
        BY <2>2, <3>1, <4>1, <4>2
    <3>3. CASE q.was # p
      <4>1. webSent'[p] = webSent[p]
        BY <1>1, <2>2, <3>1, <3>3 DEF TextIsOnce
      <4> QED
        BY <1>1, <2>2, <2>3, <3>1, <4>1 DEF TextIsOnce
    <3> QED
      BY <3>2, <3>3
  <2> QED
    BY <2>5, <2>6 DEF TextIsOnce
<1>7. ASSUME NEW q \in asked, Web!InterruptAnswered(q) \/ Web!SignedInOrOut(q) PROVE TextIsOnce'
  <2>1. PICK x : x.kind \in {"read", "account"} /\ Asks(q) /\ asked' = (asked \ {q}) \cup {x}
    BY <1>1, <1>7, InterruptAsks, AccountAsks
  <2>2. UNCHANGED <<webSent, wishes, prompt>>
    BY <1>7 DEF Web!InterruptAnswered, Web!SignedInOrOut, Web!Writing, Web!Bounds
  <2> QED
    BY <1>1, <1>2, <2>1, <2>2 DEF Asks, TextIsOnce, Sends
<1>8. ASSUME NEW requests \in SUBSET asked, NEW rest \in SUBSET asked, Web!Dropped(requests, rest),
             prompt' = prompt, wishes' \in Nat, wishes <= wishes'
      PROVE  TextIsOnce'
  <2>1. /\ asked' = {Without(requests, r) : r \in rest} /\ disturbed \subseteq disturbed'
        /\ \A r \in rest : Without(requests, r).kind = r.kind /\ Without(requests, r).was = r.was
        /\ \A q \in asked : q.kind = "turn" => q.was \in disturbed'
    BY <1>1, <1>8, DropsSome
  <2>2. PICK gone_ \in SUBSET {q.was : q \in {q \in requests : q.kind = "turn"}} :
          webSent' = [p \in Web!Texts |-> IF p \in gone_ THEN webSent[p] + 1 ELSE webSent[p]]
    BY <1>8 DEF Web!Dropped
  <2>3. /\ webSent' \in [Web!Texts -> Nat] /\ wishes' \in Nat /\ prompt' \in Nat /\ prompt' <= wishes'
        /\ \A r \in asked' : r.kind \in Sends => r.was \in Nat /\ r.was <= wishes'
    BY <1>1, <1>8, <2>1, <2>2 DEF TextIsOnce
  <2>4. ASSUME NEW p \in Web!Texts \ disturbed'
        PROVE  /\ webSent'[p] <= 1
               /\ webSent'[p] = 1 => p <= wishes' /\ prompt' # p /\ \A r \in asked' : r.kind \in Sends => r.was # p
               /\ \A r \in asked', s \in asked' : (r.kind \in Sends /\ s.kind \in Sends /\ r.was = p /\ s.was = p) => r = s
    <3>1. p \in Web!Texts \ disturbed /\ p \in Int
      BY <2>1 DEF Web!Texts
    <3>2. p \notin gone_
      BY <1>8, <2>1, <2>2
    <3>3. webSent'[p] = webSent[p]
      BY <2>2, <3>1, <3>2
    <3>4. ASSUME NEW r \in asked', NEW s \in asked', r.kind \in Sends, s.kind \in Sends, r.was = p, s.was = p PROVE r = s
      <4>1. PICK r0 \in rest : r = Without(requests, r0)
        BY <2>1
      <4>2. PICK s0 \in rest : s = Without(requests, s0)
        BY <2>1
      <4>3. r0.kind \in Sends /\ s0.kind \in Sends /\ r0.was = p /\ s0.was = p /\ r0 \in asked /\ s0 \in asked
        BY <2>1, <3>4, <4>1, <4>2
      <4>4. r0 = s0
        BY <1>1, <3>1, <4>3 DEF TextIsOnce
      <4> QED
        BY <4>1, <4>2, <4>4
    <3>5. ASSUME webSent[p] = 1, NEW r \in asked', r.kind \in Sends PROVE r.was # p
      <4>1. PICK r0 \in rest : r = Without(requests, r0)
        BY <2>1
      <4> QED
        BY <1>1, <2>1, <3>1, <3>5, <4>1 DEF TextIsOnce
    <3>6. webSent[p] <= 1 /\ (webSent[p] = 1 => p <= wishes' /\ prompt' # p)
      BY <1>1, <1>8, <3>1 DEF TextIsOnce
    <3> QED
      BY <3>3, <3>4, <3>5, <3>6
  <2> QED
    BY <2>3, <2>4 DEF TextIsOnce
<1>9. ASSUME NEW q, Web!Refused(q) \/ Web!Connect \/ Web!CannotOpen \/ Web!Disconnect \/ Web!ServerCloses PROVE TextIsOnce'
  <2>1. prompt' = prompt /\ wishes' \in Nat /\ wishes <= wishes'
    BY <1>1, <1>9 DEF Web!Refused, Web!Connect, Web!CannotOpen, Web!Disconnect, Web!ServerCloses, Web!Wish,
                      TextIsOnce
  <2>2. CASE \E requests : Web!Dropped(requests, {}) /\ requests = asked
    BY <1>8, <2>1, <2>2
  <2>3. CASE Web!Dropped({q}, asked \ {q}) /\ q \in asked
    BY <1>8, <2>1, <2>3
  <2> QED
    BY <1>9, <2>2, <2>3, DroppingSteps
<1>10. CASE Web!Opened
  <2>1. PICK x, y : Makes({x, y}) /\ x.kind = "list" /\ y.kind = "account"
    BY <1>1, <1>10, OpenedMakes
  <2>2. UNCHANGED <<webSent, wishes, prompt, disturbed>>
    BY <1>10 DEF Web!Opened, Web!Writing, Web!Bounds
  <2> QED
    BY <1>1, <1>2, <2>1, <2>2 DEF Makes, TextIsOnce, Sends
<1>11. ASSUME NEW e, Web!LateEvent(e) PROVE TextIsOnce'
  <2>1. UNCHANGED <<asked, webSent, wishes, prompt, disturbed>>
    BY <1>11 DEF Web!LateEvent, Web!Writing, Web!Bounds
  <2> QED
    BY <1>1, <1>2, <2>1 DEF TextIsOnce
<1>12. CASE Web!NewThread \/ Web!Type
  <2>1. /\ UNCHANGED <<asked, webSent, disturbed>> /\ wishes' = wishes + 1
        /\ prompt' = prompt \/ prompt' = wishes'
    BY <1>12 DEF Web!NewThread, Web!Type, Web!Writing, Web!Wish
  <2>2. wishes \in Nat /\ prompt \in Nat
    BY <1>1 DEF TextIsOnce
  <2> QED
    BY <1>2, <2>1, <2>2
\* What an action of the user leaves of the texts.
<1>13. ASSUME NEW t, NEW kind, Web!SelectThread(t) \/ Web!refreshCurrent \/ Web!sendPrompt \/ Web!interruptTurn \/ Web!SignIn(kind)
       PROVE  /\ webSent' = webSent /\ prompt' = prompt /\ wishes' \in Nat /\ wishes <= wishes'
              /\ disturbed \subseteq disturbed' /\ \A r \in asked : r.kind \in Sends => r.was \in disturbed'
  <2>1. UNCHANGED <<webSent, prompt>> /\ wishes' = wishes + 1
    BY <1>13 DEF Web!SelectThread, Web!refreshCurrent, Web!sendPrompt, Web!interruptTurn, Web!SignIn,
                 Web!Writing, Web!Wish
  <2>2. disturbed' = disturbed \cup {q.was : q \in {q \in asked : q.kind \in {"start", "turn"}}}
    BY <1>13 DEF Web!SelectThread, Web!refreshCurrent, Web!sendPrompt, Web!interruptTurn, Web!SignIn, Web!Acts
  <2> QED
    BY <1>1, <2>1, <2>2 DEF TextIsOnce, Sends
<1>14. ASSUME NEW xs, Makes(xs), \A x \in xs : x.kind \notin Sends,
              webSent' = webSent, prompt' = prompt, wishes' \in Nat, wishes <= wishes', disturbed \subseteq disturbed'
       PROVE  TextIsOnce'
  BY <1>2, <1>14 DEF Makes
<1>15. ASSUME NEW t, Web!SelectThread(t) PROVE TextIsOnce'
  <2>1. PICK x : Makes({x}) /\ x.kind = "read"
    BY <1>1, <1>15, SelectMakes
  <2> QED
    BY <1>13, <1>14, <1>15, <2>1 DEF Sends
<1>16. ASSUME NEW t, Web!Notified(t) PROVE TextIsOnce'
  <2>1. UNCHANGED <<webSent, wishes, prompt, disturbed>> /\ wishes \in Nat
    BY <1>1, <1>16 DEF Web!Notified, Web!Writing, TextIsOnce
  <2>2. PICK xs : Makes(xs) /\ \A x \in xs : x.kind \in {"read", "list"}
    <3>1. CASE \E x : Makes({x}) /\ x.kind = "list"
      BY <3>1
    <3>2. CASE \E x, y : Makes({x, y}) /\ x.kind = "read" /\ y.kind = "list"
      BY <3>2
    <3> QED
      BY <1>1, <1>16, <3>1, <3>2, NoticeMakes
  <2> QED
    BY <1>14, <2>1, <2>2 DEF Sends
<1>17. CASE Web!refreshCurrent
  <2>1. PICK xs : Makes(xs) /\ \A x \in xs : x.kind \in {"read", "list"}
    <3>1. CASE \E x : Makes({x}) /\ x.kind = "list"
      BY <3>1
    <3>2. CASE \E x, y : Makes({x, y}) /\ x.kind = "list" /\ y.kind = "read"
      BY <3>2
    <3> QED
      BY <1>1, <1>17, <3>1, <3>2, RefreshMakes
  <2> QED
    BY <1>13, <1>14, <1>17, <2>1 DEF Sends
<1>18. CASE Web!sendPrompt
  <2>1. PICK x : Makes({x}) /\ x.kind \in Sends /\ x.was = prompt
    BY <1>1, <1>18, SendMakes
  <2>2. /\ webSent' = webSent /\ prompt' = prompt /\ wishes' \in Nat /\ wishes <= wishes'
        /\ disturbed \subseteq disturbed' /\ \A r \in asked : r.kind \in Sends => r.was \in disturbed'
    BY <1>13, <1>18
  <2>3. /\ webSent' \in [Web!Texts -> Nat] /\ wishes' \in Nat /\ prompt' \in Nat /\ prompt' <= wishes'
        /\ \A r \in asked' : r.kind \in Sends => r.was \in Nat /\ r.was <= wishes'
    BY <1>1, <2>1, <2>2 DEF TextIsOnce, Makes
  <2>4. ASSUME NEW p \in Web!Texts \ disturbed'
        PROVE  /\ webSent'[p] <= 1
               /\ webSent'[p] = 1 => p <= wishes' /\ prompt' # p /\ \A r \in asked' : r.kind \in Sends => r.was # p
               /\ \A r \in asked', s \in asked' : (r.kind \in Sends /\ s.kind \in Sends /\ r.was = p /\ s.was = p) => r = s
    <3>1. p \in Web!Texts \ disturbed /\ p \in Int
      BY <2>2 DEF Web!Texts
    <3>2. \A r \in asked' : r.kind \in Sends /\ r.was = p => r = x
      BY <2>1, <2>2 DEF Makes
    <3>3. webSent[p] <= 1 /\ (webSent[p] = 1 => p <= wishes /\ prompt # p)
      BY <1>1, <3>1 DEF TextIsOnce
    <3>4. p <= wishes => p <= wishes'
      BY <1>1, <2>2, <3>1 DEF TextIsOnce
    <3> QED
      BY <2>1, <2>2, <3>2, <3>3, <3>4
  <2> QED
    BY <2>3, <2>4 DEF TextIsOnce
<1>19. CASE Web!interruptTurn
  <2>1. PICK x : Makes({x}) /\ x.kind = "interrupt"
    BY <1>1, <1>19, InterruptMakes
  <2> QED
    BY <1>13, <1>14, <1>19, <2>1 DEF Sends
<1>20. ASSUME NEW kind \in {"login", "in", "out"}, Web!SignIn(kind) PROVE TextIsOnce'
  <2>1. PICK x : Makes({x}) /\ x.kind = kind
    BY <1>1, <1>20, SignInMakes
  <2> QED
    BY <1>13, <1>14, <1>20, <2>1 DEF Sends
<1>21. ASSUME NEW how, Web!AccountChanges(how) PROVE TextIsOnce'
  <2>1. UNCHANGED <<webSent, wishes, prompt, disturbed>>
    BY <1>21 DEF Web!AccountChanges, Web!Writing
  <2>2. CASE current # 0 /\ webSocket[current] \in {"open", "again"}
    <3>1. PICK x : Makes({x}) /\ x.kind = "account"
      BY <1>1, <1>21, <2>2, ChangeMakes
    <3> QED
      BY <1>1, <1>2, <2>1, <3>1 DEF Makes, TextIsOnce, Sends
  <2>3. CASE ~(current # 0 /\ webSocket[current] \in {"open", "again"})
    <3>1. asked' = asked
      BY <1>21, <2>3 DEF Web!AccountChanges
    <3> QED
      BY <1>1, <1>2, <2>1, <3>1 DEF TextIsOnce
  <2> QED
    BY <2>2, <2>3
<1> QED
  BY <1>3, <1>4, <1>5, <1>6, <1>7, <1>9, <1>10, <1>11, <1>12, <1>15, <1>16, <1>17, <1>18, <1>19, <1>20, <1>21 DEF
         Web!WebNext

LEMMA WebInvStep == WebInv /\ [Web!WebNext]_webVars => WebInv'
<1>1. ASSUME WebInv, Web!WebNext PROVE WebInv'
  BY <1>1, NumberedStep, ConnectionStep, ScreenStep, AccountStep, TextStep DEF WebInv
<1>2. ASSUME WebInv, UNCHANGED webVars PROVE WebInv'
  <2>1. ConnectionOK'
    BY <1>2, ConnectionKept DEF WebInv, webVars
  <2>2. Numbered' /\ ScreenFollows' /\ AccountFollows'
    BY <1>2 DEF WebInv, webVars, Numbered, IsRequest, ScreenFollows, Newest, AccountFollows, ShowsAccount
  <2>3. TextIsOnce'
    BY <1>2 DEF WebInv, webVars, TextIsOnce
  <2> QED
    BY <2>1, <2>2, <2>3 DEF WebInv
<1> QED
  BY <1>1, <1>2

\* What the invariant says once everything is answered.
LEMMA WebInvTells == WebInv => ConsoleIsSound
<1> SUFFICES ASSUME WebInv PROVE ConsoleIsSound
  OBVIOUS
<1>1. Web!ConnectionIsTold /\ Web!ScreenIsOfSelection /\ Web!AccountIsTold
  BY DEF WebInv, ConnectionOK, ScreenFollows, AccountFollows, ShowsAccount, Web!ScreenIsOfSelection,
         Web!AccountIsTold
<1>2. Web!SentOnce
  BY DEF WebInv, TextIsOnce, Web!SentOnce
<1> QED
  BY <1>1, <1>2 DEF ConsoleIsSound, Web!ConsoleIsSound

-----------------------------------------------------------------------------
(* The client on a child process (client.ts, stdio-transport.ts).          *)

\* A process that is gone without close was the child when it went, and is no
\* child any more once its exit is told.
ChildIsUp ==
    /\ child # Stdio!None => proc[child] \in {"running", "dead"} /\ child \notin closed
    /\ \A p \in Stdio!Procs :
         /\ proc[p] \in {"running", "dead"} => child = p \/ p \in closed
         /\ proc[p] = "running" => p \notin closed
         /\ proc[p] = "stopping" => p \in closed
         /\ p \in closed => proc[p] # "none"

\* A request waits for the child; what is in a pipe, and what comes back from it,
\* was sent to that process, and only one that was introduced obliges.
RequestsAreTheChilds ==
    /\ \A i \in pending : child # Stdio!None /\ sent[i].to = child
    /\ \A p \in Stdio!Procs : \A k \in 1..Len(pipe[p]) : pipe[p][k] <= nextId /\ sent[pipe[p][k]].to = p
    /\ \A a \in answers : a.id <= nextId /\ sent[a.id].to = a.by /\ (a.ok => a.by \in greeted)

\* Processes that exited by themselves and were told to: unlike Lost, this only grows.
Exited == {p \in Stdio!Procs \ closed : proc[p] = "reported"}
IsCall(i) == sent[i].method = "call"
\* Without an exit, every call goes to a process that was introduced.
CallsFollowInitialize ==
    Exited = {} =>
        /\ connected => child \in greeted
        /\ \A p \in Stdio!Procs : \A k \in 1..Len(pipe[p]) : IsCall(pipe[p][k]) => p \in greeted
        /\ \A a \in answers : IsCall(a.id) => a.ok
        /\ \A i \in Stdio!Ids : IsCall(i) => outcome[i].result # "refused"

Justified == \A i \in Stdio!Ids : Stdio!AnswerIsOwn(i) /\ Stdio!RejectedByOwnProcess(i)

ConnectionInv == Stdio!TypeOK /\ ChildIsUp /\ RequestsAreTheChilds /\ CallsFollowInitialize /\ Justified

LEMMA ConnectionInvInit == ASSUME MaxProcs \in Nat, MaxRequests \in Nat, Stdio!Init PROVE ConnectionInv
<1>1. pipe \in [Stdio!Procs -> Seq(Stdio!Ids)] /\ outcome \in [Stdio!Ids -> Stdio!Settled]
  BY DEF Stdio!Init, Stdio!Settled, Stdio!Open
<1>2. Stdio!TypeOK
  <2>1. sent \in [Stdio!Ids -> [method: {"initialize", "call"}, to: Stdio!Procs \cup {Stdio!None}]]
    BY DEF Stdio!Init
  <2>2. nextId \in 0..MaxRequests /\ pending \subseteq 1..nextId
    BY DEF Stdio!Init
  <2>3. proc \in [Stdio!Procs -> Stdio!ProcStates] /\ child \in Stdio!Procs \cup {Stdio!None}
    BY DEF Stdio!Init, Stdio!ProcStates
  <2> QED
    BY <1>1, <2>1, <2>2, <2>3 DEF Stdio!Init, Stdio!TypeOK
<1>3. ChildIsUp /\ RequestsAreTheChilds /\ CallsFollowInitialize /\ Justified
  BY DEF Stdio!Init, ChildIsUp, RequestsAreTheChilds, CallsFollowInitialize, Justified, Exited, Stdio!Procs, Stdio!Ids, Stdio!Open,
         Stdio!AnswerIsOwn, Stdio!RejectedByOwnProcess, Stdio!None
<1> QED
  BY <1>2, <1>3 DEF ConnectionInv

\* Asking the transport to write keeps the child, or spawns one where there was
\* none and nothing waited.
LEMMA StartFacts ==
    ASSUME ConnectionInv, NEW p \in Stdio!Procs, Stdio!Start(p), UNCHANGED closed
    PROVE  /\ child' = p /\ proc' \in [Stdio!Procs -> Stdio!ProcStates] /\ ChildIsUp'
           /\ Stdio!Running => child = p /\ proc' = proc
           /\ ~Stdio!Running => child = Stdio!None /\ pending = {} /\ proc' = [proc EXCEPT ![p] = "running"] /\ proc[p] = "none"
<1> USE DEF ConnectionInv, Stdio!TypeOK, ChildIsUp, Stdio!Running
<1>1. CASE Stdio!Running
  BY <1>1 DEF Stdio!Start
<1>2. CASE ~Stdio!Running
  <2>1. child = Stdio!None /\ pending = {}
    BY <1>2 DEF RequestsAreTheChilds
  <2>2. child' = p /\ proc' = [proc EXCEPT ![p] = "running"] /\ proc[p] = "none"
    BY <1>2 DEF Stdio!Start
  <2>3. proc' \in [Stdio!Procs -> Stdio!ProcStates]
    BY <2>2 DEF Stdio!ProcStates
  <2>4. ChildIsUp'
    <3>1. p \notin closed /\ p # Stdio!None
      BY <2>2 DEF Stdio!Procs, Stdio!None
    <3>2. proc'[p] = "running" /\ \A q \in Stdio!Procs \ {p} : proc'[q] = proc[q]
      BY <2>2
    <3>3. \A q \in Stdio!Procs \ {p} : proc[q] \in {"running", "dead"} => q \in closed
      BY <2>1 DEF Stdio!Procs, Stdio!None
    <3> QED
      BY <2>2, <3>1, <3>2, <3>3
  <2> QED
    BY <1>2, <2>1, <2>2, <2>3, <2>4
<1> QED
  BY <1>1, <1>2

\* A request that is written keeps the invariant: its id is new, so nothing on its
\* way is taken for its own.
LEMMA RequestKeeps ==
    ASSUME MaxProcs \in Nat, MaxRequests \in Nat, ConnectionInv,
           NEW method \in {"initialize", "call"}, Stdio!Request(method), method = "call" <=> connected,
           UNCHANGED <<greeted, answers, connected, closed>>
    PROVE  ConnectionInv'
<1> DEFINE id == nextId + 1
<1>1. PICK p \in Stdio!Procs :
        /\ Stdio!Start(p)
        /\ nextId' = id
        /\ pending' = pending \cup {id}
        /\ sent' = [sent EXCEPT ![id] = [method |-> method, to |-> p]]
        /\ outcome' = [outcome EXCEPT ![id] = Stdio!Open]
        /\ pipe' = IF proc[p] = "dead" THEN pipe ELSE [pipe EXCEPT ![p] = Append(@, id)]
  BY DEF Stdio!Request, Stdio!IdFor
<1>2. /\ id \in Stdio!Ids /\ nextId \in Nat /\ id > nextId /\ id \in 0..MaxRequests
      /\ pending \subseteq 1..nextId /\ nextId < MaxRequests /\ id \notin pending
  BY DEF Stdio!Request, ConnectionInv, Stdio!TypeOK, Stdio!Ids
<1>3. /\ child' = p /\ proc' \in [Stdio!Procs -> Stdio!ProcStates] /\ ChildIsUp'
      /\ Stdio!Running => child = p /\ proc' = proc
      /\ ~Stdio!Running => child = Stdio!None /\ pending = {} /\ proc' = [proc EXCEPT ![p] = "running"] /\ proc[p] = "none"
  BY <1>1, StartFacts
<1>4. sent'[id] = [method |-> method, to |-> p] /\ \A i \in Stdio!Ids : i # id => sent'[i] = sent[i]
  BY <1>1, <1>2 DEF ConnectionInv, Stdio!TypeOK
<1>5. outcome'[id] = Stdio!Open /\ \A i \in Stdio!Ids : i # id => outcome'[i] = outcome[i]
  BY <1>1, <1>2 DEF ConnectionInv, Stdio!TypeOK
<1>6. \A q \in Stdio!Procs : \A k \in 1..Len(pipe[q]) : pipe[q][k] \in Stdio!Ids /\ pipe[q][k] # id
  <2> SUFFICES ASSUME NEW q \in Stdio!Procs, NEW k \in 1..Len(pipe[q]) PROVE pipe[q][k] \in Stdio!Ids /\ pipe[q][k] # id
    OBVIOUS
  <2>1. pipe[q] \in Seq(Stdio!Ids)
    BY DEF ConnectionInv, Stdio!TypeOK
  <2>2. pipe[q][k] \in Stdio!Ids
    BY <2>1
  <2>3. pipe[q][k] <= nextId
    BY DEF ConnectionInv, RequestsAreTheChilds
  <2> QED
    BY <1>2, <2>2, <2>3 DEF Stdio!Ids
<1>7. ASSUME NEW q \in Stdio!Procs
      PROVE  /\ pipe'[q] \in Seq(Stdio!Ids)
             /\ \A k \in 1..Len(pipe'[q]) : \/ k \in 1..Len(pipe[q]) /\ pipe'[q][k] = pipe[q][k]
                                            \/ q = p /\ pipe'[q][k] = id
  <2>1. pipe[q] \in Seq(Stdio!Ids)
    BY DEF ConnectionInv, Stdio!TypeOK
  <2>2. pipe'[q] = pipe[q] \/ (q = p /\ pipe'[q] = Append(pipe[q], id))
    BY <1>1 DEF ConnectionInv, Stdio!TypeOK
  <2> QED
    <3>1. CASE pipe'[q] = pipe[q]
      BY <2>1, <3>1
    <3>2. CASE q = p /\ pipe'[q] = Append(pipe[q], id)
      <4>1. id \in Stdio!Ids
        BY <1>2
      <4> HIDE DEF id
      <4>2. /\ Append(pipe[q], id) \in Seq(Stdio!Ids) /\ Len(Append(pipe[q], id)) = Len(pipe[q]) + 1
            /\ Len(pipe[q]) \in Nat /\ Append(pipe[q], id)[Len(pipe[q]) + 1] = id
            /\ \A k \in 1..Len(pipe[q]) : Append(pipe[q], id)[k] = pipe[q][k]
        BY <2>1, <4>1
      <4> QED
        BY <3>2, <4>2
    <3> QED
      BY <2>2, <3>1, <3>2
<1>8. Stdio!TypeOK'
  <2>1. pipe' \in [Stdio!Procs -> Seq(Stdio!Ids)]
    BY <1>1, <1>7 DEF ConnectionInv, Stdio!TypeOK
  <2>2. sent' \in [Stdio!Ids -> [method: {"initialize", "call"}, to: Stdio!Procs \cup {Stdio!None}]]
    BY <1>1 DEF ConnectionInv, Stdio!TypeOK
  <2>3. outcome' \in [Stdio!Ids -> Stdio!Settled]
    BY <1>1 DEF ConnectionInv, Stdio!TypeOK, Stdio!Settled, Stdio!Open
  <2>4. pending' \subseteq 1..nextId'
    BY <1>1, <1>2
  <2> QED
    BY <1>1, <1>2, <1>3, <2>1, <2>2, <2>3, <2>4 DEF ConnectionInv, Stdio!TypeOK
<1>9. RequestsAreTheChilds'
  <2>1. ASSUME NEW i \in pending' PROVE child' # Stdio!None /\ sent'[i].to = child'
    <3>1. CASE i = id
      BY <1>3, <1>4, <3>1 DEF Stdio!Procs, Stdio!None
    <3>2. CASE i \in pending
      <4>1. Stdio!Running /\ child = p
        BY <1>3, <3>2
      <4>2. i \in Stdio!Ids /\ i # id
        BY <1>2, <3>2 DEF Stdio!Ids
      <4> QED
        BY <1>3, <1>4, <3>2, <4>1, <4>2 DEF ConnectionInv, RequestsAreTheChilds
    <3> QED
      BY <1>1, <3>1, <3>2
  <2>2. ASSUME NEW q \in Stdio!Procs, NEW k \in 1..Len(pipe'[q])
        PROVE  pipe'[q][k] <= nextId' /\ sent'[pipe'[q][k]].to = q
    <3>1. CASE q = p /\ pipe'[q][k] = id
      BY <1>1, <1>2, <1>4, <3>1
    <3>2. CASE k \in 1..Len(pipe[q]) /\ pipe'[q][k] = pipe[q][k]
      <4>1. pipe[q][k] <= nextId /\ sent[pipe[q][k]].to = q /\ pipe[q][k] \in Stdio!Ids /\ pipe[q][k] # id
        BY <1>6, <3>2 DEF ConnectionInv, RequestsAreTheChilds
      <4>2. pipe[q][k] \in Int /\ pipe[q][k] <= nextId + 1
        BY <1>2, <4>1 DEF Stdio!Ids
      <4> QED
        BY <1>1, <1>4, <3>2, <4>1, <4>2
    <3> QED
      BY <1>7, <3>1, <3>2
  <2>3. ASSUME NEW a \in answers
        PROVE  a.id <= nextId' /\ sent'[a.id].to = a.by /\ (a.ok => a.by \in greeted')
    <3>1. a.id \in Stdio!Ids /\ a.id <= nextId /\ sent[a.id].to = a.by /\ (a.ok => a.by \in greeted)
      BY DEF ConnectionInv, Stdio!TypeOK, RequestsAreTheChilds
    <3>2. a.id # id /\ a.id <= nextId + 1
      BY <1>2, <3>1 DEF Stdio!Ids
    <3> QED
      BY <1>1, <1>4, <3>1, <3>2
  <2> QED
    BY <2>1, <2>2, <2>3 DEF RequestsAreTheChilds
<1>10. CallsFollowInitialize'
  <2> SUFFICES ASSUME Exited' = {}
               PROVE  /\ connected => p \in greeted
                      /\ \A q \in Stdio!Procs : \A k \in 1..Len(pipe'[q]) : sent'[pipe'[q][k]].method = "call" => q \in greeted
                      /\ \A a \in answers : sent'[a.id].method = "call" => a.ok
                      /\ \A i \in Stdio!Ids : sent'[i].method = "call" => outcome'[i].result # "refused"
    BY <1>3 DEF CallsFollowInitialize, IsCall
  <2>1. Exited = {}
    BY <1>3 DEF Exited, ConnectionInv, Stdio!TypeOK
  <2>2. connected => p \in greeted
    <3>1. connected => child \in greeted
      BY <2>1 DEF ConnectionInv, CallsFollowInitialize
    <3>2. Stdio!None \notin greeted
      BY DEF ConnectionInv, Stdio!TypeOK, Stdio!Procs, Stdio!None
    <3> QED
      BY <1>3, <3>1, <3>2
  <2>3. ASSUME NEW q \in Stdio!Procs, NEW k \in 1..Len(pipe'[q]), sent'[pipe'[q][k]].method = "call"
        PROVE  q \in greeted
    <3>1. CASE q = p /\ pipe'[q][k] = id
      BY <1>4, <2>2, <2>3, <3>1
    <3>2. CASE k \in 1..Len(pipe[q]) /\ pipe'[q][k] = pipe[q][k]
      BY <1>4, <1>6, <2>1, <2>3, <3>2 DEF ConnectionInv, CallsFollowInitialize, IsCall
    <3> QED
      BY <1>7, <3>1, <3>2
  <2>4. ASSUME NEW a \in answers, sent'[a.id].method = "call" PROVE a.ok
    <3>1. a.id \in Stdio!Ids /\ a.id <= nextId
      BY DEF ConnectionInv, Stdio!TypeOK, RequestsAreTheChilds
    <3>2. a.id # id
      BY <1>2, <3>1 DEF Stdio!Ids
    <3> QED
      BY <1>4, <2>1, <2>4, <3>1, <3>2 DEF ConnectionInv, CallsFollowInitialize, IsCall
  <2>5. ASSUME NEW i \in Stdio!Ids, sent'[i].method = "call" PROVE outcome'[i].result # "refused"
    BY <1>4, <1>5, <2>1, <2>5 DEF ConnectionInv, CallsFollowInitialize, IsCall, Stdio!Open
  <2> QED
    BY <2>2, <2>3, <2>4, <2>5
<1>11. Justified'
  <2> SUFFICES ASSUME NEW i \in Stdio!Ids PROVE (Stdio!AnswerIsOwn(i) /\ Stdio!RejectedByOwnProcess(i))'
    BY DEF Justified
  <2>1. CASE i = id
    BY <1>5, <2>1 DEF Stdio!AnswerIsOwn, Stdio!RejectedByOwnProcess, Stdio!Open
  <2>2. CASE i # id
    BY <1>4, <1>5, <2>2 DEF ConnectionInv, Justified, Stdio!AnswerIsOwn, Stdio!RejectedByOwnProcess
  <2> QED
    BY <2>1, <2>2
<1> QED
  BY <1>3, <1>8, <1>9, <1>10, <1>11 DEF ConnectionInv

-----------------------------------------------------------------------------

\* A step that no process takes an exit's report in leaves Exited as it is; the
\* child of close was not reported.
LEMMA ExitedStays ==
    ASSUME ConnectionInv, closed' = closed \/ (child # Stdio!None /\ closed' = closed \cup {child}),
           \A p \in Stdio!Procs : proc[p] = "reported" => proc'[p] = "reported"
    PROVE  Exited' = {} => Exited = {}
BY DEF ConnectionInv, ChildIsUp, Exited

LEMMA HandleResponseKeeps ==
    ASSUME ConnectionInv, NEW answer \in answers, Stdio!HandleResponse(answer) PROVE ConnectionInv'
<1>1. /\ answer.id \in Stdio!Ids /\ answer.by \in Stdio!Procs /\ answer.id <= nextId
      /\ sent[answer.id].to = answer.by /\ (answer.ok => answer.by \in greeted)
  BY DEF ConnectionInv, Stdio!TypeOK, RequestsAreTheChilds
<1>2. /\ answers' = answers \ {answer} /\ pending' = pending \ {answer.id}
      /\ UNCHANGED <<child, proc, greeted, pipe, nextId, sent, closed, closes>>
  BY DEF Stdio!HandleResponse
<1>3. ChildIsUp' /\ RequestsAreTheChilds'
  BY <1>2 DEF ConnectionInv, ChildIsUp, RequestsAreTheChilds
<1>4. CASE answer.id \notin pending
  <2>1. UNCHANGED <<outcome, connected>>
    BY <1>4 DEF Stdio!HandleResponse
  <2>2. CallsFollowInitialize' /\ Justified'
    BY <1>2, <2>1 DEF ConnectionInv, CallsFollowInitialize, Justified, Exited, IsCall, Stdio!AnswerIsOwn, Stdio!RejectedByOwnProcess
  <2>3. Stdio!TypeOK'
    BY <1>2, <2>1 DEF ConnectionInv, Stdio!TypeOK
  <2> QED
    BY <1>3, <2>2, <2>3 DEF ConnectionInv
<1>5. CASE answer.id \in pending
  <2> DEFINE res == IF answer.ok THEN "answered" ELSE "refused"
  <2>1. /\ outcome' = [i \in Stdio!Ids |-> IF i \in {answer.id} THEN [result |-> res, by |-> answer.by] ELSE outcome[i]]
        /\ connected' = (connected \/ (answer.ok /\ sent[answer.id].method = "initialize"))
    BY <1>5 DEF Stdio!HandleResponse, Stdio!Reject
  <2>2. outcome'[answer.id] = [result |-> res, by |-> answer.by] /\ \A i \in Stdio!Ids \ {answer.id} : outcome'[i] = outcome[i]
    BY <1>1, <2>1
  <2>3. Stdio!TypeOK'
    <3>1. outcome' \in [Stdio!Ids -> Stdio!Settled]
      BY <1>1, <2>1 DEF ConnectionInv, Stdio!TypeOK, Stdio!Settled
    <3>2. connected' \in BOOLEAN
      BY <2>1 DEF ConnectionInv, Stdio!TypeOK
    <3> QED
      BY <1>2, <3>1, <3>2 DEF ConnectionInv, Stdio!TypeOK
  <2>4. Justified'
    <3> SUFFICES ASSUME NEW i \in Stdio!Ids PROVE (Stdio!AnswerIsOwn(i) /\ Stdio!RejectedByOwnProcess(i))'
      BY DEF Justified
    <3>1. CASE i = answer.id
      BY <1>1, <1>2, <2>2, <3>1 DEF Stdio!AnswerIsOwn, Stdio!RejectedByOwnProcess
    <3>2. CASE i # answer.id
      BY <1>2, <2>2, <3>2 DEF ConnectionInv, Justified, Stdio!AnswerIsOwn, Stdio!RejectedByOwnProcess
    <3> QED
      BY <3>1, <3>2
  <2>5. CallsFollowInitialize'
    <3> SUFFICES ASSUME Exited' = {} PROVE CallsFollowInitialize'
      BY DEF CallsFollowInitialize
    <3>1. Exited = {}
      BY <1>2 DEF Exited
    <3>2. connected' => child \in greeted
      <4>1. connected => child \in greeted
        BY <3>1 DEF ConnectionInv, CallsFollowInitialize
      <4>2. child = answer.by
        BY <1>1, <1>5 DEF ConnectionInv, RequestsAreTheChilds
      <4> QED
        BY <1>1, <2>1, <4>1, <4>2
    <3>3. IsCall(answer.id) => answer.ok
      BY <3>1 DEF ConnectionInv, CallsFollowInitialize
    <3>4. ASSUME NEW i \in Stdio!Ids, IsCall(i) PROVE outcome'[i].result # "refused"
      BY <2>2, <3>1, <3>3, <3>4 DEF ConnectionInv, CallsFollowInitialize
    <3> QED
      BY <1>2, <3>1, <3>2, <3>4 DEF ConnectionInv, CallsFollowInitialize, IsCall
  <2> QED
    BY <1>3, <2>3, <2>4, <2>5 DEF ConnectionInv
<1> QED
  BY <1>4, <1>5

\* close, an exit and a timeout settle requests without an answer.
LEMMA RejectFacts ==
    ASSUME ConnectionInv, NEW ids, NEW res, NEW by, Stdio!Reject(ids, res, by),
           [result |-> res, by |-> by] \in Stdio!Settled, res \notin {"answered", "refused"},
           sent' = sent, closed \subseteq closed',
           res = "rejected" => \A i \in ids \cap Stdio!Ids : by = sent[i].to \/ by \in closed
    PROVE  /\ outcome' \in [Stdio!Ids -> Stdio!Settled] /\ Justified'
           /\ \A i \in Stdio!Ids : outcome'[i].result = "refused" => outcome[i].result = "refused"
<1>1. \A i \in Stdio!Ids : outcome'[i] = IF i \in ids THEN [result |-> res, by |-> by] ELSE outcome[i]
  BY DEF Stdio!Reject
<1>2. outcome' \in [Stdio!Ids -> Stdio!Settled]
  BY DEF Stdio!Reject, ConnectionInv, Stdio!TypeOK
<1>3. ASSUME NEW i \in Stdio!Ids PROVE (Stdio!AnswerIsOwn(i) /\ Stdio!RejectedByOwnProcess(i))'
  <2>1. CASE i \in ids
    BY <1>1, <2>1 DEF Stdio!AnswerIsOwn, Stdio!RejectedByOwnProcess
  <2>2. CASE i \notin ids
    BY <1>1, <2>2 DEF ConnectionInv, Justified, Stdio!AnswerIsOwn, Stdio!RejectedByOwnProcess
  <2> QED
    BY <2>1, <2>2
<1>4. ASSUME NEW i \in Stdio!Ids, outcome'[i].result = "refused" PROVE outcome[i].result = "refused"
  BY <1>1, <1>4
<1> QED
  BY <1>2, <1>3, <1>4 DEF Justified

LEMMA RequestTimesOutKeeps ==
    ASSUME ConnectionInv, NEW id \in Stdio!Ids, Stdio!RequestTimesOut(id) PROVE ConnectionInv'
<1>1. /\ outcome' \in [Stdio!Ids -> Stdio!Settled] /\ Justified'
      /\ \A i \in Stdio!Ids : outcome'[i].result = "refused" => outcome[i].result = "refused"
  <2>1. [result |-> "timedOut", by |-> Stdio!None] \in Stdio!Settled
    BY DEF Stdio!Settled
  <2> QED
    BY <2>1, RejectFacts DEF Stdio!RequestTimesOut
<1>2. /\ pending' = pending \ {id}
      /\ UNCHANGED <<child, proc, greeted, pipe, answers, nextId, sent, connected, closed, closes>>
  BY DEF Stdio!RequestTimesOut
<1>3. Stdio!TypeOK'
  BY <1>1, <1>2 DEF ConnectionInv, Stdio!TypeOK
<1>4. ChildIsUp' /\ RequestsAreTheChilds'
  BY <1>2 DEF ConnectionInv, ChildIsUp, RequestsAreTheChilds
<1>5. CallsFollowInitialize'
  BY <1>1, <1>2 DEF ConnectionInv, CallsFollowInitialize, Exited, IsCall
<1> QED
  BY <1>1, <1>3, <1>4, <1>5 DEF ConnectionInv

LEMMA CloseKeeps == ASSUME ConnectionInv, Stdio!Close PROVE ConnectionInv'
<1>1. /\ outcome' \in [Stdio!Ids -> Stdio!Settled] /\ Justified'
      /\ \A i \in Stdio!Ids : outcome'[i].result = "refused" => outcome[i].result = "refused"
  <2>1. [result |-> "closed", by |-> Stdio!None] \in Stdio!Settled
    BY DEF Stdio!Settled
  <2>2. closed \subseteq closed'
    BY DEF Stdio!Close
  <2> QED
    BY <2>1, <2>2, RejectFacts DEF Stdio!Close
<1>2. pending' = {} /\ child' = Stdio!None /\ connected' = FALSE /\ UNCHANGED <<greeted, pipe, answers, nextId, sent>>
  BY DEF Stdio!Close
<1>3. /\ proc' \in [Stdio!Procs -> Stdio!ProcStates] /\ closed' \subseteq Stdio!Procs /\ ChildIsUp'
      /\ \A p \in Stdio!Procs : proc[p] = "reported" => proc'[p] = "reported"
      /\ closed' = closed \/ (child # Stdio!None /\ closed' = closed \cup {child})
  <2>1. CASE child = Stdio!None
    BY <1>2, <2>1 DEF Stdio!Close, ConnectionInv, Stdio!TypeOK, ChildIsUp
  <2>2. CASE child # Stdio!None
    <3>1. child \in Stdio!Procs /\ closed' = closed \cup {child}
      BY <2>2 DEF Stdio!Close, ConnectionInv, Stdio!TypeOK
    <3>2. /\ \A p \in Stdio!Procs \ {child} : proc'[p] = proc[p]
          /\ proc'[child] = IF proc[child] = "running" THEN "stopping" ELSE proc[child]
          /\ proc' \in [Stdio!Procs -> Stdio!ProcStates]
      BY <2>2, <3>1 DEF Stdio!Close, ConnectionInv, Stdio!TypeOK, Stdio!ProcStates
    <3> QED
      BY <1>2, <2>2, <3>1, <3>2 DEF ConnectionInv, Stdio!TypeOK, ChildIsUp
  <2> QED
    BY <2>1, <2>2
<1>4. Stdio!TypeOK'
  BY <1>1, <1>2, <1>3 DEF ConnectionInv, Stdio!TypeOK
<1>5. RequestsAreTheChilds'
  BY <1>2 DEF ConnectionInv, RequestsAreTheChilds
<1>6. CallsFollowInitialize'
  <2>1. Exited' = {} => Exited = {}
    BY <1>3, ExitedStays
  <2> QED
    BY <1>1, <1>2, <2>1 DEF ConnectionInv, CallsFollowInitialize, IsCall
<1> QED
  BY <1>1, <1>3, <1>4, <1>5, <1>6 DEF ConnectionInv

\* The exit of the child leaves Exited inhabited; that of another process was
\* a closed one's.
LEMMA OnExitKeeps == ASSUME ConnectionInv, NEW p \in Stdio!Procs, Stdio!OnExit(p) PROVE ConnectionInv'
<1>1. /\ proc[p] = "dead" /\ proc' = [proc EXCEPT ![p] = "reported"]
      /\ child' = (IF child = p THEN Stdio!None ELSE child) /\ pending' = {}
      /\ UNCHANGED <<greeted, pipe, answers, nextId, sent, connected, closed, closes>>
  BY DEF Stdio!OnExit, Stdio!ChildAfterExit
<1>2. /\ outcome' \in [Stdio!Ids -> Stdio!Settled] /\ Justified'
      /\ \A i \in Stdio!Ids : outcome'[i].result = "refused" => outcome[i].result = "refused"
  <2>1. [result |-> "rejected", by |-> p] \in Stdio!Settled
    BY DEF Stdio!Settled
  <2>2. \A i \in pending : p = sent[i].to \/ p \in closed
    BY <1>1 DEF ConnectionInv, ChildIsUp, RequestsAreTheChilds
  <2> QED
    BY <1>1, <2>1, <2>2, RejectFacts DEF Stdio!OnExit
<1>3. proc'[p] = "reported" /\ (\A q \in Stdio!Procs \ {p} : proc'[q] = proc[q]) /\ proc' \in [Stdio!Procs -> Stdio!ProcStates]
  BY <1>1 DEF ConnectionInv, Stdio!TypeOK, Stdio!ProcStates
<1>4. Stdio!TypeOK'
  BY <1>1, <1>2, <1>3 DEF ConnectionInv, Stdio!TypeOK
<1>5. ChildIsUp'
  BY <1>1, <1>3 DEF ConnectionInv, Stdio!TypeOK, ChildIsUp
<1>6. RequestsAreTheChilds'
  BY <1>1 DEF ConnectionInv, RequestsAreTheChilds
<1>7. CallsFollowInitialize'
  <2> SUFFICES ASSUME Exited' = {} PROVE CallsFollowInitialize'
    BY DEF CallsFollowInitialize
  <2>1. Exited = {}
    BY <1>1, <1>3, ExitedStays
  <2>2. child' = child
    <3>1. p \in closed
      BY <1>1, <1>3 DEF Exited
    <3> QED
      BY <1>1, <3>1 DEF ConnectionInv, Stdio!TypeOK, ChildIsUp, Stdio!Procs, Stdio!None
  <2> QED
    BY <1>1, <1>2, <2>1, <2>2 DEF ConnectionInv, CallsFollowInitialize, IsCall
<1> QED
  BY <1>2, <1>4, <1>5, <1>6, <1>7 DEF ConnectionInv

\* The app-server reads the oldest request of its pipe.
LEMMA ServeKeeps == ASSUME ConnectionInv, NEW p \in Stdio!Procs, Stdio!Serve(p) PROVE ConnectionInv'
<1> DEFINE id == Head(pipe[p])
           hello == sent[id].method = "initialize"
           answer == [id |-> id, by |-> p, ok |-> hello # (p \in greeted)]
<1>1. /\ pipe[p] # <<>> /\ answers' = answers \cup {answer}
      /\ greeted' = IF hello THEN greeted \cup {p} ELSE greeted
      /\ pipe' = [pipe EXCEPT ![p] = Tail(@)]
      /\ UNCHANGED <<child, proc, nextId, pending, sent, outcome, connected, closed, closes>>
  BY DEF Stdio!Serve
<1>2. pipe[p] \in Seq(Stdio!Ids) /\ 1 \in 1..Len(pipe[p]) /\ id = pipe[p][1] /\ id \in Stdio!Ids
  BY <1>1 DEF ConnectionInv, Stdio!TypeOK
<1>3. id <= nextId /\ sent[id].to = p /\ sent[id].method \in {"initialize", "call"}
  BY <1>2 DEF ConnectionInv, Stdio!TypeOK, RequestsAreTheChilds
<1>4. ASSUME NEW q \in Stdio!Procs
      PROVE  /\ pipe'[q] \in Seq(Stdio!Ids)
             /\ \A k \in 1..Len(pipe'[q]) : \E n \in 1..Len(pipe[q]) : pipe'[q][k] = pipe[q][n]
  <2>1. CASE q = p
    <3>1. pipe'[q] = Tail(pipe[p])
      BY <1>1, <2>1 DEF ConnectionInv, Stdio!TypeOK
    <3>2. /\ Tail(pipe[p]) \in Seq(Stdio!Ids) /\ Len(Tail(pipe[p])) = Len(pipe[p]) - 1 /\ Len(pipe[p]) \in Nat
          /\ \A k \in 1..Len(Tail(pipe[p])) : Tail(pipe[p])[k] = pipe[p][k + 1]
      BY <1>1, <1>2
    <3>3. ASSUME NEW k \in 1..Len(pipe'[q]) PROVE k + 1 \in 1..Len(pipe[q]) /\ pipe'[q][k] = pipe[q][k + 1]
      BY <2>1, <3>1, <3>2
    <3> QED
      BY <3>1, <3>2, <3>3
  <2>2. CASE q # p
    BY <1>1, <2>2 DEF ConnectionInv, Stdio!TypeOK
  <2> QED
    BY <2>1, <2>2
<1>5. Stdio!TypeOK'
  <2>1. answer \in [id: Stdio!Ids, by: Stdio!Procs, ok: BOOLEAN]
    BY <1>2
  <2>2. pipe' \in [Stdio!Procs -> Seq(Stdio!Ids)]
    BY <1>1, <1>4 DEF ConnectionInv, Stdio!TypeOK
  <2> QED
    BY <1>1, <2>1, <2>2 DEF ConnectionInv, Stdio!TypeOK
<1>6. ChildIsUp'
  BY <1>1 DEF ConnectionInv, ChildIsUp
<1>7. RequestsAreTheChilds'
  <2>1. \A i \in pending' : child' # Stdio!None /\ sent'[i].to = child'
    BY <1>1 DEF ConnectionInv, RequestsAreTheChilds
  <2>2. ASSUME NEW q \in Stdio!Procs, NEW k \in 1..Len(pipe'[q])
        PROVE  pipe'[q][k] <= nextId' /\ sent'[pipe'[q][k]].to = q
    <3>1. PICK n \in 1..Len(pipe[q]) : pipe'[q][k] = pipe[q][n]
      BY <1>4
    <3>2. pipe[q][n] <= nextId /\ sent[pipe[q][n]].to = q
      BY DEF ConnectionInv, RequestsAreTheChilds
    <3> QED
      BY <1>1, <3>1, <3>2
  <2>3. ASSUME NEW a \in answers' PROVE a.id <= nextId' /\ sent'[a.id].to = a.by /\ (a.ok => a.by \in greeted')
    <3>1. CASE a = answer
      <4>1. a.id = id /\ a.by = p /\ a.ok = (hello # (p \in greeted))
        BY <3>1
      <4>2. p \in greeted \/ hello => p \in greeted'
        BY <1>1
      <4>3. ASSUME ~hello, p \notin greeted PROVE ~a.ok
        <5>1. (hello # (p \in greeted)) = FALSE
          BY <4>3
        <5>2. a.ok = FALSE
          BY <4>1, <5>1, Zenon
        <5> QED
          BY <5>2
      <4> HIDE DEF hello, id, answer
      <4> QED
        BY <1>1, <1>3, <4>1, <4>2, <4>3
    <3>2. CASE a \in answers
      BY <1>1, <3>2 DEF ConnectionInv, RequestsAreTheChilds
    <3> QED
      BY <1>1, <3>1, <3>2
  <2> QED
    BY <2>1, <2>2, <2>3 DEF RequestsAreTheChilds
<1>8. CallsFollowInitialize'
  <2> SUFFICES ASSUME Exited' = {} PROVE CallsFollowInitialize'
    BY DEF CallsFollowInitialize
  <2>1. Exited = {} /\ greeted \subseteq greeted'
    BY <1>1 DEF Exited
  <2>2. connected' => child' \in greeted'
    BY <1>1, <2>1 DEF ConnectionInv, CallsFollowInitialize
  <2>3. ASSUME NEW q \in Stdio!Procs, NEW k \in 1..Len(pipe'[q]), sent'[pipe'[q][k]].method = "call"
        PROVE  q \in greeted'
    <3>1. PICK n \in 1..Len(pipe[q]) : pipe'[q][k] = pipe[q][n]
      BY <1>4
    <3>2. IsCall(pipe[q][n])
      BY <1>1, <2>3, <3>1 DEF IsCall
    <3> QED
      BY <2>1, <3>2 DEF ConnectionInv, CallsFollowInitialize
  <2>4. ASSUME NEW a \in answers', sent'[a.id].method = "call" PROVE a.ok
    <3>1. CASE a = answer
      <4>1. ~hello /\ IsCall(pipe[p][1])
        BY <1>1, <1>2, <2>4, <3>1 DEF IsCall
      <4>2. p \in greeted
        BY <1>2, <2>1, <4>1 DEF ConnectionInv, CallsFollowInitialize
      <4> QED
        BY <3>1, <4>1, <4>2
    <3>2. CASE a \in answers
      BY <1>1, <2>1, <2>4, <3>2 DEF ConnectionInv, CallsFollowInitialize, IsCall
    <3> QED
      BY <1>1, <3>1, <3>2
  <2>5. \A i \in Stdio!Ids : sent'[i].method = "call" => outcome'[i].result # "refused"
    BY <1>1, <2>1 DEF ConnectionInv, CallsFollowInitialize, IsCall
  <2> QED
    BY <2>2, <2>3, <2>4, <2>5 DEF CallsFollowInitialize, IsCall
<1>9. Justified'
  BY <1>1 DEF ConnectionInv, Justified, Stdio!AnswerIsOwn, Stdio!RejectedByOwnProcess
<1> QED
  BY <1>5, <1>6, <1>7, <1>8, <1>9 DEF ConnectionInv

LEMMA DieKeeps == ASSUME ConnectionInv, NEW p \in Stdio!Procs, Stdio!Die(p) PROVE ConnectionInv'
<1>1. /\ proc[p] \in {"running", "stopping"} /\ proc' = [proc EXCEPT ![p] = "dead"]
      /\ pipe' = [pipe EXCEPT ![p] = <<>>]
      /\ UNCHANGED <<child, greeted, answers, nextId, pending, sent, outcome, connected, closed, closes>>
  BY DEF Stdio!Die
<1>2. proc'[p] = "dead" /\ (\A q \in Stdio!Procs \ {p} : proc'[q] = proc[q]) /\ proc' \in [Stdio!Procs -> Stdio!ProcStates]
  BY <1>1 DEF ConnectionInv, Stdio!TypeOK, Stdio!ProcStates
<1>3. /\ pipe' \in [Stdio!Procs -> Seq(Stdio!Ids)] /\ \A q \in Stdio!Procs : pipe'[q] = pipe[q] \/ Len(pipe'[q]) = 0
  <2>1. \A q \in Stdio!Procs : pipe'[q] = pipe[q] \/ pipe'[q] = <<>>
    BY <1>1 DEF ConnectionInv, Stdio!TypeOK
  <2> QED
    BY <1>1, <2>1 DEF ConnectionInv, Stdio!TypeOK
<1>4. Stdio!TypeOK'
  BY <1>1, <1>2, <1>3 DEF ConnectionInv, Stdio!TypeOK
<1>5. ChildIsUp'
  BY <1>1, <1>2 DEF ConnectionInv, Stdio!TypeOK, ChildIsUp
<1>6. RequestsAreTheChilds'
  BY <1>1, <1>3 DEF ConnectionInv, RequestsAreTheChilds
<1>7. CallsFollowInitialize'
  <2>1. Exited' = {} => Exited = {}
    BY <1>1, <1>2, ExitedStays
  <2> QED
    BY <1>1, <1>3, <2>1 DEF ConnectionInv, CallsFollowInitialize, IsCall
<1>8. Justified'
  BY <1>1 DEF ConnectionInv, Justified, Stdio!AnswerIsOwn, Stdio!RejectedByOwnProcess
<1> QED
  BY <1>4, <1>5, <1>6, <1>7, <1>8 DEF ConnectionInv

LEMMA ConnectionInvStep ==
    ASSUME MaxProcs \in Nat, MaxRequests \in Nat, ConnectionInv, [Stdio!Next]_(Stdio!connectionVars) PROVE ConnectionInv'
<1>1. CASE Stdio!Connect
  BY <1>1, RequestKeeps DEF Stdio!Connect
<1>2. CASE Stdio!Call
  BY <1>2, RequestKeeps DEF Stdio!Call
<1>3. CASE UNCHANGED Stdio!connectionVars
  BY <1>3 DEF Stdio!connectionVars, ConnectionInv, Stdio!TypeOK, ChildIsUp, RequestsAreTheChilds, CallsFollowInitialize, Exited,
              IsCall, Justified, Stdio!AnswerIsOwn, Stdio!RejectedByOwnProcess
<1> QED
  BY <1>1, <1>2, <1>3, CloseKeeps, HandleResponseKeeps, RequestTimesOutKeeps, OnExitKeeps, ServeKeeps, DieKeeps DEF Stdio!Next

LEMMA StdioStep == [Next]_vars => [Stdio!Next]_(Stdio!connectionVars)
BY DEF Next, vars, stdioVars, Stdio!connectionVars, StdioNext, WebSocketNext, LoginNext, TasksNext, PacksNext, WorkbenchNext,
       ProgressNext, ReleaseNext, WebNext, LineNext, OptionsNext, SurfacesNext, InstallNext

\* No order of spawns, exits, late reports and closes leaves a process running that
\* the transport has forgotten.
THEOREM NoProcessIsOrphaned ==
    ASSUME MaxProcs \in Nat, MaxRequests \in Nat PROVE Spec => []NoOrphanProcess
<1>1. Init => ConnectionInv
  BY ConnectionInvInit DEF Init
<1>2. ConnectionInv /\ [Next]_vars => ConnectionInv'
  BY StdioStep, ConnectionInvStep
<1>3. ConnectionInv => NoOrphanProcess
  BY DEF ConnectionInv, ChildIsUp, NoOrphanProcess, Stdio!NoOrphanProcess
<1> QED
  BY <1>1, <1>2, <1>3, PTL DEF Spec

\* A request is settled by the process it was sent to, for a reason of its own, and
\* a call comes before initialize only where a process exited by itself.
THEOREM OutcomesAreJustified ==
    ASSUME MaxProcs \in Nat, MaxRequests \in Nat PROVE Spec => []OutcomeIsJustified
<1>1. Init => ConnectionInv
  BY ConnectionInvInit DEF Init
<1>2. ConnectionInv /\ [Next]_vars => ConnectionInv'
  BY StdioStep, ConnectionInvStep
<1>3. ConnectionInv => OutcomeIsJustified
  <2>1. Exited # {} => Stdio!Lost # {}
    BY DEF Exited, Stdio!Lost
  <2> QED
    BY <2>1 DEF ConnectionInv, Justified, CallsFollowInitialize, IsCall, OutcomeIsJustified, Stdio!OutcomeIsJustified,
                Stdio!CallAfterInitialize
<1> QED
  BY <1>1, <1>2, <1>3, PTL DEF Spec

-----------------------------------------------------------------------------
(* The transport over a WebSocket (websocket-transport.ts).                *)

\* The promise is that of the socket the field holds, which is on its way; a
\* request that is neither settled nor new has a socket.
FieldsHoldLiveSockets ==
    /\ connecting # WebSocket!NoSocket => socket = connecting /\ sock[connecting] = "connecting"
    /\ socket # WebSocket!NoSocket => sock[socket] \in {"connecting", "open", "closing"}
    /\ \A r \in WebSocket!In("waiting") \cup WebSocket!Pending : via[r] \in WebSocket!Sockets
\* Until a late event comes, the fields know every socket that opens or is open.
FieldsKnowAll ==
    overtaken = {} => \A s \in WebSocket!Sockets :
        (sock[s] = "connecting" => connecting = s) /\ (sock[s] = "open" => socket = s)

SocketInv == WebSocket!TypeOK /\ FieldsHoldLiveSockets /\ FieldsKnowAll /\ WebSocket!WaitsForLiveSocket /\ WebSocket!WrittenWhereAsked

LEMMA SocketInvInit == WebSocket!Init => SocketInv
BY DEF WebSocket!Init, SocketInv, WebSocket!TypeOK, FieldsHoldLiveSockets, FieldsKnowAll,
       WebSocket!WaitsForLiveSocket, WebSocket!WrittenWhereAsked,
       WebSocket!SockStates, WebSocket!RequestStates, WebSocket!Sockets, WebSocket!NoSocket, WebSocket!In, WebSocket!Pending

\* A request that finds no open socket and no promise: nothing opens or is open
\* that could be overtaken, and what is pending waits for a socket that closes.
LEMMA AskKeeps == ASSUME SocketInv, NEW r \in Requests, WebSocket!Ask(r) PROVE SocketInv'
<1>1. UNCHANGED <<stuck, overtaken, shuts>> /\ request[r] = "none"
  BY DEF WebSocket!Ask
<1>2. CASE WebSocket!IsOpen(socket)
  <2>1. /\ request' = [request EXCEPT ![r] = "pending"] /\ via' = [via EXCEPT ![r] = socket]
        /\ UNCHANGED <<socket, connecting, sock>>
    BY <1>2 DEF WebSocket!Ask
  <2>2. socket \in WebSocket!Sockets
    BY <1>2 DEF WebSocket!IsOpen, SocketInv, WebSocket!TypeOK
  <2>3. WebSocket!TypeOK'
    BY <1>1, <2>1, <2>2 DEF SocketInv, WebSocket!TypeOK, WebSocket!RequestStates
  <2>4. FieldsHoldLiveSockets' /\ FieldsKnowAll' /\ WebSocket!WaitsForLiveSocket'
    BY <1>1, <2>1, <2>2 DEF SocketInv, WebSocket!TypeOK, FieldsHoldLiveSockets, FieldsKnowAll,
                            WebSocket!WaitsForLiveSocket, WebSocket!In, WebSocket!Pending
  <2>5. WebSocket!WrittenWhereAsked'
    BY <1>1, <2>1, <2>2 DEF SocketInv, WebSocket!TypeOK, WebSocket!WrittenWhereAsked, WebSocket!Current,
                            WebSocket!In, WebSocket!Pending
  <2> QED
    BY <2>3, <2>4, <2>5 DEF SocketInv
<1>3. CASE ~WebSocket!IsOpen(socket) /\ WebSocket!SharedPromise
  <2>1. /\ request' = [request EXCEPT ![r] = "waiting"] /\ via' = [via EXCEPT ![r] = connecting]
        /\ UNCHANGED <<socket, connecting, sock>>
    BY <1>3 DEF WebSocket!Ask
  <2>2. connecting \in WebSocket!Sockets /\ sock[connecting] = "connecting"
    BY <1>3 DEF WebSocket!SharedPromise, SocketInv, WebSocket!TypeOK, FieldsHoldLiveSockets
  <2>3. WebSocket!TypeOK'
    BY <1>1, <2>1, <2>2 DEF SocketInv, WebSocket!TypeOK, WebSocket!RequestStates
  <2>4. FieldsHoldLiveSockets' /\ FieldsKnowAll' /\ WebSocket!WaitsForLiveSocket'
    BY <1>1, <2>1, <2>2 DEF SocketInv, WebSocket!TypeOK, FieldsHoldLiveSockets, FieldsKnowAll,
                            WebSocket!WaitsForLiveSocket, WebSocket!In, WebSocket!Pending
  <2>5. WebSocket!WrittenWhereAsked'
    BY <1>1, <2>1, <2>2 DEF SocketInv, WebSocket!TypeOK, WebSocket!WrittenWhereAsked, WebSocket!Current,
                            WebSocket!In, WebSocket!Pending
  <2> QED
    BY <2>3, <2>4, <2>5 DEF SocketInv
<1>4. CASE ~WebSocket!IsOpen(socket) /\ ~WebSocket!SharedPromise
  <2>1. PICK s \in WebSocket!Sockets :
          /\ WebSocket!Unused(s)
          /\ sock' = [sock EXCEPT ![s] = "connecting"]
          /\ socket' = s /\ connecting' = s
          /\ request' = [request EXCEPT ![r] = "waiting"] /\ via' = [via EXCEPT ![r] = s]
    BY <1>4 DEF WebSocket!Ask
  <2>2. /\ sock[s] = "none" /\ sock'[s] = "connecting" /\ \A q \in WebSocket!Sockets \ {s} : sock'[q] = sock[q]
    BY <2>1 DEF WebSocket!Unused, SocketInv, WebSocket!TypeOK
  <2>3. WebSocket!TypeOK'
    BY <1>1, <2>1 DEF SocketInv, WebSocket!TypeOK, WebSocket!SockStates, WebSocket!RequestStates
  <2>4. connecting = WebSocket!NoSocket /\ (overtaken = {} => \A q \in WebSocket!Sockets : sock[q] \notin {"connecting", "open"})
    BY <1>4 DEF WebSocket!SharedPromise, WebSocket!IsOpen, SocketInv, FieldsKnowAll, WebSocket!NoSocket,
                WebSocket!Sockets
  <2>5. FieldsHoldLiveSockets' /\ WebSocket!WaitsForLiveSocket'
    BY <2>1, <2>2 DEF SocketInv, WebSocket!TypeOK, FieldsHoldLiveSockets, WebSocket!WaitsForLiveSocket,
                      WebSocket!In, WebSocket!Pending
  <2>6. FieldsKnowAll'
    BY <1>1, <2>1, <2>2, <2>4 DEF FieldsKnowAll
  <2>7. WebSocket!WrittenWhereAsked'
    <3> SUFFICES ASSUME overtaken = {}, NEW q \in Requests, request'[q] = "pending"
                 PROVE  sock'[via'[q]] = "closing"
      BY <1>1 DEF SocketInv, WebSocket!WrittenWhereAsked, WebSocket!In, WebSocket!Pending
    <3>1. q # r /\ request[q] = "pending" /\ via'[q] = via[q]
      BY <2>1 DEF SocketInv, WebSocket!TypeOK
    <3>2. via[q] \in WebSocket!Sockets
      BY <3>1 DEF SocketInv, FieldsHoldLiveSockets, WebSocket!In, WebSocket!Pending
    <3>3. sock[via[q]] = "closing"
      BY <2>4, <3>1, <3>2 DEF SocketInv, FieldsHoldLiveSockets, WebSocket!WrittenWhereAsked, WebSocket!Current,
                              WebSocket!In, WebSocket!Pending, WebSocket!Sockets, WebSocket!NoSocket
    <3> QED
      BY <2>2, <3>1, <3>2, <3>3
  <2> QED
    BY <2>3, <2>5, <2>6, <2>7 DEF SocketInv
<1> QED
  BY <1>2, <1>3, <1>4

\* The open event: without late events the fields hold this very socket.
LEMMA OpenEventKeeps == ASSUME SocketInv, NEW s \in WebSocket!Sockets, WebSocket!OpenEvent(s) PROVE SocketInv'
<1> DEFINE callers == {r \in WebSocket!In("waiting") : via[r] = s}
           written == socket = s \/ WebSocket!IsOpen(socket)
<1>1. /\ sock[s] = "connecting" /\ sock' = [sock EXCEPT ![s] = "open"] /\ connecting' = WebSocket!NoSocket
      /\ UNCHANGED <<socket, overtaken, shuts>>
  BY DEF WebSocket!OpenEvent
<1>2. /\ request' = [r \in Requests |-> IF r \notin callers THEN request[r] ELSE IF written THEN "pending" ELSE "failed"]
      /\ via' = [r \in Requests |-> IF r \in callers /\ written THEN socket ELSE via[r]]
      /\ stuck' = IF written THEN stuck ELSE stuck \cup callers
  BY DEF WebSocket!OpenEvent
<1>3. sock'[s] = "open" /\ \A q \in WebSocket!Sockets \ {s} : sock'[q] = sock[q]
  BY <1>1 DEF SocketInv, WebSocket!TypeOK
<1>4. written => socket \in WebSocket!Sockets
  BY DEF WebSocket!IsOpen, SocketInv, WebSocket!TypeOK
<1>5. overtaken = {} => socket = s /\ connecting = s
  BY <1>1 DEF SocketInv, FieldsKnowAll, FieldsHoldLiveSockets, WebSocket!Sockets, WebSocket!NoSocket
<1>6. WebSocket!TypeOK'
  <2>1. request' \in [Requests -> WebSocket!RequestStates]
    BY <1>2 DEF SocketInv, WebSocket!TypeOK, WebSocket!RequestStates
  <2>2. via' \in [Requests -> WebSocket!Sockets \cup {WebSocket!NoSocket}]
    BY <1>2 DEF SocketInv, WebSocket!TypeOK
  <2>3. stuck' \subseteq Requests
    BY <1>2 DEF SocketInv, WebSocket!TypeOK, WebSocket!In
  <2>4. sock' \in [WebSocket!Sockets -> WebSocket!SockStates]
    BY <1>1 DEF SocketInv, WebSocket!TypeOK, WebSocket!SockStates
  <2> QED
    BY <1>1, <2>1, <2>2, <2>3, <2>4 DEF SocketInv, WebSocket!TypeOK
<1>7. FieldsHoldLiveSockets'
  <2>1. socket' # WebSocket!NoSocket => sock'[socket'] \in {"connecting", "open", "closing"}
    BY <1>1, <1>3 DEF SocketInv, WebSocket!TypeOK, FieldsHoldLiveSockets
  <2>2. ASSUME NEW r \in Requests, request'[r] \in {"waiting", "pending"} PROVE via'[r] \in WebSocket!Sockets
    BY <1>2, <1>4, <2>2 DEF SocketInv, FieldsHoldLiveSockets, WebSocket!In, WebSocket!Pending
  <2> QED
    BY <1>1, <2>1, <2>2 DEF FieldsHoldLiveSockets, WebSocket!In, WebSocket!Pending
<1>8. FieldsKnowAll'
  BY <1>1, <1>3, <1>5 DEF SocketInv, FieldsKnowAll
<1>9. WebSocket!WaitsForLiveSocket'
  <2> SUFFICES ASSUME NEW r \in Requests, request'[r] = "waiting"
               PROVE  sock'[via'[r]] \in {"connecting", "aborted"}
    BY DEF WebSocket!WaitsForLiveSocket, WebSocket!In
  <2>1. request[r] = "waiting" /\ via[r] # s /\ via'[r] = via[r]
    BY <1>2 DEF WebSocket!In
  <2> QED
    BY <1>3, <2>1 DEF SocketInv, FieldsHoldLiveSockets, WebSocket!WaitsForLiveSocket, WebSocket!In
<1>10. WebSocket!WrittenWhereAsked'
  <2> SUFFICES ASSUME overtaken = {}
               PROVE  stuck' = {} /\ \A r \in Requests : request'[r] = "pending" => socket = via'[r] \/ sock'[via'[r]] = "closing"
    BY <1>1 DEF WebSocket!WrittenWhereAsked, WebSocket!Current, WebSocket!In, WebSocket!Pending
  <2>1. stuck' = {}
    BY <1>2, <1>5 DEF SocketInv, WebSocket!WrittenWhereAsked
  <2>2. ASSUME NEW r \in Requests, request'[r] = "pending" PROVE socket = via'[r] \/ sock'[via'[r]] = "closing"
    <3>1. CASE r \in callers
      BY <1>2, <1>5, <3>1
    <3>2. CASE r \notin callers
      <4>1. request[r] = "pending" /\ via'[r] = via[r]
        BY <1>2, <2>2, <3>2
      <4>2. via[r] \in WebSocket!Sockets /\ (WebSocket!Current(via[r]) \/ sock[via[r]] = "closing")
        BY <4>1 DEF SocketInv, FieldsHoldLiveSockets, WebSocket!WrittenWhereAsked, WebSocket!In,
                    WebSocket!Pending
      <4> QED
        BY <1>1, <1>3, <1>5, <4>1, <4>2 DEF WebSocket!Current
    <3> QED
      BY <3>1, <3>2
  <2> QED
    BY <2>1, <2>2
<1> QED
  BY <1>6, <1>7, <1>8, <1>9, <1>10 DEF SocketInv

\* Every event that fails requests fails all that are pending.
LEMMA FailFacts ==
    ASSUME SocketInv, NEW rs, WebSocket!Fail(rs), WebSocket!Pending \subseteq rs, stuck' = {}
    PROVE  /\ request' \in [Requests -> WebSocket!RequestStates] /\ WebSocket!WrittenWhereAsked'
           /\ \A r \in Requests : /\ request'[r] # "pending"
                                  /\ request'[r] = "waiting" => request[r] = "waiting" /\ r \notin rs
<1>1. \A r \in Requests : request'[r] = IF r \in rs THEN "failed" ELSE request[r]
  BY DEF WebSocket!Fail
<1>2. request' \in [Requests -> WebSocket!RequestStates]
  BY DEF WebSocket!Fail, SocketInv, WebSocket!TypeOK, WebSocket!RequestStates
<1>3. \A r \in Requests : request'[r] # "pending"
  BY <1>1 DEF WebSocket!In, WebSocket!Pending
<1> QED
  BY <1>1, <1>2, <1>3 DEF WebSocket!WrittenWhereAsked, WebSocket!In, WebSocket!Pending

LEMMA ErrorEventKeeps == ASSUME SocketInv, NEW s \in WebSocket!Sockets, WebSocket!ErrorEvent(s) PROVE SocketInv'
<1>1. /\ sock[s] \in {"connecting", "aborted"} /\ sock' = [sock EXCEPT ![s] = "closing"]
      /\ connecting' = WebSocket!NoSocket /\ stuck' = {}
      /\ overtaken' = IF connecting \notin {s, WebSocket!NoSocket} THEN overtaken \cup {s} ELSE overtaken
      /\ UNCHANGED <<socket, via, shuts>>
  BY DEF WebSocket!ErrorEvent
<1>2. /\ request' \in [Requests -> WebSocket!RequestStates] /\ WebSocket!WrittenWhereAsked'
      /\ \A r \in Requests : /\ request'[r] # "pending"
                             /\ request'[r] = "waiting" => request[r] = "waiting" /\ r \notin WebSocket!FailedBy(s)
  BY <1>1, FailFacts DEF WebSocket!ErrorEvent, WebSocket!FailedBy
<1>3. sock'[s] = "closing" /\ \A q \in WebSocket!Sockets \ {s} : sock'[q] = sock[q]
  BY <1>1 DEF SocketInv, WebSocket!TypeOK
<1>4. WebSocket!TypeOK'
  BY <1>1, <1>2 DEF SocketInv, WebSocket!TypeOK, WebSocket!SockStates
<1>5. FieldsHoldLiveSockets'
  BY <1>1, <1>2, <1>3 DEF SocketInv, WebSocket!TypeOK, FieldsHoldLiveSockets, WebSocket!In, WebSocket!Pending
<1>6. FieldsKnowAll'
  BY <1>1, <1>3 DEF SocketInv, FieldsKnowAll, FieldsHoldLiveSockets, WebSocket!Sockets, WebSocket!NoSocket
<1>7. WebSocket!WaitsForLiveSocket'
  BY <1>1, <1>2, <1>3 DEF SocketInv, FieldsHoldLiveSockets, WebSocket!WaitsForLiveSocket, WebSocket!FailedBy,
                          WebSocket!In
<1> QED
  BY <1>2, <1>4, <1>5, <1>6, <1>7 DEF SocketInv

LEMMA CloseEventKeeps == ASSUME SocketInv, NEW s \in WebSocket!Sockets, WebSocket!CloseEvent(s) PROVE SocketInv'
<1>1. /\ sock[s] \in {"open", "closing"} /\ sock' = [sock EXCEPT ![s] = "closed"]
      /\ socket' = WebSocket!NoSocket /\ connecting' = WebSocket!NoSocket /\ stuck' = {}
      /\ overtaken' = IF socket \notin {s, WebSocket!NoSocket} THEN overtaken \cup {s} ELSE overtaken
      /\ UNCHANGED <<via, shuts>>
  BY DEF WebSocket!CloseEvent
<1>2. /\ request' \in [Requests -> WebSocket!RequestStates] /\ WebSocket!WrittenWhereAsked'
      /\ \A r \in Requests : /\ request'[r] # "pending"
                             /\ request'[r] = "waiting" => request[r] = "waiting"
  BY <1>1, FailFacts DEF WebSocket!CloseEvent
<1>3. sock'[s] = "closed" /\ \A q \in WebSocket!Sockets \ {s} : sock'[q] = sock[q]
  BY <1>1 DEF SocketInv, WebSocket!TypeOK
<1>4. WebSocket!TypeOK'
  BY <1>1, <1>2 DEF SocketInv, WebSocket!TypeOK, WebSocket!SockStates
<1>5. FieldsHoldLiveSockets'
  BY <1>1, <1>2 DEF SocketInv, FieldsHoldLiveSockets, WebSocket!In, WebSocket!Pending
<1>6. FieldsKnowAll'
  <2> SUFFICES ASSUME overtaken' = {}, NEW q \in WebSocket!Sockets PROVE sock'[q] \notin {"connecting", "open"}
    BY DEF FieldsKnowAll
  <2>1. overtaken = {} /\ socket \in {s, WebSocket!NoSocket}
    BY <1>1
  <2>2. connecting = WebSocket!NoSocket
    BY <1>1, <2>1 DEF SocketInv, FieldsHoldLiveSockets, WebSocket!Sockets, WebSocket!NoSocket
  <2> QED
    BY <1>3, <2>1, <2>2 DEF SocketInv, FieldsKnowAll, WebSocket!Sockets, WebSocket!NoSocket
<1>7. WebSocket!WaitsForLiveSocket'
  BY <1>1, <1>2, <1>3 DEF SocketInv, FieldsHoldLiveSockets, WebSocket!WaitsForLiveSocket, WebSocket!In
<1> QED
  BY <1>2, <1>4, <1>5, <1>6, <1>7 DEF SocketInv

LEMMA ShutKeeps == ASSUME SocketInv, WebSocket!Shut PROVE SocketInv'
<1>1. /\ socket' = WebSocket!NoSocket /\ connecting' = WebSocket!NoSocket /\ stuck' = {}
      /\ sock' = [s \in WebSocket!Sockets |->
                    IF s # socket THEN sock[s]
                    ELSE IF sock[s] = "open" THEN "closing"
                    ELSE IF sock[s] = "connecting" THEN "aborted" ELSE sock[s]]
      /\ UNCHANGED <<via, overtaken>>
  BY DEF WebSocket!Shut
<1>2. /\ request' \in [Requests -> WebSocket!RequestStates] /\ WebSocket!WrittenWhereAsked'
      /\ \A r \in Requests : /\ request'[r] # "pending"
                             /\ request'[r] = "waiting" => request[r] = "waiting"
  BY <1>1, FailFacts DEF WebSocket!Shut
<1>3. WebSocket!TypeOK'
  BY <1>1, <1>2 DEF SocketInv, WebSocket!TypeOK, WebSocket!SockStates
<1>4. FieldsHoldLiveSockets'
  BY <1>1, <1>2 DEF SocketInv, FieldsHoldLiveSockets, WebSocket!In, WebSocket!Pending
<1>5. FieldsKnowAll'
  BY <1>1 DEF SocketInv, FieldsKnowAll, FieldsHoldLiveSockets, WebSocket!Sockets, WebSocket!NoSocket
<1>6. WebSocket!WaitsForLiveSocket'
  BY <1>1, <1>2 DEF SocketInv, FieldsHoldLiveSockets, WebSocket!WaitsForLiveSocket, WebSocket!In
<1> QED
  BY <1>2, <1>3, <1>4, <1>5, <1>6 DEF SocketInv

LEMMA SettledKeeps == ASSUME SocketInv, NEW r \in Requests, WebSocket!Answered(r) \/ WebSocket!TimesOut(r) PROVE SocketInv'
<1>1. /\ UNCHANGED <<socket, connecting, sock, via, overtaken, shuts>>
      /\ stuck' \subseteq stuck
      /\ request' \in [Requests -> WebSocket!RequestStates]
      /\ \A q \in Requests : request'[q] \in {"waiting", "pending"} => request'[q] = request[q]
  BY DEF WebSocket!Answered, WebSocket!TimesOut, SocketInv, WebSocket!TypeOK, WebSocket!RequestStates
<1>2. WebSocket!TypeOK'
  BY <1>1 DEF SocketInv, WebSocket!TypeOK
<1>3. FieldsHoldLiveSockets' /\ FieldsKnowAll' /\ WebSocket!WaitsForLiveSocket'
  BY <1>1 DEF SocketInv, FieldsHoldLiveSockets, FieldsKnowAll, WebSocket!WaitsForLiveSocket, WebSocket!In,
              WebSocket!Pending
<1>4. WebSocket!WrittenWhereAsked'
  BY <1>1 DEF SocketInv, WebSocket!WrittenWhereAsked, WebSocket!Current, WebSocket!In, WebSocket!Pending
<1> QED
  BY <1>2, <1>3, <1>4 DEF SocketInv

LEMMA SocketInvStep == SocketInv /\ [WebSocket!Next]_webSocketVars => SocketInv'
<1>1. ASSUME SocketInv, UNCHANGED webSocketVars PROVE SocketInv'
  BY <1>1 DEF webSocketVars, SocketInv, WebSocket!TypeOK, FieldsHoldLiveSockets, FieldsKnowAll,
              WebSocket!WaitsForLiveSocket,
              WebSocket!WrittenWhereAsked, WebSocket!Current, WebSocket!In, WebSocket!Pending
<1> QED
  BY <1>1, AskKeeps, SettledKeeps, OpenEventKeeps, ErrorEventKeeps, CloseEventKeeps, ShutKeeps DEF WebSocket!Next

\* Callers share a connection and no request is left behind, whatever order the
\* events of the sockets take.
THEOREM SocketStaysShared == Spec => []SocketIsShared
<1>1. Init => SocketInv
  BY SocketInvInit DEF Init
<1>2. SocketInv /\ [Next]_vars => SocketInv'
  <2>1. [Next]_vars => [WebSocket!Next]_webSocketVars
    BY DEF Next, vars, StdioNext, WebSocketNext, LoginNext, TasksNext, PacksNext, WorkbenchNext, ProgressNext,
           ReleaseNext, WebNext, LineNext, OptionsNext, SurfacesNext, InstallNext
  <2> QED
    BY <2>1, SocketInvStep
<1>3. SocketInv => SocketIsShared
  BY DEF SocketInv, FieldsKnowAll, SocketIsShared, WebSocket!SocketIsShared, WebSocket!OneSocketInUse,
         WebSocket!Current
<1> QED
  BY <1>1, <1>2, <1>3, PTL DEF Spec

-----------------------------------------------------------------------------
(* The wait for the end of a login (auth.ts).                              *)

HeardEnds == notices \cup checks \cup seen
\* What is told of a login, or was, is told of one that was started.
LoginInv == Login!TypeOK /\ (\A c \in HeardEnds : logins[c.login] # "none") /\ Login!ResolvedByOwnLogin

LEMMA LoginInvInit == Login!Init => LoginInv
BY DEF Login!Init, LoginInv, Login!TypeOK, HeardEnds, Login!Callers, Login!ResolvedByOwnLogin

\* A step adds completions of logins that run or end, and keeps the end of every
\* login: the completion that resolved the wait stays in seen.
LEMMA LoginInvStep == LoginInv /\ [Login!Next]_loginVars => LoginInv'
<1> SUFFICES ASSUME LoginInv, [Login!Next]_loginVars PROVE LoginInv'
  OBVIOUS
<1> USE DEF LoginInv, Login!TypeOK, HeardEnds, Login!Callers, Login!Completion, Login!Names, Login!ResolvedByOwnLogin
<1>1. CASE Login!StartLogin
  BY <1>1 DEF Login!StartLogin
<1>2. CASE Login!LoginStarted
  BY <1>2 DEF Login!LoginStarted
<1>3. CASE Login!WaitForLogin
  BY <1>3 DEF Login!WaitForLogin
<1>4. CASE Login!StateRead
  BY <1>4 DEF Login!StateRead
<1>5. CASE Login!CancelLogin
  <2>1. Login!TypeOK'
    <3>1. notices' \subseteq Login!Completion
      <4>1. [login |-> Own, success |-> FALSE] \in Login!Completion
        OBVIOUS
      <4>2. notices' = notices \cup {[login |-> Own, success |-> FALSE]}
        BY <1>5 DEF Login!CancelLogin
      <4> HIDE DEF Login!Completion
      <4> QED
        BY <4>1, <4>2
    <3>2. logins' \in [Login!Names -> {"none", "running", "succeeded", "failed", "cancelled"}]
      BY <1>5 DEF Login!CancelLogin
    <3> QED
      BY <1>5, <3>1, <3>2 DEF Login!CancelLogin
  <2>2. (\A c \in HeardEnds : logins[c.login] # "none")'
    BY <1>5 DEF Login!CancelLogin
  <2>3. Login!ResolvedByOwnLogin'
    BY <1>5 DEF Login!CancelLogin
  <2> QED
    BY <2>1, <2>2, <2>3
<1>6. CASE Login!WaitTimesOut
  BY <1>6 DEF Login!WaitTimesOut
<1>7. ASSUME NEW c \in Login!Completion, Login!HearCompletion(c) PROVE LoginInv'
  BY <1>7 DEF Login!HearCompletion
<1>8. ASSUME NEW c \in Login!Completion, Login!CompletionChecked(c) PROVE LoginInv'
  <2>1. Login!TypeOK'
    BY <1>8 DEF Login!CompletionChecked, Login!Concerns
  <2>2. (\A d \in HeardEnds : logins[d.login] # "none")'
    BY <1>8 DEF Login!CompletionChecked
  <2>3. ASSUME (caller \in {"reading", "resolved"})' PROVE Login!ResolvedByOwnLogin'
    <3>1. CASE caller \in {"reading", "resolved"}
      BY <1>8, <3>1 DEF Login!CompletionChecked
    <3>2. CASE caller \notin {"reading", "resolved"}
      <4>1. Login!Concerns(c) /\ c.success
        BY <1>8, <2>3, <3>2 DEF Login!CompletionChecked
      <4>2. c = [login |-> c.login, success |-> TRUE] /\ c.login \in {Own, Nobody}
        BY <4>1 DEF Login!Concerns
      <4> QED
        BY <1>8, <4>2 DEF Login!CompletionChecked
    <3> QED
      BY <3>1, <3>2
  <2> QED
    BY <2>1, <2>2, <2>3
<1>9. ASSUME NEW success \in BOOLEAN, Login!LoginEnds(success) PROVE LoginInv'
  BY <1>9 DEF Login!LoginEnds
<1>10. ASSUME NEW success \in BOOLEAN, NEW l \in Others \cup {Nobody}, Login!OtherLoginEnds(l, success)
       PROVE  LoginInv'
  BY <1>10 DEF Login!OtherLoginEnds
<1>11. CASE UNCHANGED loginVars
  BY <1>11 DEF loginVars
<1> QED
  BY <1>1, <1>2, <1>3, <1>4, <1>5, <1>6, <1>7, <1>8, <1>9, <1>10, <1>11 DEF Login!Next

\* Whatever other logins end, are cancelled or time out beside it, a wait resolves
\* for its own login, or for one that was named by no id.
THEOREM ResolvesByOwnLogin == Spec => []ResolvedByOwnLogin
<1>1. Init => LoginInv
  BY LoginInvInit DEF Init
<1>2. LoginInv /\ [Next]_vars => LoginInv'
  <2>1. [Next]_vars => [Login!Next]_loginVars
    BY DEF Next, vars, StdioNext, WebSocketNext, LoginNext, TasksNext, PacksNext, WorkbenchNext, ProgressNext,
           ReleaseNext, WebNext, LineNext, OptionsNext, SurfacesNext, InstallNext
  <2> QED
    BY <2>1, LoginInvStep
<1>3. LoginInv => ResolvedByOwnLogin
  BY DEF LoginInv, ResolvedByOwnLogin
<1> QED
  BY <1>1, <1>2, <1>3, PTL DEF Spec

-----------------------------------------------------------------------------
(* All the connections.                                                    *)

\* Every connection to an app-server is sound, for every number of processes and of
\* requests: the client on a child process (codex-client's stdio-transport.ts) leaves
\* no process behind and settles a request with a reason that held, the fields of a
\* socket (websocket-transport.ts) know the one in use, a login (auth.ts) resolves by
\* its own completion, and the console (apps/web/src/App.tsx) tells its connection,
\* shows the thread that is selected unless a stale answer came, knows its account,
\* and sends a text that nothing disturbed at most once.
THEOREM ConnectionsStaySound ==
    ASSUME MaxProcs \in Nat, MaxRequests \in Nat PROVE Spec => []ConnectionsAreSound
<1>1. Init => WebInv
  BY WebStart DEF Init
<1>2. WebInv /\ [Next]_vars => WebInv'
  <2>1. [Next]_vars => [Web!WebNext]_webVars
    BY DEF Next, vars, StdioNext, WebSocketNext, LoginNext, TasksNext, PacksNext, WorkbenchNext, ProgressNext,
           ReleaseNext, WebNext, LineNext, OptionsNext, SurfacesNext, InstallNext
  <2> QED
    BY <2>1, WebInvStep
<1>3. Spec => []ConsoleIsSound
  BY <1>1, <1>2, WebInvTells, PTL DEF Spec
<1>4. Spec => []NoOrphanProcess /\ []OutcomeIsJustified
  BY NoProcessIsOrphaned, OutcomesAreJustified, PTL
<1>5. Spec => []SocketIsShared
  BY SocketStaysShared
<1>6. Spec => []ResolvedByOwnLogin
  BY ResolvesByOwnLogin
<1>7. NoOrphanProcess /\ OutcomeIsJustified /\ SocketIsShared /\ ResolvedByOwnLogin /\ ConsoleIsSound => ConnectionsAreSound
  BY DEF ConnectionsAreSound
<1> QED
  BY <1>3, <1>4, <1>5, <1>6, <1>7, PTL
=============================================================================
