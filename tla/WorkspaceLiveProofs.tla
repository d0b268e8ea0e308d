-------------------------- MODULE WorkspaceLiveProofs --------------------------
(***************************************************************************)
(* What TLAPS proves of the parts of MCWorkspaceLive, for every value of   *)
(* their constants: the wait for a turn (every set of scenarios and every  *)
(* bound on failing calls), the peers of the workspace backend (every set  *)
(* of peers and every bound on the lines and exits of the app-server), the *)
(* speech queue (every set of announcements and every size of the queue    *)
(* and of its memory) and the runner of a thread (all messages, turns and  *)
(* scenarios).                                                             *)
(***************************************************************************)
EXTENDS MCWorkspaceLive, SequenceTheorems, FiniteSetTheorems, TLAPS

-----------------------------------------------------------------------------
(* The wait for a turn.                                                    *)

Unregistered == {"idle", "starting", "registering"}

\* The wait exists from Register on, and only until it settled.
WaitIsRegistered ==
    /\ stage \in Unregistered => reads = <<>> /\ ~listening /\ ~interval /\ result = "none"
    /\ stage = "waiting" /\ result = "none" => listening
    /\ listening \/ interval => result = "none"
    /\ stage \in {"exporting", "done"} => result \in {"completed", "interrupted"}

\* What is on its way tells how the turn ended, and tells it after the end.
TellsTheEnd ==
    /\ told = "no" <=> turn \notin Ended
    /\ \A i \in DOMAIN reads : reads[i] \in Ended => reads[i] = turn
    /\ result \in Ended => result = turn

WaitInv ==
    /\ WaitTypeOK /\ WaitIsRegistered /\ TellsTheEnd
    /\ EndIsStillAhead /\ Len(reads) <= 1

-----------------------------------------------------------------------------

\* At most one read is on its way: it is none, or the head alone.
LEMMA NoneOrOne ==
    ASSUME NEW S, NEW s \in Seq(S), Len(s) <= 1
    PROVE  \/ s = <<>>
           \/ s # <<>> /\ Len(s) = 1 /\ Head(s) = s[1] /\ s[1] \in S /\ Tail(s) = <<>>
<1>1. CASE s = <<>>
  BY <1>1
<1>2. CASE s # <<>>
  <2>1. Len(s) = 1 /\ s[1] \in S /\ Head(s) = s[1]
    BY <1>2
  <2>2. Tail(s) \in Seq(S) /\ Len(Tail(s)) = 0
    BY <1>2, <2>1, HeadTailProperties
  <2> QED
    BY <1>2, <2>1, <2>2, EmptySeq
<1> QED
  BY <1>1, <1>2

-----------------------------------------------------------------------------

LEMMA WaitInvInit == WaitInit => WaitInv
<1> SUFFICES ASSUME WaitInit PROVE WaitInv
  OBVIOUS
<1>1. WaitTypeOK
  BY EmptySeq, PatienceAssumption DEF WaitInit, WaitTypeOK, Stages, WaitStatuses
<1>2. Len(reads) <= 1 /\ DOMAIN reads = {}
  BY DEF WaitInit
<1> QED
  BY <1>1, <1>2 DEF WaitInit, WaitInv, WaitIsRegistered, TellsTheEnd, EndIsStillAhead, Ended

LEMMA ReadAnsweredStep ==
    ASSUME WaitInv, ReadAnswered
    PROVE  WaitInv'
<1>0. reads # <<>> /\ Len(reads) = 1 /\ Head(reads) = reads[1] /\ Tail(reads) = <<>>
  BY NoneOrOne DEF WaitInv, WaitTypeOK, ReadAnswered
<1>1. /\ reads' = <<>> /\ reads' \in Seq({"asked"} \cup WaitStatuses)
      /\ Len(reads') = 0 /\ DOMAIN reads' = {}
  <2>1. reads' = <<>>
    BY <1>0 DEF ReadAnswered
  <2> QED
    BY <2>1, EmptySeq
<1>2. UNCHANGED <<stage, turn, told, patience>> /\ stage \notin Unregistered
  BY <1>0 DEF WaitInv, WaitIsRegistered, ReadAnswered
<1>3. reads[1] \in Ended => reads[1] = turn
  BY <1>0 DEF WaitInv, TellsTheEnd
\* Either the wait goes on, and then an end that was read settled it or the call
\* failed, or it settles with the end that was read or with an error.
<1>4. \/ /\ UNCHANGED <<result, listening, interval>>
         /\ waitErrors' \in Nat
         /\ waitErrors' > 0 \/ (reads[1] # "asked" /\ reads[1] \notin Ended) \/ result # "none"
         /\ waitErrors <= waitErrors'
      \/ /\ result = "none" /\ listening' = FALSE /\ interval' = FALSE
         /\ result' = "unreadable" \/ (result' = turn /\ turn \in Ended)
         /\ waitErrors' \in Nat
  BY <1>0, <1>3 DEF WaitInv, WaitTypeOK, ReadAnswered, Settle, CallFails, CallSucceeds, IsTerminalTurn
<1>5. WaitTypeOK'
  BY <1>1, <1>2, <1>4 DEF WaitInv, WaitTypeOK, Ended, WaitStatuses
<1>6. WaitIsRegistered'
  <2>1. CASE UNCHANGED <<result, listening, interval>>
    BY <2>1, <1>2 DEF WaitInv, WaitIsRegistered
  <2>2. CASE result = "none" /\ result' # "none" /\ listening' = FALSE /\ interval' = FALSE
    BY <2>2, <1>2 DEF WaitInv, WaitIsRegistered, Unregistered
  <2> QED
    BY <2>1, <2>2, <1>4 DEF Ended
<1>7. TellsTheEnd'
  BY <1>1, <1>2, <1>4 DEF WaitInv, TellsTheEnd, Ended
<1>8. EndIsStillAhead'
  BY <1>0, <1>1, <1>2, <1>4, <1>3 DEF WaitInv, EndIsStillAhead, WaitTypeOK, Ended
<1> QED
  BY <1>1, <1>5, <1>6, <1>7, <1>8 DEF WaitInv

LEMMA WaitInvStep == WaitInv /\ [WaitNext]_waitVars => WaitInv'
<1> SUFFICES ASSUME WaitInv, [WaitNext]_waitVars PROVE WaitInv'
  OBVIOUS
<1> USE DEF WaitInv, WaitTypeOK, WaitIsRegistered, TellsTheEnd, EndIsStillAhead, Stages, WaitStatuses,
            Ended, Unregistered, WaitScenario
<1>0. \/ reads = <<>>
      \/ /\ reads # <<>> /\ Len(reads) = 1 /\ Head(reads) = reads[1]
         /\ reads[1] \in {"asked"} \cup WaitStatuses /\ Tail(reads) = <<>>
  BY NoneOrOne
<1>1. ASSUME OpenThread PROVE WaitInv'
  BY <1>1 DEF OpenThread, CallSucceeds, CallFails
<1>2. ASSUME TurnBegins PROVE WaitInv'
  BY <1>2 DEF TurnBegins
<1>3. ASSUME TurnStarted PROVE WaitInv'
  BY <1>3 DEF TurnStarted, CallSucceeds, CallFails
<1>4. ASSUME Register PROVE WaitInv'
  <2>1. reads' = <<"asked">>
    BY <1>4 DEF Register, FirstRead
  <2> QED
    BY <1>4, <2>1 DEF Register, IntervalSet
<1>5. ASSUME WaitEnds PROVE WaitInv'
  BY <1>5 DEF WaitEnds, Throws
<1>6. ASSUME Export PROVE WaitInv'
  BY <1>6 DEF Export, CallSucceeds, CallFails
<1>7. ASSUME Poll PROVE WaitInv'
  <2>1. reads' = <<"asked">>
    BY <1>7 DEF Poll
  <2> QED
    BY <1>7, <2>1 DEF Poll
<1>8. ASSUME ReadThread PROVE WaitInv'
  <2>1. Tail(reads) = <<>> /\ reads' = <<turn>> \o Tail(reads)
    BY <1>8, <1>0 DEF ReadThread
  <2>2. reads' = <<turn>>
    BY <2>1, <<turn>> \in Seq(WaitStatuses), ConcatEmptySeq
  <2> QED
    BY <1>8, <2>2 DEF ReadThread
<1>9. ASSUME ReadAnswered PROVE WaitInv'
  BY <1>9, ReadAnsweredStep
<1>10. ASSUME TurnCompleted PROVE WaitInv'
  <2>1. /\ told = "onItsWay" /\ told' = "gone" /\ UNCHANGED <<stage, turn, reads, waitErrors, patience>>
        /\ \/ listening /\ result = "none" /\ result' = turn /\ ~listening' /\ ~interval'
           \/ ~(listening /\ result = "none") /\ UNCHANGED <<result, listening, interval>>
    BY <1>10 DEF TurnCompleted, Settle
  <2>2. turn \in Ended
    BY <2>1
  <2>3. CASE listening /\ result = "none" /\ result' = turn /\ ~listening' /\ ~interval'
    <3>1. WaitTypeOK' /\ WaitIsRegistered'
      <4>1. WaitTypeOK'
        <5>1. result' \in Ended /\ told' \in {"no", "onItsWay", "gone"} /\ listening' \in BOOLEAN /\ interval' \in BOOLEAN
          BY <2>1, <2>2, <2>3, <1>10 DEF TurnCompleted, Settle
        <5> QED
          BY <2>1, <5>1
      <4>2. stage \notin Unregistered
        BY <2>3
      <4>3. stage \notin {"exporting", "done"}
        BY <2>3
      <4> QED
        BY <2>1, <2>3, <4>1, <4>2, <4>3
    <3>2. TellsTheEnd'
      BY <2>1, <2>2, <2>3
    <3>3. EndIsStillAhead' /\ Len(reads') <= 1
      BY <2>1, <2>2, <2>3
    <3> QED
      BY <3>1, <3>2, <3>3
  <2>4. CASE ~(listening /\ result = "none") /\ UNCHANGED <<result, listening, interval>>
    <3>1. ~(stage = "waiting" /\ result = "none")
      BY <2>4
    <3> QED
      BY <2>1, <2>4, <3>1
  <2> QED
    BY <2>1, <2>3, <2>4
<1>11. ASSUME GiveUp PROVE WaitInv'
  <2>1. result = "none"
    BY <1>11 DEF GiveUp
  <2>2. PICK outcome \in {"timeout", "closed", "aborted"} : Settle(outcome)
    BY <1>11 DEF GiveUp
  <2>3. result' = outcome /\ listening' = FALSE /\ interval' = FALSE
    BY <2>1, <2>2 DEF Settle
  <2>4. UNCHANGED <<stage, turn, told, reads, waitErrors, patience>>
    BY <1>11 DEF GiveUp
  <2>5. WaitTypeOK'
    BY <2>3, <2>4
  <2>6. WaitIsRegistered' /\ TellsTheEnd' /\ EndIsStillAhead' /\ Len(reads') <= 1
    <3>1. stage \notin Unregistered /\ stage \notin {"exporting", "done"}
      BY <1>11, <2>1 DEF GiveUp
    <3> QED
      BY <2>3, <2>4, <3>1
  <2> QED
    BY <2>5, <2>6
<1>12. ASSUME TurnEnds PROVE WaitInv'
  BY <1>12 DEF TurnEnds
<1>13. ASSUME NotificationLost PROVE WaitInv'
  BY <1>13 DEF NotificationLost
<1>14. CASE UNCHANGED waitVars
  BY <1>14 DEF waitVars
<1> QED
  BY <1>1, <1>2, <1>3, <1>4, <1>5, <1>6, <1>7, <1>8, <1>9, <1>10, <1>11, <1>12, <1>13, <1>14
     DEF WaitNext, Flow, Reads

\* The end of a turn is told truly and is not missed, whatever fails, is lost or
\* is given up (flows.ts, waitForTurn).
THEOREM EndIsTold == WaitSpec => []EndIsNotMissed
<1>1. WaitInv => EndIsNotMissed
  BY DEF WaitInv, EndIsNotMissed, ResolvedAsItEnded, WaitIsRegistered, TellsTheEnd,
         Ended
<1> QED
  BY <1>1, WaitInvInit, WaitInvStep, PTL DEF WaitSpec

-----------------------------------------------------------------------------
(* The peers of the workspace backend.                                     *)

\* The app-server's lines are handled in the order it writes them.
WireInOrder ==
    /\ \A i \in DOMAIN wire : wire[i].at \in 1..written
    /\ \A i, j \in DOMAIN wire : i < j => wire[i].at < wire[j].at

\* Whatever a peer was sent, or will be answered, is older than what is on its way.
Older(n, lines, last) == n <= last /\ \A i \in DOMAIN lines : n < lines[i].at
HandledIsOlder ==
    \A p \in Peers :
        /\ Older(line[p], wire, written)
        /\ \A i \in DOMAIN peersInbox[p] : Older(peersInbox[p][i].at, wire, written)

\* A connected peer that heard one broadcast line heard all that came after it,
\* and one that was never connected heard none.
OpenHearsOn ==
    \A p \in Open, q \in Peers : \A first \in Heard(p), at \in Heard(q) :
        first <= at => at \in Heard(p)
NewHeardNothing == \A p \in Peers : link[p] = "new" => peersInbox[p] = <<>>

PeersInv ==
    /\ PeersTypeOK /\ WireInOrder /\ HandledIsOlder
    /\ AnswerComesLast /\ NewHeardNothing /\ OpenHearsOn /\ PeersHearTheSame

-----------------------------------------------------------------------------

\* What a peer heard, after one more line was sent to it.
LEMMA HeardMore ==
    ASSUME NEW p \in Peers, peersInbox[p] \in Seq(Items), NEW item \in Items,
           peersInbox'[p] = Append(peersInbox[p], item)
    PROVE  Heard(p)' = IF item.to = Everyone THEN Heard(p) \cup {item.at} ELSE Heard(p)
<1> DEFINE old == peersInbox[p]
           n == Len(old)
<1>1. /\ n \in Nat /\ DOMAIN old = 1..n /\ DOMAIN peersInbox'[p] = 1..(n + 1)
      /\ \A i \in 1..n : peersInbox'[p][i] = old[i]
      /\ peersInbox'[p][n + 1] = item
  BY AppendProperties
<1> HIDE DEF n
<1>2. ASSUME NEW at PROVE at \in Heard(p)' <=> (at \in Heard(p) \/ (item.to = Everyone /\ at = item.at))
  <2>1. at \in Heard(p)' <=> \E i \in 1..(n + 1) : peersInbox'[p][i].to = Everyone /\ at = peersInbox'[p][i].at
    BY <1>1 DEF Heard
  <2>2. at \in Heard(p) <=> \E i \in 1..n : old[i].to = Everyone /\ at = old[i].at
    BY <1>1 DEF Heard
  <2> QED
    BY <1>1, <2>1, <2>2
<1> QED
  BY <1>2

LEMMA HeardNoMore ==
    ASSUME NEW p \in Peers, peersInbox'[p] = peersInbox[p]
    PROVE  Heard(p)' = Heard(p)
BY DEF Heard

-----------------------------------------------------------------------------

LEMMA PeersInvInit == PeersInit => PeersInv
<1> SUFFICES ASSUME PeersInit PROVE PeersInv
  OBVIOUS
<1> USE PeersAssumption
<1>0. <<>> \in Seq(Items) /\ DOMAIN <<>> = {}
  OBVIOUS
<1>1. PeersTypeOK
  <2>1. peersInbox \in [Peers -> Seq(Items)] /\ wire \in Seq(Items)
    BY <1>0 DEF PeersInit
  <2>2. line \in [Peers -> 0..MaxLines] /\ written \in 0..MaxLines /\ exits \in 0..MaxExits
    BY DEF PeersInit
  <2> QED
    BY <2>1, <2>2 DEF PeersInit, PeersTypeOK
<1>2. \A p \in Peers : peersInbox[p] = <<>> /\ Heard(p) = {}
  BY <1>0 DEF PeersInit, Heard
<1>3. WireInOrder /\ HandledIsOlder /\ AnswerComesLast /\ NewHeardNothing
  BY <1>2 DEF PeersInit, WireInOrder, HandledIsOlder, Older, AnswerComesLast, NewHeardNothing
<1>4. OpenHearsOn /\ PeersHearTheSame
  BY <1>2 DEF OpenHearsOn, PeersHearTheSame, Open
<1> QED
  BY <1>1, <1>3, <1>4 DEF PeersInv

\* A step that sends no line to a peer, opens or closes connections, and handles
\* no line of the app-server.
LEMMA QuietStep ==
    ASSUME PeersInv, PeersTypeOK', UNCHANGED <<peersInbox, wire, written>>,
           \A p \in Peers : line'[p] = line[p],
           \A p \in Peers : link'[p] \in {link[p], "closed"} \/ (link[p] = "new" /\ link'[p] = "open")
    PROVE  PeersInv'
<1>1. \A p \in Peers : Heard(p)' = Heard(p)
  BY HeardNoMore
<1>2. WireInOrder' /\ HandledIsOlder' /\ AnswerComesLast' /\ NewHeardNothing'
  BY DEF PeersInv, PeersTypeOK, WireInOrder, HandledIsOlder, Older, AnswerComesLast, NewHeardNothing
<1>3. PeersHearTheSame'
  BY <1>1 DEF PeersInv, PeersHearTheSame
<1>4. \A p \in Peers : link[p] = "new" => Heard(p) = {}
  BY DEF PeersInv, NewHeardNothing, Heard
<1>5. OpenHearsOn'
  BY <1>1, <1>4 DEF PeersInv, OpenHearsOn, Open
<1> QED
  BY <1>2, <1>3, <1>5 DEF PeersInv

\* The answer to a call is sent.
LEMMA SendAnswerStep ==
    ASSUME PeersInv, NEW p \in Peers, SendAnswer(p)
    PROVE  PeersInv'
<1> USE PeersAssumption
<1> DEFINE item == [to |-> p, at |-> line[p]]
<1>1. item \in Items /\ item.to # Everyone
  BY DEF PeersInv, PeersTypeOK, Items
<1>2. CASE p \notin Open
  <2>1. PeersTypeOK' /\ UNCHANGED <<link, line, peersInbox, wire, written>>
    BY <1>2 DEF SendAnswer, PeersInv, PeersTypeOK
  <2> QED
    BY <2>1, QuietStep
<1>3. CASE p \in Open
  <2>1. /\ peersInbox' = [peersInbox EXCEPT ![p] = Append(@, item)]
        /\ UNCHANGED <<link, line, wire, written, exits, down>>
        /\ call' = [call EXCEPT ![p] = "sent"]
    BY <1>3 DEF SendAnswer
  <2>2. peersInbox \in [Peers -> Seq(Items)]
    BY DEF PeersInv, PeersTypeOK
  <2>3. /\ peersInbox'[p] = Append(peersInbox[p], item)
        /\ \A q \in Peers \ {p} : peersInbox'[q] = peersInbox[q]
    BY <2>1, <2>2
  <2>4. PeersTypeOK'
    BY <1>1, <2>1, <2>2, AppendProperties DEF PeersInv, PeersTypeOK
  <2>5. \A q \in Peers : Heard(q)' = Heard(q)
    BY <1>1, <2>2, <2>3, HeardMore, HeardNoMore
  <2>6. OpenHearsOn' /\ PeersHearTheSame'
    BY <2>1, <2>5 DEF PeersInv, OpenHearsOn, Open, PeersHearTheSame
  <2>7. WireInOrder' /\ NewHeardNothing'
    BY <1>3, <2>1, <2>2, <2>3 DEF PeersInv, PeersTypeOK, WireInOrder, NewHeardNothing, Open
  <2>8. /\ Len(peersInbox[p]) \in Nat /\ DOMAIN peersInbox[p] = 1..Len(peersInbox[p])
        /\ DOMAIN peersInbox'[p] = 1..(Len(peersInbox[p]) + 1)
        /\ \A i \in 1..Len(peersInbox[p]) : peersInbox'[p][i] = peersInbox[p][i]
        /\ peersInbox'[p][Len(peersInbox[p]) + 1] = item
    BY <1>1, <2>2, <2>3, AppendProperties
  <2>9. AnswerComesLast'
    <3> SUFFICES ASSUME NEW q \in Peers, NEW i \in DOMAIN peersInbox'[q], NEW j \in DOMAIN peersInbox'[q],
                        i < j, peersInbox'[q][j].to = Everyone
                 PROVE  peersInbox'[q][i].at < peersInbox'[q][j].at
      BY DEF AnswerComesLast
    <3>1. CASE q # p
      BY <2>3, <3>1 DEF PeersInv, AnswerComesLast
    <3>2. CASE q = p
      <4>1. j # Len(peersInbox[p]) + 1
        BY <1>1, <2>8, <3>2
      <4>2. i \in DOMAIN peersInbox[p] /\ j \in DOMAIN peersInbox[p]
        BY SMTT(25), <2>8, <3>2, <4>1
      <4> QED
        BY <2>8, <3>2, <4>2 DEF PeersInv, AnswerComesLast
    <3> QED
      BY <3>1, <3>2
  <2>10. HandledIsOlder'
    <3>1. \A n : Older(n, wire', written') <=> Older(n, wire, written)
      BY <2>1 DEF Older
    <3>2. \A q \in Peers : Older(line'[q], wire', written')
      BY <2>1 DEF PeersInv, HandledIsOlder
    <3>3. ASSUME NEW q \in Peers, NEW i \in DOMAIN peersInbox'[q] PROVE Older(peersInbox'[q][i].at, wire', written')
      <4>1. CASE q # p
        BY <2>3, <3>1, <4>1 DEF PeersInv, HandledIsOlder
      <4>2. CASE q = p
        BY SMTT(25), <2>8, <3>1, <4>2 DEF PeersInv, HandledIsOlder
      <4> QED
        BY <4>1, <4>2
    <3> QED
      BY <3>1, <3>2, <3>3 DEF HandledIsOlder
  <2> QED
    BY <2>4, <2>6, <2>7, <2>9, <2>10 DEF PeersInv
<1> QED
  BY <1>2, <1>3

\* HandleLine takes the head of what is on its way.
LEMMA HeadHandled ==
    ASSUME PeersInv, HandleLine
    PROVE  /\ wire # <<>> /\ wire[1] \in Items /\ wire' \in Seq(Items)
           /\ Len(wire) \in Nat /\ DOMAIN wire' = 1..(Len(wire) - 1) /\ DOMAIN wire = 1..Len(wire)
           /\ \A i \in DOMAIN wire' : i + 1 \in DOMAIN wire /\ wire'[i] = wire[i + 1]
<1> DEFINE n == Len(wire)
<1>1. wire \in Seq(Items) /\ wire # <<>> /\ n \in Nat /\ n > 0 /\ DOMAIN wire = 1..n
  <2>1. wire \in Seq(Items) /\ wire # <<>>
    BY DEF PeersInv, PeersTypeOK, HandleLine
  <2> QED
    BY <2>1, LenProperties, EmptySeq
<1>2. wire[1] \in Items
  BY <1>1
<1> DEFINE rest == SubSeq(wire, 2, n)
<1>3. rest \in Seq(Items) /\ Len(rest) = n - 1 /\ \A i \in 1..(n - 1) : rest[i] = wire[i + 1]
  BY <1>1, SubSeqProperties
<1>4. SubSeq(wire, 1, 0) = <<>>
  BY <1>1, SubSeqEmpty
<1>5. wire' = rest
  <2>1. wire' = SubSeq(wire, 1, 1 - 1) \o SubSeq(wire, 1 + 1, n)
    BY DEF HandleLine, NextLine
  <2> QED
    BY <1>3, <1>4, <2>1, ConcatEmptySeq
<1> QED
  BY <1>1, <1>2, <1>3, <1>5

\* A line that is the answer to a call, and one that is for every peer.
LEMMA HandleLineStep ==
    ASSUME PeersInv, HandleLine
    PROVE  PeersInv'
<1> USE PeersAssumption
<1> DEFINE item == wire[1]
<1>1. /\ wire # <<>> /\ item \in Items /\ wire' \in Seq(Items) /\ 1 \in DOMAIN wire
      /\ Len(wire) \in Nat /\ DOMAIN wire' = 1..(Len(wire) - 1) /\ DOMAIN wire = 1..Len(wire)
      /\ \A i \in DOMAIN wire' : i + 1 \in DOMAIN wire /\ wire'[i] = wire[i + 1]
  BY HeadHandled
<1>2. UNCHANGED <<link, written, exits, down>>
  BY DEF HandleLine
<1>3. WireInOrder'
  BY SMTT(25), <1>1, <1>2 DEF PeersInv, WireInOrder
<1>4. written \in Nat /\ \A i \in DOMAIN wire : wire[i].at \in Nat
  BY DEF PeersInv, PeersTypeOK, WireInOrder
<1>5. \A k : Older(k, wire, written) => Older(k, wire', written')
  BY <1>1, <1>2 DEF Older
<1>6. Older(item.at, wire', written')
  <2>1. item.at <= written
    BY <1>1 DEF PeersInv, WireInOrder
  <2>2. ASSUME NEW i \in DOMAIN wire' PROVE item.at < wire'[i].at
    <3>1. i + 1 \in DOMAIN wire /\ 1 \in DOMAIN wire /\ 1 < i + 1 /\ wire'[i] = wire[i + 1]
      BY <1>1
    <3> QED
      BY <1>1, <3>1 DEF PeersInv, WireInOrder
  <2> QED
    BY <1>2, <2>1, <2>2 DEF Older
<1>7. CASE item.to # Everyone
  <2>1. UNCHANGED peersInbox
    BY <1>7 DEF HandleLine, NextLine
  <2>2. \A p \in Peers : Heard(p)' = Heard(p)
    BY <2>1, HeardNoMore
  <2>3. item.to \in Peers
    BY <1>1, <1>7 DEF Items
  <2>4. \/ UNCHANGED <<call, line>>
        \/ /\ call' = [call EXCEPT ![item.to] = "resolved"]
           /\ line' = [line EXCEPT ![item.to] = item.at]
    BY <1>7 DEF HandleLine, NextLine
  <2>5. item.at \in 0..MaxLines
    BY <1>1 DEF Items
  <2>6. PeersTypeOK'
    BY <1>1, <1>2, <2>1, <2>4, <2>5 DEF PeersInv, PeersTypeOK
  <2>7. \A p \in Peers : line'[p] \in {line[p], item.at}
    BY <2>3, <2>4 DEF PeersInv, PeersTypeOK
  <2>8. HandledIsOlder'
    BY <1>5, <1>6, <2>1, <2>7 DEF PeersInv, HandledIsOlder
  <2>9. OpenHearsOn' /\ PeersHearTheSame'
    BY <1>2, <2>2 DEF PeersInv, OpenHearsOn, PeersHearTheSame, Open
  <2>10. AnswerComesLast' /\ NewHeardNothing'
    BY <1>2, <2>1 DEF PeersInv, AnswerComesLast, NewHeardNothing
  <2> QED
    BY <1>3, <2>6, <2>8, <2>9, <2>10 DEF PeersInv
<1>8. CASE item.to = Everyone
  <2>1. UNCHANGED <<call, line>> /\ Broadcast(item)
    BY <1>8 DEF HandleLine, NextLine
  <2>2. peersInbox \in [Peers -> Seq(Items)]
    BY DEF PeersInv, PeersTypeOK
  <2>3. ASSUME NEW p \in Open
        PROVE  /\ p \in Peers /\ Len(peersInbox[p]) \in Nat
               /\ peersInbox'[p] = Append(peersInbox[p], item)
               /\ peersInbox'[p] \in Seq(Items)
               /\ DOMAIN peersInbox[p] = 1..Len(peersInbox[p])
               /\ DOMAIN peersInbox'[p] = 1..(Len(peersInbox[p]) + 1)
               /\ \A i \in DOMAIN peersInbox[p] : peersInbox'[p][i] = peersInbox[p][i]
               /\ peersInbox'[p][Len(peersInbox[p]) + 1] = item
    <3>1. p \in Peers /\ peersInbox[p] \in Seq(Items) /\ peersInbox'[p] = Append(peersInbox[p], item)
      BY <2>1, <2>2 DEF Broadcast, Open
    <3> QED
      BY <1>1, <3>1, AppendProperties
  <2>4. \A p \in Peers \ Open : peersInbox'[p] = peersInbox[p]
    BY <2>1 DEF Broadcast
  <2>5. PeersTypeOK'
    <3>1. peersInbox' \in [Peers -> Seq(Items)]
      BY <2>1, <2>2, <2>3, <2>4 DEF Broadcast
    <3> QED
      BY <1>1, <1>2, <2>1, <3>1 DEF PeersInv, PeersTypeOK
  <2>6. \A p \in Open : Heard(p)' = Heard(p) \cup {item.at}
    BY <1>1, <1>8, <2>2, <2>3, HeardMore
  <2>7. \A p \in Peers \ Open : Heard(p)' = Heard(p)
    BY <2>4, HeardNoMore
  <2>8. \A p \in Peers : \A at \in Heard(p) : at < item.at /\ at \in Nat
    <3> SUFFICES ASSUME NEW p \in Peers, NEW i \in DOMAIN peersInbox[p]
                 PROVE  peersInbox[p][i].at < item.at /\ peersInbox[p][i].at \in Nat
      BY DEF Heard
    <3>1. peersInbox[p] \in Seq(Items)
      BY <2>2
    <3>2. peersInbox[p][i] \in Items
      BY <3>1
    <3>3. peersInbox[p][i].at \in Nat
      BY <3>2 DEF Items
    <3>4. HandledIsOlder
      BY DEF PeersInv
    <3>5. Older(peersInbox[p][i].at, wire, written)
      BY <3>4 DEF HandledIsOlder
    <3>6. \A k \in DOMAIN wire : peersInbox[p][i].at < wire[k].at
      BY <3>5 DEF Older
    <3>7. 1 \in DOMAIN wire /\ item = wire[1]
      BY <1>1
    <3> QED
      BY <3>3, <3>6, <3>7
  <2>9. item.at \in Nat
    BY <1>1, <1>4
  <2>10. HandledIsOlder'
    <3>1. \A p \in Peers : Older(line'[p], wire', written')
      BY <1>5, <2>1 DEF PeersInv, HandledIsOlder
    <3>2. ASSUME NEW p \in Peers, NEW i \in DOMAIN peersInbox'[p] PROVE Older(peersInbox'[p][i].at, wire', written')
      <4>1. CASE p \notin Open
        BY <1>5, <2>4, <4>1 DEF PeersInv, HandledIsOlder
      <4>2. CASE p \in Open
        <5>1. peersInbox'[p][i] = item \/ (i \in DOMAIN peersInbox[p] /\ peersInbox'[p][i] = peersInbox[p][i])
          BY <2>3, <4>2
        <5> QED
          BY <1>5, <1>6, <5>1 DEF PeersInv, HandledIsOlder
      <4> QED
        BY <4>1, <4>2
    <3> QED
      BY <2>1, <3>1, <3>2 DEF HandledIsOlder
  <2>11. AnswerComesLast'
    <3> SUFFICES ASSUME NEW p \in Peers, NEW i \in DOMAIN peersInbox'[p], NEW j \in DOMAIN peersInbox'[p],
                        i < j, peersInbox'[p][j].to = Everyone
                 PROVE  peersInbox'[p][i].at < peersInbox'[p][j].at
      BY DEF AnswerComesLast
    <3>1. CASE p \notin Open
      BY <2>4, <3>1 DEF PeersInv, AnswerComesLast
    <3>2. CASE p \in Open
      <4>1. i \in DOMAIN peersInbox[p] /\ peersInbox'[p][i] = peersInbox[p][i]
        BY <2>3, <3>2
      <4>2. CASE j \in DOMAIN peersInbox[p]
        BY <2>3, <3>2, <4>1, <4>2 DEF PeersInv, AnswerComesLast
      <4>3. CASE j \notin DOMAIN peersInbox[p]
        <5>1. peersInbox'[p][j] = item
          BY <2>3, <3>2, <4>3
        <5> QED
          BY <1>1, <4>1, <5>1 DEF PeersInv, HandledIsOlder, Older
      <4> QED
        BY <4>2, <4>3
    <3> QED
      BY <3>1, <3>2
  <2>12. NewHeardNothing'
    BY <1>2, <2>4 DEF PeersInv, NewHeardNothing, Open
  <2>13. OpenHearsOn'
    <3> SUFFICES ASSUME NEW p \in Open, NEW q \in Peers, NEW first \in Heard(p)', NEW at \in Heard(q)', first <= at
                 PROVE  at \in Heard(p)'
      BY <1>2 DEF OpenHearsOn, Open
    <3>1. CASE at = item.at
      BY <2>6, <3>1
    <3>2. CASE at # item.at
      <4>1. at \in Heard(q) /\ at \in Nat /\ at < item.at
        BY <2>6, <2>7, <2>8, <3>2
      <4>2. first \in Heard(p)
        BY <2>6, <2>9, <4>1
      <4> QED
        BY <2>6, <4>1, <4>2 DEF PeersInv, OpenHearsOn
    <3> QED
      BY <3>1, <3>2
  <2>14. PeersHearTheSame'
    <3> SUFFICES ASSUME NEW p \in Peers, NEW q \in Peers, NEW first \in Heard(p)' \cap Heard(q)',
                        NEW last \in Heard(p)' \cap Heard(q)', NEW at \in first..last, at \in Heard(p)'
                 PROVE  at \in Heard(q)'
      BY DEF PeersHearTheSame
    <3>1. CASE last # item.at
      <4>1. last \in Heard(p) \cap Heard(q) /\ last \in Nat /\ last < item.at
        BY <2>6, <2>7, <2>8, <3>1
      <4>2. first # item.at /\ at # item.at
        BY <2>6, <2>7, <2>8, <2>9, <4>1
      <4>3. first \in Heard(p) \cap Heard(q) /\ at \in Heard(p)
        BY <2>6, <2>7, <4>2
      <4> QED
        BY <2>6, <2>7, <4>1, <4>3 DEF PeersInv, PeersHearTheSame
    <3>2. CASE last = item.at
      <4>1. p \in Open /\ q \in Open
        BY <2>7, <2>8, <2>9, <3>2
      <4>2. CASE at = item.at
        BY <2>6, <4>1, <4>2
      <4>3. CASE at # item.at
        <5>1. at \in Heard(p) /\ at \in Nat /\ at < item.at
          BY <2>6, <2>8, <4>1, <4>3
        <5>2. first \in Heard(q)
          BY <2>6, <2>9, <4>1, <5>1
        <5> QED
          BY <2>6, <2>8, <4>1, <5>1, <5>2 DEF PeersInv, OpenHearsOn
      <4> QED
        BY <4>2, <4>3
    <3> QED
      BY <3>1, <3>2
  <2> QED
    BY <1>3, <2>5, <2>10, <2>11, <2>12, <2>13, <2>14 DEF PeersInv
<1> QED
  BY <1>7, <1>8

\* The app-server writes a line, for a peer or for every one.
LEMMA WriteStep ==
    ASSUME PeersInv, NEW to \in Peers \cup {Everyone}, Write(to)
    PROVE  PeersInv'
<1> USE PeersAssumption
<1> DEFINE item == [to |-> to, at |-> written + 1]
           n == Len(wire)
<1>1. /\ wire' = Append(wire, item) /\ written' = written + 1 /\ written < MaxLines
      /\ UNCHANGED <<link, call, line, peersInbox, exits, down>>
  BY DEF Write
<1>2. written \in 0..MaxLines /\ wire \in Seq(Items) /\ item \in Items
  BY <1>1 DEF PeersInv, PeersTypeOK, Items
<1>3. /\ wire' \in Seq(Items) /\ n \in Nat /\ DOMAIN wire = 1..n /\ DOMAIN wire' = 1..(n + 1)
      /\ \A i \in 1..n : wire'[i] = wire[i]
      /\ wire'[n + 1] = item
  BY <1>1, <1>2, AppendProperties
<1> HIDE DEF n
<1>4. PeersTypeOK'
  BY <1>1, <1>2, <1>3 DEF PeersInv, PeersTypeOK
<1>5. WireInOrder'
  <2>1. \A i \in 1..n : wire[i].at \in 1..written
    BY <1>3 DEF PeersInv, WireInOrder
  <2>2. \A i, j \in 1..n : i < j => wire[i].at < wire[j].at
    BY <1>3 DEF PeersInv, WireInOrder
  <2>3. \A i \in 1..(n + 1) : i \in 1..n \/ i = n + 1
    BY <1>3
  <2>4. \A i \in 1..(n + 1) : wire'[i].at \in 1..(written + 1)
    BY <1>2, <1>3, <2>1, <2>3
  <2>5. ASSUME NEW i \in 1..(n + 1), NEW j \in 1..(n + 1), i < j PROVE wire'[i].at < wire'[j].at
    BY <1>2, <1>3, <2>1, <2>2, <2>3, <2>5
  <2> QED
    BY <1>1, <1>3, <2>4, <2>5 DEF WireInOrder
<1>6. ASSUME NEW k \in Nat, Older(k, wire, written) PROVE Older(k, wire', written')
  <2>1. k <= written /\ \A i \in 1..n : k < wire[i].at
    BY <1>3, <1>6 DEF Older
  <2>2. \A i \in 1..(n + 1) : i \in 1..n \/ i = n + 1
    BY <1>3
  <2>3. \A i \in 1..(n + 1) : k < wire'[i].at
    BY <1>2, <1>3, <2>1, <2>2
  <2> QED
    BY <1>1, <1>2, <1>3, <2>1, <2>3 DEF Older
<1>7. HandledIsOlder'
  <2>1. \A p \in Peers : line[p] \in Nat
    BY DEF PeersInv, PeersTypeOK
  <2>2. ASSUME NEW p \in Peers, NEW i \in DOMAIN peersInbox[p] PROVE peersInbox[p][i].at \in Nat
    <3>1. peersInbox[p] \in Seq(Items)
      BY DEF PeersInv, PeersTypeOK
    <3>2. peersInbox[p][i] \in Items
      BY <3>1
    <3> QED
      BY <3>2 DEF Items
  <2> QED
    BY <1>1, <1>6, <2>1, <2>2 DEF PeersInv, HandledIsOlder
<1>8. \A p \in Peers : Heard(p)' = Heard(p)
  BY <1>1, HeardNoMore
<1>9. OpenHearsOn' /\ PeersHearTheSame'
  BY <1>1, <1>8 DEF PeersInv, OpenHearsOn, PeersHearTheSame, Open
<1>10. AnswerComesLast' /\ NewHeardNothing'
  BY <1>1 DEF PeersInv, AnswerComesLast, NewHeardNothing
<1> QED
  BY <1>4, <1>5, <1>7, <1>9, <1>10 DEF PeersInv

LEMMA PeersInvStep == PeersInv /\ [PeersNext]_peerVars => PeersInv'
<1> SUFFICES ASSUME PeersInv, [PeersNext]_peerVars PROVE PeersInv'
  OBVIOUS
<1> USE PeersAssumption
<1>1. CASE HandleLine
  BY <1>1, HandleLineStep
<1>2. CASE AppServerCloses
  <2>1. PeersTypeOK' /\ UNCHANGED <<peersInbox, wire, written, line, link>>
    BY <1>2 DEF AppServerCloses, PeersInv, PeersTypeOK
  <2> QED
    BY <2>1, QuietStep
<1>3. CASE Shutdown
  <2>1. PeersTypeOK' /\ UNCHANGED <<peersInbox, wire, written, line>> /\ \A p \in Peers : link'[p] = "closed"
    BY <1>3 DEF Shutdown, PeersInv, PeersTypeOK
  <2> QED
    BY <2>1, QuietStep
<1>4. CASE Write(Everyone)
  BY <1>4, WriteStep
<1>5. ASSUME NEW p \in Peers, AddPeer(p) PROVE PeersInv'
  <2>1. PeersTypeOK' /\ UNCHANGED <<peersInbox, wire, written, line>>
    BY <1>5 DEF AddPeer, PeersInv, PeersTypeOK
  <2>2. \A q \in Peers : link'[q] = link[q] \/ (link[q] = "new" /\ link'[q] = "open")
    BY <1>5 DEF AddPeer, PeersInv, PeersTypeOK
  <2> QED
    BY <2>1, <2>2, QuietStep
<1>6. ASSUME NEW p \in Peers, RemovePeer(p) PROVE PeersInv'
  <2>1. PeersTypeOK' /\ UNCHANGED <<peersInbox, wire, written, line>>
    BY <1>6 DEF RemovePeer, PeersInv, PeersTypeOK
  <2>2. \A q \in Peers : link'[q] \in {link[q], "closed"}
    BY <1>6 DEF RemovePeer, PeersInv, PeersTypeOK
  <2> QED
    BY <2>1, <2>2, QuietStep
<1>7. ASSUME NEW p \in Peers, HandleMessage(p) PROVE PeersInv'
  <2>1. PeersTypeOK' /\ UNCHANGED <<peersInbox, wire, written, line, link>>
    BY <1>7 DEF HandleMessage, PeersInv, PeersTypeOK
  <2> QED
    BY <2>1, QuietStep
<1>8. ASSUME NEW p \in Peers, SendAnswer(p) PROVE PeersInv'
  BY <1>8, SendAnswerStep
<1>9. ASSUME NEW p \in Peers, Write(p) PROVE PeersInv'
  BY <1>9, WriteStep
<1>10. CASE UNCHANGED peerVars
  <2>1. PeersTypeOK' /\ UNCHANGED <<peersInbox, wire, written, line, link>>
    BY <1>10 DEF peerVars, PeersInv, PeersTypeOK
  <2> QED
    BY <2>1, QuietStep
<1> QED
  BY <1>1, <1>2, <1>3, <1>4, <1>5, <1>6, <1>7, <1>8, <1>9, <1>10 DEF PeersNext

\* Every peer sees the app-server's output in its order, answers included, and
\* without a gap while it is connected (server.ts, broadcastNotification and
\* handleMessage).
THEOREM PeersAreInOrder == PeersSpec => []PeersHearInOrder
<1>1. PeersInv => PeersHearInOrder
  BY DEF PeersInv, PeersHearInOrder
<1> QED
  BY <1>1, PeersInvInit, PeersInvStep, PTL DEF PeersSpec

-----------------------------------------------------------------------------
(* The speech queue.                                                       *)

\* While none is forgotten, whatever was said, waits or was dropped is remembered.
NoneIsForgotten ==
    Len(seenSpeech) < MaxSeen =>
        \A a \in Spoken :
            (said[a] > 0 \/ a \in droppedIds \/ a \in ToSet(speech)) => a \in ToSet(seenSpeech)

SpeechInv == SpeechTypeOK /\ NoneIsLost /\ OneFate /\ NoneIsForgotten

Distinct(s) == \A i, j \in DOMAIN s : i # j => s[i] # s[j]

\* OneFate of a queue, of how often announcements were said and of what was dropped,
\* and all that they account for.
Single(q, counts, gone) ==
    /\ Distinct(q)
    /\ \A a \in ToSet(q) : counts[a] = 0 /\ a \notin gone
    /\ \A a \in Spoken : counts[a] <= 1 /\ (a \in gone => counts[a] = 0)
Accounted(q, counts, gone) ==
    {a \in Spoken : counts[a] > 0 \/ a \in gone \/ a \in ToSet(q)}

-----------------------------------------------------------------------------
(* The ends of a queue.                                                    *)

LEMMA TakeHead ==
    ASSUME NEW S, NEW s \in Seq(S), s # <<>>
    PROVE  /\ Tail(s) \in Seq(S) /\ Head(s) \in S /\ Len(Tail(s)) = Len(s) - 1
           /\ ToSet(s) = {Head(s)} \cup ToSet(Tail(s))
           /\ Distinct(s) => Distinct(Tail(s)) /\ Head(s) \notin ToSet(Tail(s))
<1> DEFINE n == Len(s)
           t == Tail(s)
<1>1. /\ t \in Seq(S) /\ Head(s) \in S /\ Len(t) = n - 1 /\ Head(s) = s[1] /\ n \in Nat /\ n > 0
      /\ DOMAIN s = 1..n /\ DOMAIN t = 1..(n - 1)
      /\ \A i \in 1..(n - 1) : t[i] = s[i + 1]
  BY HeadTailProperties
<1> HIDE DEF n, t
<1>2. \A i \in 1..n : i = 1 \/ (i - 1 \in 1..(n - 1) /\ s[i] = t[i - 1])
  BY <1>1
<1>3. \A i \in 1..(n - 1) : i + 1 \in 1..n /\ i + 1 # 1
  BY <1>1
<1>4. ToSet(s) = {Head(s)} \cup ToSet(t)
  <2>1. ASSUME NEW i \in 1..n PROVE s[i] \in {Head(s)} \cup ToSet(t)
    BY <1>1, <1>2 DEF ToSet
  <2>2. ASSUME NEW i \in 1..(n - 1) PROVE t[i] \in ToSet(s)
    BY <1>1, <1>3 DEF ToSet
  <2>3. Head(s) \in ToSet(s)
    BY <1>1 DEF ToSet
  <2>4. ToSet(t) \subseteq ToSet(s)
    BY <1>1, <2>2 DEF ToSet
  <2>5. ToSet(s) \subseteq {Head(s)} \cup ToSet(t)
    BY <1>1, <2>1 DEF ToSet
  <2> QED
    BY <2>3, <2>4, <2>5
<1>5. ASSUME Distinct(s) PROVE Distinct(t) /\ Head(s) \notin ToSet(t)
  <2>0. \A i, j \in 1..n : i # j => s[i] # s[j]
    BY <1>1, <1>5 DEF Distinct
  <2>1. ASSUME NEW i \in 1..(n - 1) PROVE t[i] # s[1]
    <3>1. t[i] = s[i + 1] /\ i + 1 \in 1..n /\ i + 1 # 1 /\ 1 \in 1..n
      BY <1>1, <1>3
    <3> QED
      BY <2>0, <3>1
  <2>2. ASSUME NEW i \in 1..(n - 1), NEW j \in 1..(n - 1), i # j PROVE t[i] # t[j]
    <3>1. i + 1 # j + 1 /\ i + 1 \in 1..n /\ j + 1 \in 1..n
      BY <1>3, <2>2
    <3>2. t[i] = s[i + 1] /\ t[j] = s[j + 1]
      BY <1>1
    <3> QED
      BY <2>0, <3>1, <3>2
  <2> QED
    BY <1>1, <2>1, <2>2 DEF Distinct, ToSet
<1> QED
  BY <1>1, <1>4, <1>5 DEF t, n

LEMMA PutLast ==
    ASSUME NEW S, NEW s \in Seq(S), NEW a \in S
    PROVE  /\ Append(s, a) \in Seq(S) /\ Append(s, a) # <<>> /\ Len(Append(s, a)) = Len(s) + 1
           /\ ToSet(Append(s, a)) = ToSet(s) \cup {a}
           /\ Distinct(s) /\ a \notin ToSet(s) => Distinct(Append(s, a))
<1> DEFINE n == Len(s)
           t == Append(s, a)
<1>1. /\ t \in Seq(S) /\ t # <<>> /\ Len(t) = n + 1 /\ n \in Nat
      /\ DOMAIN s = 1..n /\ DOMAIN t = 1..(n + 1)
      /\ \A i \in 1..n : t[i] = s[i]
      /\ t[n + 1] = a
  BY AppendProperties
<1> HIDE DEF n, t
<1>2. 1..(n + 1) = 1..n \cup {n + 1} /\ n + 1 \notin 1..n
  BY <1>1
<1>3. ToSet(t) = ToSet(s) \cup {a}
  BY <1>1, <1>2 DEF ToSet
<1>4. ASSUME Distinct(s), a \notin ToSet(s) PROVE Distinct(t)
  BY <1>1, <1>2, <1>4 DEF Distinct, ToSet
<1> QED
  BY <1>1, <1>3, <1>4 DEF t, n

LEMMA PutFirst ==
    ASSUME NEW S, NEW s \in Seq(S), NEW a \in S
    PROVE  /\ <<a>> \o s \in Seq(S) /\ <<a>> \o s # <<>> /\ Len(<<a>> \o s) = Len(s) + 1
           /\ ToSet(<<a>> \o s) = ToSet(s) \cup {a}
           /\ Distinct(s) /\ a \notin ToSet(s) => Distinct(<<a>> \o s)
<1> DEFINE n == Len(s)
           t == <<a>> \o s
<1>0. <<a>> \in Seq(S) /\ Len(<<a>>) = 1 /\ <<a>>[1] = a
  OBVIOUS
<1>1. /\ t \in Seq(S) /\ Len(t) = n + 1 /\ n \in Nat
      /\ DOMAIN s = 1..n /\ DOMAIN t = 1..(n + 1)
      /\ t[1] = a
      /\ \A i \in 1..n : t[i + 1] = s[i]
  BY <1>0, ConcatProperties
<1> HIDE DEF n, t
<1>2. t # <<>>
  BY <1>1
<1>3. \A i \in 1..(n + 1) : i = 1 \/ (i - 1 \in 1..n /\ t[i] = s[i - 1])
  BY <1>1
<1>4. \A i \in 1..n : i + 1 \in 1..(n + 1) /\ i + 1 # 1
  BY <1>1
<1>5. ToSet(t) = ToSet(s) \cup {a}
  <2>1. ASSUME NEW i \in 1..(n + 1) PROVE t[i] \in ToSet(s) \cup {a}
    BY <1>1, <1>3 DEF ToSet
  <2>2. ASSUME NEW i \in 1..n PROVE s[i] \in ToSet(t)
    BY <1>1, <1>4 DEF ToSet
  <2>3. a \in ToSet(t)
    BY <1>1 DEF ToSet
  <2>4. ToSet(s) \subseteq ToSet(t)
    BY <1>1, <2>2 DEF ToSet
  <2>5. ToSet(t) \subseteq ToSet(s) \cup {a}
    BY <1>1, <2>1 DEF ToSet
  <2> QED
    BY <2>3, <2>4, <2>5
<1>6. ASSUME Distinct(s), a \notin ToSet(s), NEW i \in 1..(n + 1), NEW j \in 1..(n + 1), i # j
      PROVE  t[i] # t[j]
  <2>1. \A k \in 1..n : s[k] # a
    BY <1>1, <1>6 DEF ToSet
  <2>2. CASE i = 1 \/ j = 1
    <3>1. \A k \in 1..(n + 1) : k # 1 => t[k] # a
      BY <1>3, <2>1
    <3> QED
      BY <1>1, <1>6, <2>2, <3>1
  <2>3. CASE i # 1 /\ j # 1
    <3>1. i - 1 # j - 1 /\ i - 1 \in 1..n /\ j - 1 \in 1..n
      BY <1>1, <1>6, <2>3
    <3>2. t[i] = s[i - 1] /\ t[j] = s[j - 1]
      BY <1>3, <2>3
    <3> QED
      BY <1>1, <1>6, <3>1, <3>2 DEF Distinct
  <2> QED
    BY <2>2, <2>3
<1>7. Distinct(s) /\ a \notin ToSet(s) => Distinct(t)
  BY <1>1, <1>6 DEF Distinct
<1> QED
  BY <1>1, <1>2, <1>5, <1>7 DEF t, n

LEMMA NothingWaits ==
    ASSUME NEW S
    PROVE  <<>> \in Seq(S) /\ Len(<<>>) = 0 /\ ToSet(<<>>) = {} /\ Distinct(<<>>)
BY DEF ToSet, Distinct

-----------------------------------------------------------------------------

LEMMA SpeechInvInit == SpeechInit => SpeechInv
<1> SUFFICES ASSUME SpeechInit PROVE SpeechInv
  OBVIOUS
<1> USE SpeechAssumption, NothingWaits
<1>1. SpeechTypeOK
  <2>1. speech \in Seq(Spoken) /\ Len(speech) <= 1 /\ seenSpeech \in Seq(Spoken) /\ Len(seenSpeech) <= MaxSeen
    BY DEF SpeechInit
  <2>2. /\ speaking \in [id: Spoken \cup {"none"}, player: Nat,
                         at: {"none", "synthesizing", "playing", "over"}]
        /\ voice \in [n: Nat, state: {"ready", "disconnected", "connecting", "destroyed"}]
    BY DEF SpeechInit, Silence
  <2>3. said \in [Spoken -> Nat] /\ droppedIds \subseteq Spoken
    BY DEF SpeechInit
  <2>4. speechHeard \in 0..MaxHeard /\ lost \in 0..MaxLosses /\ player \in Nat
    BY DEF SpeechInit
  <2>5. rejoining \in {"no", "waits", "joins"} /\ closing \in BOOLEAN
    BY DEF SpeechInit
  <2> QED
    BY <2>1, <2>2, <2>3, <2>4, <2>5 DEF SpeechTypeOK
<1>2. NoneIsLost /\ OneFate /\ NoneIsForgotten
  BY DEF SpeechInit, NoneIsLost, OneFate, NoneIsForgotten
<1> QED
  BY <1>1, <1>2 DEF SpeechInv

\* Playing, and the voice connection, touch no announcement.
LEMMA SpeechQuietStep ==
    ASSUME SpeechInv, SpeechTypeOK', UNCHANGED <<speech, seenSpeech, said, droppedIds, closing>>
    PROVE  SpeechInv'
BY DEF SpeechInv, NoneIsLost, OneFate, NoneIsForgotten

\* An announcement that is remembered comes to the queue.
LEMMA Remembering ==
    ASSUME SpeechInv, NEW a \in Spoken
    PROVE  /\ Remember(a) \in Seq(Spoken) /\ Len(Remember(a)) <= MaxSeen
           /\ ToSet(Remember(a)) \subseteq ToSet(seenSpeech) \cup {a}
           /\ Len(Remember(a)) < MaxSeen =>
                Len(seenSpeech) < MaxSeen /\ ToSet(Remember(a)) = ToSet(seenSpeech) \cup {a}
<1> USE SpeechAssumption
<1>1. seenSpeech \in Seq(Spoken) /\ Len(seenSpeech) \in Nat /\ Len(seenSpeech) <= MaxSeen
  BY DEF SpeechInv, SpeechTypeOK
<1>2. CASE Len(seenSpeech) < MaxSeen
  <2>1. Remember(a) = Append(seenSpeech, a)
    BY <1>2 DEF Remember
  <2> QED
    BY <1>1, <1>2, <2>1, PutLast
<1>3. CASE ~(Len(seenSpeech) < MaxSeen)
  <2> DEFINE rest == Tail(seenSpeech)
  <2>1. seenSpeech # <<>> /\ Len(seenSpeech) = MaxSeen /\ Remember(a) = Append(rest, a)
    BY <1>1, <1>3 DEF Remember
  <2>2. rest \in Seq(Spoken) /\ Len(rest) = MaxSeen - 1 /\ ToSet(rest) \subseteq ToSet(seenSpeech)
    BY <1>1, <2>1, TakeHead
  <2>3. /\ Append(rest, a) \in Seq(Spoken) /\ Len(Append(rest, a)) = MaxSeen
        /\ ToSet(Append(rest, a)) = ToSet(rest) \cup {a}
    <3> HIDE DEF rest
    <3>1. /\ Append(rest, a) \in Seq(Spoken) /\ Len(Append(rest, a)) = Len(rest) + 1
          /\ ToSet(Append(rest, a)) = ToSet(rest) \cup {a}
      BY <2>2, PutLast
    <3> QED
      BY <2>2, <3>1
  <2> HIDE DEF rest
  <2> QED
    BY <2>1, <2>2, <2>3
<1> QED
  BY <1>2, <1>3

\* The head of a queue is said: it stays accounted for, and has one fate.
LEMMA Saying ==
    ASSUME NEW q \in Seq(Spoken), q # <<>>, NEW counts \in [Spoken -> Nat], NEW gone,
           NEW more, more = [counts EXCEPT ![Head(q)] = @ + 1]
    PROVE  /\ more \in [Spoken -> Nat] /\ Tail(q) \in Seq(Spoken) /\ Len(Tail(q)) = Len(q) - 1
           /\ Accounted(Tail(q), more, gone) = Accounted(q, counts, gone)
           /\ Single(q, counts, gone) => Single(Tail(q), more, gone)
<1>1. /\ Tail(q) \in Seq(Spoken) /\ Head(q) \in Spoken /\ Len(Tail(q)) = Len(q) - 1
      /\ ToSet(q) = {Head(q)} \cup ToSet(Tail(q))
      /\ Distinct(q) => Distinct(Tail(q)) /\ Head(q) \notin ToSet(Tail(q))
  BY TakeHead
<1>2. \A a \in Spoken : more[a] = IF a = Head(q) THEN counts[a] + 1 ELSE counts[a]
  BY <1>1
<1>3. more \in [Spoken -> Nat]
  BY <1>1
<1>4. Accounted(Tail(q), more, gone) = Accounted(q, counts, gone)
  <2>1. ASSUME NEW a \in Spoken
        PROVE (more[a] > 0 \/ a \in gone \/ a \in ToSet(Tail(q)))
                <=> (counts[a] > 0 \/ a \in gone \/ a \in ToSet(q))
    <3>1. counts[a] \in Nat
      OBVIOUS
    <3>2. CASE a = Head(q)
      BY <1>1, <1>2, <3>1, <3>2
    <3>3. CASE a # Head(q)
      BY <1>1, <1>2, <3>1, <3>3
    <3> QED
      BY <3>2, <3>3
  <2> QED
    BY <2>1 DEF Accounted
<1>5. ASSUME Single(q, counts, gone) PROVE Single(Tail(q), more, gone)
  <2>1. \A a \in ToSet(Tail(q)) : a # Head(q) /\ a \in ToSet(q) /\ a \in Spoken
    <3>1. \A a \in ToSet(q) : a \in Spoken
      BY DEF ToSet
    <3> QED
      BY <1>1, <1>5, <3>1 DEF Single
  <2>2. Head(q) \in ToSet(q)
    BY <1>1
  <2> QED
    BY <1>1, <1>2, <1>5, <2>1, <2>2 DEF Single
<1> QED
  BY <1>1, <1>3, <1>4, <1>5

\* A new announcement comes into the queue, and the head of a full one is dropped.
LEMMA Queueing ==
    ASSUME SpeechTypeOK, NEW a \in Spoken, NEW q, q = IF a \in Urgent THEN <<a>> \o Kept ELSE Append(Kept, a),
           NEW gone, gone = IF Full THEN droppedIds \cup {Head(speech)} ELSE droppedIds
    PROVE  /\ q \in Seq(Spoken) /\ q # <<>> /\ (Len(q) <= MaxQueued \/ Len(q) <= 1)
           /\ gone \subseteq Spoken
           /\ Accounted(q, said, gone) = Accounted(speech, said, droppedIds) \cup {a}
           /\ (Single(speech, said, droppedIds) /\ a \notin Accounted(speech, said, droppedIds))
                => Single(q, said, gone)
<1> USE SpeechAssumption
<1> DEFINE dropped == IF Full THEN {Head(speech)} ELSE {}
<1>1. /\ speech \in Seq(Spoken) /\ Len(speech) \in Nat /\ (Len(speech) <= MaxQueued \/ Len(speech) <= 1)
      /\ said \in [Spoken -> Nat] /\ droppedIds \subseteq Spoken
  BY DEF SpeechTypeOK
<1>2. gone = droppedIds \cup dropped
  OBVIOUS
<1>3. /\ Kept \in Seq(Spoken) /\ Len(Kept) \in Nat /\ (Len(Kept) + 1 <= MaxQueued \/ Len(Kept) + 1 <= 1)
      /\ ToSet(speech) = ToSet(Kept) \cup dropped /\ dropped \subseteq Spoken
      /\ Distinct(speech) => Distinct(Kept) /\ dropped \cap ToSet(Kept) = {}
  <2>1. CASE Full
    <3>1. speech # <<>> /\ Kept = Tail(speech) /\ dropped = {Head(speech)} /\ Len(speech) >= MaxQueued
      BY <2>1 DEF Full, Kept
    <3>2. /\ Tail(speech) \in Seq(Spoken) /\ Head(speech) \in Spoken /\ Len(Tail(speech)) = Len(speech) - 1
          /\ ToSet(speech) = {Head(speech)} \cup ToSet(Tail(speech))
          /\ Distinct(speech) => Distinct(Tail(speech)) /\ Head(speech) \notin ToSet(Tail(speech))
      BY <1>1, <3>1, TakeHead
    <3> QED
      BY <1>1, <3>1, <3>2
  <2>2. CASE ~Full
    <3>1. Kept = speech /\ dropped = {} /\ (speech = <<>> \/ Len(speech) < MaxQueued)
      BY <1>1, <2>2 DEF Full, Kept
    <3>2. Len(speech) + 1 <= MaxQueued \/ Len(speech) + 1 <= 1
      BY <1>1, <3>1, NothingWaits
    <3>3. ToSet(speech) = ToSet(speech) \cup {} /\ {} \cap ToSet(speech) = {}
      OBVIOUS
    <3> QED
      BY <1>1, <3>1, <3>2, <3>3
  <2> QED
    BY <2>1, <2>2
<1>4. /\ q \in Seq(Spoken) /\ q # <<>> /\ Len(q) = Len(Kept) + 1 /\ ToSet(q) = ToSet(Kept) \cup {a}
      /\ Distinct(Kept) /\ a \notin ToSet(Kept) => Distinct(q)
  <2>1. CASE a \in Urgent
    BY <1>3, <2>1, PutFirst
  <2>2. CASE a \notin Urgent
    BY <1>3, <2>2, PutLast
  <2> QED
    BY <2>1, <2>2
<1> HIDE DEF dropped
<1>5. Accounted(q, said, gone) = Accounted(speech, said, droppedIds) \cup {a}
  BY <1>2, <1>3, <1>4 DEF Accounted
<1>6. ASSUME Single(speech, said, droppedIds), a \notin Accounted(speech, said, droppedIds)
      PROVE  Single(q, said, gone)
  <2>1. said[a] = 0 /\ a \notin droppedIds /\ a \notin ToSet(speech)
    BY <1>1, <1>6 DEF Accounted
  <2>2. Distinct(q)
    BY <1>3, <1>4, <1>6, <2>1 DEF Single
  <2>3. \A b \in ToSet(q) : said[b] = 0 /\ b \notin gone
    BY <1>2, <1>3, <1>4, <1>6, <2>1 DEF Single
  <2>4. \A b \in Spoken : said[b] <= 1 /\ (b \in gone => said[b] = 0)
    BY <1>2, <1>3, <1>6 DEF Single
  <2> QED
    BY <2>2, <2>3, <2>4 DEF Single
<1> QED
  BY <1>1, <1>2, <1>3, <1>4, <1>5, <1>6

\* An announcement is heard, for the first time or again.
LEMMA SpeechEnqueueStep ==
    ASSUME SpeechInv, NEW a \in Spoken, Enqueue(a)
    PROVE  SpeechInv'
<1> USE SpeechAssumption
<1> DEFINE q == IF a \in Urgent THEN <<a>> \o Kept ELSE Append(Kept, a)
           gone == IF Full THEN droppedIds \cup {Head(speech)} ELSE droppedIds
<1>1. SpeechTypeOK /\ ~closing /\ speechHeard' \in 0..MaxHeard /\ UNCHANGED <<voice, player, rejoining, closing, lost>>
  <2>1. speechHeard \in 0..MaxHeard /\ speechHeard < MaxHeard /\ speechHeard' = speechHeard + 1
    BY DEF SpeechInv, SpeechTypeOK, Enqueue
  <2> QED
    BY <2>1 DEF SpeechInv, Enqueue
<1>2. CASE a \in ToSet(seenSpeech)
  <2>1. UNCHANGED <<speech, seenSpeech, speaking, said, droppedIds>>
    BY <1>2 DEF Enqueue
  <2>2. SpeechTypeOK'
    BY <1>1, <2>1 DEF SpeechTypeOK
  <2> QED
    BY <1>1, <2>1, <2>2, SpeechQuietStep
<1>3. CASE a \notin ToSet(seenSpeech)
  <2>1. /\ q \in Seq(Spoken) /\ q # <<>> /\ (Len(q) <= MaxQueued \/ Len(q) <= 1)
        /\ gone \subseteq Spoken
        /\ Accounted(q, said, gone) = Accounted(speech, said, droppedIds) \cup {a}
        /\ (Single(speech, said, droppedIds) /\ a \notin Accounted(speech, said, droppedIds))
             => Single(q, said, gone)
    BY <1>1, Queueing
  <2>2. seenSpeech' = Remember(a) /\ droppedIds' = gone
    BY <1>3 DEF Enqueue
  <2>3. /\ seenSpeech' \in Seq(Spoken) /\ Len(seenSpeech') <= MaxSeen
        /\ ToSet(seenSpeech') \subseteq ToSet(seenSpeech) \cup {a}
        /\ Len(seenSpeech') < MaxSeen =>
             Len(seenSpeech) < MaxSeen /\ ToSet(seenSpeech') = ToSet(seenSpeech) \cup {a}
    BY <2>2, Remembering
  <2>4. /\ speech' \in Seq(Spoken) /\ (Len(speech') <= MaxQueued \/ Len(speech') <= 1)
        /\ said' \in [Spoken -> Nat]
        /\ speaking' \in [id: Spoken \cup {"none"}, player: Nat,
                          at: {"none", "synthesizing", "playing", "over"}]
        /\ Accounted(speech', said', gone) = Accounted(q, said, gone)
        /\ Single(q, said, gone) => Single(speech', said', gone)
    <3>1. CASE speaking.at # "none"
      <4>1. speech' = q /\ UNCHANGED <<speaking, said>>
        BY <1>3, <3>1 DEF Enqueue
      <4> QED
        BY <1>1, <2>1, <4>1 DEF SpeechTypeOK
    <3>2. CASE speaking.at = "none"
      <4>1. /\ speech' = Tail(q) /\ said' = [said EXCEPT ![Head(q)] = @ + 1]
            /\ speaking' = [id |-> Head(q), at |-> "synthesizing", player |-> player]
        BY <1>3, <3>2 DEF Enqueue
      <4> HIDE DEF q, gone
      <4>2. said \in [Spoken -> Nat] /\ player \in Nat /\ q \in Seq(Spoken) /\ q # <<>>
        BY <1>1, <2>1 DEF SpeechTypeOK
      <4>3. Head(q) \in Spoken
        BY <4>2
      <4>4. /\ said' \in [Spoken -> Nat] /\ Tail(q) \in Seq(Spoken) /\ Len(Tail(q)) = Len(q) - 1
            /\ Accounted(Tail(q), said', gone) = Accounted(q, said, gone)
            /\ Single(q, said, gone) => Single(Tail(q), said', gone)
        <5> DEFINE more == [said EXCEPT ![Head(q)] = @ + 1]
        <5>1. /\ more \in [Spoken -> Nat] /\ Tail(q) \in Seq(Spoken) /\ Len(Tail(q)) = Len(q) - 1
              /\ Accounted(Tail(q), more, gone) = Accounted(q, said, gone)
              /\ Single(q, said, gone) => Single(Tail(q), more, gone)
          BY <4>2, Saying
        <5>2. said' = more
          BY <4>1
        <5> HIDE DEF more
        <5> QED
          BY <5>1, <5>2
      <4>5. Len(q) \in Nat /\ (Len(Tail(q)) <= MaxQueued \/ Len(Tail(q)) <= 1)
        BY <2>1, <4>4
      <4> QED
        BY <4>1, <4>2, <4>3, <4>4, <4>5
    <3> QED
      BY <3>1, <3>2
  <2> HIDE DEF q, gone
  <2>5. SpeechTypeOK'
    BY <1>1, <2>1, <2>2, <2>3, <2>4 DEF SpeechTypeOK
  <2>6. Accounted(speech, said, droppedIds)' = Accounted(speech, said, droppedIds) \cup {a}
    BY <2>1, <2>2, <2>4
  <2>7. ToSet(seenSpeech) \subseteq Accounted(speech, said, droppedIds)
    <3>1. ToSet(seenSpeech) \subseteq Spoken
      BY <1>1 DEF SpeechTypeOK, ToSet
    <3> QED
      BY <1>1, <3>1 DEF SpeechInv, NoneIsLost, Accounted
  <2>8. NoneIsLost'
    <3>1. ToSet(seenSpeech') \subseteq Accounted(speech, said, droppedIds)'
      BY <2>3, <2>6, <2>7
    <3> QED
      BY <3>1 DEF NoneIsLost, Accounted
  <2>9. ASSUME Len(seenSpeech') < MaxSeen
        PROVE  Single(speech, said, droppedIds)' /\ Accounted(speech, said, droppedIds)' \subseteq ToSet(seenSpeech')
    <3>1. Len(seenSpeech) < MaxSeen /\ ToSet(seenSpeech') = ToSet(seenSpeech) \cup {a}
      BY <2>3, <2>9
    <3>2. Single(speech, said, droppedIds)
      BY <3>1 DEF SpeechInv, OneFate, Single, Distinct
    <3>3. Accounted(speech, said, droppedIds) \subseteq ToSet(seenSpeech)
      BY <3>1 DEF SpeechInv, NoneIsForgotten, Accounted
    <3>4. Single(q, said, gone)
      BY <1>3, <2>1, <3>2, <3>3
    <3> QED
      BY <2>2, <2>4, <2>6, <3>1, <3>3, <3>4
  <2>10. OneFate'
    BY <2>9 DEF OneFate, Single, Distinct
  <2>11. NoneIsForgotten'
    BY <2>9 DEF NoneIsForgotten, Accounted
  <2> QED
    BY <2>5, <2>8, <2>10, <2>11 DEF SpeechInv
<1> QED
  BY <1>2, <1>3

\* The loop of #drain takes the next announcement, or ends.
LEMMA SpeakNextStep ==
    ASSUME SpeechInv, SpeakNext
    PROVE  SpeechInv'
<1> USE SpeechAssumption
<1>1. SpeechTypeOK /\ UNCHANGED <<seenSpeech, voice, player, rejoining, closing, speechHeard, lost, droppedIds>>
  BY DEF SpeechInv, SpeakNext
<1>2. CASE DrainEnds
  <2>1. speaking' = Silence /\ UNCHANGED <<speech, said>>
    BY <1>2 DEF SpeakNext
  <2>2. SpeechTypeOK'
    BY <1>1, <2>1 DEF SpeechTypeOK, Silence
  <2> QED
    BY <1>1, <2>1, <2>2, SpeechQuietStep
<1>3. CASE ~DrainEnds
  <2>1. /\ speech' = Tail(speech) /\ said' = [said EXCEPT ![Head(speech)] = @ + 1] /\ speech # <<>>
        /\ speaking' = [id |-> Head(speech), at |-> "synthesizing", player |-> player]
    BY <1>3 DEF SpeakNext, DrainEnds
  <2>2. speech \in Seq(Spoken) /\ said \in [Spoken -> Nat] /\ player \in Nat
    BY <1>1 DEF SpeechTypeOK
  <2>3. /\ said' \in [Spoken -> Nat] /\ speech' \in Seq(Spoken) /\ Len(speech') = Len(speech) - 1
        /\ Accounted(speech, said, droppedIds)' = Accounted(speech, said, droppedIds)
        /\ Single(speech, said, droppedIds) => Single(speech, said, droppedIds)'
    BY <1>1, <2>1, <2>2, Saying
  <2>4. Len(speech') <= MaxQueued \/ Len(speech') <= 1
    <3>1. Len(speech) \in Nat /\ (Len(speech) <= MaxQueued \/ Len(speech) <= 1)
      BY <1>1, <2>2 DEF SpeechTypeOK
    <3>2. Len(speech') = Len(speech) - 1
      BY <2>3
    <3> QED
      BY <3>1, <3>2
  <2>5. Head(speech) \in Spoken
    BY <2>1, <2>2
  <2>6. speaking' \in [id: Spoken \cup {"none"}, player: Nat, at: {"none", "synthesizing", "playing", "over"}]
    BY <2>1, <2>2, <2>5
  <2>7. SpeechTypeOK'
    BY <1>1, <2>3, <2>4, <2>6 DEF SpeechTypeOK
  <2>8. NoneIsLost'
    <3>1. ToSet(seenSpeech) \subseteq Spoken
      BY <1>1 DEF SpeechTypeOK, ToSet
    <3>2. closing \/ ToSet(seenSpeech) \subseteq Accounted(speech, said, droppedIds)
      BY <3>1 DEF SpeechInv, NoneIsLost, Accounted
    <3>3. closing' \/ ToSet(seenSpeech') \subseteq Accounted(speech, said, droppedIds)'
      BY <1>1, <2>3, <3>2
    <3> QED
      BY <3>3 DEF NoneIsLost, Accounted
  <2>9. OneFate'
    BY <1>1, <2>3 DEF SpeechInv, OneFate, Single, Distinct
  <2>10. NoneIsForgotten'
    <3>1. Len(seenSpeech) < MaxSeen => Accounted(speech, said, droppedIds) \subseteq ToSet(seenSpeech)
      BY DEF SpeechInv, NoneIsForgotten, Accounted
    <3>2. Len(seenSpeech') < MaxSeen => Accounted(speech, said, droppedIds)' \subseteq ToSet(seenSpeech')
      BY <1>1, <2>3, <3>1
    <3> QED
      BY <3>2 DEF NoneIsForgotten, Accounted
  <2> QED
    BY <2>7, <2>8, <2>9, <2>10 DEF SpeechInv
<1> QED
  BY <1>2, <1>3

LEMMA SpeechInvStep == SpeechInv /\ [SpeechNext]_speechVars => SpeechInv'
<1> SUFFICES ASSUME SpeechInv, [SpeechNext]_speechVars PROVE SpeechInv'
  OBVIOUS
<1> USE SpeechAssumption
<1>1. ASSUME NEW a \in Spoken, Enqueue(a) PROVE SpeechInv'
  BY <1>1, SpeechEnqueueStep
<1>2. CASE SpeakNext
  BY <1>2, SpeakNextStep
<1>3. CASE Play \/ SynthesisFails \/ PlayerIdle
  <2>1. SpeechTypeOK'
    BY <1>3 DEF Play, SynthesisFails, PlayerIdle, SpeechInv, SpeechTypeOK
  <2> QED
    BY <1>3, <2>1, SpeechQuietStep DEF Play, SynthesisFails, PlayerIdle
<1>4. CASE Lose
  <2>1. lost' \in 0..MaxLosses
    BY <1>4 DEF Lose, SpeechInv, SpeechTypeOK
  <2>2. voice' \in [n: Nat, state: {"ready", "disconnected", "connecting", "destroyed"}]
    BY <1>4 DEF Lose, SpeechInv, SpeechTypeOK
  <2>3. rejoining' \in {"no", "waits", "joins"}
    BY <1>4 DEF Lose, SpeechInv, SpeechTypeOK
  <2>4. SpeechTypeOK'
    BY <1>4, <2>1, <2>2, <2>3 DEF Lose, SpeechInv, SpeechTypeOK
  <2> QED
    BY <1>4, <2>4, SpeechQuietStep DEF Lose
<1>5. CASE Reconnect \/ Recovered \/ GiveUpVoice \/ JoinAgain \/ Joined
  <2>1. SpeechTypeOK'
    BY SMTT(25), <1>5 DEF Reconnect, Recovered, GiveUpVoice, JoinAgain, Joined, SpeechInv, SpeechTypeOK
  <2> QED
    BY <1>5, <2>1, SpeechQuietStep DEF Reconnect, Recovered, GiveUpVoice, JoinAgain, Joined
<1>6. CASE CloseSpeech
  <2>1. /\ closing' /\ speech' = <<>> /\ ToSet(speech') = {} /\ Distinct(speech')
        /\ UNCHANGED <<seenSpeech, said, droppedIds>>
    BY <1>6, NothingWaits DEF CloseSpeech
  <2>2. SpeechTypeOK'
    <3>1. speech' \in Seq(Spoken) /\ Len(speech') <= 1
      BY <2>1
    <3>2. voice' \in [n: Nat, state: {"ready", "disconnected", "connecting", "destroyed"}]
      BY <1>6 DEF CloseSpeech, SpeechInv, SpeechTypeOK
    <3> QED
      BY <1>6, <3>1, <3>2 DEF CloseSpeech, SpeechInv, SpeechTypeOK
  <2>3. NoneIsLost' /\ OneFate' /\ NoneIsForgotten'
    BY <2>1 DEF SpeechInv, NoneIsLost, OneFate, NoneIsForgotten, Distinct
  <2> QED
    BY <2>2, <2>3 DEF SpeechInv
<1>7. CASE UNCHANGED speechVars
  <2>1. SpeechTypeOK' /\ UNCHANGED <<speech, seenSpeech, said, droppedIds, closing>>
    BY <1>7 DEF speechVars, SpeechInv, SpeechTypeOK
  <2> QED
    BY <2>1, SpeechQuietStep
<1> QED
  BY <1>1, <1>2, <1>3, <1>4, <1>5, <1>6, <1>7 DEF SpeechNext

\* An announcement that is turned away as a repeated one is not lost, and none is
\* said twice while it is remembered (speech-queue.ts, enqueue).
THEOREM AnnouncedOnce == SpeechSpec => []SaidOnce
<1>1. SpeechInv => SaidOnce
  BY DEF SpeechInv, SaidOnce
<1> QED
  BY <1>1, SpeechInvInit, SpeechInvStep, PTL DEF SpeechSpec

-----------------------------------------------------------------------------
(* The runner of a thread.                                                 *)

\* A turn that the app-server knows.
Begun(t, ts) == t \in TurnIds /\ ts[t].status # "none"

QueuedItems(n) == [msg: Msgs, status: ItemStatuses, turn: TurnIds \cup {NoTurn}, attempts: 0..n]

\* A queue beside the processed messages and the turns: each message is there
\* once, not processed yet; what is processing waits for a turn of its own; and
\* only an item that failed has used up its n attempts.
QueueOK(q, p, ts, n) ==
    /\ q \in Seq(QueuedItems(n))
    /\ \A i, j \in DOMAIN q : i # j => q[i].msg # q[j].msg
    /\ \A i, j \in DOMAIN q :
         i # j /\ q[i].status = "processing" /\ q[j].status = "processing" => q[i].turn # q[j].turn
    /\ \A i \in DOMAIN q :
         /\ q[i].status = "processing" => Begun(q[i].turn, ts)
         /\ q[i].status # "failed" => q[i].attempts < n
         /\ q[i].msg \notin p

\* The state of a session, as it is or as it was saved.
SessionOK(q, a, d, p, ts, n) ==
    /\ QueueOK(q, p, ts, n)
    /\ a = NoTurn \/ Begun(a, ts)
    /\ d \subseteq TurnIds /\ p \subseteq Msgs

InQueue(q, m) == \E i \in DOMAIN q : q[i].msg = m
Has(q, m, status) == \E i \in DOMAIN q : q[i].msg = m /\ q[i].status = status
IsWaiting(q, m, t) == \E i \in DOMAIN q : q[i].msg = m /\ q[i].status = "processing" /\ q[i].turn = t

\* A step x that the work has still to do; one before another, y; one behind the
\* head; and the head.
StepOK(x, q, ts) ==
    /\ x \in Step
    /\ x.op \in {"typing", "hear", "final", "read", "retire", "failed"} => Begun(x.turn, ts)
    /\ x.op = "recover" => Has(q, x.msg, "processing")
Before(x, y, q) ==
    y.op = "recover" =>
        /\ x.op \notin {"cleanup", "recoverItems", "recoverActive"}
        /\ x.op \in {"recover", "begin"} => x.msg # y.msg
        /\ x.op \in {"read", "retire", "failed", "final"} => ~IsWaiting(q, y.msg, x.turn)
Late(x) == x.op \notin {"steer", "start", "begin", "error"}
First(x, q, a, p) ==
    /\ x.op = "steer" => a # NoTurn /\ ~InQueue(q, x.msg) /\ x.msg \notin p
    /\ x.op = "start" => a = NoTurn /\ Has(q, x.msg, "pending")
    /\ x.op = "begin" => Has(q, x.msg, "processing")
\* What two queues have in common for the recovery of a message.
Same(q, q2, m) ==
    /\ Has(q, m, "processing") => Has(q2, m, "processing")
    /\ \A t : IsWaiting(q2, m, t) => IsWaiting(q, m, t)
WorkOK(s, q, a, p, ts) ==
    /\ s \in Seq(Step)
    /\ \A i \in DOMAIN s : StepOK(s[i], q, ts)
    /\ \A i, j \in DOMAIN s : i < j => Before(s[i], s[j], q)
    /\ \A i \in DOMAIN s : i # 1 => Late(s[i])
    /\ s # <<>> => First(s[1], q, a, p)

NoticesOK(s, ts) ==
    /\ s \in Seq(Notification)
    /\ \A i \in DOMAIN s : Begun(s[i].turn, ts)

\* The runner's own state.
LocalOK ==
    /\ due \subseteq Msgs /\ timers \subseteq Msgs /\ seen \subseteq Msgs /\ heard \subseteq TurnIds
    /\ watching \in BOOLEAN /\ up \in BOOLEAN
WorldOK ==
    /\ turns \in [TurnIds -> [status: TurnStatuses, msgs: SUBSET Msgs]]
    /\ finals \in [TurnIds -> Nat] /\ errors \subseteq TurnIds \cup Msgs
    /\ scenario \in Scenarios /\ faults \in Nat /\ crashes \in Nat

IInv ==
    /\ LocalOK /\ WorldOK
    /\ SessionOK(queue, active, delivered, processed, turns, MaxAttempts)
    /\ SessionOK(disk.queue, disk.active, disk.delivered, disk.processed, turns, MaxAttempts)
    /\ WorkOK(todo, queue, active, processed, turns)
    /\ NoticesOK(inbox, turns)

\* A message that no turn can have but for a call that failed or a crash.
Unread(q, p, m) == m \notin p /\ \A i \in DOMAIN q : q[i].msg = m => q[i].status = "pending"
TurnsAreCounted ==
    \A m \in Msgs :
        /\ Cardinality(TurnsOf(m)) <= 1 + faults + crashes
        /\ Unread(queue, processed, m) => Cardinality(TurnsOf(m)) <= faults + crashes

AnswersAreCounted ==
    \A t \in TurnIds : finals[t] <= (IF t \in delivered THEN 1 ELSE 0) + crashes

SavedIsKnown ==
    \A m \in Msgs : InQueue(disk.queue, m) => InQueue(queue, m) \/ m \in processed

-----------------------------------------------------------------------------
(* Turns are never forgotten by the app-server.                            *)

LaterTurns(ts, ts2) == \A t \in TurnIds : ts[t].status # "none" => ts2[t].status # "none"

LEMMA LaterSession ==
    ASSUME NEW q, NEW a, NEW d, NEW p, NEW ts, NEW n, SessionOK(q, a, d, p, ts, n),
           NEW ts2, LaterTurns(ts, ts2)
    PROVE  SessionOK(q, a, d, p, ts2, n)
<1>1. \A t : Begun(t, ts) => Begun(t, ts2)
  BY DEF LaterTurns, Begun
<1>2. QueueOK(q, p, ts2, n)
  BY <1>1 DEF SessionOK, QueueOK
<1> QED
  BY <1>1, <1>2 DEF SessionOK

LEMMA LaterWork ==
    ASSUME NEW q, NEW a, NEW p, NEW ts, NEW s, WorkOK(s, q, a, p, ts),
           NEW ts2, LaterTurns(ts, ts2)
    PROVE  WorkOK(s, q, a, p, ts2)
<1>1. \A t : Begun(t, ts) => Begun(t, ts2)
  BY DEF LaterTurns, Begun
<1>2. \A i \in DOMAIN s : StepOK(s[i], q, ts2)
  BY <1>1 DEF WorkOK, StepOK
<1> QED
  BY <1>2 DEF WorkOK

LEMMA LaterNotices ==
    ASSUME NEW s, NEW ts, NoticesOK(s, ts), NEW ts2, LaterTurns(ts, ts2)
    PROVE  NoticesOK(s, ts2)
BY DEF LaterTurns, NoticesOK, Begun

-----------------------------------------------------------------------------
(* Queues.                                                                 *)

LEMMA QueueIndex ==
    ASSUME NEW q, NEW p, NEW ts, NEW n, QueueOK(q, p, ts, n)
    PROVE  /\ Len(q) \in Nat /\ DOMAIN q = 1..Len(q)
           /\ \A i \in DOMAIN q : q[i] \in QueuedItems(n)
BY DEF QueueOK

LEMMA Appended ==
    ASSUME NEW q, NEW p, NEW ts, NEW n \in Nat \ {0}, QueueOK(q, p, ts, n),
           NEW m \in Msgs, ~InQueue(q, m), m \notin p,
           NEW it \in QueuedItems(n), it.msg = m, it.status = "pending", it.attempts < n,
           NEW q2 \in Seq(QueuedItems(n)), DOMAIN q2 = 1..(Len(q) + 1), q2[Len(q) + 1] = it,
           \A i \in DOMAIN q : q2[i] = q[i]
    PROVE  /\ QueueOK(q2, p, ts, n)
           /\ \A k : InQueue(q2, k) <=> InQueue(q, k) \/ k = m
           /\ \A i \in DOMAIN q2 : q2[i].msg # m => i \in DOMAIN q /\ q[i] = q2[i]
<1> DEFINE l == Len(q)
<1>1. it \in QueuedItems(n) /\ it.msg = m /\ it.status = "pending" /\ it.attempts < n
  OBVIOUS
<1>2. l \in Nat /\ DOMAIN q = 1..l
  BY QueueIndex
<1>3. q2 \in Seq(QueuedItems(n))
  OBVIOUS
<1>4. /\ DOMAIN q2 = 1..(l + 1)
      /\ \A i \in 1..l : q2[i] = q[i]
      /\ q2[l + 1] = it
  BY <1>2
<1> HIDE DEF l
<1>5. DOMAIN q2 = DOMAIN q \cup {l + 1} /\ l + 1 \notin DOMAIN q
  BY <1>2, <1>4
<1>6. \A i \in DOMAIN q : q2[i] = q[i] /\ q[i].msg # m
  BY <1>2, <1>4 DEF InQueue
<1>7. QueueOK(q2, p, ts, n)
  BY <1>1, <1>3, <1>4, <1>5, <1>6 DEF QueueOK
<1>8. \A k : InQueue(q2, k) <=> InQueue(q, k) \/ k = m
  BY <1>1, <1>4, <1>5, <1>6 DEF InQueue
<1> QED
  BY <1>1, <1>4, <1>5, <1>6, <1>7, <1>8

LEMMA Replaced ==
    ASSUME NEW q, NEW p, NEW ts, NEW n, QueueOK(q, p, ts, n), NEW i \in DOMAIN q,
           NEW it \in QueuedItems(n), it.msg = q[i].msg, it.status # "failed" => it.attempts < n,
           it.status = "processing" =>
               /\ Begun(it.turn, ts)
               /\ \A j \in DOMAIN q : j # i /\ q[j].status = "processing" => q[j].turn # it.turn,
           NEW q2 \in Seq(QueuedItems(n)), DOMAIN q2 = DOMAIN q,
           \A j \in DOMAIN q : q2[j] = IF j = i THEN it ELSE q[j]
    PROVE  /\ QueueOK(q2, p, ts, n)
           /\ \A k : InQueue(q2, k) <=> InQueue(q, k)
           /\ Has(q2, it.msg, it.status)
           /\ \A j \in DOMAIN q2 : q2[j].msg # it.msg => j \in DOMAIN q /\ q[j] = q2[j]
           /\ \A k : k # it.msg => Same(q, q2, k)
<1>2. q2 \in Seq(QueuedItems(n)) /\ DOMAIN q2 = DOMAIN q /\ \A j \in DOMAIN q : q2[j] = IF j = i THEN it ELSE q[j]
  OBVIOUS
<1>3. \A j \in DOMAIN q : q2[j].msg = q[j].msg
  BY <1>2
<1>4. QueueOK(q2, p, ts, n)
  <2>1. \A j, k \in DOMAIN q2 : j # k => q2[j].msg # q2[k].msg
    BY <1>2, <1>3 DEF QueueOK
  <2>2. \A j, k \in DOMAIN q2 :
          j # k /\ q2[j].status = "processing" /\ q2[k].status = "processing" => q2[j].turn # q2[k].turn
    BY <1>2 DEF QueueOK
  <2>3. \A j \in DOMAIN q2 :
          /\ q2[j].status = "processing" => Begun(q2[j].turn, ts)
          /\ q2[j].status # "failed" => q2[j].attempts < n
          /\ q2[j].msg \notin p
    BY <1>2, <1>3 DEF QueueOK
  <2> QED
    BY <1>2, <2>1, <2>2, <2>3 DEF QueueOK
<1>5. \A k : InQueue(q2, k) <=> InQueue(q, k)
  BY <1>2, <1>3 DEF InQueue
<1>6. Has(q2, it.msg, it.status)
  BY <1>2 DEF Has
<1>7. \A j \in DOMAIN q2 : q2[j].msg # it.msg => j \in DOMAIN q /\ q[j] = q2[j]
  BY <1>2
<1>8. ASSUME NEW k, k # it.msg PROVE Same(q, q2, k)
  BY <1>2, <1>8 DEF Same, Has, IsWaiting
<1> QED
  BY <1>4, <1>5, <1>6, <1>7, <1>8

LEMMA FailedOnes ==
    ASSUME NEW q, NEW p, NEW ts, NEW n, QueueOK(q, p, ts, n), NEW ms,
           NEW q2, q2 = [i \in DOMAIN q |-> IF q[i].msg \in ms THEN [q[i] EXCEPT !.status = "failed"] ELSE q[i]]
    PROVE  /\ QueueOK(q2, p, ts, n)
           /\ \A k : InQueue(q2, k) <=> InQueue(q, k)
           /\ \A i \in DOMAIN q2 : i \in DOMAIN q /\ q2[i].msg = q[i].msg /\ (q2[i].status # "failed" => q2[i] = q[i])
           /\ \A k : k \notin ms => Same(q, q2, k)
<1>1. Len(q) \in Nat /\ DOMAIN q = 1..Len(q) /\ \A i \in DOMAIN q : q[i] \in QueuedItems(n)
  BY QueueIndex
<1>2. DOMAIN q2 = DOMAIN q /\ \A i \in DOMAIN q : q2[i] = IF q[i].msg \in ms THEN [q[i] EXCEPT !.status = "failed"] ELSE q[i]
  OBVIOUS
<1>3. \A i \in DOMAIN q :
        /\ q2[i] \in QueuedItems(n) /\ q2[i].msg = q[i].msg
        /\ q2[i].status # "failed" => q2[i] = q[i]
        /\ q[i].msg \notin ms => q2[i] = q[i]
  BY <1>1, <1>2 DEF QueuedItems, ItemStatuses
<1>4. q2 \in Seq(QueuedItems(n))
  <2>1. q2 \in [1..Len(q) -> QueuedItems(n)]
    BY <1>1, <1>2, <1>3
  <2> QED
    BY <1>1, <2>1, SeqDef
<1>5. QueueOK(q2, p, ts, n)
  <2>1. \A j, k \in DOMAIN q2 : j # k => q2[j].msg # q2[k].msg
    BY <1>2, <1>3 DEF QueueOK
  <2>2. \A j, k \in DOMAIN q2 :
          j # k /\ q2[j].status = "processing" /\ q2[k].status = "processing" => q2[j].turn # q2[k].turn
    BY <1>2, <1>3 DEF QueueOK
  <2>3. \A j \in DOMAIN q2 :
          /\ q2[j].status = "processing" => Begun(q2[j].turn, ts)
          /\ q2[j].status # "failed" => q2[j].attempts < n
          /\ q2[j].msg \notin p
    BY <1>2, <1>3 DEF QueueOK
  <2> QED
    BY <1>4, <2>1, <2>2, <2>3 DEF QueueOK
<1>6. \A k : InQueue(q2, k) <=> InQueue(q, k)
  BY <1>2, <1>3 DEF InQueue
<1>7. ASSUME NEW k, k \notin ms PROVE Same(q, q2, k)
  BY <1>2, <1>3, <1>7 DEF Same, Has, IsWaiting
<1> QED
  BY <1>2, <1>3, <1>5, <1>6, <1>7

LEMMA Removed ==
    ASSUME NEW q, NEW p, NEW ts, NEW n, QueueOK(q, p, ts, n), NEW i \in DOMAIN q,
           NEW q2, q2 = RemoveAt(q, i)
    PROVE  /\ QueueOK(q2, p \cup {q[i].msg}, ts, n)
           /\ \A k : InQueue(q2, k) <=> InQueue(q, k) /\ k # q[i].msg
           /\ \A j \in DOMAIN q2 : \E k \in DOMAIN q : q[k] = q2[j]
           /\ \A k : k # q[i].msg => Same(q, q2, k)
<1> DEFINE l == Len(q)
           s == SubSeq(q, 1, i - 1)
           t == SubSeq(q, i + 1, l)
<1>1. q \in Seq(QueuedItems(n)) /\ l \in Nat /\ DOMAIN q = 1..l /\ i \in Nat /\ 1 <= i /\ i <= l
  BY QueueIndex DEF QueueOK
<1>2. s \in Seq(QueuedItems(n)) /\ Len(s) = i - 1 /\ \A j \in 1..(i - 1) : s[j] = q[j]
  <2>1. \A j \in 1..(i - 1) : q[j] \in QueuedItems(n)
    BY <1>1
  <2>2. 1 \in Int /\ i - 1 \in Int
    BY <1>1
  <2>3. /\ s \in Seq(QueuedItems(n)) /\ Len(s) = IF 1 <= i - 1 THEN i - 1 - 1 + 1 ELSE 0
        /\ \A j \in 1..(i - 1 - 1 + 1) : s[j] = q[1 + j - 1]
    BY <2>1, <2>2, SubSeqProperties
  <2> HIDE DEF s
  <2> QED
    BY <1>1, <2>3
<1>3. t \in Seq(QueuedItems(n)) /\ Len(t) = l - i /\ \A j \in 1..(l - i) : t[j] = q[i + j]
  <2>1. \A j \in (i + 1)..l : q[j] \in QueuedItems(n)
    BY <1>1
  <2>2. i + 1 \in Int /\ l \in Int
    BY <1>1
  <2>3. /\ t \in Seq(QueuedItems(n)) /\ Len(t) = IF i + 1 <= l THEN l - (i + 1) + 1 ELSE 0
        /\ \A j \in 1..(l - (i + 1) + 1) : t[j] = q[i + 1 + j - 1]
    BY SMTT(25), <2>1, <2>2, SubSeqProperties
  <2> HIDE DEF t
  <2>4. l - (i + 1) + 1 = l - i /\ (i + 1 <= l \/ l - i = 0) /\ \A j \in 1..(l - i) : i + 1 + j - 1 = i + j
    BY <1>1
  <2>5. Len(t) = l - i
    BY <1>1, <2>3, <2>4
  <2> QED
    BY <2>3, <2>4, <2>5
<1>4. /\ q2 \in Seq(QueuedItems(n)) /\ Len(q2) = l - 1 /\ DOMAIN q2 = 1..(l - 1)
      /\ \A j \in 1..(l - 1) : q2[j] = IF j <= i - 1 THEN s[j] ELSE t[j - (i - 1)]
  <2>1. q2 = s \o t
    BY DEF RemoveAt
  <2> HIDE DEF s, t
  <2>2. q2 \in Seq(QueuedItems(n)) /\ Len(q2) = Len(s) + Len(t)
    BY <1>2, <1>3, <2>1, ConcatProperties
  <2>3. \A j \in 1..(Len(s) + Len(t)) : q2[j] = IF j <= Len(s) THEN s[j] ELSE t[j - Len(s)]
    <3>1. \A j \in 1..(Len(s) + Len(t)) : (s \o t)[j] = IF j <= Len(s) THEN s[j] ELSE t[j - Len(s)]
      BY <1>2, <1>3, ConcatProperties
    <3> QED
      BY <2>1, <3>1
  <2>4. Len(s) + Len(t) = l - 1
    BY <1>1, <1>2, <1>3
  <2> QED
    BY <1>2, <2>2, <2>3, <2>4
<1> HIDE DEF s, t, l
\* Where the items come from.
<1> DEFINE from(j) == IF j < i THEN j ELSE j + 1
<1>5. \A j \in 1..(l - 1) : from(j) \in DOMAIN q /\ from(j) # i /\ q2[j] = q[from(j)]
  <2>1. ASSUME NEW j \in 1..(l - 1), j < i PROVE j \in DOMAIN q /\ j # i /\ q2[j] = q[j]
    BY <1>1, <1>2, <1>4, <2>1
  <2>2. ASSUME NEW j \in 1..(l - 1), ~(j < i) PROVE j + 1 \in DOMAIN q /\ j + 1 # i /\ q2[j] = q[j + 1]
    <3>1. ~(j <= i - 1) /\ j - (i - 1) \in 1..(l - i) /\ i + (j - (i - 1)) = j + 1
      BY <1>1, <2>2
    <3>2. q2[j] = t[j - (i - 1)] /\ t[j - (i - 1)] = q[j + 1]
      BY <1>3, <1>4, <3>1
    <3> QED
      BY <1>1, <2>2, <3>2
  <2> QED
    BY <2>1, <2>2
<1>6. \A j, k \in 1..(l - 1) : j # k => from(j) # from(k)
  BY <1>1
<1>7. \A k \in DOMAIN q : k # i => \E j \in 1..(l - 1) : from(j) = k
  <2>1. ASSUME NEW k \in DOMAIN q, k < i PROVE k \in 1..(l - 1) /\ from(k) = k
    BY <1>1, <2>1
  <2>2. ASSUME NEW k \in DOMAIN q, k > i PROVE k - 1 \in 1..(l - 1) /\ from(k - 1) = k
    BY <1>1, <2>2
  <2>3. \A k \in DOMAIN q : k # i => k < i \/ k > i
    BY <1>1
  <2> QED
    BY <2>1, <2>2, <2>3
<1> HIDE DEF from
<1>8. \A k \in DOMAIN q : q[k].msg = q[i].msg => k = i
  BY DEF QueueOK
<1>9. QueueOK(q2, p \cup {q[i].msg}, ts, n)
  <2>1. \A j, k \in DOMAIN q2 : j # k => q2[j].msg # q2[k].msg
    BY <1>4, <1>5, <1>6 DEF QueueOK
  <2>2. \A j, k \in DOMAIN q2 :
          j # k /\ q2[j].status = "processing" /\ q2[k].status = "processing" => q2[j].turn # q2[k].turn
    BY <1>4, <1>5, <1>6 DEF QueueOK
  <2>3. \A j \in DOMAIN q2 :
          /\ q2[j].status = "processing" => Begun(q2[j].turn, ts)
          /\ q2[j].status # "failed" => q2[j].attempts < n
          /\ q2[j].msg \notin p \cup {q[i].msg}
    BY <1>4, <1>5, <1>8 DEF QueueOK
  <2> QED
    BY <1>4, <2>1, <2>2, <2>3 DEF QueueOK
<1>10. \A k : InQueue(q2, k) <=> InQueue(q, k) /\ k # q[i].msg
  BY <1>4, <1>5, <1>7, <1>8 DEF InQueue
<1>11. \A j \in DOMAIN q2 : \E k \in DOMAIN q : q[k] = q2[j]
  BY <1>4, <1>5
<1>12. ASSUME NEW k, k # q[i].msg PROVE Same(q, q2, k)
  BY <1>4, <1>5, <1>7, <1>12 DEF Same, Has, IsWaiting
<1> QED
  BY <1>9, <1>10, <1>11, <1>12

-----------------------------------------------------------------------------
(* The work in progress.                                                   *)

MsgOps == {"steer", "start", "begin", "error", "recover"}
TurnOps == {"typing", "hear", "final", "read", "retire", "failed"}
PlainOps == {"queue", "persist", "cleanup", "recoverItems", "recoverActive"}

LEMMA StepShapes ==
    /\ \A op \in MsgOps, m \in Msgs : DoMsg(op, m) \in Step /\ DoMsg(op, m).op = op /\ DoMsg(op, m).msg = m
    /\ \A op \in TurnOps, t \in TurnIds : DoTurn(op, t) \in Step /\ DoTurn(op, t).op = op /\ DoTurn(op, t).turn = t
    /\ \A op \in PlainOps : Do(op) \in Step /\ Do(op).op = op
    /\ \A x \in Step : /\ x.op \in MsgOps => x.msg \in Msgs /\ x = DoMsg(x.op, x.msg)
                       /\ x.op \in TurnOps => x.turn \in TurnIds
                       /\ x.op \in MsgOps \cup TurnOps \cup PlainOps
<1>1. \A op \in MsgOps, m \in Msgs : DoMsg(op, m) \in Step /\ DoMsg(op, m).op = op /\ DoMsg(op, m).msg = m
  BY DEF MsgOps, DoMsg, Step
<1>2. \A op \in TurnOps, t \in TurnIds : DoTurn(op, t) \in Step /\ DoTurn(op, t).op = op /\ DoTurn(op, t).turn = t
  BY DEF TurnOps, DoTurn, Step
<1>3. \A op \in PlainOps : Do(op) \in Step /\ Do(op).op = op
  BY DEF PlainOps, Do, Step
<1>4. ASSUME NEW x \in Step
      PROVE  /\ x.op \in MsgOps => x.msg \in Msgs /\ x = DoMsg(x.op, x.msg)
             /\ x.op \in TurnOps => x.turn \in TurnIds
             /\ x.op \in MsgOps \cup TurnOps \cup PlainOps
  <2>1. CASE x \in [op: MsgOps, msg: Msgs]
    BY <2>1 DEF MsgOps, TurnOps, DoMsg
  <2>2. CASE x \in [op: TurnOps, turn: TurnIds]
    BY <2>2 DEF MsgOps, TurnOps
  <2>3. CASE x \in [op: PlainOps]
    BY <2>3 DEF MsgOps, TurnOps, PlainOps
  <2> QED
    BY <2>1, <2>2, <2>3 DEF Step, MsgOps, TurnOps, PlainOps
<1> QED
  BY <1>1, <1>2, <1>3, <1>4

\* What is left behind the head, in another state, and what may be put before it.
RestOK(s, q, ts) ==
    /\ \A k \in 2..Len(s) : StepOK(s[k], q, ts) /\ Late(s[k])
    /\ \A j, k \in 2..Len(s) : j < k => Before(s[j], s[k], q)
Leads(x, s, q, ts) == StepOK(x, q, ts) /\ \A k \in 2..Len(s) : Before(x, s[k], q)

LEMMA Rested ==
    ASSUME NEW q, NEW a, NEW p, NEW ts, NEW s, WorkOK(s, q, a, p, ts), s # <<>>,
           NEW q2, NEW ts2, LaterTurns(ts, ts2),
           \A k \in 2..Len(s) : s[k].op = "recover" => Same(q, q2, s[k].msg)
    PROVE  RestOK(s, q2, ts2)
<1>1. \A t : Begun(t, ts) => Begun(t, ts2)
  BY DEF LaterTurns, Begun
<1>2. \A k \in 2..Len(s) : k \in DOMAIN s /\ k # 1
  BY DEF WorkOK
<1>3. \A k \in 2..Len(s) : StepOK(s[k], q2, ts2) /\ Late(s[k])
  BY <1>1, <1>2 DEF WorkOK, StepOK, Same
<1>4. ASSUME NEW j \in 2..Len(s), NEW k \in 2..Len(s), j < k PROVE Before(s[j], s[k], q2)
  BY <1>2, <1>4 DEF WorkOK, Before, Same
<1> QED
  BY <1>3, <1>4 DEF RestOK

LEMMA Pushed ==
    ASSUME NEW s \in Seq(Step), s # <<>>, NEW q, NEW a, NEW p, NEW ts, RestOK(s, q, ts),
           NEW pre \in Seq(Step),
           \A i \in DOMAIN pre : Leads(pre[i], s, q, ts) /\ (i # 1 => Late(pre[i])),
           \A i, j \in DOMAIN pre : i < j => Before(pre[i], pre[j], q),
           pre # <<>> => First(pre[1], q, a, p)
    PROVE  WorkOK(pre \o Tail(s), q, a, p, ts)
<1> DEFINE l == Len(s)
           m == Len(pre)
           r == Tail(s)
           new == pre \o r
<1>1. l \in Nat /\ l >= 1 /\ m \in Nat /\ DOMAIN pre = 1..m
  BY LenProperties, EmptySeq
<1>2. r \in Seq(Step) /\ Len(r) = l - 1 /\ \A i \in 1..(l - 1) : r[i] = s[i + 1]
  BY <1>1, HeadTailProperties
<1>3. /\ new \in Seq(Step) /\ DOMAIN new = 1..(m + l - 1)
      /\ \A i \in 1..(m + l - 1) : new[i] = IF i <= m THEN pre[i] ELSE r[i - m]
  <2> HIDE DEF r
  <2>1. new \in Seq(Step) /\ Len(new) = m + Len(r)
    BY <1>2, ConcatProperties
  <2>2. \A i \in 1..(m + Len(r)) : new[i] = IF i <= m THEN pre[i] ELSE r[i - m]
    BY <1>2, ConcatProperties
  <2>3. m + Len(r) = m + l - 1
    BY <1>1, <1>2
  <2> HIDE DEF new
  <2> QED
    BY <2>1, <2>2, <2>3
<1> HIDE DEF new, r, l, m
<1>4. ASSUME NEW i \in DOMAIN new
      PROVE  \/ i \in 1..m /\ new[i] = pre[i]
             \/ i > m /\ i - m + 1 \in 2..l /\ new[i] = s[i - m + 1]
  <2>1. CASE i <= m
    BY <1>1, <1>3, <2>1
  <2>2. CASE ~(i <= m)
    <3>0. i \in 1..(m + l - 1)
      BY <1>3
    <3>1. i - m \in 1..(l - 1) /\ i > m /\ i - m + 1 \in 2..l /\ i - m + 1 = (i - m) + 1
      BY <1>1, <2>2, <3>0
    <3>2. new[i] = r[i - m] /\ r[i - m] = s[(i - m) + 1]
      BY <1>2, <1>3, <2>2, <3>1
    <3> QED
      BY <3>1, <3>2
  <2> QED
    BY <2>1, <2>2
<1>5. \A i \in DOMAIN new : i \in Nat /\ i >= 1
  BY <1>1, <1>3
<1>6. /\ \A k \in 2..l : StepOK(s[k], q, ts) /\ Late(s[k])
      /\ \A j, k \in 2..l : j < k => Before(s[j], s[k], q)
      /\ \A i \in 1..m : StepOK(pre[i], q, ts) /\ (\A k \in 2..l : Before(pre[i], s[k], q)) /\ (i # 1 => Late(pre[i]))
      /\ \A i, j \in 1..m : i < j => Before(pre[i], pre[j], q)
  BY <1>1 DEF RestOK, Leads, l
<1>7. \A i \in DOMAIN new : StepOK(new[i], q, ts)
  BY <1>4, <1>6
<1>8. ASSUME NEW i \in DOMAIN new, NEW j \in DOMAIN new, i < j PROVE Before(new[i], new[j], q)
  <2>1. CASE j \in 1..m /\ new[j] = pre[j]
    <3>1. i \in 1..m /\ ~(i > m)
      BY <1>1, <1>5, <1>8, <2>1
    <3> QED
      BY <1>4, <1>6, <1>8, <2>1, <3>1
  <2>2. CASE j > m /\ j - m + 1 \in 2..l /\ new[j] = s[j - m + 1]
    <3>1. CASE i \in 1..m /\ new[i] = pre[i]
      BY <1>6, <2>2, <3>1
    <3>2. CASE i > m /\ i - m + 1 \in 2..l /\ new[i] = s[i - m + 1]
      <4>1. i - m + 1 < j - m + 1
        BY <1>1, <1>5, <1>8
      <4> QED
        BY <1>6, <2>2, <3>2, <4>1
    <3> QED
      BY <1>4, <3>1, <3>2
  <2> QED
    BY <1>4, <2>1, <2>2
<1>9. ASSUME NEW i \in DOMAIN new, i # 1 PROVE Late(new[i])
  BY <1>4, <1>6, <1>9
<1>10. ASSUME new # <<>> PROVE First(new[1], q, a, p)
  <2>1. 1 \in DOMAIN new
    <3>1. Len(new) \in Nat \ {0} /\ DOMAIN new = 1..Len(new)
      BY <1>3, <1>10, EmptySeq, LenProperties
    <3> QED
      BY <3>1
  <2>2. CASE m = 0
    <3>1. Late(new[1])
      BY <1>4, <1>6, <2>1, <2>2
    <3> QED
      BY <3>1 DEF Late, First
  <2>3. CASE m # 0
    <3>1. 1 \in 1..m /\ ~(1 > m) /\ pre # <<>>
      BY <1>1, <2>3, EmptySeq DEF m
    <3> QED
      BY <1>4, <2>1, <3>1
  <2> QED
    BY <2>2, <2>3
<1>11. WorkOK(new, q, a, p, ts)
  BY <1>3, <1>7, <1>8, <1>9, <1>10 DEF WorkOK
<1> QED
  BY <1>11 DEF new, r

LEMMA Continued ==
    ASSUME NEW s \in Seq(Step), s # <<>>, NEW q, NEW a, NEW p, NEW ts, RestOK(s, q, ts)
    PROVE  WorkOK(Tail(s), q, a, p, ts)
<1> DEFINE pre == <<>>
<1>1. pre \in Seq(Step) /\ DOMAIN pre = {} /\ ~(pre # <<>>)
  OBVIOUS
<1>2. pre \o Tail(s) = Tail(s)
  BY HeadTailProperties, ConcatEmptySeq
<1> HIDE DEF pre
<1>3. WorkOK(pre \o Tail(s), q, a, p, ts)
  BY <1>1, Pushed
<1> QED
  BY <1>2, <1>3

LEMMA PushedOne ==
    ASSUME NEW s \in Seq(Step), s # <<>>, NEW q, NEW a, NEW p, NEW ts, RestOK(s, q, ts),
           NEW x, Leads(x, s, q, ts), First(x, q, a, p)
    PROVE  WorkOK(<<x>> \o Tail(s), q, a, p, ts)
<1> DEFINE pre == <<x>>
<1>0. x \in Step
  BY DEF Leads, StepOK
<1>1. pre \in Seq(Step) /\ DOMAIN pre = {1} /\ pre[1] = x
  BY <1>0
<1> HIDE DEF pre
<1>2. WorkOK(pre \o Tail(s), q, a, p, ts)
  BY <1>1, Pushed
<1> QED
  BY <1>2 DEF pre

LEMMA PushedTwo ==
    ASSUME NEW s \in Seq(Step), s # <<>>, NEW q, NEW a, NEW p, NEW ts, RestOK(s, q, ts),
           NEW x, Leads(x, s, q, ts), First(x, q, a, p),
           NEW y, Leads(y, s, q, ts), Late(y), y.op # "recover"
    PROVE  WorkOK(<<x, y>> \o Tail(s), q, a, p, ts)
<1> DEFINE pre == <<x, y>>
<1>0. x \in Step /\ y \in Step
  BY DEF Leads, StepOK
<1>1. pre \in Seq(Step) /\ DOMAIN pre = {1, 2} /\ pre[1] = x /\ pre[2] = y
  BY <1>0
<1> HIDE DEF pre
<1>2. \A i, j \in DOMAIN pre : i < j => Before(pre[i], pre[j], q)
  BY <1>1 DEF Before
<1>3. WorkOK(pre \o Tail(s), q, a, p, ts)
  BY <1>1, <1>2, Pushed
<1> QED
  BY <1>3 DEF pre

\* A work of its own, without a recovery in it.
LEMMA NewWork ==
    ASSUME NEW s \in Seq(Step), NEW q, NEW a, NEW p, NEW ts,
           \A i \in DOMAIN s : StepOK(s[i], q, ts) /\ s[i].op # "recover" /\ (i # 1 => Late(s[i])),
           s # <<>> => First(s[1], q, a, p)
    PROVE  WorkOK(s, q, a, p, ts)
BY DEF WorkOK, Before

-----------------------------------------------------------------------------
(* The state of the runner.                                                *)

\* What a step leaves of the messages that are queued or processed, and that it
\* makes no message pending again.
KeptIn(q, p, q2, p2) == p \subseteq p2 /\ \A k : InQueue(q, k) => InQueue(q2, k) \/ k \in p2
NoReturn(q, q2) == \A k : InQueue(q, k) /\ Has(q2, k, "pending") => Has(q, k, "pending")

LEMMA SameQueue ==
    ASSUME NEW q, NEW p
    PROVE  /\ \A k : Same(q, q, k)
           /\ \A p2 : p \subseteq p2 => KeptIn(q, p, q, p2)
           /\ NoReturn(q, q)
BY DEF Same, KeptIn, NoReturn

LEMMA Attempts == IInv => MaxAttempts \in Nat \ {0} /\ scenario \in Scenarios
BY RunnerAssumption DEF IInv, WorldOK, MaxAttempts

\* The helpers of the model say the same of the queue.
LEMMA OnQueue ==
    ASSUME IInv
    PROVE  /\ Queued \subseteq Msgs
           /\ \A m : m \in Queued <=> InQueue(queue, m)
           /\ \A m \in Queued :
                /\ Place(m) \in DOMAIN queue /\ ItemOf(m) = queue[Place(m)] /\ ItemOf(m).msg = m
                /\ ItemOf(m) \in QueuedItems(MaxAttempts)
                /\ \A i \in DOMAIN queue : queue[i].msg = m => i = Place(m)
           /\ \A m, status : Has(queue, m, status) <=> m \in Queued /\ ItemOf(m).status = status
           /\ \A m, t : IsWaiting(queue, m, t) <=> m \in ProcessingFor(t)
           /\ \A t : \A m, k \in ProcessingFor(t) : m = k
           /\ \A t : ProcessingFor(t) \subseteq Queued
<1>1. QueueOK(queue, processed, turns, MaxAttempts)
  BY DEF IInv, SessionOK
<1>2. \A i \in DOMAIN queue : queue[i] \in QueuedItems(MaxAttempts)
  BY <1>1, QueueIndex
<1>3. \A m : m \in Queued <=> InQueue(queue, m)
  BY DEF Queued, InQueue
<1>4. Queued \subseteq Msgs
  BY <1>2 DEF Queued, QueuedItems
<1>5. ASSUME NEW m \in Queued
      PROVE  /\ Place(m) \in DOMAIN queue /\ ItemOf(m) = queue[Place(m)] /\ ItemOf(m).msg = m
             /\ ItemOf(m) \in QueuedItems(MaxAttempts)
             /\ \A i \in DOMAIN queue : queue[i].msg = m => i = Place(m)
  <2>1. \E i \in DOMAIN queue : queue[i].msg = m
    BY DEF Queued
  <2>2. Place(m) \in DOMAIN queue /\ queue[Place(m)].msg = m
    BY <2>1 DEF Place
  <2> QED
    BY <1>1, <1>2, <2>2 DEF ItemOf, QueueOK
<1>6. \A m, status : Has(queue, m, status) <=> m \in Queued /\ ItemOf(m).status = status
  BY <1>3, <1>5 DEF Has, InQueue
<1>7. \A m, t : IsWaiting(queue, m, t) <=> m \in ProcessingFor(t)
  BY <1>3, <1>5 DEF IsWaiting, InQueue, ProcessingFor
<1>8. ASSUME NEW t, NEW m \in ProcessingFor(t), NEW k \in ProcessingFor(t) PROVE m = k
  <2>1. PICK i \in DOMAIN queue : queue[i].msg = m /\ queue[i].status = "processing" /\ queue[i].turn = t
    BY <1>7 DEF IsWaiting
  <2>2. PICK j \in DOMAIN queue : queue[j].msg = k /\ queue[j].status = "processing" /\ queue[j].turn = t
    BY <1>7 DEF IsWaiting
  <2>3. i = j
    BY <1>1, <2>1, <2>2 DEF QueueOK
  <2> QED
    BY <2>1, <2>2, <2>3
<1>9. \A t : ProcessingFor(t) \subseteq Queued
  BY DEF ProcessingFor
<1> QED
  BY <1>3, <1>4, <1>5, <1>6, <1>7, <1>8, <1>9

\* The head of the work in progress, and what is behind it.
LEMMA AtHead ==
    ASSUME IInv, todo # <<>>
    PROVE  /\ todo \in Seq(Step) /\ Head(todo) \in Step
           /\ StepOK(Head(todo), queue, turns) /\ First(Head(todo), queue, active, processed)
           /\ \A k \in 2..Len(todo) :
                /\ Before(Head(todo), todo[k], queue)
                /\ todo[k].op = "recover" => Has(queue, todo[k].msg, "processing")
           /\ RestOK(todo, queue, turns)
<1>1. WorkOK(todo, queue, active, processed, turns)
  BY DEF IInv
<1>2. todo \in Seq(Step) /\ 1 \in DOMAIN todo /\ Head(todo) = todo[1] /\ \A k \in 2..Len(todo) : k \in DOMAIN todo /\ 1 < k
  <2>1. todo \in Seq(Step) /\ Len(todo) \in Nat \ {0} /\ DOMAIN todo = 1..Len(todo)
    BY <1>1, EmptySeq DEF WorkOK
  <2> QED
    BY <2>1, HeadTailProperties
<1>3. Head(todo) \in Step /\ StepOK(Head(todo), queue, turns) /\ First(Head(todo), queue, active, processed)
  BY <1>1, <1>2 DEF WorkOK, StepOK
<1>4. \A k \in 2..Len(todo) : Before(Head(todo), todo[k], queue)
  BY <1>1, <1>2 DEF WorkOK
<1>5. \A k \in 2..Len(todo) : todo[k].op = "recover" => Has(queue, todo[k].msg, "processing")
  BY <1>1, <1>2 DEF WorkOK, StepOK
<1>6. RestOK(todo, queue, turns)
  <2>1. LaterTurns(turns, turns)
    BY DEF LaterTurns
  <2> QED
    BY <1>1, <2>1, SameQueue, Rested
<1> QED
  BY <1>2, <1>3, <1>4, <1>5, <1>6

LEMMA RestTo ==
    ASSUME IInv, todo # <<>>, NEW q2, NEW ts2, LaterTurns(turns, ts2),
           \A k \in 2..Len(todo) : todo[k].op = "recover" => Same(queue, q2, todo[k].msg)
    PROVE  RestOK(todo, q2, ts2)
BY Rested DEF IInv

LEMMA PlainLeads ==
    ASSUME NEW op \in {"persist", "queue"}, NEW s, NEW q, NEW a, NEW p, NEW ts
    PROVE  /\ Leads(Do(op), s, q, ts) /\ First(Do(op), q, a, p) /\ Late(Do(op)) /\ Do(op).op # "recover"
           /\ StepOK(Do(op), q, ts)
<1>1. Do(op) \in Step /\ Do(op).op = op
  BY StepShapes DEF PlainOps
<1> QED
  BY <1>1 DEF Leads, First, Late, StepOK, Before

LEMMA TurnLeads ==
    ASSUME NEW op \in TurnOps, NEW s, NEW q, NEW a, NEW p, NEW ts, NEW t, Begun(t, ts),
           op \in {"typing", "hear"} \/ \A k \in 2..Len(s) : s[k].op = "recover" => ~IsWaiting(q, s[k].msg, t)
    PROVE  /\ Leads(DoTurn(op, t), s, q, ts) /\ First(DoTurn(op, t), q, a, p) /\ Late(DoTurn(op, t))
           /\ DoTurn(op, t).op # "recover" /\ StepOK(DoTurn(op, t), q, ts)
<1>1. DoTurn(op, t) \in Step /\ DoTurn(op, t).op = op /\ DoTurn(op, t).turn = t
  BY StepShapes DEF Begun
<1> QED
  BY <1>1 DEF Leads, First, Late, StepOK, Before, TurnOps

-----------------------------------------------------------------------------
(* What the actions do to the queue.                                       *)

\* An item is put in the place of one of the same message.
LEMMA PutStep ==
    ASSUME IInv, NEW it \in QueuedItems(MaxAttempts), it.msg \in Queued, PutItem(it),
           it.status # "failed" => it.attempts < MaxAttempts,
           it.status = "pending" => ItemOf(it.msg).status = "pending" \/ it.turn = NoTurn,
           NEW ts, LaterTurns(turns, ts),
           it.status = "processing" =>
               /\ Begun(it.turn, ts)
               /\ \A k : IsWaiting(queue, k, it.turn) => k = it.msg
    PROVE  /\ QueueOK(queue', processed, ts, MaxAttempts)
           /\ \A k : InQueue(queue', k) <=> InQueue(queue, k)
           /\ Has(queue', it.msg, it.status)
           /\ \A k : k # it.msg => Same(queue, queue', k)
           /\ KeptIn(queue, processed, queue', processed)
           /\ it.status # "pending" \/ Has(queue, it.msg, "pending") => NoReturn(queue, queue')
<1> DEFINE i == Place(it.msg)
           n == MaxAttempts
<1>1. QueueOK(queue, processed, ts, n)
  BY LaterSession DEF IInv, SessionOK
<1>2. i \in DOMAIN queue /\ queue[i].msg = it.msg /\ queue' = [queue EXCEPT ![i] = it]
  BY OnQueue DEF PutItem
<1>3. \A j \in DOMAIN queue : queue[j].msg = it.msg => j = i
  BY OnQueue
<1>4. ASSUME it.status = "processing", NEW j \in DOMAIN queue, j # i, queue[j].status = "processing"
      PROVE  queue[j].turn # it.turn
  BY <1>3, <1>4 DEF IsWaiting
<1> HIDE DEF i
<1>5. it.status # "failed" => it.attempts < n
  OBVIOUS
<1> HIDE DEF n
<1>6. /\ QueueOK(queue', processed, ts, n)
      /\ \A k : InQueue(queue', k) <=> InQueue(queue, k)
      /\ Has(queue', it.msg, it.status)
      /\ \A j \in DOMAIN queue' : queue'[j].msg # it.msg => j \in DOMAIN queue /\ queue[j] = queue'[j]
      /\ \A k : k # it.msg => Same(queue, queue', k)
  <2>1. it \in QueuedItems(n)
    BY DEF n
  <2>2. it.status = "processing" =>
          /\ Begun(it.turn, ts)
          /\ \A j \in DOMAIN queue : j # i /\ queue[j].status = "processing" => queue[j].turn # it.turn
    BY <1>4
  <2>3. it.msg = queue[i].msg
    BY <1>2
  <2> DEFINE q2 == [queue EXCEPT ![i] = it]
  <2>4. /\ QueueOK(q2, processed, ts, n)
        /\ \A k : InQueue(q2, k) <=> InQueue(queue, k)
        /\ Has(q2, it.msg, it.status)
        /\ \A j \in DOMAIN q2 : q2[j].msg # it.msg => j \in DOMAIN queue /\ queue[j] = q2[j]
        /\ \A k : k # it.msg => Same(queue, q2, k)
    <3>1. i \in DOMAIN queue /\ queue \in Seq(QueuedItems(n)) /\ DOMAIN queue = 1..Len(queue)
      BY <1>1, <1>2, QueueIndex DEF QueueOK
    <3>2. q2 \in Seq(QueuedItems(n)) /\ DOMAIN q2 = DOMAIN queue /\ \A j \in DOMAIN queue : q2[j] = IF j = i THEN it ELSE queue[j]
      BY <2>1, <3>1, ExceptSeq
    <3> HIDE DEF q2
    <3> QED
      BY SMTT(25), <1>1, <1>5, <2>1, <2>2, <2>3, <3>1, <3>2, Replaced
  <2>5. queue' = q2
    BY <1>2
  <2> HIDE DEF q2
  <2> QED
    BY <2>4, <2>5
<1>7. KeptIn(queue, processed, queue', processed)
  BY <1>6 DEF KeptIn
<1>8. ASSUME it.status # "pending" \/ Has(queue, it.msg, "pending") PROVE NoReturn(queue, queue')
  <2>1. ASSUME NEW k, Has(queue', k, "pending"), k # it.msg PROVE Has(queue, k, "pending")
    BY <1>6, <2>1 DEF Has
  <2>2. ASSUME Has(queue', it.msg, "pending") PROVE Has(queue, it.msg, "pending")
    <3>1. PICK a \in DOMAIN queue' : queue'[a].msg = it.msg /\ queue'[a].status = "pending"
      BY <2>2 DEF Has
    <3>2. PICK b \in DOMAIN queue' : queue'[b].msg = it.msg /\ queue'[b].status = it.status
      BY <1>6 DEF Has
    <3>3. a = b
      BY <1>6, <3>1, <3>2 DEF QueueOK
    <3> QED
      BY <1>8, <3>1, <3>2, <3>3
  <2> QED
    BY <2>1, <2>2 DEF NoReturn
<1> QED
  BY <1>6, <1>7, <1>8 DEF n

\* The item of a turn leaves the queue for the processed messages.
LEMMA RetireStep ==
    ASSUME IInv, NEW t, RetireItem(t)
    PROVE  /\ QueueOK(queue', processed', turns, MaxAttempts) /\ processed' \subseteq Msgs
           /\ \A k : ~IsWaiting(queue, k, t) => Same(queue, queue', k)
           /\ KeptIn(queue, processed, queue', processed') /\ NoReturn(queue, queue')
<1> DEFINE n == MaxAttempts
<1>1. QueueOK(queue, processed, turns, n) /\ processed \subseteq Msgs
  BY DEF IInv, SessionOK
<1> HIDE DEF n
<1>2. CASE ProcessingFor(t) = {} /\ UNCHANGED <<queue, processed>>
  BY <1>1, <1>2, SameQueue DEF n
<1>3. CASE \E m \in ProcessingFor(t) :
             /\ ProcessingItem(m, t)
             /\ queue' = RemoveAt(queue, Place(m)) /\ processed' = processed \cup {m}
  <2>1. PICK m \in ProcessingFor(t) : queue' = RemoveAt(queue, Place(m)) /\ processed' = processed \cup {m}
    BY <1>3
  <2>2. m \in Queued /\ m \in Msgs /\ IsWaiting(queue, m, t) /\ Place(m) \in DOMAIN queue /\ queue[Place(m)].msg = m
    BY OnQueue
  <2>3. /\ QueueOK(queue', processed \cup {m}, turns, n)
        /\ \A k : InQueue(queue', k) <=> InQueue(queue, k) /\ k # m
        /\ \A j \in DOMAIN queue' : \E k \in DOMAIN queue : queue[k] = queue'[j]
        /\ \A k : k # m => Same(queue, queue', k)
    <3> DEFINE i == Place(m)
    <3>1. i \in DOMAIN queue /\ queue[i].msg = m /\ queue' = RemoveAt(queue, i)
      BY <2>1, <2>2
    <3> HIDE DEF i
    <3> QED
      BY <1>1, <3>1, Removed
  <2>4. KeptIn(queue, processed, queue', processed')
    BY <2>1, <2>3 DEF KeptIn
  <2>5. NoReturn(queue, queue')
    BY <2>3 DEF NoReturn, Has
  <2> QED
    BY <1>1, <2>1, <2>2, <2>3, <2>4, <2>5 DEF n
<1> QED
  BY <1>2, <1>3 DEF RetireItem

\* The items of a turn whose answer could not be sent fail.
LEMMA FailItemsStep ==
    ASSUME IInv, NEW t,
           queue' = [i \in DOMAIN queue |->
                       IF queue[i].msg \in ProcessingFor(t)
                       THEN [queue[i] EXCEPT !.status = "failed"] ELSE queue[i]]
    PROVE  /\ QueueOK(queue', processed, turns, MaxAttempts)
           /\ \A k : ~IsWaiting(queue, k, t) => Same(queue, queue', k)
           /\ KeptIn(queue, processed, queue', processed) /\ NoReturn(queue, queue')
<1> DEFINE n == MaxAttempts
           ms == ProcessingFor(t)
<1>1. QueueOK(queue, processed, turns, n)
  BY DEF IInv, SessionOK
<1>2. queue' = [i \in DOMAIN queue |-> IF queue[i].msg \in ms THEN [queue[i] EXCEPT !.status = "failed"] ELSE queue[i]]
  OBVIOUS
<1>3. \A k : ~IsWaiting(queue, k, t) => k \notin ms
  BY OnQueue
<1> HIDE DEF n, ms
<1>4. /\ QueueOK(queue', processed, turns, n)
      /\ \A k : InQueue(queue', k) <=> InQueue(queue, k)
      /\ \A i \in DOMAIN queue' : i \in DOMAIN queue /\ queue'[i].msg = queue[i].msg /\ (queue'[i].status # "failed" => queue'[i] = queue[i])
      /\ \A k : k \notin ms => Same(queue, queue', k)
  BY <1>1, <1>2, FailedOnes
<1>5. KeptIn(queue, processed, queue', processed)
  BY <1>4 DEF KeptIn
<1>6. NoReturn(queue, queue')
  BY <1>4 DEF NoReturn, Has
<1> QED
  BY <1>3, <1>4, <1>5, <1>6 DEF n

\* The catch clause of startTurn.
LEMMA StartFailedStep ==
    ASSUME IInv, todo # <<>>, NEW m, m \in Queued, ItemOf(m).status # "failed", StartFailed(m),
           \A k \in 2..Len(todo) : todo[k].op = "recover" => todo[k].msg # m,
           NEW ts, LaterTurns(turns, ts), NEW a
    PROVE  /\ QueueOK(queue', processed, ts, MaxAttempts)
           /\ due' \subseteq Msgs /\ timers' \subseteq Msgs
           /\ WorkOK(todo', queue', a, processed, ts)
           /\ KeptIn(queue, processed, queue', processed) /\ NoReturn(queue, queue')
<1> DEFINE old == ItemOf(m)
           n == MaxAttempts
           c == old.attempts + 1
<1>1. n \in Nat \ {0} /\ old \in QueuedItems(n) /\ old.msg = m /\ m \in Msgs /\ old.attempts < n
  <2>1. QueueOK(queue, processed, turns, n)
    BY DEF IInv, SessionOK
  <2>2. old = queue[Place(m)] /\ Place(m) \in DOMAIN queue
    BY OnQueue
  <2> QED
    BY <2>1, <2>2, OnQueue, Attempts DEF QueueOK
<1>2. old.status = "processing" => Begun(old.turn, ts) /\ \A k : IsWaiting(queue, k, old.turn) => k = m
  <2>1. ASSUME old.status = "processing" PROVE Begun(old.turn, turns)
    BY <2>1, OnQueue DEF IInv, SessionOK, QueueOK
  <2>2. ASSUME old.status = "processing", NEW k, IsWaiting(queue, k, old.turn) PROVE k = m
    <3>1. m \in ProcessingFor(old.turn) /\ k \in ProcessingFor(old.turn)
      BY <2>2, OnQueue DEF ProcessingFor
    <3> QED
      BY <3>1, OnQueue
  <2> QED
    BY <2>1, <2>2 DEF LaterTurns, Begun
<1>3. old.status = "pending" => Has(queue, m, "pending")
  BY OnQueue
<1>4. due \subseteq Msgs /\ timers \subseteq Msgs
  BY DEF IInv, LocalOK
<1>5. todo \in Seq(Step)
  BY AtHead
<1>6. CASE /\ Exhausted(c)
           /\ PutItem([old EXCEPT !.attempts = c, !.status = "failed"])
           /\ due' = due \cup {m}
           /\ todo' = <<DoMsg("error", m), Do("persist")>> \o Rest
           /\ UNCHANGED timers
  <2> DEFINE it == [old EXCEPT !.attempts = c, !.status = "failed"]
  <2>0. c \in 0..n
    BY <1>1 DEF QueuedItems
  <2> HIDE DEF c, old
  <2>1. it \in QueuedItems(n) /\ it.msg = m /\ it.status = "failed" /\ it.msg \in Queued
    BY <1>1, <2>0 DEF QueuedItems, ItemStatuses
  <2>2. PutItem(it)
    BY <1>6
  <2> HIDE DEF it
  <2>3. /\ QueueOK(queue', processed, ts, MaxAttempts)
        /\ \A k : k # m => Same(queue, queue', k)
        /\ KeptIn(queue, processed, queue', processed) /\ NoReturn(queue, queue')
    BY <2>1, <2>2, PutStep
  <2>4. RestOK(todo, queue', ts)
    BY <2>3, RestTo
  <2>5. /\ Leads(DoMsg("error", m), todo, queue', ts) /\ First(DoMsg("error", m), queue', a, processed)
    <3>1. DoMsg("error", m) \in Step /\ DoMsg("error", m).op = "error"
      BY <1>1, StepShapes DEF MsgOps
    <3> QED
      BY <3>1 DEF Leads, First, StepOK, Before
  <2>6. WorkOK(todo', queue', a, processed, ts)
    BY <1>5, <1>6, <2>4, <2>5, PlainLeads, PushedTwo DEF Rest
  <2> QED
    BY <1>1, <1>4, <1>6, <2>3, <2>6
<1>7. CASE /\ ~Exhausted(c)
           /\ PutItem([old EXCEPT !.attempts = c])
           /\ RetryLater(m)
           /\ todo' = <<Do("persist")>> \o Rest
  <2> DEFINE it == [old EXCEPT !.attempts = c]
  <2>0. c < n
    BY <1>1, <1>7 DEF Exhausted, QueuedItems
  <2>1. it \in QueuedItems(n) /\ it.msg = m /\ it.status = old.status /\ it.turn = old.turn /\ it.msg \in Queued /\ it.attempts < n
    BY <1>1, <2>0 DEF QueuedItems, ItemStatuses
  <2>2. PutItem(it)
    BY <1>7
  <2> HIDE DEF it
  <2>3. /\ QueueOK(queue', processed, ts, MaxAttempts)
        /\ \A k : k # m => Same(queue, queue', k)
        /\ KeptIn(queue, processed, queue', processed) /\ NoReturn(queue, queue')
    <3>1. it.status # "pending" \/ Has(queue, it.msg, "pending")
      BY <1>3, <2>1
    <3>2. it.status = "pending" => ItemOf(it.msg).status = "pending"
      BY <2>1
    <3> QED
      BY <1>2, <2>1, <2>2, <3>1, <3>2, PutStep
  <2>4. RestOK(todo, queue', ts)
    BY <2>3, RestTo
  <2>5. WorkOK(todo', queue', a, processed, ts)
    BY <1>5, <1>7, <2>4, PlainLeads, PushedOne DEF Rest
  <2> QED
    BY <1>1, <1>4, <1>7, <2>3, <2>5 DEF RetryLater
<1> QED
  BY <1>6, <1>7 DEF StartFailed

-----------------------------------------------------------------------------
(* The actions.                                                            *)

\* IInv, of the values that a step gives to the variables.
IInvAt(q, a, d, p, dk, s, ts, ib) ==
    /\ SessionOK(q, a, d, p, ts, MaxAttempts)
    /\ SessionOK(dk.queue, dk.active, dk.delivered, dk.processed, ts, MaxAttempts)
    /\ WorkOK(s, q, a, p, ts)
    /\ NoticesOK(ib, ts)

LEMMA Assembled ==
    ASSUME LocalOK', WorldOK', UNCHANGED scenario,
           IInvAt(queue', active', delivered', processed', disk', todo', turns', inbox')
    PROVE  IInv'
<1>1. MaxAttempts' = MaxAttempts
  BY DEF MaxAttempts
<1> QED
  BY <1>1 DEF IInv, IInvAt

\* The work goes on, or another one begins, and nothing else changes.
LEMMA WorkOnly ==
    ASSUME IInv, LocalOK', WorldOK',
           UNCHANGED <<queue, delivered, processed, disk, turns, scenario>>,
           active' = active \/ active' = NoTurn \/ Begun(active', turns),
           NoticesOK(inbox', turns),
           WorkOK(todo', queue, active', processed, turns)
    PROVE  IInv'
BY Assembled DEF IInv, IInvAt, SessionOK

LEMMA EnqueueStep ==
    ASSUME IInv, NEW m \in Msgs, EnqueueMessage(m)
    PROVE  /\ IInv' /\ UNCHANGED <<turns, disk, crashes, faults, delivered, finals>>
           /\ KeptIn(queue, processed, queue', processed') /\ NoReturn(queue, queue')
<1>1. LocalOK' /\ WorldOK' /\ UNCHANGED <<active, delivered, processed, disk, turns, inbox, scenario, finals, crashes, faults>>
  BY DEF IInv, LocalOK, WorldOK, EnqueueMessage, world, budgets
<1>2. CASE Duplicate(m) /\ UNCHANGED <<queue, todo>>
  BY <1>1, <1>2, WorkOnly, SameQueue DEF IInv
<1>3. CASE ~Duplicate(m) /\ active # NoTurn /\ todo' = <<DoMsg("steer", m)>> /\ UNCHANGED queue
  <2> DEFINE x == DoMsg("steer", m)
             new == <<x>>
  <2>1. x \in Step /\ x.op = "steer" /\ x.msg = m
    BY StepShapes DEF MsgOps
  <2> HIDE DEF x
  <2>2. new \in Seq(Step) /\ DOMAIN new = {1} /\ new[1] = x
    BY <2>1
  <2> HIDE DEF new
  <2>3. First(x, queue, active, processed) /\ StepOK(x, queue, turns)
    BY <1>3, <2>1, OnQueue DEF First, StepOK, Duplicate
  <2>4. WorkOK(new, queue, active, processed, turns)
    BY <2>1, <2>2, <2>3, NewWork
  <2>5. todo' = new
    BY <1>3 DEF new, x
  <2> QED
    BY <1>1, <1>3, <2>4, <2>5, WorkOnly, SameQueue DEF IInv
<1>4. CASE /\ ~Duplicate(m) /\ active = NoTurn
           /\ queue' = Append(queue, [msg |-> m, status |-> "pending", turn |-> NoTurn, attempts |-> 0])
           /\ todo' = <<Do("persist"), Do("queue")>>
  <2> DEFINE n == MaxAttempts
             new == <<Do("persist"), Do("queue")>>
  <2>1. QueueOK(queue, processed, turns, n) /\ n \in Nat \ {0}
    BY Attempts DEF IInv, SessionOK
  <2>2. ~InQueue(queue, m) /\ m \notin processed
    BY <1>4, OnQueue DEF Duplicate
  <2> HIDE DEF n
  <2>3. /\ QueueOK(queue', processed, turns, n)
        /\ \A k : InQueue(queue', k) <=> InQueue(queue, k) \/ k = m
        /\ \A i \in DOMAIN queue' : queue'[i].msg # m => i \in DOMAIN queue /\ queue[i] = queue'[i]
    <3> DEFINE it == [msg |-> m, status |-> "pending", turn |-> NoTurn, attempts |-> 0]
    <3>1. it \in QueuedItems(n) /\ it.msg = m /\ it.status = "pending" /\ it.attempts < n
      BY <2>1 DEF QueuedItems, ItemStatuses
    <3>2. queue' = Append(queue, it)
      BY <1>4
    <3> HIDE DEF it
    <3>3. queue \in Seq(QueuedItems(n)) /\ DOMAIN queue = 1..Len(queue) /\ Len(queue) \in Nat
      BY <2>1, QueueIndex DEF QueueOK
    <3>4. /\ queue' \in Seq(QueuedItems(n)) /\ DOMAIN queue' = 1..(Len(queue) + 1)
          /\ queue'[Len(queue) + 1] = it
          /\ \A i \in DOMAIN queue : queue'[i] = queue[i]
      BY <3>1, <3>2, <3>3, AppendProperties
    <3> QED
      BY <2>1, <2>2, <3>1, <3>4, Appended
  <2>4. KeptIn(queue, processed, queue', processed) /\ NoReturn(queue, queue')
    BY <2>2, <2>3 DEF KeptIn, NoReturn, Has
  <2>5. \A q : WorkOK(new, q, active, processed, turns)
    <3>1. new \in Seq(Step) /\ DOMAIN new = {1, 2} /\ new[1] = Do("persist") /\ new[2] = Do("queue")
      BY StepShapes DEF PlainOps
    <3> HIDE DEF new
    <3> QED
      BY <3>1, PlainLeads, NewWork
  <2>6. WorkOK(todo', queue', active', processed', turns')
    BY <1>1, <1>4, <2>5 DEF new
  <2>7. SessionOK(queue', active', delivered', processed', turns', MaxAttempts)
    BY <1>1, <2>3 DEF IInv, SessionOK, n
  <2>8. IInvAt(queue', active', delivered', processed', disk', todo', turns', inbox')
    BY <1>1, <2>6, <2>7 DEF IInv, IInvAt
  <2> QED
    BY <1>1, <2>4, <2>8, Assembled
<1> QED
  BY <1>1, <1>2, <1>3, <1>4 DEF EnqueueMessage

\* The two plain works.
LEMMA PlainWorks ==
    ASSUME NEW q, NEW a, NEW p, NEW ts
    PROVE  /\ WorkOK(<<>>, q, a, p, ts)
           /\ \A op \in {"persist", "queue"} : WorkOK(<<Do(op)>>, q, a, p, ts)
<1>1. WorkOK(<<>>, q, a, p, ts)
  <2> DEFINE new == <<>>
  <2>1. new \in Seq(Step) /\ DOMAIN new = {} /\ ~(new # <<>>)
    OBVIOUS
  <2> HIDE DEF new
  <2>2. WorkOK(new, q, a, p, ts)
    BY <2>1, NewWork
  <2> QED
    BY <2>2 DEF new
<1>2. ASSUME NEW op \in {"persist", "queue"} PROVE WorkOK(<<Do(op)>>, q, a, p, ts)
  <2> DEFINE new == <<Do(op)>>
  <2>1. new \in Seq(Step) /\ DOMAIN new = {1} /\ new[1] = Do(op)
    BY StepShapes DEF PlainOps
  <2> HIDE DEF new
  <2>2. WorkOK(new, q, a, p, ts)
    BY <2>1, PlainLeads, NewWork
  <2> QED
    BY <2>2 DEF new
<1> QED
  BY <1>1, <1>2

LEMMA SteerStep ==
    ASSUME IInv, SteerActiveTurn
    PROVE  /\ IInv' /\ UNCHANGED <<queue, disk, crashes, delivered, finals>>
           /\ KeptIn(queue, processed, queue', processed')
<1> DEFINE m == Head(todo).msg
<1>1. todo # <<>> /\ Head(todo).op = "steer" /\ UNCHANGED <<queue, active, delivered, disk, inbox, finals, scenario, crashes>>
  BY DEF SteerActiveTurn, Doing
<1>2. m \in Msgs /\ active # NoTurn /\ ~InQueue(queue, m) /\ m \notin processed
  BY <1>1, AtHead, StepShapes DEF First, MsgOps
<1>3. active \in TurnIds /\ processed \subseteq Msgs
  BY <1>2 DEF IInv, SessionOK, Begun
<1>4. LocalOK'
  BY DEF IInv, LocalOK, SteerActiveTurn
<1>5. faults' \in Nat
  BY DEF IInv, WorldOK, SteerActiveTurn, NoFault, Fault
<1>6. CASE /\ turns' = [turns EXCEPT ![active].msgs = @ \cup {m}]
           /\ processed' = processed \cup {m}
           /\ todo' = <<Do("persist")>>
  <2>1. turns' \in [TurnIds -> [status: TurnStatuses, msgs: SUBSET Msgs]] /\ LaterTurns(turns, turns')
    BY <1>2, <1>3, <1>6 DEF IInv, WorldOK, LaterTurns
  <2>2. WorldOK'
    BY <1>1, <1>5, <2>1 DEF IInv, WorldOK, SteerActiveTurn
  <2>3. SessionOK(queue, active, delivered, processed, turns', MaxAttempts)
    BY <2>1, LaterSession DEF IInv
  <2>4. QueueOK(queue, processed', turns', MaxAttempts)
    BY <1>2, <1>6, <2>3 DEF SessionOK, QueueOK, InQueue
  <2>5. SessionOK(queue, active, delivered, processed', turns', MaxAttempts)
    BY <1>2, <1>6, <2>3, <2>4 DEF SessionOK
  <2>6. SessionOK(disk.queue, disk.active, disk.delivered, disk.processed, turns', MaxAttempts)
    BY <2>1, LaterSession DEF IInv
  <2>7. NoticesOK(inbox, turns')
    BY <2>1, LaterNotices DEF IInv
  <2>8. WorkOK(todo', queue, active, processed', turns')
    BY <1>6, PlainWorks
  <2>9. IInvAt(queue', active', delivered', processed', disk', todo', turns', inbox')
    BY <1>1, <2>5, <2>6, <2>7, <2>8 DEF IInvAt
  <2>10. KeptIn(queue, processed, queue', processed')
    BY <1>1, <1>6, SameQueue
  <2> QED
    BY <1>1, <1>4, <2>2, <2>9, <2>10, Assembled
<1>7. CASE todo' = <<>> /\ UNCHANGED <<turns, processed>>
  <2>1. WorldOK'
    BY <1>1, <1>5, <1>7 DEF IInv, WorldOK, SteerActiveTurn
  <2>2. WorkOK(todo', queue, active, processed, turns)
    BY <1>7, PlainWorks
  <2>3. NoticesOK(inbox', turns)
    BY <1>1 DEF IInv
  <2>4. IInv'
    BY <1>1, <1>4, <1>7, <2>1, <2>2, <2>3, WorkOnly
  <2> QED
    BY <1>1, <1>7, <2>4, SameQueue
<1> QED
  BY <1>6, <1>7 DEF SteerActiveTurn, Throw

LEMMA ProcessQueueStep ==
    ASSUME IInv, ProcessQueue
    PROVE  IInv' /\ UNCHANGED <<queue, processed>>
<1>1. todo # <<>> /\ UNCHANGED <<queue, active, delivered, processed, disk, turns, inbox, scenario>>
  BY DEF ProcessQueue, Doing, saved, world, budgets
<1>2. WorldOK'
  BY DEF IInv, WorldOK, ProcessQueue, world, budgets
<1>3. Pending \subseteq Msgs
  BY OnQueue DEF Pending
<1>4. LocalOK'
  <2>1. timers' \subseteq Msgs
    BY <1>3 DEF IInv, LocalOK, ProcessQueue
  <2> QED
    BY <2>1 DEF IInv, LocalOK, ProcessQueue
<1>5. todo \in Seq(Step) /\ RestOK(todo, queue, turns)
  BY <1>1, AtHead
<1>6. CASE todo' = Rest
  BY <1>1, <1>2, <1>4, <1>5, <1>6, Continued, WorkOnly DEF Rest, IInv
<1>7. ASSUME NEW m \in Pending, active = NoTurn, todo' = <<DoMsg("start", m)>> \o Rest
      PROVE  IInv'
  <2> DEFINE x == DoMsg("start", m)
  <2>1. x \in Step /\ x.op = "start" /\ x.msg = m
    BY <1>3, StepShapes DEF MsgOps
  <2>2. Has(queue, m, "pending")
    BY OnQueue DEF Pending
  <2>3. todo' = <<x>> \o Tail(todo)
    BY <1>7 DEF Rest
  <2> HIDE DEF x
  <2>4. Leads(x, todo, queue, turns) /\ First(x, queue, active, processed)
    BY <1>7, <2>1, <2>2 DEF Leads, First, StepOK, Before
  <2>5. WorkOK(todo', queue, active, processed, turns)
    BY <1>1, <1>5, <2>3, <2>4, PushedOne
  <2> QED
    BY <1>1, <1>2, <1>4, <2>5, WorkOnly DEF IInv
<1> QED
  BY <1>1, <1>6, <1>7 DEF ProcessQueue

\* A turn of the model's choice begins.
LEMMA NewTurn ==
    ASSUME IInv, NEW t \in TurnIds, FreeTurn(t), NEW m \in Msgs,
           turns' = [turns EXCEPT ![t] = [status |-> "inProgress", msgs |-> {m}]],
           inbox' = Append(inbox, [type |-> "started", turn |-> t])
    PROVE  /\ turns' \in [TurnIds -> [status: TurnStatuses, msgs: SUBSET Msgs]]
           /\ LaterTurns(turns, turns') /\ Begun(t, turns') /\ ~Begun(t, turns)
           /\ NoticesOK(inbox', turns')
<1>1. /\ turns' \in [TurnIds -> [status: TurnStatuses, msgs: SUBSET Msgs]]
      /\ LaterTurns(turns, turns') /\ Begun(t, turns') /\ ~Begun(t, turns)
  BY DEF IInv, WorldOK, LaterTurns, Begun, FreeTurn, TurnStatuses
<1>2. NoticesOK(inbox', turns')
  <2> DEFINE note == [type |-> "started", turn |-> t]
  <2>1. note \in Notification /\ note.turn = t
    BY DEF Notification
  <2>2. NoticesOK(inbox, turns') /\ inbox' = Append(inbox, note)
    BY <1>1, LaterNotices DEF IInv
  <2> HIDE DEF note
  <2>3. /\ inbox' \in Seq(Notification) /\ Len(inbox) \in Nat /\ DOMAIN inbox = 1..Len(inbox)
        /\ DOMAIN inbox' = 1..(Len(inbox) + 1) /\ inbox'[Len(inbox) + 1] = note
        /\ \A i \in 1..Len(inbox) : inbox'[i] = inbox[i]
    BY <2>1, <2>2, AppendProperties DEF NoticesOK
  <2>4. \A i \in DOMAIN inbox' : i \in DOMAIN inbox \/ i = Len(inbox) + 1
    BY <2>3
  <2> QED
    BY <1>1, <2>1, <2>2, <2>3, <2>4 DEF NoticesOK
<1> QED
  BY <1>1, <1>2

LEMMA StartTurnStep ==
    ASSUME IInv, StartTurn
    PROVE  /\ IInv' /\ UNCHANGED processed
           /\ KeptIn(queue, processed, queue', processed') /\ NoReturn(queue, queue')
           /\ \/ UNCHANGED turns
              \/ /\ Unread(queue, processed, Head(todo).msg)
                 /\ faults' = faults + 1 \/ ~Unread(queue', processed', Head(todo).msg)
                 /\ \E t \in TurnIds : turns' = [turns EXCEPT ![t] = [status |-> "inProgress", msgs |-> {Head(todo).msg}]]
<1> DEFINE m == Head(todo).msg
<1>1. /\ todo # <<>> /\ Head(todo).op = "start"
      /\ UNCHANGED <<delivered, processed, disk, watching, heard, seen, up, finals, errors, scenario, crashes>>
  BY DEF StartTurn, Doing
<1>2. /\ m \in Msgs /\ active = NoTurn /\ Has(queue, m, "pending")
      /\ m \in Queued /\ ItemOf(m).status = "pending" /\ ItemOf(m).msg = m /\ ItemOf(m) \in QueuedItems(MaxAttempts)
  BY <1>1, AtHead, StepShapes, OnQueue DEF First, MsgOps
<1>3. \A k \in 2..Len(todo) : todo[k].op = "recover" => todo[k].msg # m
  <2>1. \A k \in 2..Len(todo) : todo[k].op = "recover" => ItemOf(todo[k].msg).status = "processing"
    BY <1>1, AtHead, OnQueue
  <2> QED
    BY <1>2, <2>1
<1>4. faults' \in Nat
  <2>1. faults' = faults \/ faults' = faults + 1
    BY Zenon DEF StartTurn, NoFault, Fault
  <2> QED
    BY <2>1 DEF IInv, WorldOK
<1>5. todo \in Seq(Step)
  BY <1>1, AtHead
<1>6. processed \subseteq Msgs /\ delivered \subseteq TurnIds /\ due \subseteq Msgs /\ timers \subseteq Msgs /\ (active = NoTurn \/ Begun(active, turns))
  BY DEF IInv, SessionOK, LocalOK
<1>7. ASSUME NEW t \in TurnIds, FreeTurn(t),
             turns' = [turns EXCEPT ![t] = [status |-> "inProgress", msgs |-> {m}]],
             inbox' = Append(inbox, [type |-> "started", turn |-> t]),
             PutItem([ItemOf(m) EXCEPT !.status = "processing", !.turn = t]),
             active' = t, todo' = <<DoMsg("begin", m)>> \o Rest, due' = due \cup {m}, UNCHANGED timers
      PROVE  IInv' /\ KeptIn(queue, processed, queue', processed') /\ NoReturn(queue, queue')
             /\ ~Unread(queue', processed', m)
  <2> DEFINE old == ItemOf(m)
             it == [old EXCEPT !.status = "processing", !.turn = t]
             x == DoMsg("begin", m)
  <2>1. /\ turns' \in [TurnIds -> [status: TurnStatuses, msgs: SUBSET Msgs]]
        /\ LaterTurns(turns, turns') /\ Begun(t, turns') /\ ~Begun(t, turns)
        /\ NoticesOK(inbox', turns')
    BY <1>2, <1>7, NewTurn
  <2>2. old.attempts < MaxAttempts
    <3>1. QueueOK(queue, processed, turns, MaxAttempts)
      BY DEF IInv, SessionOK
    <3>2. old = queue[Place(m)] /\ Place(m) \in DOMAIN queue
      BY <1>2, OnQueue
    <3>3. queue[Place(m)].status # "failed"
      BY <1>2, <3>2
    <3> QED
      BY <3>1, <3>2, <3>3 DEF QueueOK
  <2>3. PutItem(it)
    BY <1>7
  <2>4. old \in QueuedItems(MaxAttempts) /\ old.msg = m
    BY <1>2
  <2> HIDE DEF old
  <2>5. it \in QueuedItems(MaxAttempts) /\ it.msg = m /\ it.status = "processing" /\ it.turn = t /\ it.attempts < MaxAttempts
    BY <2>2, <2>4 DEF QueuedItems, ItemStatuses
  <2> HIDE DEF it
  <2>6. \A k : ~IsWaiting(queue, k, t)
    BY <2>1 DEF IsWaiting, IInv, SessionOK, QueueOK
  <2>7. /\ QueueOK(queue', processed, turns', MaxAttempts)
        /\ Has(queue', m, "processing")
        /\ \A k : k # m => Same(queue, queue', k)
        /\ KeptIn(queue, processed, queue', processed) /\ NoReturn(queue, queue')
    BY <1>2, <2>1, <2>3, <2>5, <2>6, PutStep
  <2>8. RestOK(todo, queue', turns')
    BY <1>1, <1>3, <2>1, <2>7, RestTo
  <2>9. x \in Step /\ x.op = "begin" /\ x.msg = m
    BY <1>2, StepShapes DEF MsgOps
  <2>10. todo' = <<x>> \o Tail(todo)
    BY <1>7 DEF Rest
  <2> HIDE DEF x
  <2>11. Leads(x, todo, queue', turns') /\ First(x, queue', active', processed)
    BY <1>3, <2>7, <2>9 DEF Leads, First, StepOK, Before
  <2>12. WorkOK(todo', queue', active', processed, turns')
    BY <1>1, <1>5, <2>8, <2>10, <2>11, PushedOne
  <2>13. SessionOK(queue', active', delivered', processed', turns', MaxAttempts)
    BY <1>1, <1>6, <1>7, <2>1, <2>7 DEF SessionOK
  <2>14. SessionOK(disk.queue, disk.active, disk.delivered, disk.processed, turns', MaxAttempts)
    BY <2>1, LaterSession DEF IInv
  <2>15. IInvAt(queue', active', delivered', processed', disk', todo', turns', inbox')
    BY <1>1, <2>1, <2>12, <2>13, <2>14 DEF IInvAt
  <2>16. LocalOK' /\ WorldOK'
    BY <1>1, <1>2, <1>4, <1>6, <1>7, <2>1 DEF IInv, LocalOK, WorldOK
  <2>17. ~Unread(queue', processed', m)
    BY <2>7 DEF Has, Unread
  <2> QED
    BY <1>1, <2>7, <2>15, <2>16, <2>17, Assembled
<1>8. CASE /\ RetryLater(m)
           /\ todo' = <<Do("persist")>> \o Rest
           /\ UNCHANGED <<queue, active, turns, inbox>>
  <2>1. LocalOK' /\ WorldOK'
    BY <1>1, <1>2, <1>4, <1>8 DEF IInv, LocalOK, WorldOK, RetryLater
  <2>2. RestOK(todo, queue, turns)
    BY <1>1, AtHead
  <2>3. WorkOK(todo', queue, active, processed, turns)
    BY <1>1, <1>5, <1>8, <2>2, PlainLeads, PushedOne DEF Rest
  <2>4. IInv'
    BY <1>1, <1>8, <2>1, <2>3, WorkOnly DEF IInv
  <2> QED
    BY <1>1, <1>8, <2>4, SameQueue
<1>9. ASSUME StartFailed(m), UNCHANGED active,
             turns' \in [TurnIds -> [status: TurnStatuses, msgs: SUBSET Msgs]],
             LaterTurns(turns, turns'), NoticesOK(inbox', turns')
      PROVE  IInv' /\ KeptIn(queue, processed, queue', processed') /\ NoReturn(queue, queue')
  <2> DEFINE ts == turns'
  <2>0. ItemOf(m).status # "failed" /\ LaterTurns(turns, ts)
    BY <1>2, <1>9
  <2>1. /\ QueueOK(queue', processed, ts, MaxAttempts)
        /\ due' \subseteq Msgs /\ timers' \subseteq Msgs
        /\ WorkOK(todo', queue', active, processed, ts)
        /\ KeptIn(queue, processed, queue', processed) /\ NoReturn(queue, queue')
    BY <1>1, <1>2, <1>3, <1>9, <2>0, StartFailedStep
  <2>2. SessionOK(queue', active', delivered', processed', ts, MaxAttempts)
    BY <1>1, <1>2, <1>6, <1>9, <2>1 DEF SessionOK
  <2>3. SessionOK(disk.queue, disk.active, disk.delivered, disk.processed, ts, MaxAttempts)
    BY <1>9, LaterSession DEF IInv
  <2>4. IInvAt(queue', active', delivered', processed', disk', todo', turns', inbox')
    BY <1>1, <1>9, <2>1, <2>2, <2>3 DEF IInvAt
  <2>5. LocalOK' /\ WorldOK'
    BY <1>1, <1>4, <1>9, <2>1 DEF IInv, LocalOK, WorldOK
  <2> QED
    BY <1>1, <2>1, <2>4, <2>5, Assembled
<1>10. ASSUME UNCHANGED <<turns, inbox>>
       PROVE  /\ turns' \in [TurnIds -> [status: TurnStatuses, msgs: SUBSET Msgs]]
              /\ LaterTurns(turns, turns') /\ NoticesOK(inbox', turns')
  BY <1>10 DEF IInv, WorldOK, LaterTurns
<1>11. ASSUME NEW t \in TurnIds, FreeTurn(t),
              turns' = [turns EXCEPT ![t] = [status |-> "inProgress", msgs |-> {m}]],
              inbox' = Append(inbox, [type |-> "started", turn |-> t])
       PROVE  /\ turns' \in [TurnIds -> [status: TurnStatuses, msgs: SUBSET Msgs]]
              /\ LaterTurns(turns, turns') /\ NoticesOK(inbox', turns')
  BY <1>2, <1>11, NewTurn
<1>12. Unread(queue, processed, m)
  BY <1>2, OnQueue DEF Unread, IInv, SessionOK, QueueOK, Has
<1> HIDE DEF m
<1>13. CASE /\ ~Busy /\ NoFault
            /\ \E t \in TurnIds :
               /\ FreeTurn(t)
               /\ turns' = [turns EXCEPT ![t] = [status |-> "inProgress", msgs |-> {m}]]
               /\ inbox' = Append(inbox, [type |-> "started", turn |-> t])
               /\ PutItem([ItemOf(m) EXCEPT !.status = "processing", !.turn = t])
               /\ active' = t
               /\ todo' = <<DoMsg("begin", m)>> \o Rest
            /\ due' = due \cup {m} /\ UNCHANGED timers
  <2>1. PICK t \in TurnIds :
               /\ FreeTurn(t)
               /\ turns' = [turns EXCEPT ![t] = [status |-> "inProgress", msgs |-> {m}]]
               /\ inbox' = Append(inbox, [type |-> "started", turn |-> t])
               /\ PutItem([ItemOf(m) EXCEPT !.status = "processing", !.turn = t])
               /\ active' = t
               /\ todo' = <<DoMsg("begin", m)>> \o Rest
    BY <1>13
  <2>2. IInv' /\ KeptIn(queue, processed, queue', processed') /\ NoReturn(queue, queue') /\ ~Unread(queue', processed', m)
    BY <1>7, <1>13, <2>1
  <2> QED
    BY <1>1, <1>12, <2>1, <2>2 DEF m
<1>14. CASE /\ Fault("start")
            /\ StartFailed(m)
            /\ UNCHANGED <<active, turns, inbox>>
  BY <1>1, <1>9, <1>10, <1>14
<1>15. CASE /\ ~Busy /\ Fault("lost")
            /\ \E t \in TurnIds :
                 /\ FreeTurn(t)
                 /\ turns' = [turns EXCEPT ![t] = [status |-> "inProgress", msgs |-> {m}]]
                 /\ inbox' = Append(inbox, [type |-> "started", turn |-> t])
            /\ StartFailed(m)
            /\ UNCHANGED active
  <2>1. PICK t \in TurnIds :
                 /\ FreeTurn(t)
                 /\ turns' = [turns EXCEPT ![t] = [status |-> "inProgress", msgs |-> {m}]]
                 /\ inbox' = Append(inbox, [type |-> "started", turn |-> t])
    BY <1>15
  <2>2. IInv' /\ KeptIn(queue, processed, queue', processed') /\ NoReturn(queue, queue')
    BY <1>9, <1>11, <1>15, <2>1
  <2>3. faults' = faults + 1
    BY <1>15 DEF Fault
  <2> QED
    BY <1>1, <1>12, <2>1, <2>2, <2>3 DEF m
<1> QED
  BY <1>1, <1>8, <1>13, <1>14, <1>15 DEF StartTurn, m

LEMMA BeginTurnStep ==
    ASSUME IInv, BeginTurn
    PROVE  /\ IInv' /\ UNCHANGED <<processed, turns>>
           /\ KeptIn(queue, processed, queue', processed') /\ NoReturn(queue, queue')
<1> DEFINE m == Head(todo).msg
<1>1. /\ todo # <<>> /\ Head(todo).op = "begin"
      /\ UNCHANGED <<active, delivered, processed, disk, turns, inbox, scenario>>
  BY DEF BeginTurn, Doing, world
<1>2. m \in Msgs /\ m \in Queued /\ ItemOf(m).status = "processing"
  BY <1>1, AtHead, StepShapes, OnQueue DEF First, MsgOps
<1>3. \A k \in 2..Len(todo) : todo[k].op = "recover" => todo[k].msg # m
  BY <1>1, AtHead DEF Before
<1>4. WorldOK'
  <2>1. faults' \in Nat
    <3>1. faults' = faults \/ faults' = faults + 1
      BY Zenon DEF BeginTurn, NoFault, Fault
    <3> QED
      BY <3>1 DEF IInv, WorldOK
  <2> QED
    BY <2>1 DEF IInv, WorldOK, BeginTurn, world
<1>5. todo \in Seq(Step) /\ RestOK(todo, queue, turns)
  BY <1>1, AtHead
<1> HIDE DEF m
<1>6. CASE watching' = TRUE /\ todo' = <<Do("persist")>> \o Rest /\ UNCHANGED <<queue, due, timers>>
  <2>1. LocalOK'
    BY <1>6 DEF IInv, LocalOK, BeginTurn
  <2>2. WorkOK(todo', queue, active, processed, turns)
    BY <1>1, <1>5, <1>6, PlainLeads, PushedOne DEF Rest
  <2>3. IInv'
    BY <1>1, <1>4, <1>6, <2>1, <2>2, WorkOnly DEF IInv
  <2> QED
    BY <1>1, <1>6, <2>3, SameQueue
<1>7. CASE StartFailed(m) /\ UNCHANGED watching
  <2>0. LaterTurns(turns, turns) /\ ItemOf(m).status # "failed"
    BY <1>2 DEF LaterTurns
  <2>1. /\ QueueOK(queue', processed, turns, MaxAttempts)
        /\ due' \subseteq Msgs /\ timers' \subseteq Msgs
        /\ WorkOK(todo', queue', active, processed, turns)
        /\ KeptIn(queue, processed, queue', processed) /\ NoReturn(queue, queue')
    BY <1>1, <1>2, <1>3, <1>7, <2>0, StartFailedStep
  <2>2. LocalOK'
    BY <1>7, <2>1 DEF IInv, LocalOK, BeginTurn
  <2>3. IInvAt(queue', active', delivered', processed', disk', todo', turns', inbox')
    BY <1>1, <2>1 DEF IInv, IInvAt, SessionOK
  <2> QED
    BY <1>1, <1>4, <2>1, <2>2, <2>3, Assembled
<1> QED
  BY <1>6, <1>7 DEF BeginTurn, m

LEMMA ReportStep ==
    ASSUME IInv, ReportStartFailure
    PROVE  IInv' /\ UNCHANGED <<queue, processed, turns>>
<1>1. /\ todo # <<>> /\ Head(todo).op = "error"
      /\ UNCHANGED <<queue, active, delivered, processed, disk, turns, inbox, scenario>>
  BY DEF ReportStartFailure, Doing, saved
<1>2. Head(todo).msg \in Msgs
  BY <1>1, AtHead, StepShapes DEF MsgOps
<1>3. LocalOK' /\ WorldOK'
  <2>1. faults' \in Nat
    <3>1. faults' = faults \/ faults' = faults + 1
      BY Zenon DEF ReportStartFailure, NoFault, Fault
    <3> QED
      BY <3>1 DEF IInv, WorldOK
  <2>2. errors' \subseteq TurnIds \cup Msgs
    BY <1>2 DEF IInv, WorldOK, ReportStartFailure
  <2> QED
    BY <2>1, <2>2 DEF IInv, LocalOK, WorldOK, ReportStartFailure
<1>4. WorkOK(todo', queue, active, processed, turns)
  BY <1>1, AtHead, Continued, PlainWorks DEF ReportStartFailure, Throw, Rest
<1> QED
  BY <1>1, <1>3, <1>4, WorkOnly DEF IInv

LEMMA TypingStep ==
    ASSUME IInv, StartTyping
    PROVE  IInv' /\ UNCHANGED <<queue, processed, turns>>
<1>1. /\ todo # <<>>
      /\ UNCHANGED <<queue, active, delivered, processed, disk, turns, inbox, scenario>>
  BY DEF StartTyping, Doing, saved, world
<1>2. LocalOK' /\ WorldOK'
  <2>1. faults' \in Nat
    <3>1. faults' = faults \/ faults' = faults + 1
      BY Zenon DEF StartTyping, NoFault, Fault
    <3> QED
      BY <3>1 DEF IInv, WorldOK
  <2>2. watching' \in BOOLEAN
    BY DEF IInv, LocalOK, StartTyping
  <2> QED
    BY <2>1, <2>2 DEF IInv, LocalOK, WorldOK, StartTyping, world
<1>3. WorkOK(todo', queue, active, processed, turns)
  BY <1>1, AtHead, Continued, PlainWorks DEF StartTyping, Throw, Rest
<1> QED
  BY <1>1, <1>2, <1>3, WorkOnly DEF IInv

LEMMA PersistStep ==
    ASSUME IInv, Persist \/ PersistByOthers
    PROVE  /\ IInv' /\ UNCHANGED <<queue, processed, turns>>
           /\ disk'.queue = queue /\ disk'.processed = processed
<1>1. /\ UNCHANGED <<queue, active, delivered, processed, turns, inbox, scenario>>
      /\ disk' = [queue |-> queue, active |-> active, delivered |-> delivered, processed |-> processed]
  BY DEF Persist, PersistByOthers, saved, world, budgets
<1>2. LocalOK' /\ WorldOK'
  BY DEF IInv, LocalOK, WorldOK, Persist, PersistByOthers, local, world, budgets
<1>3. WorkOK(todo', queue, active, processed, turns)
  <2>1. CASE Persist
    BY <2>1, AtHead, Continued DEF Persist, Doing, Rest
  <2>2. CASE PersistByOthers
    BY <2>2 DEF PersistByOthers, local, IInv
  <2> QED
    BY <2>1, <2>2
<1>4. IInvAt(queue', active', delivered', processed', disk', todo', turns', inbox')
  BY <1>1, <1>3 DEF IInv, IInvAt
<1> QED
  BY <1>1, <1>2, <1>4, Assembled

LEMMA TimerSteps ==
    ASSUME IInv, NEW m \in Msgs, RetryFires(m) \/ DelayPasses(m)
    PROVE  IInv' /\ UNCHANGED <<queue, processed, turns>>
<1>1. UNCHANGED <<queue, active, delivered, processed, disk, turns, inbox, scenario>>
  BY DEF RetryFires, DelayPasses, saved, world, budgets
<1>2. LocalOK' /\ WorldOK'
  BY DEF IInv, LocalOK, WorldOK, RetryFires, DelayPasses, world, budgets
<1>3. WorkOK(todo', queue, active, processed, turns)
  <2>1. CASE RetryFires(m)
    BY <2>1, PlainWorks DEF RetryFires
  <2>2. CASE DelayPasses(m)
    BY <2>2 DEF DelayPasses, IInv
  <2> QED
    BY <2>1, <2>2
<1> QED
  BY <1>1, <1>2, <1>3, WorkOnly DEF IInv

\* The inbox without its head, and what the head says.
LEMMA NextNotice ==
    ASSUME IInv, inbox # <<>>
    PROVE  NoticesOK(Tail(inbox), turns) /\ Begun(Head(inbox).turn, turns)
<1>1. inbox \in Seq(Notification) /\ \A i \in DOMAIN inbox : Begun(inbox[i].turn, turns)
  BY DEF IInv, NoticesOK
<1>2. /\ Tail(inbox) \in Seq(Notification) /\ Head(inbox) = inbox[1] /\ 1 \in DOMAIN inbox
      /\ \A i \in DOMAIN Tail(inbox) : i + 1 \in DOMAIN inbox /\ Tail(inbox)[i] = inbox[i + 1]
  <2>1. Len(inbox) \in Nat \ {0} /\ DOMAIN inbox = 1..Len(inbox)
    BY <1>1, EmptySeq
  <2>2. /\ Tail(inbox) \in Seq(Notification) /\ Head(inbox) = inbox[1] /\ DOMAIN Tail(inbox) = 1..(Len(inbox) - 1)
        /\ \A i \in 1..(Len(inbox) - 1) : Tail(inbox)[i] = inbox[i + 1]
    BY <1>1, <2>1, HeadTailProperties
  <2> QED
    BY <2>1, <2>2
<1> QED
  BY <1>1, <1>2 DEF NoticesOK

\* Works that a notification or the reconcile timer begins.
LEMMA TurnWorks ==
    ASSUME NEW q, NEW a, NEW p, NEW ts, NEW t, Begun(t, ts)
    PROVE  /\ \A op \in TurnOps : WorkOK(<<DoTurn(op, t)>>, q, a, p, ts)
           /\ WorkOK(<<DoTurn("typing", t), Do("persist")>>, q, a, p, ts)
           /\ WorkOK(<<DoTurn("failed", t), Do("queue")>>, q, a, p, ts)
           /\ WorkOK(<<DoTurn("typing", t), Do("persist"), DoTurn("hear", t)>>, q, a, p, ts)
<1> DEFINE fine(x) == x \in Step /\ StepOK(x, q, ts) /\ x.op # "recover" /\ Late(x) /\ First(x, q, a, p)
<1>1. \A op \in TurnOps : fine(DoTurn(op, t))
  BY StepShapes DEF Begun, StepOK, First, Late, TurnOps
<1>2. fine(Do("persist")) /\ fine(Do("queue"))
  BY PlainLeads, StepShapes DEF PlainOps
<1>3. ASSUME NEW x, fine(x) PROVE WorkOK(<<x>>, q, a, p, ts)
  <2> DEFINE new == <<x>>
  <2>1. new \in Seq(Step) /\ \A i \in DOMAIN new : new[i] = x
    BY <1>3
  <2> HIDE DEF new
  <2>2. new # <<>> => First(new[1], q, a, p)
    <3>1. ASSUME new # <<>> PROVE 1 \in DOMAIN new
      <4>1. Len(new) \in Nat \ {0} /\ DOMAIN new = 1..Len(new)
        BY <2>1, <3>1, EmptySeq
      <4> QED
        BY <4>1
    <3> QED
      BY <1>3, <2>1, <3>1
  <2>3. WorkOK(new, q, a, p, ts)
    BY <1>3, <2>1, <2>2, NewWork
  <2> QED
    BY <2>3 DEF new
<1>4. ASSUME NEW x, NEW y, fine(x), fine(y) PROVE WorkOK(<<x, y>>, q, a, p, ts)
  <2> DEFINE new == <<x, y>>
  <2>1. new \in Seq(Step) /\ new[1] = x /\ new[2] = y /\ DOMAIN new = {1, 2}
    BY <1>4
  <2> HIDE DEF new
  <2>2. WorkOK(new, q, a, p, ts)
    BY <1>4, <2>1, NewWork
  <2> QED
    BY <2>2 DEF new
<1>5. ASSUME NEW x, NEW y, NEW z, fine(x), fine(y), fine(z) PROVE WorkOK(<<x, y, z>>, q, a, p, ts)
  <2> DEFINE new == <<x, y, z>>
  <2>1. new \in Seq(Step) /\ new[1] = x /\ new[2] = y /\ new[3] = z /\ DOMAIN new = {1, 2, 3}
    BY <1>5
  <2> HIDE DEF new
  <2>2. WorkOK(new, q, a, p, ts)
    BY <1>5, <2>1, NewWork
  <2> QED
    BY <2>2 DEF new
<1>6. fine(DoTurn("typing", t)) /\ fine(DoTurn("failed", t)) /\ fine(DoTurn("hear", t))
  BY <1>1 DEF TurnOps
<1> HIDE DEF fine
<1> QED
  BY <1>1, <1>2, <1>3, <1>4, <1>5, <1>6

\* Concatenation, of the only tuples that meet it.
LEMMA TwoAndOne ==
    ASSUME NEW a, NEW b, NEW c
    PROVE  <<a, b>> \o <<c>> = <<a, b, c>>
<1> DEFINE S == {a, b, c}
           s == <<a, b>>
           t == <<c>>
           u == <<a, b, c>>
<1>1. s \in Seq(S) /\ t \in Seq(S) /\ u \in Seq(S) /\ Len(s) = 2 /\ Len(t) = 1 /\ Len(u) = 3
  OBVIOUS
<1>2. s[1] = a /\ s[2] = b /\ t[1] = c /\ u[1] = a /\ u[2] = b /\ u[3] = c
  OBVIOUS
<1> DEFINE st == s \o t
<1> HIDE DEF S, s, t, u
<1>3. /\ st \in Seq(S) /\ Len(st) = Len(s) + Len(t)
      /\ \A i \in 1..(Len(s) + Len(t)) : st[i] = IF i <= Len(s) THEN s[i] ELSE t[i - Len(s)]
  BY <1>1, ConcatProperties
<1> HIDE DEF st
<1>4. Len(st) = 3 /\ \A i \in 1..3 : st[i] = IF i <= 2 THEN s[i] ELSE t[i - 2]
  BY <1>1, <1>3
<1>5. st[1] = a /\ st[2] = b /\ st[3] = c
  BY <1>2, <1>4
<1>6. \A i \in 1..Len(st) : st[i] = u[i]
  BY <1>2, <1>4, <1>5
<1>7. st = u
  BY <1>1, <1>3, <1>4, <1>6, SeqEqual
<1> QED
  BY <1>7 DEF s, t, u, st

LEMMA NoticeSteps ==
    ASSUME IInv, IgnoreDelivered \/ HandleNotification \/ LoseNotification
    PROVE  IInv' /\ UNCHANGED <<queue, processed, turns>>
<1> DEFINE t == Head(inbox).turn
<1>1. /\ inbox # <<>> /\ inbox' = Tail(inbox)
      /\ UNCHANGED <<queue, delivered, processed, disk, turns, scenario>>
  BY DEF IgnoreDelivered, HandleNotification, LoseNotification, saved, budgets
<1>2. NoticesOK(inbox', turns) /\ Begun(t, turns)
  BY <1>1, NextNotice
<1>3. LocalOK' /\ WorldOK'
  <2>1. LocalOK' /\ finals' = finals /\ errors' = errors /\ crashes' = crashes
    BY DEF IInv, LocalOK, IgnoreDelivered, HandleNotification, LoseNotification, budgets, local
  <2>2. faults' \in Nat
    BY DEF IInv, WorldOK, IgnoreDelivered, HandleNotification, LoseNotification, Fault, budgets
  <2> QED
    BY <1>1, <2>1, <2>2 DEF IInv, WorldOK
<1>4. WorkOK(todo, queue, active, processed, turns)
  BY DEF IInv
<1> HIDE DEF t
<1>5. CASE IgnoreDelivered
  <2>1. CASE active' = NoTurn /\ todo' = <<Do("persist")>>
    <3>1. WorkOK(todo', queue, active', processed, turns)
      BY <2>1, PlainWorks
    <3> QED
      BY <1>1, <1>2, <1>3, <2>1, <3>1, WorkOnly
  <2>2. CASE UNCHANGED <<active, todo>>
    BY <1>1, <1>2, <1>3, <1>4, <2>2, WorkOnly
  <2> QED
    BY <1>5, <2>1, <2>2 DEF IgnoreDelivered
<1>6. CASE HandleNotification
  <2>1. active' = active \/ active' = t
    BY <1>6 DEF HandleNotification, t
  <2>2. WorkOK(todo', queue, active', processed, turns)
    <3>1. \/ todo' = <<DoTurn("typing", t), Do("persist")>>
          \/ todo' = <<DoTurn("typing", t), Do("persist")>> \o <<DoTurn("hear", t)>>
          \/ todo' = <<DoTurn("hear", t)>>
          \/ todo' = <<DoTurn("final", t)>>
      BY <1>6 DEF HandleNotification, t
    <3>2. <<DoTurn("typing", t), Do("persist")>> \o <<DoTurn("hear", t)>>
            = <<DoTurn("typing", t), Do("persist"), DoTurn("hear", t)>>
      BY TwoAndOne
    <3>3. "hear" \in TurnOps /\ "final" \in TurnOps
      BY DEF TurnOps
    <3> QED
      BY <1>2, <3>1, <3>2, <3>3, TurnWorks
  <2> QED
    BY <1>1, <1>2, <1>3, <2>1, <2>2, WorkOnly
<1>7. CASE LoseNotification
  <2>1. UNCHANGED <<active, todo>>
    BY <1>7 DEF LoseNotification, saved, local
  <2> QED
    BY <1>1, <1>2, <1>3, <1>4, <2>1, WorkOnly
<1> QED
  BY <1>5, <1>6, <1>7

LEMMA HearStep ==
    ASSUME IInv, HearAnswer
    PROVE  IInv' /\ UNCHANGED <<queue, processed, turns>>
<1>1. /\ todo # <<>> /\ Head(todo).op = "hear"
      /\ UNCHANGED <<queue, active, delivered, processed, disk, turns, inbox, scenario>>
  BY DEF HearAnswer, Doing, saved, world, budgets
<1>2. Head(todo).turn \in TurnIds
  BY <1>1, AtHead, StepShapes DEF TurnOps
<1>3. LocalOK' /\ WorldOK'
  BY <1>2 DEF IInv, LocalOK, WorldOK, HearAnswer, world, budgets
<1>4. WorkOK(todo', queue, active, processed, turns)
  BY <1>1, AtHead, Continued DEF HearAnswer, Rest
<1> QED
  BY <1>1, <1>3, <1>4, WorkOnly DEF IInv

\* How the faults are counted, whatever fails.
LEMMA FaultsCounted ==
    ASSUME IInv, faults' = faults \/ faults' = faults + 1
    PROVE  faults' \in Nat
BY DEF IInv, WorldOK

LEMMA PostStep ==
    ASSUME IInv, PostAnswer
    PROVE  /\ IInv' /\ UNCHANGED <<processed, turns>>
           /\ KeptIn(queue, processed, queue', processed') /\ NoReturn(queue, queue')
<1> DEFINE t == Head(todo).turn
<1>1. /\ todo # <<>> /\ Head(todo).op \in {"final", "read"}
      /\ UNCHANGED <<processed, disk, due, timers, seen, up, turns, inbox, errors, scenario, crashes>>
  BY DEF PostAnswer, Doing
<1>2. Begun(t, turns) /\ t \in TurnIds
  BY <1>1, AtHead DEF StepOK, Begun
<1>3. \A k \in 2..Len(todo) : todo[k].op = "recover" => ~IsWaiting(queue, todo[k].msg, t)
  BY <1>1, AtHead DEF Before
<1>4. todo \in Seq(Step) /\ RestOK(todo, queue, turns)
  BY <1>1, AtHead
<1>5. faults' = faults \/ faults' = faults + 1
  BY Zenon DEF PostAnswer, NothingToPost, NoFault, Fault
<1> HIDE DEF t
<1>6. LocalOK' /\ WorldOK' /\ delivered' \subseteq TurnIds
  <2>1. finals' \in [TurnIds -> Nat]
    <3>1. finals' = finals \/ finals' = [finals EXCEPT ![t] = @ + 1]
      BY Zenon DEF PostAnswer, Post, t
    <3>2. finals \in [TurnIds -> Nat]
      BY DEF IInv, WorldOK
    <3> QED
      BY <1>2, <3>1, <3>2
  <2>2. delivered' \subseteq TurnIds
    BY <1>2 DEF IInv, SessionOK, PostAnswer, Post, t
  <2>3. heard' \subseteq TurnIds /\ watching' \in BOOLEAN
    BY DEF IInv, LocalOK, PostAnswer
  <2> QED
    BY <1>1, <1>5, <2>1, <2>2, <2>3, FaultsCounted DEF IInv, LocalOK, WorldOK
<1>7. CASE todo' = <<DoTurn("retire", t)>> \o Rest /\ active' = t /\ UNCHANGED queue
  <2>1. WorkOK(todo', queue, active', processed, turns)
    <3>1. Leads(DoTurn("retire", t), todo, queue, turns) /\ First(DoTurn("retire", t), queue, active', processed)
      BY <1>2, <1>3, TurnLeads DEF TurnOps
    <3> QED
      BY <1>1, <1>4, <1>7, <3>1, PushedOne DEF Rest
  <2>2. IInvAt(queue', active', delivered', processed', disk', todo', turns', inbox')
    BY <1>1, <1>2, <1>6, <1>7, <2>1 DEF IInv, IInvAt, SessionOK
  <2> QED
    BY <1>1, <1>6, <1>7, <2>2, Assembled, SameQueue
<1>8. CASE /\ queue' = [i \in DOMAIN queue |->
                            IF queue[i].msg \in ProcessingFor(t)
                            THEN [queue[i] EXCEPT !.status = "failed"] ELSE queue[i]]
           /\ active' = NoTurn
           /\ todo' = <<Do("persist"), Do("queue")>> \o Rest
  <2>1. /\ QueueOK(queue', processed, turns, MaxAttempts)
        /\ \A k : ~IsWaiting(queue, k, t) => Same(queue, queue', k)
        /\ KeptIn(queue, processed, queue', processed) /\ NoReturn(queue, queue')
    BY <1>8, FailItemsStep
  <2>2. RestOK(todo, queue', turns)
    <3>1. LaterTurns(turns, turns)
      BY DEF LaterTurns
    <3> QED
      BY <1>1, <1>3, <2>1, <3>1, RestTo
  <2>3. WorkOK(todo', queue', active', processed, turns)
    BY <1>1, <1>4, <1>8, <2>2, PlainLeads, PushedTwo DEF Rest
  <2>4. IInvAt(queue', active', delivered', processed', disk', todo', turns', inbox')
    BY <1>1, <1>6, <1>8, <2>1, <2>3 DEF IInv, IInvAt, SessionOK
  <2> QED
    BY <1>1, <1>6, <2>1, <2>4, Assembled
<1> QED
  BY <1>7, <1>8 DEF PostAnswer, t

LEMMA RetireTurnStep ==
    ASSUME IInv, RetireTurn
    PROVE  /\ IInv' /\ UNCHANGED turns
           /\ KeptIn(queue, processed, queue', processed') /\ NoReturn(queue, queue')
<1> DEFINE t == Head(todo).turn
<1>1. /\ todo # <<>> /\ Head(todo).op = "retire" /\ RetireItem(t)
      /\ active' = active \/ active' = NoTurn
      /\ todo' = <<Do("persist"), Do("queue")>> \o Rest
      /\ UNCHANGED <<delivered, disk, turns, inbox, scenario>>
  BY DEF RetireTurn, Doing, world, budgets
<1>2. \A k \in 2..Len(todo) : todo[k].op = "recover" => ~IsWaiting(queue, todo[k].msg, t)
  BY <1>1, AtHead DEF Before
<1>3. LocalOK' /\ WorldOK'
  BY DEF IInv, LocalOK, WorldOK, RetireTurn, world, budgets
<1> HIDE DEF t
<1>4. /\ QueueOK(queue', processed', turns, MaxAttempts) /\ processed' \subseteq Msgs
      /\ \A k : ~IsWaiting(queue, k, t) => Same(queue, queue', k)
      /\ KeptIn(queue, processed, queue', processed') /\ NoReturn(queue, queue')
  BY <1>1, RetireStep
<1>5. RestOK(todo, queue', turns) /\ todo \in Seq(Step)
  <2>1. LaterTurns(turns, turns)
    BY DEF LaterTurns
  <2> QED
    BY <1>1, <1>2, <1>4, <2>1, RestTo, AtHead
<1>6. WorkOK(todo', queue', active', processed', turns)
  BY <1>1, <1>5, PlainLeads, PushedTwo DEF Rest
<1>7. IInvAt(queue', active', delivered', processed', disk', todo', turns', inbox')
  BY <1>1, <1>4, <1>6 DEF IInv, IInvAt, SessionOK
<1> QED
  BY <1>1, <1>3, <1>4, <1>7, Assembled

LEMMA FailTurnStep ==
    ASSUME IInv, FailTurn
    PROVE  /\ IInv' /\ UNCHANGED turns
           /\ KeptIn(queue, processed, queue', processed') /\ NoReturn(queue, queue')
<1> DEFINE t == Head(todo).turn
<1>1. /\ todo # <<>> /\ Head(todo).op = "failed"
      /\ UNCHANGED <<delivered, disk, turns, inbox, scenario>>
  BY DEF FailTurn, Doing
<1>2. Begun(t, turns) /\ t \in TurnIds
  BY <1>1, AtHead DEF StepOK, Begun
<1>3. \A k \in 2..Len(todo) : todo[k].op = "recover" => ~IsWaiting(queue, todo[k].msg, t)
  BY <1>1, AtHead DEF Before
<1>4. faults' = faults \/ faults' = faults + 1
  BY Zenon DEF FailTurn, NoFault, Fault
<1> HIDE DEF t
<1>5. LocalOK' /\ WorldOK'
  <2>1. errors' \subseteq TurnIds \cup Msgs /\ watching' \in BOOLEAN
    BY <1>2 DEF IInv, LocalOK, WorldOK, FailTurn, t
  <2> QED
    BY <1>4, <2>1, FaultsCounted DEF IInv, LocalOK, WorldOK, FailTurn
<1>6. CASE RetireItem(t) /\ active' = NoTurn /\ todo' = <<Do("persist")>> \o Rest
  <2>1. /\ QueueOK(queue', processed', turns, MaxAttempts) /\ processed' \subseteq Msgs
        /\ \A k : ~IsWaiting(queue, k, t) => Same(queue, queue', k)
        /\ KeptIn(queue, processed, queue', processed') /\ NoReturn(queue, queue')
    BY <1>6, RetireStep
  <2>2. RestOK(todo, queue', turns) /\ todo \in Seq(Step)
    <3>1. LaterTurns(turns, turns)
      BY DEF LaterTurns
    <3> QED
      BY <1>1, <1>3, <2>1, <3>1, RestTo, AtHead
  <2>3. WorkOK(todo', queue', active', processed', turns)
    BY <1>1, <1>6, <2>2, PlainLeads, PushedOne DEF Rest
  <2>4. IInvAt(queue', active', delivered', processed', disk', todo', turns', inbox')
    BY <1>1, <1>6, <2>1, <2>3 DEF IInv, IInvAt, SessionOK
  <2> QED
    BY <1>1, <1>5, <2>1, <2>4, Assembled
<1>7. CASE active' = t /\ todo' = <<>> /\ UNCHANGED <<queue, processed>>
  <2>1. WorkOK(todo', queue, active', processed, turns)
    BY <1>7, PlainWorks
  <2>2. NoticesOK(inbox', turns)
    BY <1>1 DEF IInv
  <2>3. IInv'
    BY <1>1, <1>2, <1>5, <1>7, <2>1, <2>2, WorkOnly
  <2> QED
    BY <1>1, <1>7, <2>3, SameQueue
<1> QED
  BY <1>6, <1>7 DEF FailTurn, Throw, t

LEMMA ReconcileStep ==
    ASSUME IInv, ReconcileActiveTurn
    PROVE  IInv' /\ UNCHANGED <<queue, processed, turns>>
<1>1. UNCHANGED <<queue, active, delivered, processed, disk, turns, inbox, scenario>>
  BY DEF ReconcileActiveTurn, saved, world
<1>2. faults' = faults \/ faults' = faults + 1
  BY Zenon DEF ReconcileActiveTurn, NoFault, Fault
<1>3. LocalOK' /\ WorldOK'
  <2>1. watching' \in BOOLEAN
    BY DEF ReconcileActiveTurn, Rearm
  <2> QED
    BY <1>2, <2>1, FaultsCounted DEF IInv, LocalOK, WorldOK, ReconcileActiveTurn, world
<1>4. WorkOK(todo', queue, active, processed, turns)
  <2>1. CASE UNCHANGED todo
    BY <2>1 DEF IInv
  <2>2. CASE active # NoTurn /\ todo' = <<DoTurn("read", active)>>
    BY <2>2, TurnWorks DEF IInv, SessionOK, TurnOps
  <2>3. CASE active # NoTurn /\ todo' = <<DoTurn("failed", active), Do("queue")>>
    BY <2>3, TurnWorks DEF IInv, SessionOK
  <2> QED
    BY <2>1, <2>2, <2>3 DEF ReconcileActiveTurn
<1> QED
  BY <1>1, <1>3, <1>4, WorkOnly DEF IInv

\* Notifications of a turn that join the inbox.
LEMMA ToldMore ==
    ASSUME IInv, NEW kinds \in Seq({"started", "answer", "ended"}), NEW t, NEW ts,
           LaterTurns(turns, ts), Begun(t, ts), Tell(kinds, t)
    PROVE  NoticesOK(inbox', ts)
<1> DEFINE new == [i \in DOMAIN kinds |-> [type |-> kinds[i], turn |-> t]]
           all == inbox \o new
<1>1. NoticesOK(inbox, ts) /\ t \in TurnIds
  BY LaterNotices DEF IInv, Begun
<1>2. new \in Seq(Notification) /\ \A i \in DOMAIN new : new[i].turn = t
  <2>1. new \in [1..Len(kinds) -> Notification] /\ Len(kinds) \in Nat
    BY <1>1 DEF Notification
  <2>2. new \in Seq(Notification)
    BY <2>1, SeqDef
  <2> QED
    BY <2>2
<1>3. inbox' = inbox \/ inbox' = all
  BY DEF Tell
<1> HIDE DEF new
<1>4. NoticesOK(all, ts)
  <2>1. inbox \in Seq(Notification) /\ Len(inbox) \in Nat /\ DOMAIN inbox = 1..Len(inbox)
        /\ Len(new) \in Nat /\ DOMAIN new = 1..Len(new)
    BY <1>1, <1>2 DEF NoticesOK
  <2>2. /\ all \in Seq(Notification) /\ DOMAIN all = 1..(Len(inbox) + Len(new))
        /\ \A i \in 1..(Len(inbox) + Len(new)) : all[i] = IF i <= Len(inbox) THEN inbox[i] ELSE new[i - Len(inbox)]
    BY <1>2, <2>1, ConcatProperties
  <2> HIDE DEF all
  <2>3. ASSUME NEW i \in DOMAIN all PROVE Begun(all[i].turn, ts)
    <3>1. CASE i <= Len(inbox)
      BY <1>1, <2>1, <2>2, <3>1 DEF NoticesOK
    <3>2. CASE ~(i <= Len(inbox))
      <4>1. i - Len(inbox) \in DOMAIN new
        BY <2>1, <2>2, <3>2
      <4> QED
        BY <1>2, <2>2, <3>2, <4>1
    <3> QED
      BY <3>1, <3>2
  <2> QED
    BY <2>2, <2>3 DEF NoticesOK
<1> QED
  BY <1>1, <1>3, <1>4

\* A turn begins or ends without the runner.
LEMMA WorldStep ==
    ASSUME IInv, LocalOK', WorldOK', LaterTurns(turns, turns'), NoticesOK(inbox', turns'),
           UNCHANGED <<queue, active, delivered, processed, disk, todo, scenario>>
    PROVE  IInv'
<1>1. SessionOK(queue, active, delivered, processed, turns', MaxAttempts)
  BY LaterSession DEF IInv
<1>2. SessionOK(disk.queue, disk.active, disk.delivered, disk.processed, turns', MaxAttempts)
  BY LaterSession DEF IInv
<1>3. WorkOK(todo, queue, active, processed, turns')
  BY LaterWork DEF IInv
<1>4. IInvAt(queue', active', delivered', processed', disk', todo', turns', inbox')
  BY <1>1, <1>2, <1>3 DEF IInvAt
<1> QED
  BY <1>4, Assembled

LEMMA FinishStep ==
    ASSUME IInv, NEW t \in TurnIds, FinishTurn(t)
    PROVE  /\ IInv' /\ UNCHANGED <<queue, processed>>
           /\ \A u \in TurnIds : turns'[u].msgs = turns[u].msgs
<1>1. UNCHANGED <<queue, active, delivered, processed, disk, todo, scenario>> /\ turns[t].status = "inProgress"
  BY DEF FinishTurn, saved, local, budgets
<1>2. LocalOK'
  BY DEF IInv, LocalOK, FinishTurn, local
<1>3. ASSUME NEW status \in {"completed", "failed"}, turns' = [turns EXCEPT ![t].status = status],
             NEW kinds \in Seq({"started", "answer", "ended"}), Tell(kinds, t)
      PROVE  IInv' /\ \A u \in TurnIds : turns'[u].msgs = turns[u].msgs
  <2>1. /\ turns' \in [TurnIds -> [status: TurnStatuses, msgs: SUBSET Msgs]]
        /\ LaterTurns(turns, turns') /\ Begun(t, turns')
        /\ \A u \in TurnIds : turns'[u].msgs = turns[u].msgs
    BY <1>1, <1>3 DEF IInv, WorldOK, LaterTurns, Begun, TurnStatuses
  <2>2. WorldOK'
    BY <2>1 DEF IInv, WorldOK, FinishTurn, budgets
  <2> DEFINE ts == turns'
  <2>3. LaterTurns(turns, ts) /\ Begun(t, ts)
    BY <2>1
  <2> HIDE DEF ts
  <2>4. NoticesOK(inbox', ts)
    BY <1>3, <2>3, ToldMore
  <2> QED
    BY <1>1, <1>2, <2>1, <2>2, <2>4, WorldStep DEF ts
<1>4. <<"answer", "ended">> \in Seq({"started", "answer", "ended"}) /\ <<"ended">> \in Seq({"started", "answer", "ended"})
  OBVIOUS
<1> QED
  BY <1>1, <1>3, <1>4 DEF FinishTurn

LEMMA ElsewhereStep ==
    ASSUME IInv, NEW t \in TurnIds, StartTurnElsewhere(t)
    PROVE  /\ IInv' /\ UNCHANGED <<queue, processed>>
           /\ \A u \in TurnIds : turns'[u].msgs = turns[u].msgs
<1>1. UNCHANGED <<queue, active, delivered, processed, disk, todo, scenario>> /\ Tell(<<"started">>, t)
  BY DEF StartTurnElsewhere, saved, local
<1>2. LocalOK'
  BY DEF IInv, LocalOK, StartTurnElsewhere, local
<1>3. /\ turns' \in [TurnIds -> [status: TurnStatuses, msgs: SUBSET Msgs]]
      /\ LaterTurns(turns, turns') /\ Begun(t, turns')
      /\ \A u \in TurnIds : turns'[u].msgs = turns[u].msgs
  BY DEF IInv, WorldOK, LaterTurns, Begun, TurnStatuses, StartTurnElsewhere
<1>4. WorldOK'
  BY <1>3 DEF IInv, WorldOK, StartTurnElsewhere
<1> DEFINE ts == turns'
           kinds == <<"started">>
<1>5. LaterTurns(turns, ts) /\ Begun(t, ts) /\ kinds \in Seq({"started", "answer", "ended"}) /\ Tell(kinds, t)
  BY <1>1, <1>3
<1> HIDE DEF ts, kinds
<1>6. NoticesOK(inbox', ts)
  BY <1>5, ToldMore
<1> QED
  BY <1>1, <1>2, <1>3, <1>4, <1>6, WorldStep DEF ts

LEMMA CrashStep ==
    ASSUME IInv, Crash
    PROVE  /\ IInv' /\ UNCHANGED <<turns, disk, faults>> /\ crashes' = crashes + 1
           /\ queue' = disk.queue /\ processed' = disk.processed
<1>1. /\ queue' = disk.queue /\ active' = disk.active /\ delivered' = disk.delivered /\ processed' = disk.processed
      /\ todo' = <<>> /\ inbox' = <<>> /\ crashes' = crashes + 1
      /\ UNCHANGED <<disk, turns, scenario, faults>>
  BY DEF Crash
<1>2. LocalOK' /\ WorldOK'
  <2>1. LocalOK'
    BY DEF IInv, LocalOK, Crash
  <2>2. crashes' \in Nat
    BY <1>1 DEF IInv, WorldOK
  <2> QED
    BY <2>1, <2>2 DEF IInv, WorldOK, Crash
<1>3. WorkOK(todo', queue', active', processed', turns)
  BY <1>1, PlainWorks
<1>4. NoticesOK(inbox', turns)
  <2> DEFINE none == <<>>
  <2>1. none \in Seq(Notification) /\ DOMAIN none = {}
    OBVIOUS
  <2> HIDE DEF none
  <2>2. NoticesOK(none, turns)
    BY <2>1 DEF NoticesOK
  <2> QED
    BY <1>1, <2>2 DEF none
<1>5. IInvAt(queue', active', delivered', processed', disk', todo', turns', inbox')
  BY <1>1, <1>3, <1>4 DEF IInv, IInvAt
<1> QED
  BY <1>1, <1>2, <1>5, Assembled

LEMMA BootStep ==
    ASSUME IInv, Boot
    PROVE  IInv' /\ UNCHANGED <<queue, processed, turns>>
<1>1. UNCHANGED <<queue, active, delivered, processed, disk, turns, inbox, scenario>>
  BY DEF Boot, saved, world, budgets
<1>2. LocalOK' /\ WorldOK'
  BY DEF IInv, LocalOK, WorldOK, Boot, world, budgets
<1>3. WorkOK(todo', queue, active, processed, turns)
  <2> DEFINE new == <<Do("cleanup"), Do("recoverItems"), Do("recoverActive"), Do("queue")>>
             fine(x) == StepOK(x, queue, turns) /\ x.op # "recover" /\ Late(x) /\ First(x, queue, active, processed)
  <2>1. \A op \in PlainOps : Do(op) \in Step /\ fine(Do(op))
    BY StepShapes DEF PlainOps, StepOK, Late, First
  <2> HIDE DEF fine
  <2>2. new \in Seq(Step) /\ \A i \in DOMAIN new : fine(new[i])
    BY <2>1 DEF PlainOps
  <2>3. 1 \in DOMAIN new
    OBVIOUS
  <2> HIDE DEF new
  <2>4. WorkOK(new, queue, active, processed, turns)
    BY <2>2, <2>3, NewWork DEF fine
  <2> QED
    BY <2>4 DEF Boot, new
<1> QED
  BY <1>1, <1>2, <1>3, WorkOnly DEF IInv

LEMMA CleanupStep ==
    ASSUME IInv, CleanupDelivered
    PROVE  IInv' /\ UNCHANGED <<queue, processed, turns>>
<1>1. todo # <<>> /\ UNCHANGED <<queue, delivered, processed, disk, turns, inbox, scenario>>
  BY DEF CleanupDelivered, Doing, world, budgets
<1>2. LocalOK' /\ WorldOK'
  BY DEF IInv, LocalOK, WorldOK, CleanupDelivered, world, budgets
<1>3. todo \in Seq(Step) /\ RestOK(todo, queue, turns)
  BY <1>1, AtHead
<1>4. active' = active \/ active' = NoTurn
  BY DEF CleanupDelivered
<1>5. WorkOK(todo', queue, active', processed, turns)
  <2>1. CASE todo' = <<Do("persist")>> \o Rest
    BY <1>1, <1>3, <2>1, PlainLeads, PushedOne DEF Rest
  <2>2. CASE todo' = Rest
    BY <1>1, <1>3, <2>2, Continued DEF Rest
  <2> QED
    BY <2>1, <2>2 DEF CleanupDelivered
<1> QED
  BY <1>1, <1>2, <1>4, <1>5, WorkOnly DEF IInv

\* The queue is finite, and so is what it holds.
LEMMA QueueIsFinite ==
    ASSUME IInv
    PROVE  IsFiniteSet(Queued) /\ Cardinality(Queued) = Len(queue)
<1> DEFINE l == Len(queue)
           f == [i \in 1..l |-> queue[i].msg]
<1>1. l \in Nat /\ DOMAIN queue = 1..l /\ \A i, j \in DOMAIN queue : i # j => queue[i].msg # queue[j].msg
  BY DEF IInv, SessionOK, QueueOK
<1> HIDE DEF l
<1>2. f \in Bijection(1..l, Queued)
  <2>1. f \in [1..l -> Queued]
    BY <1>1 DEF Queued
  <2>2. \A i, j \in 1..l : f[i] = f[j] => i = j
    BY <1>1
  <2>3. \A m \in Queued : \E i \in 1..l : f[i] = m
    BY <1>1 DEF Queued
  <2> HIDE DEF f
  <2> QED
    BY <1>1, <2>1, <2>2, <2>3 DEF Bijection, Injection, IsInjective, Surjection
<1>3. IsFiniteSet(1..l) /\ Cardinality(1..l) = l
  BY <1>1, FS_Interval
<1>4. IsFiniteSet(Queued) /\ Cardinality(1..l) = Cardinality(Queued)
  <2>1. ExistsBijection(1..l, Queued)
    BY <1>2 DEF ExistsBijection
  <2> QED
    BY <1>3, <2>1, FS_Bijection
<1> QED
  BY <1>3, <1>4 DEF l

LEMMA RecoverItemsStep ==
    ASSUME IInv, RecoverItems
    PROVE  IInv' /\ UNCHANGED <<queue, processed, turns>>
<1> DEFINE items == {m \in Queued : ItemOf(m).status = "processing"}
           n == Cardinality(items)
<1>1. /\ todo # <<>> /\ Head(todo).op = "recoverItems"
      /\ UNCHANGED <<queue, active, delivered, processed, disk, turns, inbox, scenario>>
  BY DEF RecoverItems, Doing, saved, world, budgets
<1>2. LocalOK' /\ WorldOK'
  BY DEF IInv, LocalOK, WorldOK, RecoverItems, world, budgets
<1>3. todo \in Seq(Step) /\ RestOK(todo, queue, turns)
  BY <1>1, AtHead
<1>4. \A k \in 2..Len(todo) : todo[k].op # "recover"
  BY <1>1, AtHead DEF Before
<1>5. n \in Nat
  BY QueueIsFinite, FS_Subset, FS_CardinalityType
<1>6. \A m \in items : m \in Msgs /\ Has(queue, m, "processing")
  BY OnQueue
<1> HIDE DEF items, n
<1>7. CASE todo' = Rest
  BY <1>1, <1>2, <1>3, <1>7, Continued, WorkOnly DEF Rest, IInv
<1>8. ASSUME NEW order \in [1..n -> items],
             \A i, j \in 1..n : i < j => Place(order[i]) < Place(order[j]),
             todo' = [i \in 1..n |-> DoMsg("recover", order[i])] \o <<Do("persist")>> \o Rest
      PROVE  IInv'
  <2> DEFINE rec == [i \in 1..n |-> DoMsg("recover", order[i])]
             last == <<Do("persist")>>
             pre == rec \o last
  <2>1. \A i \in 1..n : rec[i] \in Step /\ rec[i].op = "recover" /\ rec[i].msg = order[i]
    BY <1>6, StepShapes DEF MsgOps
  <2>2. \A i \in 1..n : order[i] \in items
    OBVIOUS
  <2>3. \A i, j \in 1..n : i < j => order[i] # order[j]
    <3>1. \A m \in items : Place(m) \in Nat
      <4>1. \A m \in items : Place(m) \in DOMAIN queue
        BY <1>6, OnQueue
      <4>2. DOMAIN queue = 1..Len(queue) /\ Len(queue) \in Nat
        BY QueueIndex DEF IInv, SessionOK
      <4> QED
        BY <4>1, <4>2
    <3> QED
      BY <1>8, <2>2, <3>1
  <2>4. last \in Seq(Step) /\ Len(last) = 1 /\ last[1] = Do("persist") /\ Do("persist") \in Step /\ Do("persist").op = "persist"
    BY StepShapes DEF PlainOps
  <2>5. rec \in Seq(Step) /\ Len(rec) = n /\ DOMAIN rec = 1..n
    <3>1. rec \in [1..n -> Step] /\ DOMAIN rec = 1..n
      BY <2>1
    <3>2. rec \in Seq(Step)
      BY <1>5, <3>1, SeqDef
    <3> HIDE DEF rec
    <3> QED
      BY <1>5, <3>1, <3>2, LenProperties
  <2> HIDE DEF rec, last
  <2>6. /\ pre \in Seq(Step) /\ DOMAIN pre = 1..(n + 1)
        /\ \A i \in 1..(n + 1) : pre[i] = IF i <= n THEN rec[i] ELSE last[i - n]
    <3>1. pre \in Seq(Step) /\ Len(pre) = n + 1
      <4>1. pre \in Seq(Step) /\ Len(pre) = Len(rec) + Len(last)
        BY <2>4, <2>5, ConcatProperties
      <4> HIDE DEF pre
      <4> QED
        BY <2>4, <2>5, <4>1
    <3>2. \A i \in 1..(Len(rec) + Len(last)) : pre[i] = IF i <= Len(rec) THEN rec[i] ELSE last[i - Len(rec)]
      BY <2>4, <2>5, ConcatProperties
    <3> HIDE DEF pre
    <3> QED
      BY <2>4, <2>5, <3>1, <3>2
  <2> HIDE DEF pre
  <2>7. \A i \in DOMAIN pre : (i \in 1..n /\ pre[i] = rec[i]) \/ (i = n + 1 /\ pre[i] = Do("persist"))
    <3>1. ASSUME NEW i \in 1..(n + 1), ~(i <= n) PROVE i = n + 1 /\ i - n = 1
      BY <1>5, <3>1
    <3> QED
      BY <1>5, <2>4, <2>6, <3>1
  <2>8. \A i \in DOMAIN pre : Leads(pre[i], todo, queue, turns) /\ Late(pre[i])
    <3>1. \A i \in 1..n : StepOK(rec[i], queue, turns) /\ Late(rec[i])
      BY <1>6, <2>1, <2>2 DEF StepOK, Late
    <3>2. StepOK(Do("persist"), queue, turns) /\ Late(Do("persist"))
      BY <2>4 DEF StepOK, Late
    <3> QED
      BY <1>4, <2>7, <3>1, <3>2 DEF Leads, Before
  <2>9. ASSUME NEW i \in DOMAIN pre, NEW j \in DOMAIN pre, i < j PROVE Before(pre[i], pre[j], queue)
    <3>1. CASE j = n + 1 /\ pre[j] = Do("persist")
      BY <2>4, <3>1 DEF Before
    <3>2. CASE j \in 1..n /\ pre[j] = rec[j]
      <4>1. i \in 1..n /\ pre[i] = rec[i]
        BY <1>5, <2>7, <2>9, <3>2
      <4>2. rec[i].op = "recover" /\ rec[i].msg # rec[j].msg
        BY <2>1, <2>3, <2>9, <3>2, <4>1
      <4> QED
        BY <3>2, <4>1, <4>2 DEF Before
    <3> QED
      BY <2>7, <3>1, <3>2
  <2>10. pre # <<>> => First(pre[1], queue, active, processed)
    <3>1. 1 \in DOMAIN pre
      BY <1>5, <2>6
    <3> QED
      BY <2>8, <3>1 DEF First, Late
  <2>11. WorkOK(pre \o Tail(todo), queue, active, processed, turns)
    BY <1>1, <1>3, <2>6, <2>8, <2>9, <2>10, Pushed
  <2>12. WorkOK(todo', queue, active, processed, turns)
    BY <1>8, <2>11 DEF pre, rec, last, Rest
  <2> QED
    BY <1>1, <1>2, <2>12, WorkOnly DEF IInv
<1> QED
  BY <1>1, <1>7, <1>8 DEF RecoverItems, items, n

LEMMA RecoverItemStep ==
    ASSUME IInv, RecoverItem
    PROVE  /\ IInv' /\ UNCHANGED <<processed, turns>>
           /\ KeptIn(queue, processed, queue', processed')
           /\ NoReturn(queue, queue') \/ faults' = faults + 1
<1> DEFINE m == Head(todo).msg
           old == ItemOf(m)
           t == old.turn
<1>1. /\ todo # <<>> /\ Head(todo).op = "recover"
      /\ UNCHANGED <<delivered, processed, disk, watching, heard, seen, up, turns, inbox, finals, errors, scenario, crashes>>
  BY DEF RecoverItem, Doing, world
<1>2. /\ m \in Msgs /\ m \in Queued /\ old.status = "processing" /\ old \in QueuedItems(MaxAttempts) /\ old.msg = m
  BY <1>1, AtHead, OnQueue, StepShapes DEF StepOK, MsgOps
<1>3. \A k \in 2..Len(todo) : todo[k].op = "recover" => todo[k].msg # m
  BY <1>1, AtHead DEF Before
<1>4. old.attempts < MaxAttempts /\ Begun(t, turns)
  <2>1. old = queue[Place(m)] /\ Place(m) \in DOMAIN queue
    BY <1>2, OnQueue
  <2>2. QueueOK(queue, processed, turns, MaxAttempts)
    BY DEF IInv, SessionOK
  <2>3. queue[Place(m)].status = "processing"
    BY <1>2, <2>1
  <2> QED
    BY <2>1, <2>2, <2>3 DEF QueueOK
<1>5. \A k \in 2..Len(todo) : todo[k].op = "recover" => ~IsWaiting(queue, todo[k].msg, t)
  <2>1. m \in ProcessingFor(t)
    BY <1>2 DEF ProcessingFor
  <2> QED
    BY <1>3, <2>1, OnQueue
<1>6. todo \in Seq(Step) /\ RestOK(todo, queue, turns)
  BY <1>1, AtHead
<1>7. faults' = faults \/ faults' = faults + 1
  BY Zenon DEF RecoverItem, NoFault, Fault
<1>8. WorldOK'
  BY <1>1, <1>7, FaultsCounted DEF IInv, WorldOK
<1> HIDE DEF t, old, m
<1>9. CASE /\ faults' = faults + 1
           /\ PutItem([old EXCEPT !.status = "pending", !.turn = NoTurn])
           /\ RetryLater(m)
           /\ todo' = Rest /\ UNCHANGED active
  <2> DEFINE it == [old EXCEPT !.status = "pending", !.turn = NoTurn]
  <2>1. it \in QueuedItems(MaxAttempts) /\ it.msg = m /\ it.status = "pending" /\ it.turn = NoTurn /\ it.attempts < MaxAttempts
    BY <1>2, <1>4 DEF QueuedItems, ItemStatuses
  <2>2. PutItem(it)
    BY <1>9
  <2> HIDE DEF it
  <2>3. /\ QueueOK(queue', processed, turns, MaxAttempts)
        /\ \A k : k # m => Same(queue, queue', k)
        /\ KeptIn(queue, processed, queue', processed)
    <3>1. LaterTurns(turns, turns)
      BY DEF LaterTurns
    <3>2. it.msg \in Queued
      BY <1>2, <2>1
    <3> QED
      BY <2>1, <2>2, <3>1, <3>2, PutStep
  <2>4. RestOK(todo, queue', turns)
    <3>1. LaterTurns(turns, turns)
      BY DEF LaterTurns
    <3> QED
      BY <1>1, <1>3, <2>3, <3>1, RestTo
  <2>5. WorkOK(todo', queue', active', processed, turns)
    BY <1>1, <1>6, <1>9, <2>4, Continued DEF Rest
  <2>6. IInvAt(queue', active', delivered', processed', disk', todo', turns', inbox')
    BY <1>1, <1>9, <2>3, <2>5 DEF IInv, IInvAt, SessionOK
  <2>7. LocalOK'
    BY <1>1, <1>2, <1>9 DEF IInv, LocalOK, RetryLater
  <2> QED
    BY <1>1, <1>8, <1>9, <2>3, <2>6, <2>7, Assembled
<1>10. ASSUME NEW op \in {"read", "failed", "typing"}, todo' = <<DoTurn(op, t)>> \o Rest,
              active' = active \/ active' = t, UNCHANGED <<queue, due, timers>>
       PROVE  IInv' /\ KeptIn(queue, processed, queue', processed') /\ NoReturn(queue, queue')
  <2>1. LocalOK'
    BY <1>1, <1>10 DEF IInv, LocalOK
  <2>2. WorkOK(todo', queue, active', processed, turns)
    <3>1. Leads(DoTurn(op, t), todo, queue, turns) /\ First(DoTurn(op, t), queue, active', processed)
      BY <1>4, <1>5, TurnLeads DEF TurnOps
    <3> QED
      BY <1>1, <1>6, <1>10, <3>1, PushedOne DEF Rest
  <2>3. NoticesOK(inbox', turns)
    BY <1>1 DEF IInv
  <2>4. IInv'
    BY <1>1, <1>4, <1>8, <1>10, <2>1, <2>2, <2>3, WorkOnly
  <2> QED
    BY <1>1, <1>10, <2>4, SameQueue
<1> QED
  BY <1>1, <1>9, <1>10 DEF RecoverItem, Fault, t, old, m

LEMMA RecoverActiveStep ==
    ASSUME IInv, RecoverActive
    PROVE  IInv' /\ UNCHANGED <<queue, processed, turns>>
<1>1. /\ todo # <<>> /\ Head(todo).op = "recoverActive"
      /\ UNCHANGED <<queue, delivered, processed, disk, turns, inbox, scenario>>
  BY DEF RecoverActive, Doing, world
<1>2. faults' = faults \/ faults' = faults + 1
  BY Zenon DEF RecoverActive, NoFault, Fault
<1>3. LocalOK' /\ WorldOK'
  BY <1>2, FaultsCounted DEF IInv, LocalOK, WorldOK, RecoverActive, world
<1>4. todo \in Seq(Step) /\ RestOK(todo, queue, turns) /\ \A k \in 2..Len(todo) : todo[k].op # "recover"
  BY <1>1, AtHead DEF Before
<1>5. active' = active \/ active' = NoTurn
  BY DEF RecoverActive
<1>6. NoticesOK(inbox', turns)
  BY <1>1 DEF IInv
<1>7. WorkOK(todo', queue, active', processed, turns)
  <2>1. CASE todo' = Rest
    BY <1>1, <1>4, <2>1, Continued DEF Rest
  <2>2. CASE todo' = <<Do("persist")>> \o Rest
    BY <1>1, <1>4, <2>2, PlainLeads, PushedOne DEF Rest
  <2>3. ASSUME active # NoTurn,
               todo' = <<DoTurn([completed |-> "read", failed |-> "failed", inProgress |-> "typing"][turns[active].status],
                                active), Do("persist")>> \o Rest
        PROVE  WorkOK(todo', queue, active', processed, turns)
    <3> DEFINE op == [completed |-> "read", failed |-> "failed", inProgress |-> "typing"][turns[active].status]
    <3>1. Begun(active, turns)
      BY <2>3 DEF IInv, SessionOK
    <3>2. op \in {"read", "failed", "typing"}
      <4>1. turns[active].status \in {"completed", "failed", "inProgress"}
        BY <3>1 DEF IInv, WorldOK, Begun, TurnStatuses
      <4> QED
        BY <4>1
    <3>3. todo' = <<DoTurn(op, active), Do("persist")>> \o Tail(todo)
      BY <2>3 DEF Rest
    <3> HIDE DEF op
    <3>4. Leads(DoTurn(op, active), todo, queue, turns) /\ First(DoTurn(op, active), queue, active', processed)
      BY <1>4, <3>1, <3>2, TurnLeads DEF TurnOps
    <3> QED
      BY <1>1, <1>4, <3>3, <3>4, PlainLeads, PushedTwo
  <2> QED
    BY <2>1, <2>2, <2>3 DEF RecoverActive
<1> QED
  BY <1>1, <1>3, <1>5, <1>6, <1>7, WorkOnly

-----------------------------------------------------------------------------
(* The invariant.                                                          *)

LEMMA IInvInit == Init => IInv
<1> SUFFICES ASSUME Init PROVE IInv
  OBVIOUS
<1> DEFINE none == <<>>
<1>1. /\ none \in Seq(QueuedItems(MaxAttempts)) /\ none \in Seq(Notification) /\ DOMAIN none = {}
  OBVIOUS
<1>2. queue = none /\ inbox = none /\ todo = <<>> /\ active = NoTurn /\ delivered = {} /\ processed = {}
      /\ disk = [queue |-> none, active |-> NoTurn, delivered |-> {}, processed |-> {}]
  BY DEF Init
<1> HIDE DEF none
<1>3. SessionOK(none, NoTurn, {}, {}, turns, MaxAttempts)
  BY <1>1 DEF SessionOK, QueueOK
<1>4. WorkOK(todo, queue, active, processed, turns)
  BY <1>2, PlainWorks
<1>5. NoticesOK(none, turns)
  BY <1>1 DEF NoticesOK
<1>6. LocalOK
  BY DEF Init, LocalOK
<1>7. WorldOK
  BY DEF Init, WorldOK, TurnStatuses
<1> QED
  BY <1>2, <1>3, <1>4, <1>5, <1>6, <1>7 DEF IInv

\* What a step of the runner means for the messages: none is lost, none is pending
\* again unless a call failed, and only a crash takes a step back.
Calm ==
    /\ crashes' = crashes /\ (faults' = faults \/ faults' = faults + 1)
    /\ KeptIn(queue, processed, queue', processed')
    /\ NoReturn(queue, queue') \/ faults' = faults + 1

LEMMA CalmCounts ==
    ASSUME IInv, Next, ~Crash
    PROVE  crashes' = crashes /\ (faults' = faults \/ faults' = faults + 1)
<1>1. crashes' = crashes
  BY DEF Next, Runner, SteerActiveTurn, ProcessQueue, StartTurn, BeginTurn, ReportStartFailure,
         StartTyping, Persist, IgnoreDelivered, HandleNotification, HearAnswer, PostAnswer, RetireTurn,
         FailTurn, CleanupDelivered, RecoverItems, RecoverItem, RecoverActive, ReconcileActiveTurn,
         PersistByOthers, EnqueueMessage, RetryFires, DelayPasses, FinishTurn, StartTurnElsewhere,
         LoseNotification, Boot, budgets
<1>2. faults' = faults \/ faults' = faults + 1
  BY Zenon
     DEF Next, Runner, SteerActiveTurn, ProcessQueue, StartTurn, BeginTurn, ReportStartFailure,
         StartTyping, Persist, IgnoreDelivered, HandleNotification, HearAnswer, PostAnswer, RetireTurn,
         FailTurn, CleanupDelivered, RecoverItems, RecoverItem, RecoverActive, ReconcileActiveTurn,
         PersistByOthers, EnqueueMessage, RetryFires, DelayPasses, FinishTurn, StartTurnElsewhere,
         LoseNotification, Boot, budgets, Fault, NoFault, NothingToPost
<1> QED
  BY <1>1, <1>2

LEMMA StepFacts ==
    ASSUME IInv, [Next]_vars
    PROVE  /\ IInv'
           /\ \/ Crash
              \/ Calm
<1> SUFFICES \/ UNCHANGED vars
             \/ IInv' /\ (Crash \/ (KeptIn(queue, processed, queue', processed') /\ (NoReturn(queue, queue') \/ faults' = faults + 1)))
  <2>1. ASSUME UNCHANGED vars PROVE IInv' /\ Calm
    <3>1. UNCHANGED <<queue, active, delivered, processed, disk, due, timers, watching, heard, seen, todo, up,
                      turns, inbox, finals, errors, scenario, faults, crashes>>
      BY <2>1 DEF vars, saved, local, world, budgets
    <3>2. LocalOK' /\ WorldOK'
      BY <3>1 DEF IInv, LocalOK, WorldOK
    <3>3. IInvAt(queue', active', delivered', processed', disk', todo', turns', inbox')
      BY <3>1 DEF IInv, IInvAt
    <3> QED
      BY <3>1, <3>2, <3>3, Assembled, SameQueue DEF Calm
  <2>2. ASSUME Next, ~Crash PROVE crashes' = crashes /\ (faults' = faults \/ faults' = faults + 1)
    BY <2>2, CalmCounts
  <2> QED
    BY <2>1, <2>2 DEF Calm
<1>1. ASSUME Next PROVE IInv' /\ (Crash \/ (KeptIn(queue, processed, queue', processed') /\ (NoReturn(queue, queue') \/ faults' = faults + 1)))
  <2>1. CASE SteerActiveTurn
    BY <2>1, SteerStep, SameQueue
  <2>2. CASE ProcessQueue \/ ReportStartFailure \/ StartTyping \/ Persist \/ PersistByOthers
    BY <2>2, ProcessQueueStep, ReportStep, TypingStep, PersistStep, SameQueue
  <2>3. CASE StartTurn \/ BeginTurn
    BY <2>3, StartTurnStep, BeginTurnStep
  <2>4. CASE IgnoreDelivered \/ HandleNotification \/ LoseNotification \/ HearAnswer \/ ReconcileActiveTurn
    BY <2>4, NoticeSteps, HearStep, ReconcileStep, SameQueue
  <2>5. CASE PostAnswer \/ RetireTurn \/ FailTurn
    BY <2>5, PostStep, RetireTurnStep, FailTurnStep
  <2>6. CASE CleanupDelivered \/ RecoverItems \/ RecoverActive \/ Boot
    BY <2>6, CleanupStep, RecoverItemsStep, RecoverActiveStep, BootStep, SameQueue
  <2>7. CASE RecoverItem
    BY <2>7, RecoverItemStep
  <2>8. ASSUME NEW m \in scenario.msgs, EnqueueMessage(m) \/ RetryFires(m) \/ DelayPasses(m)
        PROVE  IInv' /\ KeptIn(queue, processed, queue', processed') /\ NoReturn(queue, queue')
    <3>1. m \in Msgs
      BY RunnerAssumption DEF IInv, WorldOK
    <3> QED
      BY <2>8, <3>1, EnqueueStep, TimerSteps, SameQueue
  <2>9. ASSUME NEW t \in TurnIds, FinishTurn(t) \/ StartTurnElsewhere(t)
        PROVE  IInv' /\ KeptIn(queue, processed, queue', processed') /\ NoReturn(queue, queue')
    BY <2>9, FinishStep, ElsewhereStep, SameQueue
  <2>10. CASE Crash
    BY <2>10, CrashStep
  <2> QED
    BY <1>1, <2>1, <2>2, <2>3, <2>4, <2>5, <2>6, <2>7, <2>8, <2>9, <2>10 DEF Next, Runner
<1> QED
  BY <1>1

\* The runner keeps its invariant: the queue, in memory and on disk, holds a message
\* once, beside what is processed; a turn is awaited by one item; and the steps that
\* the work has still to do fit the queue they will find.
THEOREM InvariantKept == Spec => []IInv
<1>1. IInv /\ [Next]_vars => IInv'
  BY StepFacts
<1> QED
  BY <1>1, IInvInit, PTL DEF Spec

LEMMA InvariantTypes == IInv => TypeOK
<1> SUFFICES ASSUME IInv PROVE TypeOK
  OBVIOUS
<1>1. queue \in Seq(Item)
  BY DEF IInv, SessionOK, QueueOK, QueuedItems, Item
<1>2. active \in TurnIds \cup {NoTurn} /\ delivered \subseteq TurnIds /\ processed \subseteq Msgs
  BY DEF IInv, SessionOK, Begun
<1>3. todo \in Seq(Step) /\ inbox \in Seq(Notification)
  BY DEF IInv, WorkOK, NoticesOK
<1> QED
  BY <1>1, <1>2, <1>3 DEF IInv, LocalOK, WorldOK, TypeOK

\* Every variable of the runner keeps its type.
THEOREM TypeCorrect == Spec => []TypeOK
  BY InvariantKept, InvariantTypes, PTL

\* A message is queued once, and two items never wait for the same turn: whatever
\* fails, is lost or crashes (EnqueueMessage asks for both the queue and what is
\* processed, RecoverItem takes an item back only when its turn is not there).
THEOREM QueueStaysSound == Spec => []QueueIsSound
<1>1. IInv => QueueIsSound
  <2> SUFFICES ASSUME IInv PROVE QueueIsSound
    OBVIOUS
  <2>1. Cardinality(Queued) = Len(queue)
    BY QueueIsFinite
  <2>2. ASSUME NEW t \in TurnIds PROVE Cardinality(ProcessingFor(t)) <= 1
    <3> DEFINE S == ProcessingFor(t)
    <3>1. \A m, k \in S : m = k
      BY OnQueue
    <3> HIDE DEF S
    <3>2. CASE S = {}
      <4>1. Cardinality(S) = 0
        BY <3>2, FS_EmptySet
      <4> QED
        BY <4>1 DEF S
    <3>3. CASE S # {}
      <4>1. PICK m : S = {m}
        BY <3>1, <3>3
      <4>2. Cardinality(S) = 1
        BY <4>1, FS_Singleton
      <4> QED
        BY <4>2 DEF S
    <3> QED
      BY <3>2, <3>3
  <2> QED
    BY <2>1, <2>2 DEF QueueIsSound
<1> QED
  BY <1>1, InvariantKept, PTL

-----------------------------------------------------------------------------
(* Answers.                                                                *)

LEMMA AnswerStep ==
    ASSUME IInv, AnswersAreCounted, [Next]_vars
    PROVE  AnswersAreCounted'
<1>0. \A t \in TurnIds : finals[t] \in Nat
  BY DEF IInv, WorldOK
<1>1. crashes \in Nat
  BY DEF IInv, WorldOK
<1>2. CASE Crash
  <2>1. finals' = finals /\ crashes' = crashes + 1
    BY <1>2 DEF Crash
  <2> QED
    BY <1>0, <1>1, <2>1 DEF AnswersAreCounted
<1>3. CASE PostAnswer
  <2> DEFINE t == Head(todo).turn
  <2>1. crashes' = crashes
    BY <1>3 DEF PostAnswer
  <2>2. \/ UNCHANGED <<finals, delivered>>
        \/ t \notin delivered /\ finals' = [finals EXCEPT ![t] = @ + 1] /\ delivered' = delivered \cup {t}
    BY <1>3, Zenon DEF PostAnswer, Post, Delivered
  <2> HIDE DEF t
  <2>3. finals \in [TurnIds -> Nat]
    BY DEF IInv, WorldOK
  <2>4. CASE t \notin delivered /\ finals' = [finals EXCEPT ![t] = @ + 1] /\ delivered' = delivered \cup {t}
    <3> SUFFICES ASSUME NEW u \in TurnIds
                 PROVE  finals'[u] <= (IF u \in delivered' THEN 1 ELSE 0) + crashes'
      BY DEF AnswersAreCounted
    <3>1. finals[u] <= (IF u \in delivered THEN 1 ELSE 0) + crashes
      BY DEF AnswersAreCounted
    <3>2. finals'[u] = IF u = t THEN finals[u] + 1 ELSE finals[u]
      BY <2>3, <2>4
    <3> QED
      BY <1>0, <1>1, <2>1, <2>4, <3>1, <3>2
  <2>5. CASE UNCHANGED <<finals, delivered>>
    BY <2>1, <2>5 DEF AnswersAreCounted
  <2> QED
    BY <2>2, <2>4, <2>5
<1>4. CASE ~Crash /\ ~PostAnswer
  <2>1. UNCHANGED <<finals, delivered, crashes>>
    <3>1. CASE UNCHANGED vars
      BY <3>1 DEF vars, saved, world, budgets
    <3>2. CASE Next
      BY <1>4, <3>2
         DEF Next, Runner, SteerActiveTurn, ProcessQueue, StartTurn, BeginTurn, ReportStartFailure,
             StartTyping, Persist, IgnoreDelivered, HandleNotification, HearAnswer, RetireTurn,
             FailTurn, CleanupDelivered, RecoverItems, RecoverItem, RecoverActive, ReconcileActiveTurn,
             PersistByOthers, EnqueueMessage, RetryFires, DelayPasses, FinishTurn, StartTurnElsewhere,
             LoseNotification, Boot, saved, world, budgets
    <3> QED
      BY <3>1, <3>2
  <2> QED
    BY <2>1 DEF AnswersAreCounted
<1> QED
  BY <1>2, <1>3, <1>4

\* An answer reaches Discord once, for any number of turns and messages and any order
\* of notifications, timers and recoveries: a post is recorded with the delivery in one
\* step, so that each repetition needs a crash of its own.
THEOREM AnswersArePostedOnce == Spec => []AnswerPostedOnce
<1>1. Init => AnswersAreCounted
  BY DEF Init, AnswersAreCounted
<1>2. IInv /\ AnswersAreCounted /\ [Next]_vars => AnswersAreCounted'
  BY AnswerStep
<1>3. IInv /\ AnswersAreCounted => AnswerPostedOnce
  <2> SUFFICES ASSUME IInv, AnswersAreCounted, NEW t \in TurnIds PROVE finals[t] <= 1 + crashes
    BY DEF AnswerPostedOnce
  <2>1. finals[t] <= (IF t \in delivered THEN 1 ELSE 0) + crashes
    BY DEF AnswersAreCounted
  <2>2. finals[t] \in Nat /\ crashes \in Nat
    BY DEF IInv, WorldOK
  <2> QED
    BY <2>1, <2>2
<1> QED
  BY <1>1, <1>2, <1>3, InvariantKept, PTL DEF Spec

-----------------------------------------------------------------------------
(* Turns.                                                                  *)

LEMMA TurnsAreFinite ==
    ASSUME NEW T \in SUBSET TurnIds
    PROVE  IsFiniteSet(T) /\ Cardinality(T) \in Nat
<1>1. IsFiniteSet(1..MaxTurns)
  BY RunnerAssumption, FS_Interval
<1> QED
  BY <1>1, FS_Subset, FS_CardinalityType DEF TurnIds

\* A message that nobody has read after a calm step was unread before it.
LEMMA UnreadBefore ==
    ASSUME NEW q, NEW p, NEW ts, NEW n, QueueOK(q, p, ts, n), NEW q2, NEW p2,
           KeptIn(q, p, q2, p2), NoReturn(q, q2), NEW k, Unread(q2, p2, k)
    PROVE  Unread(q, p, k)
<1>1. k \notin p
  BY DEF KeptIn, Unread
<1>2. ASSUME NEW i \in DOMAIN q, q[i].msg = k PROVE q[i].status = "pending"
  <2>1. InQueue(q, k)
    BY <1>2 DEF InQueue
  <2>2. InQueue(q2, k)
    BY <2>1 DEF KeptIn, Unread
  <2>3. Has(q2, k, "pending")
    BY <2>2 DEF InQueue, Unread, Has
  <2>4. Has(q, k, "pending")
    BY <2>1, <2>3 DEF NoReturn
  <2> QED
    BY <1>2, <2>4 DEF Has, QueueOK
<1> QED
  BY <1>1, <1>2 DEF Unread

\* Which messages a step gives to which turn.
LEMMA NewTexts ==
    ASSUME IInv, [Next]_vars
    PROVE  \/ \A t \in TurnIds : turns'[t].msgs = turns[t].msgs
           \/ \E m \in Msgs, t \in TurnIds :
                /\ \A u \in TurnIds : turns'[u].msgs \subseteq turns[u].msgs \cup (IF u = t THEN {m} ELSE {})
                /\ Unread(queue, processed, m)
                /\ faults' = faults + 1 \/ ~Unread(queue', processed', m)
                /\ crashes' = crashes
<1>1. turns \in [TurnIds -> [status: TurnStatuses, msgs: SUBSET Msgs]]
  BY DEF IInv, WorldOK
<1>2. CASE SteerActiveTurn
  <2> DEFINE m == Head(todo).msg
  <2>1. m \in Msgs /\ active # NoTurn /\ ~InQueue(queue, m) /\ m \notin processed
    BY <1>2, AtHead, StepShapes DEF First, MsgOps, SteerActiveTurn, Doing
  <2>2. active \in TurnIds
    BY <2>1 DEF IInv, SessionOK, Begun
  <2>3. Unread(queue, processed, m)
    BY <2>1 DEF Unread, InQueue
  <2>4. \/ turns' = [turns EXCEPT ![active].msgs = @ \cup {m}] /\ processed' = processed \cup {m}
        \/ turns' = turns
    BY <1>2, Zenon DEF SteerActiveTurn
  <2>5. crashes' = crashes
    BY <1>2 DEF SteerActiveTurn
  <2> HIDE DEF m
  <2>6. CASE turns' = turns
    BY <2>6
  <2>7. CASE turns' = [turns EXCEPT ![active].msgs = @ \cup {m}] /\ processed' = processed \cup {m}
    <3>1. \A u \in TurnIds : turns'[u].msgs \subseteq turns[u].msgs \cup (IF u = active THEN {m} ELSE {})
      BY <1>1, <2>2, <2>7
    <3>2. ~Unread(queue', processed', m)
      BY <2>7 DEF Unread
    <3> QED
      BY <2>1, <2>2, <2>3, <2>5, <3>1, <3>2
  <2> QED
    BY <2>4, <2>6, <2>7
<1>3. CASE StartTurn
  <2> DEFINE m == Head(todo).msg
  <2>1. m \in Msgs
    BY <1>3, AtHead, StepShapes DEF MsgOps, StartTurn, Doing
  <2>2. crashes' = crashes
    BY <1>3 DEF StartTurn
  <2>3. \/ UNCHANGED turns
        \/ /\ Unread(queue, processed, m)
           /\ faults' = faults + 1 \/ ~Unread(queue', processed', m)
           /\ \E t \in TurnIds : turns' = [turns EXCEPT ![t] = [status |-> "inProgress", msgs |-> {m}]]
    BY <1>3, StartTurnStep
  <2> HIDE DEF m
  <2>4. ASSUME NEW t \in TurnIds, turns' = [turns EXCEPT ![t] = [status |-> "inProgress", msgs |-> {m}]]
        PROVE  \A u \in TurnIds : turns'[u].msgs \subseteq turns[u].msgs \cup (IF u = t THEN {m} ELSE {})
    BY <1>1, <2>4
  <2> QED
    BY <2>1, <2>2, <2>3, <2>4
<1>4. CASE \E t \in TurnIds : FinishTurn(t) \/ StartTurnElsewhere(t)
  BY <1>4, FinishStep, ElsewhereStep
<1>5. CASE UNCHANGED vars
  BY <1>5 DEF vars, world
<1>6. CASE /\ Next /\ ~SteerActiveTurn /\ ~StartTurn
           /\ ~\E t \in TurnIds : FinishTurn(t) \/ StartTurnElsewhere(t)
  <2>1. turns' = turns
    BY <1>6
       DEF Next, Runner, ProcessQueue, BeginTurn, ReportStartFailure,
           StartTyping, Persist, IgnoreDelivered, HandleNotification, HearAnswer, PostAnswer, RetireTurn,
           FailTurn, CleanupDelivered, RecoverItems, RecoverItem, RecoverActive, ReconcileActiveTurn,
           PersistByOthers, EnqueueMessage, RetryFires, DelayPasses,
           LoseNotification, Crash, Boot, world
  <2> QED
    BY <2>1
<1> QED
  BY <1>2, <1>3, <1>4, <1>5, <1>6

LEMMA TurnsStep ==
    ASSUME IInv, TurnsAreCounted, [Next]_vars
    PROVE  TurnsAreCounted'
<1>1. IInv' /\ (Crash \/ Calm)
  BY StepFacts
<1>2. faults \in Nat /\ crashes \in Nat /\ QueueOK(queue, processed, turns, MaxAttempts)
  BY DEF IInv, WorldOK, SessionOK
<1> SUFFICES ASSUME NEW m \in Msgs
             PROVE  /\ Cardinality(TurnsOf(m)') <= 1 + faults' + crashes'
                    /\ Unread(queue', processed', m) => Cardinality(TurnsOf(m)') <= faults' + crashes'
  BY DEF TurnsAreCounted
<1> DEFINE old == TurnsOf(m)
           new == {t \in TurnIds : m \in turns'[t].msgs}
           c == Cardinality(old)
           d == Cardinality(new)
<1>3. TurnsOf(m)' = new
  BY DEF TurnsOf
<1>4. old \subseteq TurnIds /\ IsFiniteSet(old) /\ c \in Nat /\ IsFiniteSet(new) /\ d \in Nat
  <2>1. old \in SUBSET TurnIds /\ new \in SUBSET TurnIds
    BY DEF TurnsOf
  <2> HIDE DEF old, new
  <2> QED
    BY <2>1, TurnsAreFinite
<1>5. c <= 1 + faults + crashes /\ (Unread(queue, processed, m) => c <= faults + crashes)
  BY DEF TurnsAreCounted
<1>6. CASE new = old
  <2>1. d = c
    BY <1>6
  <2>2. CASE Crash
    <3>1. crashes' = crashes + 1 /\ faults' = faults
      BY <2>2 DEF Crash
    <3> HIDE DEF c, d, new
    <3> QED
      BY <1>2, <1>3, <1>4, <1>5, <2>1, <3>1 DEF d
  <2>3. CASE Calm
    <3>1. crashes' = crashes /\ (faults' = faults \/ faults' = faults + 1)
      BY <2>3 DEF Calm
    <3>2. faults' = faults + 1 \/ (Unread(queue', processed', m) => Unread(queue, processed, m))
      BY <1>2, <2>3, UnreadBefore DEF Calm
    <3> HIDE DEF c, new
    <3> QED
      BY <1>2, <1>3, <1>4, <1>5, <2>1, <3>1, <3>2
  <2> QED
    BY <1>1, <2>2, <2>3
<1>7. CASE new # old
  <2>1. PICK k \in Msgs, t \in TurnIds :
                /\ \A u \in TurnIds : turns'[u].msgs \subseteq turns[u].msgs \cup (IF u = t THEN {k} ELSE {})
                /\ Unread(queue, processed, k)
                /\ faults' = faults + 1 \/ ~Unread(queue', processed', k)
                /\ crashes' = crashes
    BY <1>7, NewTexts DEF TurnsOf
  <2>2. ~Crash
    BY <1>2, <2>1 DEF Crash
  <2>3. faults' = faults \/ faults' = faults + 1
    BY <1>1, <2>2 DEF Calm
  <2>4. CASE k = m
    <3>1. new \subseteq old \cup {t}
      BY <2>1 DEF TurnsOf
    <3>2. IsFiniteSet(old \cup {t}) /\ Cardinality(old \cup {t}) <= c + 1
      <4> HIDE DEF old
      <4>1. IsFiniteSet(old \cup {t}) /\ Cardinality(old \cup {t}) = IF t \in old THEN c ELSE c + 1
        BY <1>4, FS_AddElement
      <4> HIDE DEF c
      <4> QED
        BY <1>4, <4>1
    <3>3. d <= c + 1
      <4>1. Cardinality(new) <= Cardinality(old \cup {t})
        <5> HIDE DEF old, new
        <5> QED
          BY <3>1, <3>2, FS_Subset
      <4>2. Cardinality(old \cup {t}) \in Nat
        BY <3>2, FS_CardinalityType
      <4> HIDE DEF old, new
      <4> QED
        BY <1>4, <3>2, <4>1, <4>2
    <3>4. c <= faults + crashes
      BY <1>5, <2>1, <2>4
    <3>5. faults' = faults + 1 \/ ~Unread(queue', processed', m)
      BY <2>1, <2>4
    <3> HIDE DEF c, d, new, old
    <3> QED
      BY <1>2, <1>3, <1>4, <2>1, <2>3, <3>3, <3>4, <3>5 DEF d
  <2>5. CASE k # m
    <3>1. new \subseteq old
      BY <2>1, <2>5 DEF TurnsOf
    <3>2. d <= c
      <4> HIDE DEF old, new
      <4> QED
        BY <1>4, <3>1, FS_Subset
    <3>3. faults' = faults + 1 \/ (Unread(queue', processed', m) => Unread(queue, processed, m))
      BY <1>1, <1>2, <2>2, UnreadBefore DEF Calm
    <3> HIDE DEF c, d, new, old
    <3> QED
      BY <1>2, <1>3, <1>4, <1>5, <2>1, <2>3, <3>2, <3>3 DEF d
  <2> QED
    BY <2>4, <2>5
<1> QED
  BY <1>6, <1>7

\* A message is given to the model once, for all messages, turns and scenarios: each
\* further turn for it is paid for by a call whose outcome the runner did not see or by
\* a crash.  The invariant behind it: a message that is pending, or not known at all,
\* has no turn but those.
THEOREM OneTurnForAMessage == Spec => []OneTurnPerMessage
<1>1. Init => TurnsAreCounted
  <2> SUFFICES ASSUME Init, NEW m \in Msgs PROVE Cardinality(TurnsOf(m)) = 0 /\ faults = 0 /\ crashes = 0
    BY DEF TurnsAreCounted
  <2>1. TurnsOf(m) = {}
    BY DEF Init, TurnsOf
  <2> QED
    BY <2>1, FS_EmptySet DEF Init
<1>2. IInv /\ TurnsAreCounted /\ [Next]_vars => TurnsAreCounted'
  BY TurnsStep
<1>3. TurnsAreCounted => OneTurnPerMessage
  BY DEF TurnsAreCounted, OneTurnPerMessage
<1> QED
  BY <1>1, <1>2, <1>3, InvariantKept, PTL DEF Spec

-----------------------------------------------------------------------------
(* The state file.                                                         *)

LEMMA DiskStep ==
    ASSUME IInv, [Next]_vars
    PROVE  disk' = disk \/ (disk'.queue = queue /\ disk'.processed = processed /\ queue' = queue /\ processed' = processed)
<1>1. CASE Persist \/ PersistByOthers
  BY <1>1, PersistStep
<1>2. CASE UNCHANGED vars
  BY <1>2 DEF vars
<1>3. CASE Next /\ ~Persist /\ ~PersistByOthers
  BY <1>3
     DEF Next, Runner, SteerActiveTurn, ProcessQueue, StartTurn, BeginTurn, ReportStartFailure,
         StartTyping, IgnoreDelivered, HandleNotification, HearAnswer, PostAnswer, RetireTurn,
         FailTurn, CleanupDelivered, RecoverItems, RecoverItem, RecoverActive, ReconcileActiveTurn,
         EnqueueMessage, RetryFires, DelayPasses, FinishTurn, StartTurnElsewhere,
         LoseNotification, Crash, Boot
<1> QED
  BY <1>1, <1>2, <1>3

LEMMA KnownStep ==
    ASSUME IInv, SavedIsKnown, [Next]_vars
    PROVE  SavedIsKnown'
<1>1. CASE Crash
  <2>1. queue' = disk.queue /\ disk' = disk
    BY <1>1, CrashStep
  <2> QED
    BY <2>1 DEF SavedIsKnown
<1>2. CASE Calm
  <2>1. CASE disk' = disk
    BY <1>2, <2>1 DEF SavedIsKnown, Calm, KeptIn
  <2>2. CASE disk'.queue = queue /\ queue' = queue
    BY <2>2 DEF SavedIsKnown
  <2> QED
    BY <2>1, <2>2, DiskStep
<1> QED
  BY <1>1, <1>2, StepFacts

\* What was saved in the queue is not lost: it stays in the state file until it is
\* saved as processed, however the works, the saves of other sessions and the crashes
\* interleave.  The invariant behind it: the runner always knows what the file holds.
THEOREM SavedMessagesAreKept == Spec => SavedMessageIsKept
<1>1. Init => SavedIsKnown
  BY DEF Init, SavedIsKnown, InQueue
<1>2. IInv /\ SavedIsKnown /\ [Next]_vars => SavedIsKnown'
  BY KnownStep
<1>3. IInv /\ SavedIsKnown /\ [Next]_vars =>
        [\A m \in Msgs : (\E i \in DOMAIN disk.queue : disk.queue[i].msg = m)
         => \/ \E i \in DOMAIN disk'.queue : disk'.queue[i].msg = m
            \/ m \in disk'.processed]_vars
  <2> SUFFICES ASSUME IInv, SavedIsKnown, [Next]_vars, NEW m \in Msgs, InQueue(disk.queue, m)
               PROVE  InQueue(disk'.queue, m) \/ m \in disk'.processed
    BY DEF InQueue
  <2> QED
    BY DiskStep DEF SavedIsKnown
<1> QED
  BY <1>1, <1>2, <1>3, InvariantKept, PTL DEF Spec, SavedMessageIsKept
-----------------------------------------------------------------------------
(* The parts beside each other.                                            *)

PartsInv == WaitInv /\ PeersInv /\ SpeechInv /\ IInv

LEMMA PartsInvInit == PartsInit => PartsInv
  BY WaitInvInit, PeersInvInit, SpeechInvInit, IInvInit DEF PartsInit, PartsInv

\* A step is one of a single part, and leaves the others as they are.
LEMMA PartsInvStep == PartsInv /\ [PartsNext]_partsVars => PartsInv'
<1> SUFFICES ASSUME PartsInv, [PartsNext]_partsVars PROVE PartsInv'
  OBVIOUS
<1>1. [WaitNext]_waitVars
  BY DEF PartsNext, partsVars, WaitStep, PeersStep, SpeechStep, BridgeStep
<1>2. [PeersNext]_peerVars
  BY DEF PartsNext, partsVars, WaitStep, PeersStep, SpeechStep, BridgeStep
<1>3. [SpeechNext]_speechVars
  BY DEF PartsNext, partsVars, WaitStep, PeersStep, SpeechStep, BridgeStep
<1>4. [Next]_vars
  BY DEF PartsNext, partsVars, WaitStep, PeersStep, SpeechStep, BridgeStep
<1>5. WaitInv' /\ PeersInv' /\ SpeechInv'
  BY <1>1, <1>2, <1>3, WaitInvStep, PeersInvStep, SpeechInvStep DEF PartsInv
<1>6. IInv'
  BY <1>4, StepFacts DEF PartsInv
<1> QED
  BY <1>5, <1>6 DEF PartsInv

\* Whichever part runs, every variable of each of them keeps its type: the wait for a
\* turn (flows.ts), the peers (workspace-backend's server.ts), the speech queue
\* (speech-queue.ts) and the runner (runner.ts).
THEOREM PartsKeepTheirTypes == PartsSpec => []PartsTypeOK
<1>1. PartsInv => PartsTypeOK
  BY InvariantTypes DEF PartsInv, WaitInv, PeersInv, SpeechInv, PartsTypeOK
<1> QED
  BY <1>1, PartsInvInit, PartsInvStep, PTL DEF PartsSpec

=============================================================================
