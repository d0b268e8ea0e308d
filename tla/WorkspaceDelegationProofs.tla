---------------------- MODULE WorkspaceDelegationProofs ----------------------
(***************************************************************************)
(* What TLAPS proves of the delegations, for all delegated threads, rounds *)
(* and scenarios.                                                          *)
(***************************************************************************)
EXTENDS WorkspaceDelegation, SequenceTheorems, FiniteSetTheorems, TLAPS

\* The Stop events that the hooks write.
Stop == {e \in Event : e.thread # Main => e.turn \in Rounds}
Kinds == {"delegation", "group"}

\* The steps of the strands.
Step ==
         [op : {"persist", "wake"}]
    \cup [op : {"policy", "recorded"}, d : Delegations]
    \cup [op : {"enqueue"}, d : Delegations, mode : Modes]
    \cup [op : {"read"}, d : Delegations, status : {"active", "complete"}, final : {0} \cup Rounds]
    \cup [op : {"flush"}, left : SUBSET Delegations, kind : Kinds, ids : SUBSET Delegations]
    \cup [op : {"events"}, left : SUBSET Stop]
    \cup [op : {"wakeAfter", "settle", "mark", "archive"}, e : Stop]
    \cup [op : {"woken"}, i : Nat]

\* The steps of a strand, and those behind the one it is at.
Steps(a) == {a[i] : i \in DOMAIN a}
Later(a) == {a[i] : i \in DOMAIN a \ {1}}
\* What stands only at the head: the answer of a request that was just sent,
\* and the policy of an event that was just taken up.
Late == {x \in Step : x.op \notin {"woken", "recorded", "policy"}}

AgendaOK ==
    /\ agenda \in [Strands -> Seq(Step)]
    /\ \A s \in Strands : Later(agenda[s]) \subseteq Late

RecOK(r) == r \in [Delegations -> Delegation]
HeldOK ==
    /\ DOMAIN held \subseteq Delegations
    /\ held \in [DOMAIN held -> Delegation]
WokenTurn == [kind : Kinds, ids : SUBSET Delegations, results : SUBSET (Delegations \X Rounds)]
SavedOK ==
    /\ RecOK(rec) /\ wakes \in Seq(Wake) /\ processedEvents \subseteq Event /\ busyWith \in Nat
    /\ stateFile \in State
BridgeOK == poke \in BOOLEAN /\ bridgeUp \in BOOLEAN /\ fresh \in BOOLEAN /\ HeldOK
OutsideOK ==
    /\ spool \subseteq Stop
    /\ thread \in [Delegations -> [turn : 0..MaxRounds, phase : Phase]]
    /\ \A d \in Delegations : thread[d].phase # "ended" => thread[d].turn # 0
    /\ main \in [turn : Nat, phase : Phase]
    /\ mainInbox \in Seq([type : {"started", "completed"}, turn : Nat])
HistoryOK ==
    /\ returned \in [Delegations \X Rounds -> Nat]
    /\ woken \in Seq(WokenTurn)
    /\ delegationScenario \in DelegationScenarios
    /\ flushes \in Nat /\ failures \in Nat /\ bridgeCrashes \in Nat

TypeInv == SavedOK /\ BridgeOK /\ OutsideOK /\ HistoryOK /\ AgendaOK

-----------------------------------------------------------------------------
(* Agendas.                                                                *)

\* Short agendas.
LEMMA NoStep == ASSUME NEW S PROVE <<>> \in Seq(S) /\ Steps(<<>>) = {} /\ Later(<<>>) = {}
BY DEF Steps, Later

LEMMA OneStep ==
    ASSUME NEW S, NEW x \in S
    PROVE  <<x>> \in Seq(S) /\ Steps(<<x>>) = {x} /\ Later(<<x>>) = {} /\ Head(<<x>>) = x /\ <<x>> # <<>>
<1>1. DOMAIN <<x>> = {1}
  OBVIOUS
<1> QED
  BY <1>1 DEF Steps, Later

LEMMA TwoSteps ==
    ASSUME NEW S, NEW x \in S, NEW y \in S
    PROVE  /\ <<x, y>> \in Seq(S) /\ Steps(<<x, y>>) = {x, y} /\ Later(<<x, y>>) = {y}
           /\ Head(<<x, y>>) = x /\ <<x, y>> # <<>>
<1>1. DOMAIN <<x, y>> = {1, 2}
  OBVIOUS
<1> QED
  BY <1>1 DEF Steps, Later

LEMMA ThreeSteps ==
    ASSUME NEW S, NEW x \in S, NEW y \in S, NEW z \in S
    PROVE  /\ <<x, y, z>> \in Seq(S) /\ Steps(<<x, y, z>>) = {x, y, z} /\ Later(<<x, y, z>>) = {y, z}
           /\ Head(<<x, y, z>>) = x /\ <<x, y, z>> # <<>>
<1>1. DOMAIN <<x, y, z>> = {1, 2, 3}
  OBVIOUS
<1> QED
  BY <1>1 DEF Steps, Later

\* One agenda before another.
LEMMA Joined ==
    ASSUME NEW S, NEW a \in Seq(S), NEW b \in Seq(S)
    PROVE  /\ a \o b \in Seq(S)
           /\ Steps(a \o b) = Steps(a) \cup Steps(b)
           /\ Later(a \o b) \subseteq Later(a) \cup Steps(b)
           /\ Later(a) \subseteq Later(a \o b)
           /\ a # <<>> => /\ a \o b # <<>> /\ Head(a \o b) = Head(a)
                          /\ Later(a \o b) = Later(a) \cup Steps(b)
           /\ a = <<>> => a \o b = b
<1> DEFINE c == a \o b
<1>1. c \in Seq(S) /\ Len(c) = Len(a) + Len(b)
  BY ConcatProperties
<1>2. \A i \in 1..Len(c) : c[i] = IF i <= Len(a) THEN a[i] ELSE b[i - Len(a)]
  BY ConcatProperties
<1>3. Len(a) \in Nat /\ Len(b) \in Nat /\ DOMAIN a = 1..Len(a) /\ DOMAIN b = 1..Len(b)
  BY LenProperties
<1>4. DOMAIN c = 1..(Len(a) + Len(b))
  BY <1>1, LenProperties
<1>5. a = <<>> => c = b
  BY ConcatEmptySeq
<1> HIDE DEF c
<1>6. \A i \in DOMAIN a : i \in DOMAIN c /\ c[i] = a[i]
  BY <1>1, <1>2, <1>3, <1>4
<1>7. \A i \in DOMAIN b : i + Len(a) \in DOMAIN c /\ c[i + Len(a)] = b[i]
  <2> TAKE i \in DOMAIN b
  <2>1. i \in Nat /\ i >= 1 /\ i <= Len(b)
    BY <1>3
  <2>2. i + Len(a) \in 1..Len(c) /\ ~(i + Len(a) <= Len(a)) /\ (i + Len(a)) - Len(a) = i
    BY <1>1, <1>3, <2>1
  <2> QED
    BY <1>1, <1>2, <1>4, <2>2
<1>8. \A i \in DOMAIN c : \/ i \in DOMAIN a /\ c[i] = a[i]
                          \/ /\ i \notin DOMAIN a /\ i - Len(a) \in DOMAIN b /\ c[i] = b[i - Len(a)]
  BY <1>1, <1>2, <1>3, <1>4
<1>9. a # <<>> => Len(a) > 0 /\ 1 \in DOMAIN a
  BY <1>3, EmptySeq
<1>10. Steps(c) = Steps(a) \cup Steps(b)
  <2>1. \A x \in Steps(c) : x \in Steps(a) \cup Steps(b)
    BY <1>8 DEF Steps
  <2>2. \A x \in Steps(a) \cup Steps(b) : x \in Steps(c)
    BY <1>6, <1>7 DEF Steps
  <2> QED
    BY <2>1, <2>2
<1>11. Later(c) \subseteq Later(a) \cup Steps(b) /\ Later(a) \subseteq Later(c)
  <2>1. \A x \in Later(c) : x \in Later(a) \cup Steps(b)
    BY <1>8 DEF Steps, Later
  <2>2. \A x \in Later(a) : x \in Later(c)
    BY <1>6 DEF Steps, Later
  <2> QED
    BY <2>1, <2>2
<1>12. ASSUME a # <<>> PROVE c # <<>> /\ Head(c) = Head(a) /\ Steps(b) \subseteq Later(c)
  <2>1. c[1] = a[1] /\ 1 \in DOMAIN c
    BY <1>6, <1>9, <1>12
  <2>2. \A i \in DOMAIN b : i + Len(a) # 1
    BY <1>3, <1>9, <1>12
  <2>3. Steps(b) \subseteq Later(c)
    BY <1>7, <2>2 DEF Steps, Later
  <2>4. c # <<>>
    BY <2>1
  <2>5. Head(c) = c[1] /\ Head(a) = a[1]
    BY <1>1, <1>12, <2>4, HeadTailProperties
  <2> QED
    BY <2>1, <2>3, <2>4, <2>5
<1> QED
  BY <1>1, <1>5, <1>10, <1>11, <1>12 DEF c

\* An agenda without its head.
LEMMA Rest ==
    ASSUME NEW S, NEW a \in Seq(S), a # <<>>
    PROVE  /\ Tail(a) \in Seq(S) /\ Head(a) \in S
           /\ Steps(Tail(a)) = Later(a) /\ Later(Tail(a)) \subseteq Later(a)
           /\ Steps(a) = {Head(a)} \cup Later(a)
<1> DEFINE b == Tail(a)
<1>1. b \in Seq(S) /\ Len(b) = Len(a) - 1 /\ Head(a) = a[1] /\ Head(a) \in S
  BY HeadTailProperties
<1>2. \A i \in 1..Len(b) : b[i] = a[i + 1]
  BY HeadTailProperties
<1>3. Len(a) \in Nat /\ Len(a) > 0 /\ DOMAIN a = 1..Len(a)
  BY LenProperties, EmptySeq
<1>4. DOMAIN b = 1..Len(b)
  BY <1>1, LenProperties
<1> HIDE DEF b
<1>5. \A i \in DOMAIN b : i + 1 \in DOMAIN a \ {1} /\ b[i] = a[i + 1]
  BY <1>1, <1>2, <1>3, <1>4
<1>6. \A i \in DOMAIN a \ {1} : i - 1 \in DOMAIN b /\ b[i - 1] = a[i]
  <2> TAKE i \in DOMAIN a \ {1}
  <2>1. i - 1 \in 1..Len(b) /\ (i - 1) + 1 = i
    BY <1>1, <1>3
  <2> QED
    BY <1>2, <1>4, <2>1
<1>7. Steps(b) = Later(a)
  <2>1. \A x \in Steps(b) : x \in Later(a)
    BY <1>5 DEF Steps, Later
  <2>2. \A x \in Later(a) : x \in Steps(b)
    BY <1>6 DEF Steps, Later
  <2> QED
    BY <2>1, <2>2
<1>8. Later(b) \subseteq Steps(b)
  BY DEF Later, Steps
<1>9. Steps(a) = {a[1]} \cup Later(a)
  <2>1. 1 \in DOMAIN a
    BY <1>3
  <2> QED
    BY <2>1 DEF Steps, Later
<1> QED
  BY <1>1, <1>7, <1>8, <1>9 DEF b

\* What the strands have to do after one of them went a step further.
LEMMA Went ==
    ASSUME agenda \in [Strands -> Seq(Step)], NEW s \in Strands, agenda[s] # <<>>,
           NEW steps \in Seq(Step), Then(s, steps)
    PROVE  /\ agenda' \in [Strands -> Seq(Step)]
           /\ \A t \in Strands \ {s} : agenda'[t] = agenda[t]
           /\ Steps(agenda'[s]) = Steps(steps) \cup Later(agenda[s])
           /\ Later(agenda'[s]) \subseteq Later(steps) \cup Later(agenda[s])
           /\ steps # <<>> => agenda'[s] # <<>> /\ Head(agenda'[s]) = Head(steps)
           /\ steps = <<>> => Steps(agenda'[s]) = Later(agenda[s])
           /\ Head(agenda[s]) \in Step /\ Steps(agenda[s]) = {Head(agenda[s])} \cup Later(agenda[s])
<1> DEFINE rest == Tail(agenda[s])
<1>1. agenda[s] \in Seq(Step)
  OBVIOUS
<1>2. /\ rest \in Seq(Step) /\ Head(agenda[s]) \in Step
      /\ Steps(rest) = Later(agenda[s]) /\ Later(rest) \subseteq Later(agenda[s])
      /\ Steps(agenda[s]) = {Head(agenda[s])} \cup Later(agenda[s])
  BY <1>1, Rest
<1>3. agenda'[s] = steps \o rest /\ \A t \in Strands \ {s} : agenda'[t] = agenda[t]
  BY DEF Then
<1>4. agenda' = [agenda EXCEPT ![s] = steps \o rest]
  BY DEF Then
<1> HIDE DEF rest
<1>5. /\ steps \o rest \in Seq(Step)
      /\ Steps(steps \o rest) = Steps(steps) \cup Steps(rest)
      /\ Later(steps \o rest) \subseteq Later(steps) \cup Steps(rest)
      /\ steps # <<>> => steps \o rest # <<>> /\ Head(steps \o rest) = Head(steps)
      /\ steps = <<>> => steps \o rest = rest
  BY <1>2, Joined
<1>6. agenda' \in [Strands -> Seq(Step)]
  BY <1>4, <1>5
<1> QED
  BY <1>2, <1>3, <1>5, <1>6

\* What a strand is at.
LEMMA Here ==
    ASSUME AgendaOK, NEW s \in Strands, NEW op, At(s, op)
    PROVE  /\ agenda[s] \in Seq(Step) /\ agenda[s] # <<>> /\ Current(s) \in Step /\ Current(s).op = op
           /\ Current(s) = Head(agenda[s]) /\ Current(s) \in Steps(agenda[s])
<1>1. agenda[s] \in Seq(Step) /\ agenda[s] # <<>>
  BY DEF AgendaOK, At
<1>2. Head(agenda[s]) \in Step /\ Head(agenda[s]) \in Steps(agenda[s])
  BY <1>1, Rest
<1> QED
  BY <1>1, <1>2 DEF At, Current

\* The fields of a step.
LEMMA Fields ==
    ASSUME NEW x \in Step
    PROVE  /\ x.op \in {"policy", "recorded", "enqueue", "read"} => x.d \in Delegations
           /\ x.op = "enqueue" => x.mode \in Modes
           /\ x.op = "read" => x.status \in {"active", "complete"} /\ x.final \in {0} \cup Rounds
           /\ x.op = "flush" => /\ x.left \subseteq Delegations /\ x.kind \in Kinds
                                /\ x.ids \subseteq Delegations
           /\ x.op = "events" => x.left \subseteq Stop
           /\ x.op \in {"wakeAfter", "settle", "mark", "archive"} => x.e \in Stop
           /\ x.op = "woken" => x.i \in Nat
BY DEF Step

\* The steps that the actions leave.
LEMMA Plain ==
    /\ Todo("persist") \in Late /\ Todo("wake") \in Late
    /\ \A d \in Delegations : TodoFor("policy", d) \in Step /\ TodoFor("recorded", d) \in Step
    /\ \A e \in Stop : /\ TodoWith("wakeAfter", e) \in Late /\ TodoWith("settle", e) \in Late
                       /\ TodoWith("mark", e) \in Late /\ TodoWith("archive", e) \in Late
    /\ Late \subseteq Step
BY DEF Todo, TodoFor, TodoWith, Step, Late

LEMMA AgendaWent ==
    ASSUME AgendaOK, NEW s \in Strands, agenda[s] # <<>>, NEW steps \in Seq(Step),
           Later(steps) \subseteq Late, Then(s, steps)
    PROVE  AgendaOK'
<1>1. agenda \in [Strands -> Seq(Step)] /\ Later(agenda[s]) \subseteq Late
  BY DEF AgendaOK
<1>2. /\ agenda' \in [Strands -> Seq(Step)]
      /\ \A t \in Strands \ {s} : agenda'[t] = agenda[t]
      /\ Later(agenda'[s]) \subseteq Later(steps) \cup Later(agenda[s])
  BY <1>1, Went
<1>3. \A t \in Strands : Later(agenda'[t]) \subseteq Late
  <2> TAKE t \in Strands
  <2>1. CASE t = s
    BY <1>1, <1>2, <2>1
  <2>2. CASE t # s
    <3>1. agenda'[t] = agenda[t]
      BY <1>2, <2>2
    <3> QED
      BY <3>1 DEF AgendaOK
  <2> QED
    BY <2>1, <2>2
<1> QED
  BY <1>2, <1>3 DEF AgendaOK

LEMMA AgendaPut ==
    ASSUME AgendaOK, NEW s \in Strands, NEW steps \in Seq(Step), Later(steps) \subseteq Late,
           agenda' = [agenda EXCEPT ![s] = steps]
    PROVE  AgendaOK'
<1>1. agenda' \in [Strands -> Seq(Step)] /\ agenda'[s] = steps
  BY DEF AgendaOK
<1>2. \A t \in Strands \ {s} : agenda'[t] = agenda[t]
  BY DEF AgendaOK
<1>3. \A t \in Strands : Later(agenda'[t]) \subseteq Late
  <2> TAKE t \in Strands
  <2>1. CASE t = s
    BY <1>1, <2>1
  <2>2. CASE t # s
    <3>1. agenda'[t] = agenda[t]
      BY <1>2, <2>2
    <3> QED
      BY <3>1 DEF AgendaOK
  <2> QED
    BY <2>1, <2>2
<1> QED
  BY <1>1, <1>3 DEF AgendaOK

\* A strand that goes on, one that gives up, and one with a step or two to do.
LEMMA AgendaMoves ==
    ASSUME AgendaOK, NEW s \in Strands
    PROVE  /\ agenda[s] # <<>> /\ Continue(s) => AgendaOK'
           /\ ThrowIn(s) => AgendaOK'
           /\ \A x \in Step :
                /\ agenda[s] # <<>> /\ Then(s, <<x>>) => AgendaOK'
                /\ agenda' = [agenda EXCEPT ![s] = <<x>>] => AgendaOK'
           /\ \A x \in Step, y \in Late :
                /\ agenda[s] # <<>> /\ Then(s, <<x, y>>) => AgendaOK'
                /\ agenda' = [agenda EXCEPT ![s] = <<x, y>>] => AgendaOK'
           /\ \A x \in Step, y \in Late, z \in Late :
                agenda' = [agenda EXCEPT ![s] = <<x, y, z>>] => AgendaOK'
<1>1. <<>> \in Seq(Step) /\ Later(<<>>) \subseteq Late
  BY NoStep
<1>2. /\ agenda[s] # <<>> /\ Continue(s) => AgendaOK'
      /\ ThrowIn(s) => AgendaOK'
  BY <1>1, AgendaWent, AgendaPut DEF Continue, ThrowIn
<1>3. ASSUME NEW x \in Step
      PROVE /\ agenda[s] # <<>> /\ Then(s, <<x>>) => AgendaOK'
            /\ agenda' = [agenda EXCEPT ![s] = <<x>>] => AgendaOK'
  <2>1. <<x>> \in Seq(Step) /\ Later(<<x>>) \subseteq Late
    BY OneStep
  <2> QED
    BY <2>1, AgendaWent, AgendaPut
<1>4. ASSUME NEW x \in Step, NEW y \in Late
      PROVE /\ agenda[s] # <<>> /\ Then(s, <<x, y>>) => AgendaOK'
            /\ agenda' = [agenda EXCEPT ![s] = <<x, y>>] => AgendaOK'
  <2>1. y \in Step
    BY DEF Late
  <2>3. <<x, y>> \in Seq(Step) /\ Later(<<x, y>>) = {y}
    BY <2>1, TwoSteps
  <2>2. <<x, y>> \in Seq(Step) /\ Later(<<x, y>>) \subseteq Late
    BY <2>3
  <2> QED
    BY <2>2, AgendaWent, AgendaPut
<1>5. ASSUME NEW x \in Step, NEW y \in Late, NEW z \in Late,
             agenda' = [agenda EXCEPT ![s] = <<x, y, z>>]
      PROVE AgendaOK'
  <2>1. y \in Step /\ z \in Step
    BY DEF Late
  <2>3. <<x, y, z>> \in Seq(Step) /\ Later(<<x, y, z>>) = {y, z}
    BY <2>1, ThreeSteps
  <2>2. <<x, y, z>> \in Seq(Step) /\ Later(<<x, y, z>>) \subseteq Late
    BY <2>3
  <2> QED
    BY <1>5, <2>2, AgendaPut
<1> QED
  BY <1>2, <1>3, <1>4, <1>5

-----------------------------------------------------------------------------
(* Types.                                                                  *)

LEMMA ScenarioTypes ==
    ASSUME TypeInv
    PROVE  /\ delegationScenario.modes \subseteq Modes /\ delegationScenario.policies \subseteq Modes
           /\ delegationScenario.delegated \subseteq Delegations
           /\ delegationScenario.crashes \in Nat /\ delegationScenario.faults \in Nat
           /\ MaxRounds \in Nat \ {0} /\ Main \notin Delegations
BY DelegationAssumption DEF TypeInv, HistoryOK

\* A delegation that is changed.
LEMMA Changed ==
    ASSUME RecOK(rec), NEW d \in Delegations, NEW x \in Delegation, rec' = [rec EXCEPT ![d] = x]
    PROVE  RecOK(rec')
BY DEF RecOK

LEMMA Started ==
    ASSUME NEW mode \in Modes, NEW grouped \in BOOLEAN
    PROVE  [NoDelegation EXCEPT !.status = "active", !.mode = mode, !.group = grouped] \in Delegation
BY DEF NoDelegation, Delegation, Status

LEMMA StartTypes ==
    ASSUME TypeInv, NEW d \in Delegations, NEW mode \in delegationScenario.modes, StartDelegation(d, mode)
    PROVE  TypeInv'
<1> USE DEF TypeInv
<1>1. AgendaOK'
  BY AgendaMoves, Plain DEF StartDelegation, Strands
<1>2. RecOK(rec')
  <2> DEFINE x == [NoDelegation EXCEPT !.status = "active", !.mode = mode,
                                       !.group = d \in delegationScenario.grouped]
  <2>1. mode \in Modes /\ (d \in delegationScenario.grouped) \in BOOLEAN
    BY ScenarioTypes
  <2>3. x \in Delegation
    BY <2>1, Started
  <2> QED
    BY <2>3, Changed DEF StartDelegation, SavedOK
<1>3. SavedOK' /\ BridgeOK' /\ HistoryOK'
  BY <1>2 DEF StartDelegation, SavedOK, BridgeOK, HistoryOK, HeldOK, refs, history, delegationBudgets
<1>4. OutsideOK'
  BY ScenarioTypes DEF StartDelegation, OutsideOK, Phase
<1> QED
  BY <1>1, <1>3, <1>4

LEMMA SendTypes ==
    ASSUME TypeInv, NEW d \in Delegations, SendDelegation(d)
    PROVE  TypeInv'
<1> USE DEF TypeInv
<1>1. AgendaOK'
  BY AgendaMoves, Plain DEF SendDelegation, Strands
<1>2. RecOK(rec')
  BY DEF SendDelegation, SavedOK, RecOK, Delegation, Status
<1>3. SavedOK' /\ BridgeOK' /\ HistoryOK'
  BY <1>2 DEF SendDelegation, SavedOK, BridgeOK, HistoryOK, HeldOK, refs, history, delegationBudgets
<1>4. OutsideOK'
  BY ScenarioTypes DEF SendDelegation, OutsideOK, Phase
<1> QED
  BY <1>1, <1>3, <1>4

LEMMA ReadTypes ==
    ASSUME TypeInv, NEW d \in Delegations, ReadDelegation(d)
    PROVE  TypeInv'
<1> USE DEF TypeInv
<1> DEFINE read == [op |-> "read", d |-> d, status |-> IF Active(thread[d]) THEN "active" ELSE "complete",
                    final |-> IF Active(thread[d]) THEN thread[d].turn - 1 ELSE thread[d].turn]
<1>1. read \in Step
  <2>1. read.final \in {0} \cup Rounds
    BY ScenarioTypes DEF OutsideOK, Active, Rounds
  <2> QED
    BY <2>1 DEF Step
<1>2. agenda' = [agenda EXCEPT !["tool"] = <<read, Todo("persist")>>]
  BY DEF ReadDelegation
<1> HIDE DEF read
<1>3. AgendaOK'
  BY <1>1, <1>2, AgendaMoves, Plain DEF Strands
<1>4. SavedOK' /\ BridgeOK' /\ HistoryOK' /\ OutsideOK'
  BY DEF ReadDelegation, SavedOK, BridgeOK, HistoryOK, OutsideOK, HeldOK, refs, history, delegationBudgets,
         savedState, outside
<1> QED
  BY <1>3, <1>4

LEMMA DelegationReadTypes == ASSUME TypeInv, DelegationRead PROVE TypeInv'
<1> USE DEF TypeInv
<1>1. AgendaOK'
  BY AgendaMoves, Here DEF DelegationRead, Strands
<1>2. RecOK(rec')
  <2> DEFINE read == Current("tool")
  <2>1. read \in Step /\ read.op = "read"
    BY Here DEF DelegationRead, Strands
  <2>2. rec' = [rec EXCEPT ![read.d].status = read.status,
                          ![read.d].final = IF read.final = 0 THEN @ ELSE read.final]
    BY DEF DelegationRead
  <2> HIDE DEF read
  <2>3. read.d \in Delegations /\ read.status \in Status /\ read.final \in {0} \cup Rounds
    BY <2>1, Fields DEF Status
  <2> QED
    BY SMTT(25), <2>2, <2>3 DEF SavedOK, RecOK, Delegation
<1>3. SavedOK' /\ BridgeOK' /\ HistoryOK' /\ OutsideOK'
  BY <1>2 DEF DelegationRead, SavedOK, BridgeOK, HistoryOK, OutsideOK, HeldOK, refs, history,
              delegationBudgets, outside
<1> QED
  BY <1>1, <1>3

LEMMA ResumeTypes ==
    ASSUME TypeInv, NEW d \in Delegations, NEW mode \in delegationScenario.policies \cup {"manual"},
           ResumeDelegation(d, mode)
    PROVE  TypeInv'
<1> USE DEF TypeInv
<1>1. AgendaOK'
  BY AgendaMoves, Plain DEF ResumeDelegation, Strands
<1>2. mode \in Modes
  BY ScenarioTypes DEF Modes
<1>3. RecOK(rec')
  <2>1. PICK group \in BOOLEAN :
          rec' = [rec EXCEPT ![d] = [@ EXCEPT !.status = "idle", !.mode = mode, !.group = group]]
    BY DEF ResumeDelegation
  <2>2. rec \in [Delegations -> Delegation] /\ rec[d] \in Delegation
    BY DEF SavedOK, RecOK
  <2>3. [rec[d] EXCEPT !.status = "idle", !.mode = mode, !.group = group] \in Delegation
    BY <1>2, <2>2 DEF Delegation, Status
  <2> QED
    BY <2>1, <2>2, <2>3 DEF RecOK
<1>4. HeldOK'
  <2>1. rec[d] \in Delegation
    BY DEF SavedOK, RecOK
  <2> QED
    BY <2>1 DEF ResumeDelegation, BridgeOK, HeldOK
<1>5. SavedOK' /\ BridgeOK' /\ HistoryOK' /\ OutsideOK'
  BY <1>3, <1>4 DEF ResumeDelegation, SavedOK, BridgeOK, HistoryOK, OutsideOK, history,
                    delegationBudgets, outside
<1> QED
  BY <1>1, <1>5

LEMMA PolicyTypes ==
    ASSUME TypeInv, NEW ds, NEW mode \in delegationScenario.policies, SetPolicy(ds, mode)
    PROVE  TypeInv'
<1> USE DEF TypeInv
<1>1. AgendaOK'
  BY AgendaMoves, Plain DEF SetPolicy, Strands
<1>2. mode \in Modes
  BY ScenarioTypes
<1>3. RecOK(rec')
  BY <1>2 DEF SetPolicy, SavedOK, RecOK, Delegation
<1>4. SavedOK' /\ BridgeOK' /\ HistoryOK' /\ OutsideOK'
  BY <1>3 DEF SetPolicy, SavedOK, BridgeOK, HistoryOK, OutsideOK, HeldOK, refs, history,
              delegationBudgets, outside
<1> QED
  BY <1>1, <1>4

LEMMA FlushTypes ==
    ASSUME TypeInv, NEW ds, NEW kind \in Kinds, FlushResults(ds, kind)
    PROVE  TypeInv'
<1> USE DEF TypeInv
<1> DEFINE flush == [op |-> "flush", left |-> ds, kind |-> kind, ids |-> {}]
<1>1. flush \in Step
  BY DEF FlushResults, Known, Step
<1>2. agenda' = [agenda EXCEPT !["tool"] = <<flush, Todo("persist")>>]
  BY DEF FlushResults
<1> HIDE DEF flush
<1>3. AgendaOK'
  BY <1>1, <1>2, AgendaMoves, Plain DEF Strands
<1>4. SavedOK' /\ BridgeOK' /\ HistoryOK' /\ OutsideOK'
  BY DEF FlushResults, SavedOK, BridgeOK, HistoryOK, OutsideOK, HeldOK, refs, history, delegationBudgets,
         savedState, outside
<1> QED
  BY <1>3, <1>4

\* A wake is queued, or an equal one is there.
LEMMA WakesGrow ==
    ASSUME wakes \in Seq(Wake), NEW kind \in Kinds, NEW ids \in SUBSET Delegations, EnqueueWake(kind, ids)
    PROVE  /\ wakes' \in Seq(Wake)
           /\ \A i \in DOMAIN wakes : i \in DOMAIN wakes' /\ wakes'[i] = wakes[i]
           /\ \A i \in DOMAIN wakes' : i \notin DOMAIN wakes =>
                /\ wakes'[i] = [kind |-> kind, ids |-> ids, started |-> FALSE]
                /\ \A j \in DOMAIN wakes : ~(wakes[j].kind = kind /\ wakes[j].ids = ids)
                /\ \A j \in DOMAIN wakes' : j \notin DOMAIN wakes => j = i
           /\ ids # {} => \E i \in DOMAIN wakes' : wakes'[i].kind = kind /\ wakes'[i].ids = ids
<1> DEFINE w == [kind |-> kind, ids |-> ids, started |-> FALSE]
           equal == \E i \in DOMAIN wakes : wakes[i].kind = kind /\ wakes[i].ids = ids
<1>1. w \in Wake /\ w.kind = kind /\ w.ids = ids
  BY DEF Wake, Kinds
<1>2. wakes' = IF ids = {} \/ equal THEN wakes ELSE Append(wakes, w)
  BY DEF EnqueueWake
<1>3. CASE ids = {} \/ equal
  BY <1>2, <1>3
<1>4. CASE ~(ids = {} \/ equal)
  <2>1. wakes' = Append(wakes, w) /\ ~equal
    BY <1>2, <1>4
  <2> HIDE DEF w
  <2>2. /\ wakes' \in Seq(Wake) /\ Len(wakes') = Len(wakes) + 1
        /\ \A i \in 1..Len(wakes) : wakes'[i] = wakes[i]
        /\ wakes'[Len(wakes) + 1] = w
    BY <1>1, <2>1, AppendProperties
  <2>3. DOMAIN wakes = 1..Len(wakes) /\ Len(wakes) \in Nat /\ DOMAIN wakes' = 1..(Len(wakes) + 1)
    BY <2>2, LenProperties
  <2>4. \A i \in DOMAIN wakes : i \in DOMAIN wakes' /\ wakes'[i] = wakes[i]
    BY <2>2, <2>3
  <2>5. \A i \in DOMAIN wakes' : i \notin DOMAIN wakes => i = Len(wakes) + 1
    BY <2>3
  <2>6. Len(wakes) + 1 \in DOMAIN wakes'
    BY <2>3
  <2>7. \A i \in DOMAIN wakes' : i \notin DOMAIN wakes =>
          wakes'[i] = w /\ \A j \in DOMAIN wakes' : j \notin DOMAIN wakes => j = i
    BY <2>2, <2>5
  <2>8. wakes'[Len(wakes) + 1].kind = kind /\ wakes'[Len(wakes) + 1].ids = ids
    BY <1>1, <2>2
  <2> QED
    BY <2>1, <2>2, <2>4, <2>6, <2>7, <2>8 DEF w
<1> QED
  BY <1>3, <1>4

LEMMA FlushedTypes == ASSUME TypeInv, Flushed PROVE TypeInv'
<1> USE DEF TypeInv
<1>1. AgendaOK'
  <2>1. agenda["tool"] # <<>>
    BY Here DEF Flushed, Strands
  <2> QED
    BY <2>1, AgendaMoves, Plain DEF Flushed, Strands, Continue
<1>2. wakes' \in Seq(Wake)
  <2>1. Current("tool") \in Step /\ Current("tool").op = "flush"
    BY Here DEF Flushed, Strands
  <2>2. Current("tool").kind \in Kinds /\ Current("tool").ids \in SUBSET Delegations
    BY <2>1, Fields
  <2> QED
    BY <2>2, WakesGrow DEF Flushed, SavedOK
<1>3. SavedOK' /\ BridgeOK' /\ HistoryOK' /\ OutsideOK'
  BY <1>2 DEF Flushed, SavedOK, BridgeOK, HistoryOK, OutsideOK, HeldOK, refs, history,
              delegationBudgets, outside
<1> QED
  BY <1>1, <1>3

\* The object that a strand works on.
LEMMA OfTypes ==
    ASSUME TypeInv, NEW s \in Strands, NEW d \in Delegations
    PROVE  Of(s, d) \in Delegation
BY DEF TypeInv, SavedOK, BridgeOK, HeldOK, RecOK, Of

\* The agenda <<x>> \o next.
LEMMA LedBy ==
    ASSUME NEW x \in Step, NEW next \in Seq(Step)
    PROVE  /\ <<x>> \o next \in Seq(Step) /\ <<x>> \o next # <<>> /\ Head(<<x>> \o next) = x
           /\ Later(<<x>> \o next) = Steps(next) /\ Steps(<<x>> \o next) = {x} \cup Steps(next)
<1> DEFINE one == <<x>>
<1>1. one \in Seq(Step) /\ Steps(one) = {x} /\ Later(one) = {} /\ Head(one) = x /\ one # <<>>
  BY OneStep
<1> HIDE DEF one
<1>2. /\ one \o next \in Seq(Step) /\ Steps(one \o next) = Steps(one) \cup Steps(next)
      /\ one # <<>> => /\ one \o next # <<>> /\ Head(one \o next) = Head(one)
                       /\ Later(one \o next) = Later(one) \cup Steps(next)
  BY ZenonT(40), <1>1, Joined
<1>3. {} \cup Steps(next) = Steps(next)
  OBVIOUS
<1> QED
  BY <1>1, <1>2, <1>3 DEF one

LEMMA RecordTypes ==
    ASSUME TypeInv, NEW s \in Strands, agenda[s] # <<>>, NEW d \in Delegations,
           NEW next \in Seq(Step), Steps(next) \subseteq Late, RecordResult(s, d, next)
    PROVE  /\ AgendaOK' /\ returned' \in [Delegations \X Rounds -> Nat] /\ failures' \in Nat
<1>1. TodoFor("recorded", d) \in Step
  BY Plain
<1>2. <<TodoFor("recorded", d)>> \o next \in Seq(Step) /\ Later(<<TodoFor("recorded", d)>> \o next) \subseteq Late
  BY <1>1, LedBy
<1>3. Later(next) \subseteq Late
  BY DEF Steps, Later
<1>4. AgendaOK'
  BY <1>2, <1>3, AgendaWent, AgendaMoves DEF RecordResult, TypeInv
<1> DEFINE final == Of(s, d).final
<1>5. final \in {0} \cup Rounds
  BY OfTypes DEF Delegation
<1>8. \/ returned' = returned
      \/ final # 0 /\ returned' = [returned EXCEPT ![<<d, final>>] = @ + 1]
  BY DEF RecordResult
<1>9. returned \in [Delegations \X Rounds -> Nat]
  BY DEF TypeInv, HistoryOK
<1> HIDE DEF final
<1>6. returned' \in [Delegations \X Rounds -> Nat]
  <2>1. CASE returned' = returned
    BY <1>9, <2>1
  <2>2. CASE final # 0 /\ returned' = [returned EXCEPT ![<<d, final>>] = @ + 1]
    <3>1. <<d, final>> \in Delegations \X Rounds
      BY <1>5, <2>2
    <3>2. returned[<<d, final>>] + 1 \in Nat
      BY <1>9, <3>1
    <3> QED
      BY <1>9, <2>2, <3>1, <3>2
  <2> QED
    BY <1>8, <2>1, <2>2
<1>7. failures' \in Nat
  BY DEF RecordResult, TypeInv, HistoryOK, CallFails, CallSucceeds
<1> QED
  BY <1>4, <1>6, <1>7

LEMMA ResultRecordedTypes == ASSUME TypeInv, NEW s \in Strands, ResultRecorded(s) PROVE TypeInv'
<1> USE DEF TypeInv
<1>1. Current(s).d \in Delegations /\ agenda[s] # <<>>
  BY Here, Fields DEF ResultRecorded
<1>2. AgendaOK'
  BY <1>1, AgendaMoves DEF ResultRecorded
<1>3. RecOK(rec')
  <2>1. PICK d \in Delegations : rec' = rec \/ rec' = [rec EXCEPT ![d].injected = TRUE]
    BY <1>1 DEF ResultRecorded
  <2>2. rec \in [Delegations -> Delegation]
    BY DEF SavedOK, RecOK
  <2>3. [rec[d] EXCEPT !.injected = TRUE] \in Delegation
    BY <2>2 DEF Delegation
  <2> QED
    BY <2>1, <2>2, <2>3 DEF RecOK
<1>4. HeldOK'
  <2> DEFINE d == Current(s).d
  <2>1. held' = held \/ (d \in DOMAIN held /\ held' = [held EXCEPT ![d].injected = TRUE])
    BY DEF ResultRecorded
  <2>2. DOMAIN held \subseteq Delegations /\ held \in [DOMAIN held -> Delegation]
    BY DEF BridgeOK, HeldOK
  <2>3. CASE held' = held
    BY <2>2, <2>3 DEF HeldOK
  <2>4. CASE d \in DOMAIN held /\ held' = [held EXCEPT ![d].injected = TRUE]
    <3>1. [held[d] EXCEPT !.injected = TRUE] \in Delegation
      BY <2>2, <2>4 DEF Delegation
    <3> HIDE DEF d
    <3>2. DOMAIN held' = DOMAIN held /\ held' \in [DOMAIN held -> Delegation]
      BY <2>2, <2>4, <3>1
    <3> QED
      BY <2>2, <3>2 DEF HeldOK
  <2> QED
    BY <2>1, <2>3, <2>4
<1>5. SavedOK' /\ BridgeOK' /\ HistoryOK' /\ OutsideOK'
  BY <1>3, <1>4 DEF ResultRecorded, SavedOK, BridgeOK, HistoryOK, OutsideOK, history,
                    delegationBudgets, outside
<1> QED
  BY <1>2, <1>5

LEMMA FlushOneTypes == ASSUME TypeInv, FlushOne PROVE TypeInv'
<1> USE DEF TypeInv
<1> DEFINE flush == Current("tool")
<1>1. flush \in Step /\ flush.op = "flush" /\ agenda["tool"] # <<>>
  BY Here DEF FlushOne, Strands
<1>2. flush.left \subseteq Delegations /\ flush.kind \in Kinds /\ flush.ids \subseteq Delegations
  BY <1>1, Fields
<1>3. PICK d \in flush.left :
        LET rest == [flush EXCEPT !.left = @ \ {d}] IN
        \/ /\ Terminal(d) /\ RecordResult("tool", d, <<[rest EXCEPT !.ids = @ \cup {d}]>>)
        \/ /\ ~Terminal(d) /\ Then("tool", <<rest>>) /\ CallSucceeds /\ UNCHANGED returned
  BY DEF FlushOne
<1> DEFINE rest == [flush EXCEPT !.left = @ \ {d}]
           more == [rest EXCEPT !.ids = @ \cup {d}]
<1>4. flush \in [op : {"flush"}, left : SUBSET Delegations, kind : Kinds, ids : SUBSET Delegations]
  BY <1>1 DEF Step
<1> HIDE DEF flush
<1>5. rest \in [op : {"flush"}, left : SUBSET Delegations, kind : Kinds, ids : SUBSET Delegations]
  BY <1>4
<1>6. more \in [op : {"flush"}, left : SUBSET Delegations, kind : Kinds, ids : SUBSET Delegations]
  BY <1>2, <1>3, <1>5
<1>7. rest \in Late /\ more \in Late /\ rest \in Step /\ more \in Step
  BY <1>5, <1>6 DEF Late, Step
<1>8. <<more>> \in Seq(Step) /\ Steps(<<more>>) \subseteq Late
  BY <1>7, OneStep
<1>9. /\ Terminal(d) /\ RecordResult("tool", d, <<more>>)
      \/ /\ ~Terminal(d) /\ Then("tool", <<rest>>) /\ CallSucceeds /\ UNCHANGED returned
  BY <1>3
<1> HIDE DEF rest, more
<1>10. AgendaOK' /\ returned' \in [Delegations \X Rounds -> Nat] /\ failures' \in Nat
  <2>1. CASE RecordResult("tool", d, <<more>>)
    BY <1>1, <1>2, <1>8, <2>1, RecordTypes DEF Strands
  <2>2. CASE Then("tool", <<rest>>) /\ CallSucceeds /\ UNCHANGED returned
    BY <1>1, <1>7, <2>2, AgendaMoves DEF Strands, CallSucceeds, HistoryOK
  <2> QED
    BY <1>9, <2>1, <2>2
<1>11. SavedOK' /\ BridgeOK' /\ OutsideOK'
  BY DEF FlushOne, SavedOK, BridgeOK, OutsideOK, HeldOK, refs, savedState, outside
<1>12. HistoryOK'
  BY <1>10 DEF FlushOne, HistoryOK
<1> QED
  BY <1>10, <1>11, <1>12

LEMMA ApplyTypes == ASSUME TypeInv, ApplyPolicy PROVE TypeInv'
<1> USE DEF TypeInv
<1> DEFINE d == Current("drain").d
           enqueue == [op |-> "enqueue", d |-> d, mode |-> Of("drain", d).mode]
<1>1. d \in Delegations /\ agenda["drain"] # <<>>
  BY Here, Fields DEF ApplyPolicy, Strands
<1>2. \/ /\ Returnable(Of("drain", d))
         /\ RecordResult("drain", d, <<enqueue>>)
      \/ /\ ~Returnable(Of("drain", d))
         /\ Continue("drain") /\ CallSucceeds /\ UNCHANGED returned
  BY DEF ApplyPolicy
<1> HIDE DEF d
<1>3. enqueue \in Step /\ enqueue \in Late
  <2>1. Of("drain", d).mode \in Modes
    BY <1>1, OfTypes DEF Delegation, Strands
  <2> QED
    BY <1>1, <2>1 DEF Step, Late
<1> HIDE DEF enqueue
<1>4. <<enqueue>> \in Seq(Step) /\ Steps(<<enqueue>>) \subseteq Late
  BY <1>3, OneStep
<1>5. AgendaOK' /\ returned' \in [Delegations \X Rounds -> Nat] /\ failures' \in Nat
  <2>1. CASE RecordResult("drain", d, <<enqueue>>)
    BY <1>1, <1>4, <2>1, RecordTypes DEF Strands
  <2>2. CASE Continue("drain") /\ CallSucceeds /\ UNCHANGED returned
    BY <1>1, <2>2, AgendaMoves DEF Strands, CallSucceeds, HistoryOK
  <2> QED
    BY <1>2, <2>1, <2>2
<1>6. SavedOK' /\ BridgeOK' /\ OutsideOK'
  BY DEF ApplyPolicy, SavedOK, BridgeOK, OutsideOK, HeldOK, refs, savedState, outside
<1>7. HistoryOK'
  BY <1>5 DEF ApplyPolicy, HistoryOK
<1> QED
  BY <1>5, <1>6, <1>7

LEMMA EnqueueTypes == ASSUME TypeInv, EnqueueByPolicy PROVE TypeInv'
<1> USE DEF TypeInv
<1>1. Current("drain").d \in Delegations /\ agenda["drain"] # <<>>
  BY Here, Fields DEF EnqueueByPolicy, Strands
<1>2. AgendaOK'
  BY <1>1, AgendaMoves DEF EnqueueByPolicy, Strands
<1>3. wakes' \in Seq(Wake)
  <2>1. Members \in SUBSET Delegations /\ {Current("drain").d} \in SUBSET Delegations
    BY <1>1 DEF Members, Known
  <2>2. wakes \in Seq(Wake)
    BY DEF SavedOK
  <2>3. EnqueueWake("delegation", {Current("drain").d}) => wakes' \in Seq(Wake)
    BY <2>1, <2>2, WakesGrow DEF Kinds
  <2>4. EnqueueWake("group", Members) => wakes' \in Seq(Wake)
    BY <2>1, <2>2, WakesGrow DEF Kinds
  <2> QED
    BY <2>2, <2>3, <2>4 DEF EnqueueByPolicy
<1>4. SavedOK' /\ BridgeOK' /\ HistoryOK' /\ OutsideOK'
  BY <1>3 DEF EnqueueByPolicy, SavedOK, BridgeOK, HistoryOK, OutsideOK, HeldOK, refs, history,
              delegationBudgets, outside
<1> QED
  BY <1>2, <1>4

\* The agenda of a strand that looks for a wake: with what it leaves behind.
WakeSteps(s) == IF Current(s).op = "wakeAfter" THEN <<TodoWith("mark", Current(s).e)>> ELSE <<>>
IdleSteps(s) == IF Current(s).op = "wakeAfter" THEN <<TodoWith("settle", Current(s).e)>> ELSE <<>>

LEMMA WakeLeaves ==
    ASSUME AgendaOK, NEW s \in Strands, At(s, "wake") \/ At(s, "wakeAfter")
    PROVE  /\ WakeSteps(s) \in Seq(Step) /\ Steps(WakeSteps(s)) \subseteq Late
           /\ IdleSteps(s) \in Seq(Step) /\ Steps(IdleSteps(s)) \subseteq Late
           /\ Later(IdleSteps(s)) = {} /\ Later(WakeSteps(s)) = {}
           /\ Steps(WakeSteps(s)) \subseteq {TodoWith("mark", Current(s).e)}
           /\ Steps(IdleSteps(s)) \subseteq {TodoWith("settle", Current(s).e)}
           /\ agenda[s] # <<>> /\ Current(s) \in Step /\ Current(s) \in Steps(agenda[s])
<1>1. Current(s) \in Step /\ agenda[s] # <<>> /\ Current(s) \in Steps(agenda[s])
  BY Here
<1>2. CASE Current(s).op = "wakeAfter"
  <2>1. Current(s).e \in Stop
    BY <1>1, <1>2, Fields
  <2>2. /\ TodoWith("mark", Current(s).e) \in Late /\ TodoWith("settle", Current(s).e) \in Late
        /\ TodoWith("mark", Current(s).e) \in Step /\ TodoWith("settle", Current(s).e) \in Step
    BY <2>1, Plain
  <2>3. /\ WakeSteps(s) = <<TodoWith("mark", Current(s).e)>>
        /\ IdleSteps(s) = <<TodoWith("settle", Current(s).e)>>
    BY <1>2 DEF WakeSteps, IdleSteps
  <2> QED
    BY <1>1, <2>2, <2>3, OneStep
<1>3. CASE Current(s).op # "wakeAfter"
  <2>1. WakeSteps(s) = <<>> /\ IdleSteps(s) = <<>>
    BY <1>3 DEF WakeSteps, IdleSteps
  <2> QED
    BY <1>1, <2>1, NoStep
<1> QED
  BY <1>2, <1>3

\* What looking for a wake comes to.
LEMMA WakeCases ==
    ASSUME AgendaOK, NEW s \in Strands, ProcessPendingWakes(s)
    PROVE  /\ At(s, "wake") \/ At(s, "wakeAfter")
           /\ \/ /\ Then(s, IdleSteps(s)) /\ CallSucceeds
                 /\ UNCHANGED <<main, mainInbox, woken>>
              \/ /\ ThrowIn(s) /\ CallFails
                 /\ UNCHANGED <<main, mainInbox, woken>>
              \/ /\ main.phase = "ended" /\ CallSucceeds
                 /\ main' = [turn |-> main.turn + 1, phase |-> "running"]
                 /\ mainInbox' = Append(mainInbox, [type |-> "started", turn |-> main.turn + 1])
                 /\ \E i \in DOMAIN wakes :
                      /\ ~wakes[i].started
                      /\ woken' = Append(woken, [kind |-> wakes[i].kind, ids |-> wakes[i].ids,
                                                 results |-> {p \in wakes[i].ids \X Rounds : returned[p] > 0}])
                      /\ Then(s, <<[op |-> "woken", i |-> i]>> \o WakeSteps(s))
           /\ UNCHANGED <<savedState, stateFile, poke, bridgeUp, spool, thread, returned,
                          delegationScenario, flushes, bridgeCrashes, refs>>
BY Zenon DEF ProcessPendingWakes, IdleSteps, WakeSteps, NextWake, Unstarted, Active

LEMMA PendingWakesTypes == ASSUME TypeInv, NEW s \in Strands, ProcessPendingWakes(s) PROVE TypeInv'
<1> USE DEF TypeInv
<1>1. /\ agenda[s] # <<>>
      /\ IdleSteps(s) \in Seq(Step) /\ Later(IdleSteps(s)) = {}
      /\ WakeSteps(s) \in Seq(Step) /\ Steps(WakeSteps(s)) \subseteq Late
  BY WakeCases, WakeLeaves
<1>2. SavedOK' /\ BridgeOK'
  BY WakeCases DEF SavedOK, BridgeOK, HeldOK, savedState, refs
<1>3. CASE /\ Then(s, IdleSteps(s)) \/ ThrowIn(s)
           /\ CallSucceeds \/ CallFails
           /\ UNCHANGED <<main, mainInbox, woken>>
  <2>1. AgendaOK'
    BY <1>1, <1>3, AgendaWent, AgendaMoves
  <2>2. OutsideOK' /\ HistoryOK'
    BY <1>3, WakeCases DEF OutsideOK, HistoryOK, CallSucceeds, CallFails
  <2> QED
    BY <1>2, <2>1, <2>2
<1>4. ASSUME NEW i \in DOMAIN wakes, CallSucceeds,
             main' = [turn |-> main.turn + 1, phase |-> "running"],
             mainInbox' = Append(mainInbox, [type |-> "started", turn |-> main.turn + 1]),
             woken' = Append(woken, [kind |-> wakes[i].kind, ids |-> wakes[i].ids,
                                     results |-> {p \in wakes[i].ids \X Rounds : returned[p] > 0}]),
             Then(s, <<[op |-> "woken", i |-> i]>> \o WakeSteps(s))
      PROVE  TypeInv'
  <2> DEFINE w == [op |-> "woken", i |-> i]
             n == [kind |-> wakes[i].kind, ids |-> wakes[i].ids,
                   results |-> {p \in wakes[i].ids \X Rounds : returned[p] > 0}]
             m == [type |-> "started", turn |-> main.turn + 1]
  <2>1. wakes[i] \in Wake /\ i \in Nat
    BY DEF SavedOK
  <2>2. w \in Step
    BY <2>1 DEF Step
  <2>3. AgendaOK'
    <3> HIDE DEF w
    <3>1. <<w>> \o WakeSteps(s) \in Seq(Step) /\ Later(<<w>> \o WakeSteps(s)) \subseteq Late
      BY <1>1, <2>2, LedBy
    <3>2. Then(s, <<w>> \o WakeSteps(s))
      BY <1>4 DEF w
    <3> QED
      BY <1>1, <3>1, <3>2, AgendaWent
  <2>4. n \in WokenTurn
    BY <2>1 DEF Wake, WokenTurn, Kinds
  <2>5. m \in [type : {"started", "completed"}, turn : Nat]
    BY DEF OutsideOK
  <2>6. woken' = Append(woken, n) /\ mainInbox' = Append(mainInbox, m)
    BY <1>4
  <2> HIDE DEF n, m
  <2>7. OutsideOK'
    BY <1>4, <2>5, <2>6, WakeCases DEF OutsideOK, Phase
  <2>8. HistoryOK'
    BY <1>4, <2>4, <2>6, WakeCases DEF HistoryOK, CallSucceeds
  <2> QED
    BY <1>2, <2>3, <2>7, <2>8
<1> QED
  BY <1>3, <1>4, WakeCases

\* A wake is marked as started.
LEMMA Marked ==
    ASSUME NEW w \in Seq(Wake), NEW i, NEW w2, w2 = [w EXCEPT ![i].started = TRUE]
    PROVE  /\ w2 \in Seq(Wake) /\ DOMAIN w2 = DOMAIN w
           /\ \A j \in DOMAIN w :
                /\ w2[j].kind = w[j].kind /\ w2[j].ids = w[j].ids
                /\ j = i => w2[j].started
                /\ j # i => w2[j] = w[j]
<1> DEFINE x == [w[i] EXCEPT !.started = TRUE]
<1>1. DOMAIN w = 1..Len(w) /\ \A j \in DOMAIN w : w[j] \in Wake
  BY LenProperties
<1>2. w2 = [w EXCEPT ![i] = x]
  OBVIOUS
<1>3. CASE i \in DOMAIN w
  <2>1. x \in Wake /\ x.kind = w[i].kind /\ x.ids = w[i].ids /\ x.started
    BY <1>1, <1>3 DEF Wake
  <2> HIDE DEF x
  <2>4. i \in 1..Len(w)
    BY <1>1, <1>3
  <2>5. w \in [1..Len(w) -> Wake] /\ Len(w) \in Nat
    BY LenProperties
  <2>6. w2 \in [1..Len(w) -> Wake] /\ \A j \in 1..Len(w) : w2[j] = IF j = i THEN x ELSE w[j]
    BY <1>2, <2>1, <2>4, <2>5
  <2>7. w2 \in Seq(Wake)
    BY <2>5, <2>6, SeqDef
  <2>2. w2 \in Seq(Wake) /\ Len(w2) = Len(w) /\ \A j \in 1..Len(w) : w2[j] = IF j = i THEN x ELSE w[j]
    <3>1. DOMAIN w2 = 1..Len(w2) /\ Len(w2) \in Nat
      BY <2>7, LenProperties
    <3>2. DOMAIN w2 = 1..Len(w)
      BY <2>6
    <3>3. Len(w2) = Len(w)
      BY <2>5, <3>1, <3>2
    <3> QED
      BY <2>6, <2>7, <3>3
  <2>3. DOMAIN w2 = DOMAIN w
    BY <1>1, <2>2, LenProperties
  <2> QED
    BY <1>1, <2>1, <2>2, <2>3
<1>4. CASE i \notin DOMAIN w
  <2>1. w2 = w
    BY <1>1, <1>2, <1>4
  <2> QED
    BY <1>4, <2>1
<1> QED
  BY <1>3, <1>4

LEMMA WakeStartedTypes == ASSUME TypeInv, NEW s \in Strands, WakeStarted(s) PROVE TypeInv'
<1> USE DEF TypeInv
<1>1. agenda[s] # <<>>
  BY Here DEF WakeStarted
<1>2. AgendaOK'
  BY <1>1, AgendaMoves DEF WakeStarted
<1>3. wakes' \in Seq(Wake)
  BY Marked DEF WakeStarted, SavedOK
<1>4. SavedOK' /\ BridgeOK' /\ HistoryOK' /\ OutsideOK'
  BY <1>3 DEF WakeStarted, SavedOK, BridgeOK, HistoryOK, OutsideOK, HeldOK, refs, history,
              delegationBudgets, outside
<1> QED
  BY <1>2, <1>4

LEMMA RemainingSteps ==
    ASSUME NEW es \in SUBSET Stop
    PROVE  /\ Remaining(es) \in Seq(Step) /\ Steps(Remaining(es)) \subseteq {[op |-> "events", left |-> es]}
           /\ Later(Remaining(es)) = {} /\ [op |-> "events", left |-> es] \in Late
<1> DEFINE x == [op |-> "events", left |-> es]
<1>1. x \in Late /\ x \in Step
  BY DEF Late, Step
<1>2. Remaining(es) = IF es = {} THEN <<>> ELSE <<x>>
  BY DEF Remaining
<1> HIDE DEF x
<1>3. Remaining(es) \in Seq(Step) /\ Steps(Remaining(es)) \subseteq {x} /\ Later(Remaining(es)) = {}
  BY <1>1, <1>2, NoStep, OneStep
<1> QED
  BY <1>1, <1>3 DEF x

LEMMA StartDrainTypes == ASSUME TypeInv, StartDrain PROVE TypeInv'
<1> USE DEF TypeInv
<1>1. Remaining(spool) \in Seq(Step) /\ Later(Remaining(spool)) = {}
  BY RemainingSteps DEF OutsideOK
<1>2. AgendaOK'
  BY <1>1, AgendaPut DEF StartDrain, Strands
<1>3. SavedOK' /\ BridgeOK' /\ HistoryOK' /\ OutsideOK'
  BY DEF StartDrain, SavedOK, BridgeOK, HistoryOK, OutsideOK, HeldOK, refs, history,
         delegationBudgets, outside, savedState
<1> QED
  BY <1>2, <1>3

\* Handling an event puts steps before the events that are left.
LEMMA EventSteps ==
    ASSUME AgendaOK, At("drain", "events"), NEW e \in Current("drain").left
    PROVE  LET rest == Remaining(Current("drain").left \ {e}) IN
           /\ e \in Stop /\ agenda["drain"] # <<>> /\ rest \in Seq(Step) /\ Steps(rest) \subseteq Late
           /\ Steps(rest) \subseteq {[op |-> "events", left |-> Current("drain").left \ {e}]}
           /\ Current("drain").left \subseteq Stop
<1>1. Current("drain") \in Step /\ Current("drain").op = "events" /\ agenda["drain"] # <<>>
  BY Here DEF Strands
<1>2. Current("drain").left \subseteq Stop
  BY <1>1, Fields
<1> QED
  BY <1>1, <1>2, RemainingSteps

\* What the handler of an event leaves to do.
Handled(e) ==
    IF e \in processedEvents THEN <<TodoWith("archive", e)>>
    ELSE IF e.thread = Main THEN <<TodoWith("wakeAfter", e)>>
    ELSE IF e.thread \notin Known THEN <<TodoWith("mark", e)>>
    ELSE <<TodoFor("policy", e.thread), Todo("wake")>> \o <<TodoWith("mark", e)>>
LEMMA HandledSteps ==
    ASSUME NEW e \in Stop
    PROVE  /\ Handled(e) \in Seq(Step) /\ Later(Handled(e)) \subseteq Late /\ Handled(e) # <<>>
           /\ Steps(Handled(e)) = IF e \in processedEvents THEN {TodoWith("archive", e)}
                                  ELSE IF e.thread = Main THEN {TodoWith("wakeAfter", e)}
                                  ELSE IF e.thread \notin Known THEN {TodoWith("mark", e)}
                                  ELSE {TodoFor("policy", e.thread), Todo("wake"), TodoWith("mark", e)}
           /\ (e \notin processedEvents /\ e.thread \in Delegations /\ e.thread \in Known)
              => Head(Handled(e)) = TodoFor("policy", e.thread)
<1>1. TodoWith("archive", e) \in Late /\ TodoWith("wakeAfter", e) \in Late /\ TodoWith("mark", e) \in Late
  BY Plain
<1>2. Todo("wake") \in Late /\ Late \subseteq Step
  BY Plain
<1>3. CASE e \in processedEvents \/ e.thread = Main \/ e.thread \notin Known
  <2>1. Main \notin Delegations
    BY DelegationAssumption
  <2>2. ~(e \notin processedEvents /\ e.thread \in Delegations /\ e.thread \in Known)
    BY <1>3, <2>1
  <2> QED
    BY <1>1, <1>2, <1>3, <2>2, OneStep DEF Handled
<1>4. CASE e \notin processedEvents /\ e.thread # Main /\ e.thread \in Known
  <2> DEFINE p == TodoFor("policy", e.thread)
             w == Todo("wake")
             m == TodoWith("mark", e)
             two == <<p, w>>
             one == <<m>>
  <2>1. p \in Step
    BY <1>4, Plain DEF Known
  <2>2. Handled(e) = two \o one
    BY <1>4 DEF Handled
  <2> HIDE DEF p, w, m
  <2>3. w \in Late /\ m \in Late /\ w \in Step /\ m \in Step
    BY <1>1, <1>2 DEF w, m
  <2>4. /\ two \in Seq(Step) /\ Steps(two) = {p, w} /\ Later(two) = {w} /\ Head(two) = p /\ two # <<>>
        /\ one \in Seq(Step) /\ Steps(one) = {m}
    BY <2>1, <2>3, OneStep, TwoSteps
  <2> HIDE DEF two, one
  <2>5. /\ two \o one \in Seq(Step) /\ Steps(two \o one) = Steps(two) \cup Steps(one)
        /\ two # <<>> => /\ two \o one # <<>> /\ Head(two \o one) = Head(two)
                         /\ Later(two \o one) = Later(two) \cup Steps(one)
    BY <2>4, Joined, Zenon
  <2>6. /\ Handled(e) \in Seq(Step) /\ Later(Handled(e)) \subseteq Late /\ Handled(e) # <<>>
        /\ Steps(Handled(e)) = {p, w, m} /\ Head(Handled(e)) = p
    BY <2>2, <2>3, <2>4, <2>5
  <2> QED
    BY <1>4, <2>6 DEF p, w, m
<1> QED
  BY <1>3, <1>4

\* What taking up an event comes to.
LEMMA EventCases ==
    ASSUME AgendaOK, HandleEvent
    PROVE  \E e \in Current("drain").left :
             /\ Then("drain", Handled(e) \o Remaining(Current("drain").left \ {e}))
             /\ \/ UNCHANGED rec /\ (e \in processedEvents \/ e.thread = Main \/ e.thread \notin Known)
                \/ /\ e \notin processedEvents /\ e.thread \in Known
                   /\ rec' = [rec EXCEPT ![e.thread] = [@ EXCEPT !.status = "complete", !.final = e.turn]]
<1>1. PICK e \in Current("drain").left :
         LET d == e.thread
             Do(steps) == Then("drain", steps \o Remaining(Current("drain").left \ {e})) IN
         \/ /\ e \in processedEvents
            /\ Do(<<TodoWith("archive", e)>>) /\ UNCHANGED rec
         \/ /\ e \notin processedEvents /\ d = Main
            /\ Do(<<TodoWith("wakeAfter", e)>>) /\ UNCHANGED rec
         \/ /\ e \notin processedEvents /\ d # Main /\ d \notin Known
            /\ Do(<<TodoWith("mark", e)>>) /\ UNCHANGED rec
         \/ /\ e \notin processedEvents /\ d \in Known
            /\ rec' = [rec EXCEPT ![d] = [@ EXCEPT !.status = "complete", !.final = e.turn]]
            /\ Do(HandleThenMark(e, <<TodoFor("policy", d), Todo("wake")>>))
  BY DEF HandleEvent
<1>2. e.thread \in Known => e.thread # Main
  BY DelegationAssumption DEF Known
<1>3. Then("drain", Handled(e) \o Remaining(Current("drain").left \ {e}))
  <2> DEFINE more == Remaining(Current("drain").left \ {e})
  <2>1. CASE e \in processedEvents
    BY <1>1, <2>1 DEF Handled
  <2>2. CASE e \notin processedEvents /\ e.thread = Main
    BY <1>1, <1>2, <2>2 DEF Handled
  <2>3. CASE e \notin processedEvents /\ e.thread # Main /\ e.thread \notin Known
    BY <1>1, <2>3 DEF Handled
  <2>4. CASE e \notin processedEvents /\ e.thread # Main /\ e.thread \in Known
    BY <1>1, <2>4 DEF Handled, HandleThenMark
  <2> QED
    BY <2>1, <2>2, <2>3, <2>4
<1>4. \/ UNCHANGED rec /\ (e \in processedEvents \/ e.thread = Main \/ e.thread \notin Known)
      \/ /\ e \notin processedEvents /\ e.thread \in Known
         /\ rec' = [rec EXCEPT ![e.thread] = [@ EXCEPT !.status = "complete", !.final = e.turn]]
  BY <1>1
<1> QED
  BY <1>3, <1>4

LEMMA HandleEventTypes == ASSUME TypeInv, HandleEvent PROVE TypeInv'
<1> USE DEF TypeInv
<1>1. PICK e \in Current("drain").left :
             /\ Then("drain", Handled(e) \o Remaining(Current("drain").left \ {e}))
             /\ \/ UNCHANGED rec
                \/ /\ e.thread \in Known
                   /\ rec' = [rec EXCEPT ![e.thread] = [@ EXCEPT !.status = "complete", !.final = e.turn]]
  BY EventCases
<1> DEFINE more == Remaining(Current("drain").left \ {e})
<1>2. At("drain", "events")
  BY DEF HandleEvent
<1>3. e \in Stop /\ agenda["drain"] # <<>> /\ more \in Seq(Step) /\ Steps(more) \subseteq Late
  BY <1>2, EventSteps
<1>4. Handled(e) \in Seq(Step) /\ Later(Handled(e)) \subseteq Late
  BY <1>3, HandledSteps
<1>5. Then("drain", Handled(e) \o more)
  BY <1>1
<1> HIDE DEF more
<1>6. Handled(e) \o more \in Seq(Step) /\ Later(Handled(e) \o more) \subseteq Late
  BY <1>3, <1>4, Joined
<1>7. AgendaOK'
  BY <1>3, <1>5, <1>6, AgendaWent DEF Strands
<1>8. RecOK(rec')
  <2>1. CASE UNCHANGED rec
    BY <2>1 DEF SavedOK, RecOK
  <2>2. CASE /\ e.thread \in Known
             /\ rec' = [rec EXCEPT ![e.thread] = [@ EXCEPT !.status = "complete", !.final = e.turn]]
    <3>1. e.thread \in Delegations /\ e.turn \in Rounds
      BY <1>3, <2>2, DelegationAssumption DEF Known, Stop
    <3> QED
      BY <2>2, <3>1 DEF SavedOK, RecOK, Delegation, Status
  <2> QED
    BY <1>1, <2>1, <2>2
<1>9. HeldOK'
  BY DEF HandleEvent, HeldOK
<1>10. SavedOK' /\ BridgeOK' /\ HistoryOK' /\ OutsideOK'
  BY <1>8, <1>9 DEF HandleEvent, SavedOK, BridgeOK, HistoryOK, OutsideOK, history,
                    delegationBudgets, outside
<1> QED
  BY <1>7, <1>10

LEMMA SettleTypes == ASSUME TypeInv, SettleMainStop PROVE TypeInv'
<1> USE DEF TypeInv
<1>1. Current("drain").e \in Stop /\ agenda["drain"] # <<>>
  BY Here, Fields DEF SettleMainStop, Strands
<1>2. TodoWith("mark", Current("drain").e) \in Step
  BY <1>1, Plain
<1>3. AgendaOK'
  BY <1>1, <1>2, AgendaMoves DEF SettleMainStop, Strands
<1>4. SavedOK' /\ BridgeOK' /\ HistoryOK' /\ OutsideOK'
  BY DEF SettleMainStop, SavedOK, BridgeOK, HistoryOK, OutsideOK, HeldOK, refs, history,
         delegationBudgets, outside, savedState
<1> QED
  BY <1>3, <1>4

LEMMA MarkTypes == ASSUME TypeInv, MarkProcessed PROVE TypeInv'
<1> USE DEF TypeInv
<1>1. Current("drain").e \in Stop /\ agenda["drain"] # <<>>
  BY Here, Fields DEF MarkProcessed, Strands
<1>2. TodoWith("archive", Current("drain").e) \in Late /\ Todo("persist") \in Step
  BY <1>1, Plain
<1>3. AgendaOK'
  BY <1>1, <1>2, AgendaMoves DEF MarkProcessed, Strands
<1>4. HeldOK'
  BY DEF MarkProcessed, HeldOK
<1>5. processedEvents' \subseteq Event
  BY <1>1 DEF MarkProcessed, SavedOK, Stop
<1>6. SavedOK' /\ BridgeOK' /\ HistoryOK' /\ OutsideOK'
  BY <1>4, <1>5 DEF MarkProcessed, SavedOK, BridgeOK, HistoryOK, OutsideOK, history,
         delegationBudgets, outside
<1> QED
  BY <1>3, <1>6

LEMMA ArchiveTypes == ASSUME TypeInv, Archive PROVE TypeInv'
<1> USE DEF TypeInv
<1>1. AgendaOK'
  BY Here, AgendaMoves DEF Archive, Strands
<1>2. SavedOK' /\ BridgeOK' /\ HistoryOK' /\ OutsideOK'
  BY DEF Archive, SavedOK, BridgeOK, HistoryOK, OutsideOK, HeldOK, refs, history,
         delegationBudgets, savedState
<1> QED
  BY <1>1, <1>2

LEMMA PersistTypes == ASSUME TypeInv, NEW s \in Strands, PersistState(s) PROVE TypeInv'
<1> USE DEF TypeInv
<1>1. AgendaOK'
  BY Here, AgendaMoves DEF PersistState
<1>2. Snapshot \in State
  BY DEF Snapshot, State, SavedOK, RecOK
<1>3. fresh' \in BOOLEAN
  BY DEF PersistState
<1>4. SavedOK' /\ BridgeOK' /\ HistoryOK' /\ OutsideOK'
  BY <1>2, <1>3 DEF PersistState, SavedOK, BridgeOK, HistoryOK, OutsideOK, HeldOK, history,
         delegationBudgets, savedState, outside
<1> QED
  BY <1>1, <1>4

LEMMA NoticeTypes ==
    ASSUME TypeInv, HandleMainNotification \/ RunnerReconciles \/ UserTurn
    PROVE  TypeInv'
<1> USE DEF TypeInv
<1>1. CASE HandleMainNotification
  <2> DEFINE Message == [type : {"started", "completed"}, turn : Nat]
  <2>3. mainInbox \in Seq(Message) /\ mainInbox # <<>>
    BY <1>1 DEF HandleMainNotification, OutsideOK
  <2>4. Head(mainInbox) \in Message /\ Tail(mainInbox) \in Seq(Message)
    <3> HIDE DEF Message
    <3> QED
      BY <2>3, HeadTailProperties
  <2>1. Head(mainInbox).turn \in Nat /\ Tail(mainInbox) \in Seq([type : {"started", "completed"}, turn : Nat])
    BY <2>4
  <2>2. AgendaOK'
    BY <1>1, AgendaMoves, Plain DEF HandleMainNotification, Strands
  <2>5. SavedOK' /\ busyWith' \in Nat
    BY <1>1, <2>1 DEF HandleMainNotification, SavedOK
  <2>6. BridgeOK' /\ HistoryOK'
    BY <1>1 DEF HandleMainNotification, BridgeOK, HistoryOK, HeldOK, refs, history, delegationBudgets
  <2>7. OutsideOK'
    <3>1. mainInbox' \in Seq([type : {"started", "completed"}, turn : Nat]) /\ UNCHANGED <<spool, thread, main>>
      BY <1>1, <2>1 DEF HandleMainNotification
    <3> QED
      BY <3>1 DEF OutsideOK
  <2> QED
    BY <2>2, <2>5, <2>6, <2>7
<1>2. CASE RunnerReconciles
  <2>1. AgendaOK'
    BY <1>2, AgendaMoves, Plain DEF RunnerReconciles, Strands
  <2>2. SavedOK' /\ BridgeOK' /\ HistoryOK' /\ OutsideOK'
    BY <1>2 DEF RunnerReconciles, SavedOK, BridgeOK, HistoryOK, OutsideOK, HeldOK, refs,
         history, delegationBudgets, outside
  <2> QED
    BY <2>1, <2>2
<1>3. CASE UserTurn
  <2>1. AgendaOK'
    BY <1>3 DEF UserTurn, AgendaOK
  <2>2. SavedOK' /\ BridgeOK' /\ HistoryOK' /\ OutsideOK'
    BY <1>3 DEF UserTurn, SavedOK, BridgeOK, HistoryOK, OutsideOK, HeldOK, refs,
         history, delegationBudgets, Phase
  <2> QED
    BY <2>1, <2>2
<1> QED
  BY <1>1, <1>2, <1>3

LEMMA OutsideTypes ==
    ASSUME TypeInv, MainStops \/ MainEnds \/ \E d \in Delegations : ThreadStops(d) \/ ThreadEnds(d)
    PROVE  TypeInv'
<1> USE DEF TypeInv
<1>1. CASE MainStops
  <2>1. [thread |-> Main, turn |-> main.turn] \in Stop
    BY DEF OutsideOK, Stop, Event
  <2>2. SavedOK' /\ BridgeOK' /\ HistoryOK' /\ AgendaOK'
    BY <1>1 DEF MainStops, SavedOK, BridgeOK, HistoryOK, AgendaOK, HeldOK, refs,
         history, delegationBudgets, savedState
  <2>3. OutsideOK'
    BY <1>1, <2>1 DEF MainStops, OutsideOK, Phase
  <2> QED
    BY <2>2, <2>3
<1>2. CASE MainEnds
  <2>1. [type |-> "completed", turn |-> main.turn] \in [type : {"started", "completed"}, turn : Nat]
    BY DEF OutsideOK
  <2>2. SavedOK' /\ BridgeOK' /\ HistoryOK' /\ AgendaOK'
    BY <1>2 DEF MainEnds, SavedOK, BridgeOK, HistoryOK, AgendaOK, HeldOK, refs,
         history, delegationBudgets, savedState
  <2>4. mainInbox' \in Seq([type : {"started", "completed"}, turn : Nat])
    <3> DEFINE m == [type |-> "completed", turn |-> main.turn]
               Message == [type : {"started", "completed"}, turn : Nat]
    <3>1. mainInbox' = mainInbox \/ mainInbox' = Append(mainInbox, m)
      BY <1>2 DEF MainEnds
    <3>2. m \in Message /\ mainInbox \in Seq(Message)
      BY <2>1 DEF OutsideOK
    <3> HIDE DEF m, Message
    <3>3. mainInbox' \in Seq(Message)
      BY <3>1, <3>2, AppendProperties
    <3> QED
      BY <3>3 DEF Message
  <2>3. OutsideOK'
    BY <1>2, <2>4 DEF MainEnds, OutsideOK, Phase
  <2> QED
    BY <2>2, <2>3
<1>3. ASSUME NEW d \in Delegations, ThreadStops(d) PROVE TypeInv'
  <2>1. thread[d].turn \in Rounds
    BY <1>3, DelegationAssumption DEF ThreadStops, OutsideOK, Rounds
  <2>2. [thread |-> d, turn |-> thread[d].turn] \in Stop
    BY <2>1, DelegationAssumption DEF Stop, Event, Rounds
  <2>3. SavedOK' /\ BridgeOK' /\ HistoryOK' /\ AgendaOK'
    BY <1>3 DEF ThreadStops, SavedOK, BridgeOK, HistoryOK, AgendaOK, HeldOK, refs,
         history, delegationBudgets, savedState
  <2>4. OutsideOK'
    BY <1>3, <2>2 DEF ThreadStops, OutsideOK, Phase
  <2> QED
    BY <2>3, <2>4
<1>4. ASSUME NEW d \in Delegations, ThreadEnds(d) PROVE TypeInv'
  <2>1. SavedOK' /\ BridgeOK' /\ HistoryOK' /\ AgendaOK'
    BY <1>4 DEF ThreadEnds, SavedOK, BridgeOK, HistoryOK, AgendaOK, HeldOK, refs,
         history, delegationBudgets, savedState
  <2>2. OutsideOK'
    BY <1>4 DEF ThreadEnds, OutsideOK, Phase
  <2> QED
    BY <2>1, <2>2
<1> QED
  BY <1>1, <1>2, <1>3, <1>4

LEMMA NoAgenda ==
    ASSUME agenda' = [s \in Strands |-> <<>>]
    PROVE  /\ AgendaOK'
           /\ \A s \in Strands : agenda'[s] = <<>> /\ Steps(agenda'[s]) = {} /\ Later(agenda'[s]) = {}
<1>1. <<>> \in Seq(Step) /\ Steps(<<>>) = {} /\ Later(<<>>) = {}
  BY NoStep
<1> QED
  BY <1>1 DEF AgendaOK

LEMMA CrashTypes == ASSUME TypeInv, BridgeCrashes \/ StartBackgroundWork PROVE TypeInv'
<1> USE DEF TypeInv
<1>1. CASE BridgeCrashes
  <2>1. AgendaOK'
    BY <1>1, NoAgenda DEF BridgeCrashes
  <2>2. HeldOK' /\ <<>> \in Seq([type : {"started", "completed"}, turn : Nat])
    BY <1>1 DEF BridgeCrashes, HeldOK
  <2>3. /\ stateFile.rec \in [Delegations -> Delegation] /\ stateFile.wakes \in Seq(Wake)
        /\ stateFile.processed \subseteq Event /\ stateFile.busyWith \in Nat
    BY DEF SavedOK, State
  <2>4. SavedOK'
    BY <1>1, <2>3 DEF BridgeCrashes, SavedOK, RecOK
  <2>5. BridgeOK'
    BY <1>1, <2>2 DEF BridgeCrashes, BridgeOK
  <2>6. HistoryOK'
    BY <1>1 DEF BridgeCrashes, HistoryOK, history
  <2>7. OutsideOK'
    BY <1>1, <2>2 DEF BridgeCrashes, OutsideOK
  <2> QED
    BY <2>1, <2>4, <2>5, <2>6, <2>7
<1>2. CASE StartBackgroundWork
  BY <1>2 DEF StartBackgroundWork, SavedOK, BridgeOK, HistoryOK, OutsideOK, AgendaOK, HeldOK, refs,
         history, delegationBudgets, savedState, outside
<1> QED
  BY <1>1, <1>2

LEMMA Quiet ==
    ASSUME TypeInv, UNCHANGED delegationVars
    PROVE  TypeInv'
BY DEF TypeInv, SavedOK, BridgeOK, HistoryOK, OutsideOK, AgendaOK, HeldOK, delegationVars, refs,
       history, delegationBudgets, savedState, outside

LEMMA InitTypes == DelegationInit => TypeInv
<1> SUFFICES ASSUME DelegationInit PROVE TypeInv
  OBVIOUS
<1>1. NoDelegation \in Delegation
  BY DEF NoDelegation, Delegation, Status, Modes
<1>2. SavedOK
  <2>1. <<>> \in Seq(Wake)
    OBVIOUS
  <2> QED
    BY <1>1, <2>1 DEF DelegationInit, SavedOK, RecOK, State
<1>3. BridgeOK
  <2>1. HeldOK
    BY DEF DelegationInit, HeldOK
  <2> QED
    BY <2>1 DEF DelegationInit, BridgeOK
<1>4. OutsideOK
  BY DelegationAssumption DEF DelegationInit, OutsideOK, Phase
<1>5. HistoryOK
  BY DEF DelegationInit, HistoryOK
<1>6. AgendaOK
  <2>1. <<>> \in Seq(Step) /\ Later(<<>>) = {}
    BY NoStep
  <2> QED
    BY <2>1 DEF DelegationInit, AgendaOK
<1> QED
  BY <1>2, <1>3, <1>4, <1>5, <1>6 DEF TypeInv

LEMMA TypeStep == ASSUME TypeInv, [DelegationNext]_delegationVars PROVE TypeInv'
<1>1. CASE Drain
  BY <1>1, StartDrainTypes, HandleEventTypes, ApplyTypes, ResultRecordedTypes, EnqueueTypes,
     PendingWakesTypes, WakeStartedTypes, SettleTypes, MarkTypes, PersistTypes, ArchiveTypes
     DEF Drain, Strands
<1>2. CASE Tool
  BY <1>2, DelegationReadTypes, FlushOneTypes, ResultRecordedTypes, FlushedTypes, PendingWakesTypes,
     WakeStartedTypes, PersistTypes
     DEF Tool, Strands
<1>3. CASE Notice
  BY <1>3, NoticeTypes, PendingWakesTypes, WakeStartedTypes, PersistTypes DEF Notice, Strands
<1>4. CASE Call
  BY <1>4, StartTypes, SendTypes, ReadTypes, ResumeTypes, PolicyTypes, FlushTypes DEF Call, Kinds
<1>5. CASE UserTurn \/ RunnerReconciles
  BY <1>5, NoticeTypes
<1>6. CASE MainStops \/ MainEnds \/ \E d \in Delegations : ThreadStops(d) \/ ThreadEnds(d)
  BY <1>6, OutsideTypes
<1>7. CASE BridgeCrashes \/ StartBackgroundWork
  BY <1>7, CrashTypes
<1>8. CASE UNCHANGED delegationVars
  BY <1>8, Quiet
<1> QED
  BY <1>1, <1>2, <1>3, <1>4, <1>5, <1>6, <1>7, <1>8 DEF DelegationNext

\* Every variable has its type in every reachable state, and so have the steps
\* that the strands still have to do.
THEOREM TypesHold == DelegationSpec => []TypeInv
<1>1. DelegationInit => TypeInv
  BY InitTypes
<1>2. TypeInv /\ [DelegationNext]_delegationVars => TypeInv'
  BY TypeStep
<1> QED
  BY <1>1, <1>2, PTL DEF DelegationSpec

\* The state of the delegations, in the bridge and in its file, has the types of
\* delegation.ts, whatever the operator's tools, the hooks and the crashes do.
THEOREM DelegationTypeCorrect == DelegationSpec => []DelegationTypeOK
<1>1. TypeInv => DelegationTypeOK
  <2> SUFFICES ASSUME TypeInv PROVE DelegationTypeOK
    OBVIOUS
  <2>1. \E ds \in SUBSET Delegations : held \in [ds -> Delegation]
    BY DEF TypeInv, BridgeOK, HeldOK
  <2>2. spool \subseteq Event
    BY DEF TypeInv, OutsideOK, Stop
  <2> QED
    BY <2>1, <2>2 DEF DelegationTypeOK, TypeInv, SavedOK, BridgeOK, OutsideOK, HistoryOK, RecOK,
                      WokenTurn, Kinds
<1> QED
  BY <1>1, TypesHold, PTL

-----------------------------------------------------------------------------
(* Which steps change what.                                                *)

LEMMA Changes ==
    ASSUME [DelegationNext]_delegationVars
    PROVE  /\ UNCHANGED returned \/ FlushOne \/ ApplyPolicy
           /\ \/ UNCHANGED thread
              \/ \E d \in Delegations : \/ \E mode \in delegationScenario.modes : StartDelegation(d, mode)
                                        \/ SendDelegation(d) \/ ThreadStops(d) \/ ThreadEnds(d)
           /\ UNCHANGED wakes \/ Flushed \/ EnqueueByPolicy \/ BridgeCrashes \/ \E s \in Strands : WakeStarted(s)
           /\ UNCHANGED woken \/ \E s \in Strands : ProcessPendingWakes(s)
           /\ UNCHANGED stateFile \/ \E s \in Strands : PersistState(s)
           /\ UNCHANGED bridgeCrashes \/ BridgeCrashes
           /\ UNCHANGED flushes \/ \E ds, kind : FlushResults(ds, kind)
           /\ UNCHANGED processedEvents \/ MarkProcessed \/ BridgeCrashes
           /\ UNCHANGED delegationScenario
           /\ UNCHANGED spool \/ Archive \/ MainStops \/ \E d \in Delegations : ThreadStops(d)
           /\ UNCHANGED main \/ UserTurn \/ MainStops \/ MainEnds \/ \E s \in Strands : ProcessPendingWakes(s)
           /\ UNCHANGED bridgeUp \/ BridgeCrashes \/ StartBackgroundWork
<1> DEFINE Goal ==
           /\ UNCHANGED returned \/ FlushOne \/ ApplyPolicy
           /\ \/ UNCHANGED thread
              \/ \E d \in Delegations : \/ \E mode \in delegationScenario.modes : StartDelegation(d, mode)
                                        \/ SendDelegation(d) \/ ThreadStops(d) \/ ThreadEnds(d)
           /\ UNCHANGED wakes \/ Flushed \/ EnqueueByPolicy \/ BridgeCrashes \/ \E s \in Strands : WakeStarted(s)
           /\ UNCHANGED woken \/ \E s \in Strands : ProcessPendingWakes(s)
           /\ UNCHANGED stateFile \/ \E s \in Strands : PersistState(s)
           /\ UNCHANGED bridgeCrashes \/ BridgeCrashes
           /\ UNCHANGED flushes \/ \E ds, kind : FlushResults(ds, kind)
           /\ UNCHANGED processedEvents \/ MarkProcessed \/ BridgeCrashes
           /\ UNCHANGED delegationScenario
           /\ UNCHANGED spool \/ Archive \/ MainStops \/ \E d \in Delegations : ThreadStops(d)
           /\ UNCHANGED main \/ UserTurn \/ MainStops \/ MainEnds \/ \E s \in Strands : ProcessPendingWakes(s)
           /\ UNCHANGED bridgeUp \/ BridgeCrashes \/ StartBackgroundWork
<1> USE DEF savedState, outside, history, delegationBudgets, refs
<1>1. CASE StartDrain \/ HandleEvent \/ SettleMainStop \/ MarkProcessed \/ Archive
  BY <1>1 DEF StartDrain, HandleEvent, SettleMainStop, MarkProcessed, Archive
<1>2. CASE ApplyPolicy \/ EnqueueByPolicy \/ FlushOne \/ Flushed \/ DelegationRead
  BY <1>2 DEF ApplyPolicy, EnqueueByPolicy, FlushOne, Flushed, DelegationRead
<1>3. ASSUME NEW s \in Strands,
             ResultRecorded(s) \/ ProcessPendingWakes(s) \/ WakeStarted(s) \/ PersistState(s)
      PROVE  Goal
  BY <1>3 DEF ResultRecorded, ProcessPendingWakes, WakeStarted, PersistState
<1>4. ASSUME NEW d \in Delegations,
             \/ \E mode \in delegationScenario.modes : StartDelegation(d, mode)
             \/ SendDelegation(d) \/ ReadDelegation(d) \/ ThreadStops(d) \/ ThreadEnds(d)
             \/ \E mode : ResumeDelegation(d, mode)
      PROVE  Goal
  BY <1>4 DEF StartDelegation, SendDelegation, ReadDelegation, ResumeDelegation, ThreadStops, ThreadEnds
<1>5. ASSUME NEW ds, NEW x, SetPolicy(ds, x) \/ FlushResults(ds, x)
      PROVE  Goal
  BY <1>5 DEF SetPolicy, FlushResults
<1>6. CASE HandleMainNotification \/ RunnerReconciles \/ UserTurn
  BY <1>6 DEF HandleMainNotification, RunnerReconciles, UserTurn
<1>7. CASE MainStops \/ MainEnds \/ BridgeCrashes \/ StartBackgroundWork
  BY <1>7 DEF MainStops, MainEnds, BridgeCrashes, StartBackgroundWork
<1>8. CASE UNCHANGED delegationVars
  BY <1>8 DEF delegationVars
<1> HIDE DEF Goal
<1> QED
  BY <1>1, <1>2, <1>3, <1>4, <1>5, <1>6, <1>7, <1>8
     DEF DelegationNext, Drain, Tool, Notice, Call, Strands, Goal

-----------------------------------------------------------------------------
(* What the steps and the saved state say of the delegated threads.        *)

NoSend == "send" \notin delegationScenario.tools
NoResume == "resume" \notin delegationScenario.tools
Begun(d) == thread[d].turn # 0
Ended(d) == Begun(d) /\ thread[d].phase # "running"
\* The Stop event of a turn comes when the turn is about to end; the thread of
\* a delegation to which nothing is sent has one turn.
Happened(e) == e.thread # Main => Begun(e.thread) /\ (NoSend => Ended(e.thread) /\ e.turn = 1)

StepOK(x) ==
    /\ x.op \in {"policy", "recorded", "enqueue", "read"} => Begun(x.d)
    /\ x.op = "read" /\ x.status = "complete" /\ NoSend => Ended(x.d)
    /\ x.op = "flush" => flushes > 0 /\ (NoSend => \A d \in x.ids : Ended(d))
    /\ x.op = "events" => \A e \in x.left : Happened(e)
    /\ x.op \in {"wakeAfter", "settle", "mark", "archive"} => Happened(x.e)

StepsOK == \A s \in Strands : \A x \in Steps(agenda[s]) : StepOK(x)

EventsOK ==
    /\ \A e \in spool : Happened(e)
    /\ \A e \in processedEvents : Happened(e)
    /\ \A e \in stateFile.processed : Happened(e)

\* A thread that was not started is not known; what is complete ended.
Unknown(r, d) == r[d] = NoDelegation
RecsOK ==
    /\ \A d \in Delegations : ~Begun(d) => /\ Unknown(rec, d) /\ Unknown(stateFile.rec, d)
                                           /\ \A r \in Rounds : returned[<<d, r>>] = 0
    /\ NoSend => \A d \in Delegations :
         /\ thread[d].turn \in {0, 1}
         /\ Complete(rec[d]) => Ended(d)
         /\ Complete(stateFile.rec[d]) => Ended(d)
         /\ d \in DOMAIN held /\ Complete(held[d]) => Ended(d)
    /\ NoResume => DOMAIN held = {}

Facts == StepsOK /\ EventsOK /\ RecsOK

\* What happened stays so.
LEMMA Grows ==
    ASSUME TypeInv, [DelegationNext]_delegationVars
    PROVE  /\ delegationScenario' = delegationScenario
           /\ flushes > 0 => flushes' > 0
           /\ \A d \in Delegations : /\ Begun(d) => Begun(d)'
                                     /\ NoSend /\ Ended(d) => Ended(d)'
<1>1. delegationScenario' = delegationScenario
  BY Changes
<1>2. flushes' = flushes \/ flushes' = flushes + 1
  BY Changes DEF FlushResults
<1>3. flushes \in Nat
  BY DEF TypeInv, HistoryOK
<1>4. thread \in [Delegations -> [turn : 0..MaxRounds, phase : Phase]]
  BY DEF TypeInv, OutsideOK
<1>5. ASSUME NEW d \in Delegations
      PROVE /\ Begun(d) => Begun(d)'
            /\ NoSend /\ Ended(d) => Ended(d)'
  <2>1. CASE UNCHANGED thread
    BY <2>1 DEF Begun, Ended
  <2>2. ASSUME NEW c \in Delegations, NEW mode, StartDelegation(c, mode)
        PROVE /\ Begun(d) => Begun(d)'
              /\ NoSend /\ Ended(d) => Ended(d)'
    BY <1>4, <2>2 DEF Begun, Ended, StartDelegation
  <2>3. ASSUME NEW c \in Delegations, SendDelegation(c)
        PROVE /\ Begun(d) => Begun(d)'
              /\ NoSend /\ Ended(d) => Ended(d)'
    BY <1>4, <2>3, DelegationAssumption DEF Begun, Ended, SendDelegation, NoSend
  <2>4. ASSUME NEW c \in Delegations, ThreadStops(c) \/ ThreadEnds(c)
        PROVE /\ Begun(d) => Begun(d)'
              /\ NoSend /\ Ended(d) => Ended(d)'
    BY <1>4, <2>4 DEF Begun, Ended, ThreadStops, ThreadEnds
  <2> QED
    BY <2>1, <2>2, <2>3, <2>4, Changes
<1> QED
  BY <1>1, <1>2, <1>3, <1>5

LEMMA EventStays ==
    ASSUME TypeInv, [DelegationNext]_delegationVars, NEW e \in Event, Happened(e)
    PROVE  Happened(e)'
<1>1. e.thread # Main => e.thread \in Delegations
  BY DEF Event
<1> QED
  BY <1>1, Grows DEF Happened, NoSend

LEMMA StepStays ==
    ASSUME TypeInv, [DelegationNext]_delegationVars, NEW x \in Step, StepOK(x)
    PROVE  StepOK(x)'
<1>1. NoSend' <=> NoSend
  BY Grows DEF NoSend
<1>2. x.op \in {"policy", "recorded", "enqueue", "read"} => Begun(x.d)'
  BY Fields, Grows DEF StepOK
<1>3. x.op = "read" /\ x.status = "complete" /\ NoSend => Ended(x.d)'
  BY Fields, Grows DEF StepOK
<1>4. x.op = "flush" => flushes' > 0 /\ (NoSend => \A d \in x.ids : Ended(d)')
  BY Fields, Grows DEF StepOK
<1>5. x.op = "events" => \A e \in x.left : Happened(e)'
  BY Fields, EventStays DEF StepOK, Stop
<1>6. x.op \in {"wakeAfter", "settle", "mark", "archive"} => Happened(x.e)'
  BY Fields, EventStays DEF StepOK, Stop
<1> QED
  BY <1>1, <1>2, <1>3, <1>4, <1>5, <1>6 DEF StepOK

\* Steps that are always in order.
LEMMA SimpleSteps ==
    /\ StepOK(Todo("persist"))' /\ StepOK(Todo("wake"))'
    /\ \A i : StepOK([op |-> "woken", i |-> i])'
BY DEF StepOK, Todo

LEMMA StepsWent ==
    ASSUME TypeInv, StepsOK, [DelegationNext]_delegationVars, NEW s \in Strands, agenda[s] # <<>>,
           NEW steps \in Seq(Step), \A x \in Steps(steps) : StepOK(x)', Then(s, steps)
    PROVE  StepsOK'
<1>1. agenda \in [Strands -> Seq(Step)]
  BY DEF TypeInv, AgendaOK
<1>2. /\ \A t \in Strands \ {s} : agenda'[t] = agenda[t]
      /\ Steps(agenda'[s]) = Steps(steps) \cup Later(agenda[s])
      /\ Steps(agenda[s]) = {Head(agenda[s])} \cup Later(agenda[s])
  BY <1>1, Went
<1>3. ASSUME NEW t \in Strands, NEW x \in Steps(agenda[t]) PROVE StepOK(x)'
  <2>1. x \in Step
    BY <1>1, <1>3 DEF Steps
  <2> QED
    BY <1>3, <2>1, StepStays DEF StepsOK
<1>4. ASSUME NEW t \in Strands, NEW x \in Steps(agenda'[t]) PROVE StepOK(x)'
  <2>1. CASE t = s
    BY <1>2, <1>3, <1>4, <2>1
  <2>2. CASE t # s
    BY <1>2, <1>3, <1>4, <2>2
  <2> QED
    BY <2>1, <2>2
<1> QED
  BY <1>4 DEF StepsOK

LEMMA StepsPut ==
    ASSUME TypeInv, StepsOK, [DelegationNext]_delegationVars, NEW s \in Strands,
           NEW steps \in Seq(Step), \A x \in Steps(steps) : StepOK(x)',
           agenda' = [agenda EXCEPT ![s] = steps]
    PROVE  StepsOK'
<1>1. agenda \in [Strands -> Seq(Step)]
  BY DEF TypeInv, AgendaOK
<1>2. agenda'[s] = steps /\ \A t \in Strands \ {s} : agenda'[t] = agenda[t]
  BY <1>1
<1>3. ASSUME NEW t \in Strands, NEW x \in Steps(agenda[t]) PROVE StepOK(x)'
  <2>1. x \in Step
    BY <1>1, <1>3 DEF Steps
  <2> QED
    BY <1>3, <2>1, StepStays DEF StepsOK
<1>4. ASSUME NEW t \in Strands, NEW x \in Steps(agenda'[t]) PROVE StepOK(x)'
  <2>1. CASE t = s
    BY <1>2, <1>4, <2>1
  <2>2. CASE t # s
    BY <1>2, <1>3, <1>4, <2>2
  <2> QED
    BY <2>1, <2>2
<1> QED
  BY <1>4 DEF StepsOK

\* The usual ways on.
LEMMA StepsMove ==
    ASSUME TypeInv, StepsOK, [DelegationNext]_delegationVars, NEW s \in Strands
    PROVE  /\ agenda[s] # <<>> /\ Continue(s) => StepsOK'
           /\ ThrowIn(s) => StepsOK'
           /\ UNCHANGED agenda => StepsOK'
           /\ \A x \in Step : StepOK(x)' =>
                /\ (agenda[s] # <<>> /\ Then(s, <<x>>)) => StepsOK'
                /\ agenda' = [agenda EXCEPT ![s] = <<x>>] => StepsOK'
           /\ \A x \in Step, y \in Step : (StepOK(x)' /\ StepOK(y)') =>
                /\ (agenda[s] # <<>> /\ Then(s, <<x, y>>)) => StepsOK'
                /\ agenda' = [agenda EXCEPT ![s] = <<x, y>>] => StepsOK'
           /\ \A x \in Step, y \in Step, z \in Step :
                (StepOK(x)' /\ StepOK(y)' /\ StepOK(z)' /\ agenda' = [agenda EXCEPT ![s] = <<x, y, z>>]) => StepsOK'
<1>1. <<>> \in Seq(Step) /\ Steps(<<>>) = {}
  BY NoStep
<1>2. /\ agenda[s] # <<>> /\ Continue(s) => StepsOK'
      /\ ThrowIn(s) => StepsOK'
  BY <1>1, StepsWent, StepsPut DEF Continue, ThrowIn
<1>3. ASSUME UNCHANGED agenda PROVE StepsOK'
  <2>1. agenda \in [Strands -> Seq(Step)]
    BY DEF TypeInv, AgendaOK
  <2>2. agenda' = [agenda EXCEPT ![s] = agenda[s]] /\ agenda[s] \in Seq(Step)
    BY <1>3, <2>1
  <2>3. \A x \in Steps(agenda[s]) : StepOK(x)'
    BY <2>1, StepStays DEF StepsOK, Steps
  <2> QED
    BY <2>2, <2>3, StepsPut
<1>4. ASSUME NEW x \in Step, StepOK(x)'
      PROVE /\ agenda[s] # <<>> /\ Then(s, <<x>>) => StepsOK'
            /\ agenda' = [agenda EXCEPT ![s] = <<x>>] => StepsOK'
  <2>1. <<x>> \in Seq(Step) /\ Steps(<<x>>) = {x}
    BY OneStep
  <2> QED
    BY <1>4, <2>1, StepsWent, StepsPut
<1>5. ASSUME NEW x \in Step, NEW y \in Step, StepOK(x)', StepOK(y)'
      PROVE /\ agenda[s] # <<>> /\ Then(s, <<x, y>>) => StepsOK'
            /\ agenda' = [agenda EXCEPT ![s] = <<x, y>>] => StepsOK'
  <2>1. <<x, y>> \in Seq(Step) /\ Steps(<<x, y>>) = {x, y}
    BY TwoSteps
  <2> QED
    BY <1>5, <2>1, StepsWent, StepsPut
<1>6. ASSUME NEW x \in Step, NEW y \in Step, NEW z \in Step, StepOK(x)', StepOK(y)', StepOK(z)',
             agenda' = [agenda EXCEPT ![s] = <<x, y, z>>]
      PROVE StepsOK'
  <2>1. <<x, y, z>> \in Seq(Step) /\ Steps(<<x, y, z>>) = {x, y, z}
    BY ThreeSteps
  <2> QED
    BY <1>6, <2>1, StepsPut
<1> QED
  BY <1>2, <1>3, <1>4, <1>5, <1>6

-----------------------------------------------------------------------------
(* The facts are kept.                                                     *)

\* A finished answer is recorded, or not, before what comes next.
LEMMA RecordSteps ==
    ASSUME TypeInv, StepsOK, [DelegationNext]_delegationVars, NEW s \in Strands, agenda[s] # <<>>,
           NEW d \in Delegations, Begun(d)', NEW next \in Seq(Step),
           \A x \in Steps(next) : StepOK(x)', RecordResult(s, d, next)
    PROVE  StepsOK'
<1> DEFINE r == TodoFor("recorded", d)
<1>1. r \in Step
  BY Plain
<1>2. StepOK(r)'
  BY DEF StepOK, TodoFor
<1>3. Then(s, <<r>> \o next) \/ ThrowIn(s) \/ Then(s, next)
  BY DEF RecordResult
<1> HIDE DEF r
<1>4. <<r>> \o next \in Seq(Step) /\ Steps(<<r>> \o next) = {r} \cup Steps(next)
  BY <1>1, LedBy
<1>5. \A x \in Steps(<<r>> \o next) : StepOK(x)'
  BY <1>2, <1>4
<1> QED
  BY <1>3, <1>4, <1>5, StepsWent, StepsMove

LEMMA CallSteps ==
    ASSUME TypeInv, Facts, [DelegationNext]_delegationVars, Call
    PROVE  StepsOK'
<1>0. StepsOK /\ "tool" \in Strands /\ Todo("persist") \in Step /\ StepOK(Todo("persist"))'
  BY SimpleSteps, Plain DEF Facts, Strands
<1>1. CASE agenda' = [agenda EXCEPT !["tool"] = <<Todo("persist")>>]
  BY <1>0, <1>1, StepsMove
<1>2. ASSUME NEW d \in Delegations, ReadDelegation(d) PROVE StepsOK'
  <2>0. PICK x : x = [op |-> "read", d |-> d,
                      status |-> IF Active(thread[d]) THEN "active" ELSE "complete",
                      final |-> IF Active(thread[d]) THEN thread[d].turn - 1 ELSE thread[d].turn]
    OBVIOUS
  <2>1. agenda' = [agenda EXCEPT !["tool"] = <<x, Todo("persist")>>] /\ d \in Known /\ UNCHANGED thread
    BY <1>2, <2>0 DEF ReadDelegation, outside
  <2>2. Begun(d)
    BY <2>1 DEF Facts, RecsOK, Known, Unknown, NoDelegation
  <2>3. thread[d].turn \in 0..MaxRounds /\ thread[d].phase \in Phase /\ MaxRounds \in Nat
    BY DelegationAssumption DEF TypeInv, OutsideOK
  <2>4. x \in Step
    BY <2>0, <2>2, <2>3 DEF Step, Active, Rounds, Begun
  <2>5. StepOK(x)'
    BY <2>0, <2>1, <2>2 DEF StepOK, Active, Ended, Begun
  <2> QED
    BY <1>0, <2>1, <2>4, <2>5, StepsMove
<1>3. ASSUME NEW ds, NEW kind \in Kinds, FlushResults(ds, kind) PROVE StepsOK'
  <2> DEFINE x == [op |-> "flush", left |-> ds, kind |-> kind, ids |-> {}]
  <2>1. x \in Step
    BY <1>3 DEF FlushResults, Known, Step
  <2>2. agenda' = [agenda EXCEPT !["tool"] = <<x, Todo("persist")>>]
    BY <1>3 DEF FlushResults
  <2>3. StepOK(x)'
    <3>1. flushes' = flushes + 1 /\ flushes \in Nat
      BY <1>3 DEF FlushResults, TypeInv, HistoryOK
    <3> QED
      BY <3>1 DEF StepOK
  <2> HIDE DEF x
  <2> QED
    BY <1>0, <2>1, <2>2, <2>3, StepsMove
<1>4. ASSUME NEW d \in Delegations, NEW m,
             StartDelegation(d, m) \/ SendDelegation(d) \/ ResumeDelegation(d, m)
      PROVE StepsOK'
  BY <1>1, <1>4 DEF StartDelegation, SendDelegation, ResumeDelegation
<1>5. ASSUME NEW ds, NEW m, SetPolicy(ds, m) PROVE StepsOK'
  BY <1>1, <1>5 DEF SetPolicy
<1> QED
  BY <1>2, <1>3, <1>4, <1>5 DEF Call, Kinds

LEMMA ToolSteps ==
    ASSUME TypeInv, Facts, [DelegationNext]_delegationVars, DelegationRead \/ FlushOne \/ Flushed
    PROVE  StepsOK'
<1>0. StepsOK /\ "tool" \in Strands /\ Todo("wake") \in Step /\ StepOK(Todo("wake"))'
  BY SimpleSteps, Plain DEF Facts, Strands
<1>t. AgendaOK
  BY DEF TypeInv
<1>1. CASE DelegationRead
  BY <1>0, <1>t, <1>1, Here, StepsMove DEF DelegationRead
<1>2. CASE Flushed
  <2>1. agenda["tool"] # <<>>
    BY <1>0, <1>t, <1>2, Here DEF Flushed
  <2>2. Continue("tool") \/ Then("tool", <<Todo("wake")>>)
    BY <1>2 DEF Flushed, Continue
  <2> QED
    BY <1>0, <2>1, <2>2, StepsMove
<1>3. CASE FlushOne
  <2> DEFINE flush == Current("tool")
  <2>1. flush \in Step /\ flush.op = "flush" /\ agenda["tool"] # <<>> /\ flush \in Steps(agenda["tool"])
    BY <1>0, <1>t, <1>3, Here DEF FlushOne
  <2>2. flush.left \subseteq Delegations /\ flush.kind \in Kinds /\ flush.ids \subseteq Delegations
    BY <2>1, Fields
  <2>3. PICK d \in flush.left :
          LET rest == [flush EXCEPT !.left = @ \ {d}] IN
          \/ /\ Terminal(d) /\ RecordResult("tool", d, <<[rest EXCEPT !.ids = @ \cup {d}]>>)
          \/ /\ ~Terminal(d) /\ Then("tool", <<rest>>)
    BY <1>3 DEF FlushOne
  <2> DEFINE rest == [flush EXCEPT !.left = @ \ {d}]
             more == [rest EXCEPT !.ids = @ \cup {d}]
  <2>4. flush \in [op : {"flush"}, left : SUBSET Delegations, kind : Kinds, ids : SUBSET Delegations]
    BY <2>1 DEF Step
  <2>5. StepOK(flush)
    BY <1>0, <2>1 DEF StepsOK
  <2>6. UNCHANGED <<thread, flushes, delegationScenario>>
    BY <1>3 DEF FlushOne, outside
  <2>7. \/ Terminal(d) /\ RecordResult("tool", d, <<more>>)
        \/ ~Terminal(d) /\ Then("tool", <<rest>>)
    BY <2>3
  <2> HIDE DEF flush
  <2>8. /\ rest \in [op : {"flush"}, left : SUBSET Delegations, kind : Kinds, ids : SUBSET Delegations]
        /\ rest.ids = flush.ids
    BY <2>4
  <2>9. /\ more \in [op : {"flush"}, left : SUBSET Delegations, kind : Kinds, ids : SUBSET Delegations]
        /\ more.ids = flush.ids \cup {d}
    BY <2>2, <2>3, <2>8
  <2> HIDE DEF rest, more
  <2>10. PICK x \in Step, y \in Step : /\ x = rest /\ x.op = "flush" /\ x.ids = flush.ids
                                       /\ y = more /\ y.op = "flush" /\ y.ids = flush.ids \cup {d}
    BY <2>8, <2>9 DEF Step
  <2>11. flushes > 0 /\ (NoSend => \A c \in flush.ids : Ended(c))
    BY <2>1, <2>5 DEF StepOK
  <2>12. StepOK(x)'
    BY <2>6, <2>10, <2>11 DEF StepOK, NoSend, Ended, Begun
  <2>13. CASE ~Terminal(d) /\ Then("tool", <<rest>>)
    <3>1. Then("tool", <<x>>)
      BY <2>10, <2>13
    <3> QED
      BY <1>0, <2>1, <2>12, <3>1, StepsMove
  <2>14. CASE Terminal(d) /\ RecordResult("tool", d, <<more>>)
    <3>1. d \in Delegations
      BY <2>2
    <3>2. Begun(d) /\ (NoSend => Ended(d))
      BY <2>14, <3>1 DEF Facts, RecsOK, Terminal, Complete, Unknown, NoDelegation
    <3>3. StepOK(y)'
      BY <2>6, <2>10, <2>11, <3>2 DEF StepOK, NoSend, Ended, Begun
    <3>4. Begun(d)'
      BY <2>6, <3>2 DEF Begun
    <3>5. <<y>> \in Seq(Step) /\ Steps(<<y>>) = {y}
      BY <2>10, OneStep
    <3>6. RecordResult("tool", d, <<y>>)
      BY <2>10, <2>14
    <3> QED
      BY <1>0, <2>1, <3>1, <3>3, <3>4, <3>5, <3>6, RecordSteps
  <2> QED
    BY <2>7, <2>13, <2>14
<1> QED
  BY <1>1, <1>2, <1>3

LEMMA SharedSteps ==
    ASSUME TypeInv, Facts, [DelegationNext]_delegationVars, NEW s \in Strands,
           ResultRecorded(s) \/ ProcessPendingWakes(s) \/ WakeStarted(s) \/ PersistState(s)
    PROVE  StepsOK'
<1>t. AgendaOK /\ StepsOK
  BY DEF TypeInv, Facts
<1>1. CASE ResultRecorded(s) \/ WakeStarted(s) \/ PersistState(s)
  <2>1. agenda[s] # <<>> /\ Continue(s)
    BY <1>t, <1>1, Here DEF ResultRecorded, WakeStarted, PersistState
  <2> QED
    BY <1>t, <2>1, StepsMove
<1>2. CASE ProcessPendingWakes(s)
  <2>1. /\ At(s, "wake") \/ At(s, "wakeAfter")
        /\ \/ Then(s, IdleSteps(s))
           \/ ThrowIn(s)
           \/ \E i \in DOMAIN wakes : Then(s, <<[op |-> "woken", i |-> i]>> \o WakeSteps(s))
    BY <1>t, <1>2, WakeCases
  <2>2. /\ WakeSteps(s) \in Seq(Step)
        /\ IdleSteps(s) \in Seq(Step)
        /\ Steps(WakeSteps(s)) \subseteq {TodoWith("mark", Current(s).e)}
        /\ Steps(IdleSteps(s)) \subseteq {TodoWith("settle", Current(s).e)}
        /\ agenda[s] # <<>> /\ Current(s) \in Step /\ Current(s) \in Steps(agenda[s])
    BY <1>t, <2>1, WakeLeaves
  <2>3. \A x \in Steps(WakeSteps(s)) \cup Steps(IdleSteps(s)) : StepOK(x)'
    <3>1. CASE At(s, "wakeAfter")
      <4>1. PICK x \in Step : x = Current(s) /\ StepOK(x) /\ x.op = "wakeAfter"
        BY <1>t, <2>2, <3>1 DEF StepsOK, At, Current
      <4>2. PICK e : e = Current(s).e /\ e = x.e
        BY <4>1
      <4>3. StepOK(x)'
        BY <4>1, StepStays
      <4>4. Happened(e)'
        BY <4>1, <4>2, <4>3 DEF StepOK
      <4>5. StepOK(TodoWith("mark", e))' /\ StepOK(TodoWith("settle", e))'
        BY <4>4 DEF StepOK, TodoWith
      <4> QED
        BY <2>2, <4>2, <4>5
    <3>2. CASE ~At(s, "wakeAfter")
      <4>1. WakeSteps(s) = <<>> /\ IdleSteps(s) = <<>>
        BY <2>1, <3>2 DEF WakeSteps, IdleSteps, At, Current
      <4> QED
        BY <4>1, NoStep
    <3> QED
      BY <3>1, <3>2
  <2>4. CASE Then(s, IdleSteps(s))
    BY <1>t, <2>2, <2>3, <2>4, StepsWent
  <2>5. CASE ThrowIn(s)
    BY <1>t, <2>5, StepsMove
  <2>6. ASSUME NEW i \in DOMAIN wakes, Then(s, <<[op |-> "woken", i |-> i]>> \o WakeSteps(s))
        PROVE  StepsOK'
    <3> DEFINE w == [op |-> "woken", i |-> i]
               next == WakeSteps(s)
    <3>1. w \in Step
      <4>1. i \in Nat
        BY LenProperties DEF TypeInv, SavedOK
      <4> QED
        BY <4>1 DEF Step
    <3>2. StepOK(w)'
      BY SimpleSteps
    <3>3. next \in Seq(Step) /\ \A x \in Steps(next) : StepOK(x)'
      BY <2>2, <2>3
    <3>4. Then(s, <<w>> \o next)
      BY <2>6
    <3> HIDE DEF w, next
    <3>5. <<w>> \o next \in Seq(Step) /\ Steps(<<w>> \o next) = {w} \cup Steps(next)
      BY <3>1, <3>3, LedBy
    <3>6. \A x \in Steps(<<w>> \o next) : StepOK(x)'
      BY <3>2, <3>3, <3>5
    <3> QED
      BY <1>t, <2>2, <3>4, <3>5, <3>6, StepsWent
  <2> QED
    BY <2>1, <2>4, <2>5, <2>6
<1> QED
  BY <1>1, <1>2

LEMMA DrainSteps ==
    ASSUME TypeInv, Facts, [DelegationNext]_delegationVars,
           \/ StartDrain \/ ApplyPolicy \/ EnqueueByPolicy \/ SettleMainStop \/ MarkProcessed \/ Archive
    PROVE  StepsOK'
<1>0. StepsOK /\ "drain" \in Strands /\ Todo("persist") \in Step /\ StepOK(Todo("persist"))'
  BY SimpleSteps, Plain DEF Facts, Strands
<1>t. AgendaOK
  BY DEF TypeInv
<1>1. CASE StartDrain
  <2>1. PICK es \in SUBSET Stop : es = spool /\ \A e \in es : Happened(e)
    BY DEF TypeInv, OutsideOK, Facts, EventsOK
  <2>2. PICK x : x = [op |-> "events", left |-> es]
    OBVIOUS
  <2>3. Remaining(es) \in Seq(Step) /\ Steps(Remaining(es)) \subseteq {x}
    BY <2>2, RemainingSteps
  <2>4. \A e \in es : Happened(e)'
    BY <2>1, EventStays DEF Stop
  <2>5. StepOK(x)'
    BY <2>2, <2>4 DEF StepOK
  <2>6. agenda' = [agenda EXCEPT !["drain"] = Remaining(es)]
    BY <1>1, <2>1 DEF StartDrain
  <2> QED
    BY <1>0, <2>3, <2>5, <2>6, StepsPut
<1>2. CASE EnqueueByPolicy \/ Archive
  BY <1>0, <1>t, <1>2, Here, StepsMove DEF EnqueueByPolicy, Archive
<1>3. CASE ApplyPolicy
  <2> DEFINE c == Current("drain").d
             enqueue == [op |-> "enqueue", d |-> c, mode |-> Of("drain", c).mode]
  <2>1. c \in Delegations /\ agenda["drain"] # <<>> /\ StepOK(Current("drain")) /\ Current("drain").op = "policy"
    BY <1>0, <1>t, <1>3, Here, Fields DEF ApplyPolicy, StepsOK
  <2>2. \/ RecordResult("drain", c, <<enqueue>>)
        \/ Continue("drain")
    BY <1>3 DEF ApplyPolicy
  <2>3. Begun(c)
    BY <2>1 DEF StepOK
  <2>4. UNCHANGED thread
    BY <1>3 DEF ApplyPolicy, outside
  <2> HIDE DEF c
  <2>5. PICK d \in Delegations, x \in Step : d = c /\ x = enqueue /\ x.op = "enqueue" /\ x.d = d
    <3>1. Of("drain", c).mode \in Modes
      BY <1>0, <2>1, OfTypes DEF Delegation
    <3>2. enqueue \in Step
      BY <2>1, <3>1 DEF Step
    <3>3. enqueue.op = "enqueue" /\ enqueue.d = c
      OBVIOUS
    <3> HIDE DEF enqueue
    <3> QED
      BY <2>1, <3>2, <3>3
  <2> HIDE DEF enqueue
  <2>6. Begun(d)' /\ StepOK(x)'
    BY <2>3, <2>4, <2>5 DEF StepOK, Begun
  <2>7. <<x>> \in Seq(Step) /\ Steps(<<x>>) = {x}
    BY OneStep
  <2>8. CASE RecordResult("drain", c, <<enqueue>>)
    <3>1. RecordResult("drain", d, <<x>>)
      BY <2>5, <2>8
    <3> QED
      BY <1>0, <2>1, <2>6, <2>7, <3>1, RecordSteps
  <2>9. CASE Continue("drain")
    BY <1>0, <2>1, <2>9, StepsMove
  <2> QED
    BY <2>2, <2>8, <2>9
<1>4. CASE SettleMainStop \/ MarkProcessed
  <2>1. /\ Current("drain").op \in {"settle", "mark"} /\ agenda["drain"] # <<>>
        /\ Current("drain") \in Step /\ StepOK(Current("drain"))
    BY <1>0, <1>t, <1>4, Here DEF SettleMainStop, MarkProcessed, StepsOK
  <2>2. PICK e \in Stop : e = Current("drain").e /\ Happened(e)
    BY <2>1, Fields DEF StepOK
  <2>3. Happened(e)'
    BY <2>2, EventStays DEF Stop
  <2>4. /\ TodoWith("mark", e) \in Step /\ TodoWith("archive", e) \in Step
        /\ StepOK(TodoWith("mark", e))' /\ StepOK(TodoWith("archive", e))'
    BY <2>2, <2>3, Plain DEF StepOK, TodoWith
  <2>5. \/ Then("drain", <<TodoWith("mark", e)>>) \/ Continue("drain")
        \/ Then("drain", <<Todo("persist"), TodoWith("archive", e)>>)
    BY <1>4, <2>2 DEF SettleMainStop, MarkProcessed
  <2> QED
    BY <1>0, <2>1, <2>4, <2>5, StepsMove
<1> QED
  BY <1>1, <1>2, <1>3, <1>4

LEMMA EventsTaken ==
    ASSUME TypeInv, Facts, [DelegationNext]_delegationVars, HandleEvent
    PROVE  StepsOK'
<1>0. StepsOK /\ "drain" \in Strands /\ AgendaOK /\ At("drain", "events") /\ UNCHANGED thread
  BY DEF Facts, Strands, TypeInv, HandleEvent, outside
<1>1. PICK e \in Current("drain").left : Then("drain", Handled(e) \o Remaining(Current("drain").left \ {e}))
  BY <1>0, EventCases
<1>2. PICK es : es = Current("drain").left \ {e}
  OBVIOUS
<1>3. /\ e \in Stop /\ agenda["drain"] # <<>> /\ Remaining(es) \in Seq(Step)
      /\ Steps(Remaining(es)) \subseteq {[op |-> "events", left |-> es]}
      /\ es \subseteq Stop
  BY <1>0, <1>2, EventSteps
<1>4. /\ Current("drain").op = "events" /\ StepOK(Current("drain"))
  BY <1>0, Here DEF StepsOK
<1>5. Happened(e) /\ \A x \in es : Happened(x)
  BY <1>2, <1>4 DEF StepOK
<1>6. Happened(e)' /\ \A x \in es : Happened(x)'
  BY <1>3, <1>5, EventStays DEF Stop
<1>7. PICK more \in Seq(Step) : more = Remaining(es) /\ \A x \in Steps(more) : StepOK(x)'
  <2>1. StepOK([op |-> "events", left |-> es])'
    BY <1>6 DEF StepOK
  <2> QED
    BY <1>3, <2>1
<1>8. PICK first \in Seq(Step) : first = Handled(e) /\ \A x \in Steps(first) : StepOK(x)'
  <2>1. /\ StepOK(TodoWith("archive", e))' /\ StepOK(TodoWith("wakeAfter", e))'
        /\ StepOK(TodoWith("mark", e))' /\ StepOK(Todo("wake"))'
    BY <1>6, SimpleSteps DEF StepOK, TodoWith
  <2>2. e.thread \in Known => StepOK(TodoFor("policy", e.thread))'
    <3>1. e.thread \in Known => Begun(e.thread)
      BY DEF Facts, RecsOK, Unknown, NoDelegation, Known
    <3> QED
      BY <1>0, <3>1 DEF StepOK, TodoFor, Begun
  <2>3. /\ Handled(e) \in Seq(Step)
        /\ Steps(Handled(e)) = IF e \in processedEvents THEN {TodoWith("archive", e)}
                               ELSE IF e.thread = Main THEN {TodoWith("wakeAfter", e)}
                               ELSE IF e.thread \notin Known THEN {TodoWith("mark", e)}
                               ELSE {TodoFor("policy", e.thread), Todo("wake"), TodoWith("mark", e)}
    BY <1>3, HandledSteps
  <2> QED
    BY <2>1, <2>2, <2>3
<1>9. first \o more \in Seq(Step) /\ Steps(first \o more) = Steps(first) \cup Steps(more)
  BY Joined
<1>10. \A x \in Steps(first \o more) : StepOK(x)'
  BY <1>7, <1>8, <1>9
<1>11. Then("drain", first \o more)
  BY <1>1, <1>2, <1>7, <1>8
<1> QED
  BY <1>0, <1>3, <1>9, <1>10, <1>11, StepsWent

LEMMA StepsKept ==
    ASSUME TypeInv, Facts, [DelegationNext]_delegationVars
    PROVE  StepsOK'
<1>0. /\ StepsOK /\ "notice" \in Strands /\ Todo("persist") \in Step /\ StepOK(Todo("persist"))'
      /\ Todo("wake") \in Step /\ StepOK(Todo("wake"))'
  BY SimpleSteps, Plain DEF Facts, Strands
<1>1. CASE Drain \/ Tool \/ Call
  BY <1>1, DrainSteps, EventsTaken, SharedSteps, ToolSteps, CallSteps DEF Drain, Tool, Strands
<1>2. CASE HandleMainNotification \/ RunnerReconciles
  <2>1. \/ agenda' = [agenda EXCEPT !["notice"] = <<Todo("persist")>>]
        \/ agenda' = [agenda EXCEPT !["notice"] = <<Todo("persist"), Todo("wake"), Todo("persist")>>]
    BY <1>2 DEF HandleMainNotification, RunnerReconciles
  <2> QED
    BY <1>0, <2>1, StepsMove
<1>3. CASE BridgeCrashes
  BY <1>3, NoAgenda DEF BridgeCrashes, StepsOK
<1>4. CASE UNCHANGED agenda
  BY <1>0, <1>4, StepsMove
<1>5. UserTurn \/ MainStops \/ MainEnds \/ StartBackgroundWork => UNCHANGED agenda
  BY DEF UserTurn, MainStops, MainEnds, StartBackgroundWork
<1>6. (\E d \in Delegations : ThreadStops(d) \/ ThreadEnds(d)) => UNCHANGED agenda
  BY DEF ThreadStops, ThreadEnds
<1>7. CASE Notice
  BY <1>2, <1>7, SharedSteps DEF Notice, Strands
<1>8. UNCHANGED delegationVars => UNCHANGED agenda
  BY DEF delegationVars
<1> QED
  BY <1>1, <1>2, <1>3, <1>4, <1>5, <1>6, <1>7, <1>8 DEF DelegationNext

\* A Stop event is in the spool, or marked, when its turn is about to end.
LEMMA EventsKept ==
    ASSUME TypeInv, Facts, [DelegationNext]_delegationVars
    PROVE  EventsOK'
<1>1. /\ spool \subseteq Event /\ processedEvents \subseteq Event /\ stateFile.processed \subseteq Event
  BY DEF TypeInv, SavedOK, OutsideOK, Stop, State
<1>2. ASSUME NEW e \in Event, Happened(e) PROVE Happened(e)'
  BY <1>2, EventStays
<1>3. \A e \in spool \cup processedEvents \cup stateFile.processed : Happened(e)'
  BY <1>1, <1>2 DEF Facts, EventsOK
<1>4. \A e \in spool' : Happened(e)'
  <2>1. CASE UNCHANGED spool \/ Archive
    BY <1>3, <2>1 DEF Archive
  <2>2. CASE MainStops
    <3>1. PICK n : n = main.turn
      OBVIOUS
    <3>2. spool' = spool \cup {[thread |-> Main, turn |-> n]}
      BY <2>2, <3>1 DEF MainStops
    <3>3. Happened([thread |-> Main, turn |-> n])'
      BY DEF Happened
    <3> QED
      BY <1>3, <3>2, <3>3
  <2>3. ASSUME NEW d \in Delegations, ThreadStops(d) PROVE \A e \in spool' : Happened(e)'
    <3>1. PICK n : n = thread[d].turn
      OBVIOUS
    <3>2. spool' = spool \cup {[thread |-> d, turn |-> n]}
      BY <2>3, <3>1 DEF ThreadStops
    <3>3. n # 0 /\ (NoSend => n = 1)
      BY <2>3, <3>1 DEF ThreadStops, TypeInv, OutsideOK, Facts, RecsOK
    <3>4. thread'[d].turn = n /\ thread'[d].phase = "stopping"
      BY <2>3, <3>1 DEF ThreadStops, TypeInv, OutsideOK
    <3>5. NoSend' <=> NoSend
      BY Grows DEF NoSend
    <3>6. Happened([thread |-> d, turn |-> n])'
      BY <3>3, <3>4, <3>5 DEF Happened, Ended, Begun
    <3> QED
      BY <1>3, <3>2, <3>6
  <2> QED
    BY <2>1, <2>2, <2>3, Changes
<1>5. \A e \in processedEvents' : Happened(e)'
  <2>1. CASE UNCHANGED processedEvents \/ BridgeCrashes
    BY <1>3, <2>1 DEF BridgeCrashes
  <2>2. CASE MarkProcessed
    <3>1. /\ Current("drain").op = "mark" /\ Current("drain") \in Step /\ StepOK(Current("drain"))
      BY <2>2, Here DEF MarkProcessed, TypeInv, Strands, Facts, StepsOK
    <3>2. PICK e \in Stop : e = Current("drain").e /\ Happened(e)
      BY <3>1, Fields DEF StepOK
    <3>3. Happened(e)'
      BY <1>2, <3>2 DEF Stop
    <3>4. processedEvents' \subseteq processedEvents \cup {e}
      BY <2>2, <3>2 DEF MarkProcessed
    <3> QED
      BY <1>3, <3>3, <3>4
  <2> QED
    BY <2>1, <2>2, Changes
<1>6. \A e \in stateFile'.processed : Happened(e)'
  <2>1. CASE UNCHANGED stateFile
    BY <1>3, <2>1
  <2>2. ASSUME NEW s \in Strands, PersistState(s) PROVE stateFile'.processed = processedEvents
    BY <2>2 DEF PersistState, Snapshot
  <2> QED
    BY <1>3, <2>1, <2>2, Changes
<1> QED
  BY <1>4, <1>5, <1>6 DEF EventsOK

LEMMA RecChanges ==
    ASSUME [DelegationNext]_delegationVars
    PROVE  /\ \/ UNCHANGED rec \/ DelegationRead \/ HandleEvent \/ BridgeCrashes
              \/ \E s \in Strands : ResultRecorded(s)
              \/ \E d \in Delegations : \/ \E mode \in delegationScenario.modes : StartDelegation(d, mode)
                                        \/ SendDelegation(d)
                                        \/ \E mode \in delegationScenario.policies \cup {"manual"} : ResumeDelegation(d, mode)
              \/ \E ds : \E mode \in delegationScenario.policies : SetPolicy(ds, mode)
           /\ \/ UNCHANGED held \/ HandleEvent \/ MarkProcessed \/ BridgeCrashes
              \/ \E s \in Strands : ResultRecorded(s)
              \/ \E d \in Delegations : \E mode \in delegationScenario.policies \cup {"manual"} : ResumeDelegation(d, mode)
<1> DEFINE Goal ==
           /\ \/ UNCHANGED rec \/ DelegationRead \/ HandleEvent \/ BridgeCrashes
              \/ \E s \in Strands : ResultRecorded(s)
              \/ \E d \in Delegations : \/ \E mode \in delegationScenario.modes : StartDelegation(d, mode)
                                        \/ SendDelegation(d)
                                        \/ \E mode \in delegationScenario.policies \cup {"manual"} : ResumeDelegation(d, mode)
              \/ \E ds : \E mode \in delegationScenario.policies : SetPolicy(ds, mode)
           /\ \/ UNCHANGED held \/ HandleEvent \/ MarkProcessed \/ BridgeCrashes
              \/ \E s \in Strands : ResultRecorded(s)
              \/ \E d \in Delegations : \E mode \in delegationScenario.policies \cup {"manual"} : ResumeDelegation(d, mode)
<1> USE DEF savedState, outside, history, delegationBudgets, refs
<1>1. CASE StartDrain \/ HandleEvent \/ SettleMainStop \/ MarkProcessed \/ Archive
  BY <1>1 DEF StartDrain, SettleMainStop, MarkProcessed, Archive
<1>2. CASE ApplyPolicy \/ EnqueueByPolicy \/ FlushOne \/ Flushed \/ DelegationRead
  BY <1>2 DEF ApplyPolicy, EnqueueByPolicy, FlushOne, Flushed, DelegationRead
<1>3. ASSUME NEW s \in Strands,
             ResultRecorded(s) \/ ProcessPendingWakes(s) \/ WakeStarted(s) \/ PersistState(s)
      PROVE  Goal
  BY <1>3 DEF ProcessPendingWakes, WakeStarted, PersistState
<1>4. ASSUME NEW d \in Delegations,
             \/ \E mode \in delegationScenario.modes : StartDelegation(d, mode)
             \/ SendDelegation(d) \/ ReadDelegation(d) \/ ThreadStops(d) \/ ThreadEnds(d)
             \/ \E mode \in delegationScenario.policies \cup {"manual"} : ResumeDelegation(d, mode)
      PROVE  Goal
  BY <1>4 DEF StartDelegation, SendDelegation, ReadDelegation, ThreadStops, ThreadEnds
<1>5. ASSUME NEW ds, NEW x,
             \/ x \in delegationScenario.policies /\ SetPolicy(ds, x)
             \/ FlushResults(ds, x)
      PROVE  Goal
  BY <1>5 DEF SetPolicy, FlushResults
<1>6. CASE HandleMainNotification \/ RunnerReconciles \/ UserTurn
  BY <1>6 DEF HandleMainNotification, RunnerReconciles, UserTurn
<1>7. CASE MainStops \/ MainEnds \/ BridgeCrashes \/ StartBackgroundWork
  BY <1>7 DEF MainStops, MainEnds, BridgeCrashes, StartBackgroundWork
<1>8. CASE UNCHANGED delegationVars
  BY <1>8 DEF delegationVars
<1> HIDE DEF Goal
<1> QED
  BY <1>1, <1>2, <1>3, <1>4, <1>5, <1>6, <1>7, <1>8
     DEF DelegationNext, Drain, Tool, Notice, Call, Strands, Goal

\* A delegation changes when its thread was started; it is complete when a
\* turn of the thread ended, or was before.
LEMMA RecMoves ==
    ASSUME TypeInv, Facts, [DelegationNext]_delegationVars, NEW d \in Delegations
    PROVE  \/ rec'[d] = rec[d]
           \/ rec'[d] = stateFile.rec[d]
           \/ Begun(d)' /\ (NoSend /\ Complete(rec'[d]) => Ended(d)')
<1> DEFINE Goal == \/ rec'[d] = rec[d]
                   \/ rec'[d] = stateFile.rec[d]
                   \/ Begun(d)' /\ (NoSend /\ Complete(rec'[d]) => Ended(d)')
<1>t. /\ rec \in [Delegations -> Delegation]
      /\ thread \in [Delegations -> [turn : 0..MaxRounds, phase : Phase]]
      /\ AgendaOK /\ StepsOK /\ "tool" \in Strands /\ "drain" \in Strands
      /\ MaxRounds \in Nat
  BY DelegationAssumption DEF TypeInv, SavedOK, RecOK, OutsideOK, Facts, Strands
<1>g. /\ Begun(d) => Begun(d)'
      /\ NoSend /\ Ended(d) => Ended(d)'
      /\ d \in Known => Begun(d)
      /\ NoSend /\ Complete(rec[d]) => Ended(d)
  BY Grows DEF Facts, RecsOK, Unknown, NoDelegation, Known
<1>1. CASE UNCHANGED rec \/ BridgeCrashes
  BY <1>1 DEF BridgeCrashes
<1>2. CASE DelegationRead
  <2>1. Current("tool").op = "read" /\ Current("tool").d \in Delegations /\ StepOK(Current("tool"))
    BY <1>t, <1>2, Here, Fields DEF DelegationRead, StepsOK
  <2>2. PICK x : x = Current("tool")
    OBVIOUS
  <2>3. x.d = d => Begun(d) /\ (x.status = "complete" /\ NoSend => Ended(d))
    BY <2>1, <2>2 DEF StepOK
  <2>4. /\ x.d # d => rec'[d] = rec[d]
        /\ x.d = d => rec'[d].status = x.status
    BY <1>t, <1>2, <2>1, <2>2 DEF DelegationRead, Delegation
  <2> QED
    BY <1>g, <2>3, <2>4 DEF Complete
<1>3. CASE HandleEvent
  <2>1. At("drain", "events")
    BY <1>3 DEF HandleEvent
  <2>2. PICK e \in Current("drain").left :
               \/ UNCHANGED rec
               \/ /\ e.thread \in Known
                  /\ rec' = [rec EXCEPT ![e.thread] = [@ EXCEPT !.status = "complete", !.final = e.turn]]
    BY <1>3, <1>t, EventCases
  <2>3. Current("drain").op = "events" /\ StepOK(Current("drain"))
    BY <1>t, <2>1, Here DEF StepsOK
  <2>4. Happened(e)
    BY <2>2, <2>3 DEF StepOK
  <2>5. e.thread = d => (NoSend => Ended(d))
    BY <2>4, DelegationAssumption DEF Happened
  <2>6. e.thread # d => rec'[d] = rec[d]
    BY <1>t, <2>2
  <2>7. e.thread = d => d \in Known \/ UNCHANGED rec
    BY <2>2
  <2> QED
    BY <1>g, <2>5, <2>6, <2>7
<1>4. ASSUME NEW s \in Strands, ResultRecorded(s) PROVE Goal
  <2>1. Current(s).op = "recorded" /\ Current(s).d \in Delegations /\ StepOK(Current(s))
    BY <1>t, <1>4, Here, Fields DEF ResultRecorded, StepsOK
  <2>2. PICK c \in Delegations : c = Current(s).d /\ Begun(c)
    BY <2>1 DEF StepOK
  <2>3. rec' = rec \/ rec' = [rec EXCEPT ![c].injected = TRUE]
    BY <1>4, <2>2 DEF ResultRecorded
  <2>4. rec'[d] = rec[d] \/ (c = d /\ rec'[d].status = rec[d].status)
    BY <1>t, <2>3 DEF Delegation
  <2> QED
    BY <1>g, <2>2, <2>4 DEF Complete
<1>5. ASSUME NEW c \in Delegations, NEW mode, StartDelegation(c, mode) PROVE Goal
  <2>1. rec'[d] = rec[d] \/ (c = d /\ rec'[d].status = "active")
    BY <1>t, <1>5 DEF StartDelegation, Delegation, NoDelegation
  <2>2. Begun(c)'
    BY <1>t, <1>5 DEF StartDelegation, Begun
  <2> QED
    BY <2>1, <2>2 DEF Complete
<1>6. ASSUME NEW c \in Delegations, SendDelegation(c) PROVE Goal
  BY <1>t, <1>g, <1>6 DEF SendDelegation, NoSend
<1>7. ASSUME NEW c \in Delegations, NEW mode, ResumeDelegation(c, mode) PROVE Goal
  <2>1. rec'[d] = rec[d] \/ (c = d /\ rec'[d].status = "idle")
    BY <1>t, <1>7 DEF ResumeDelegation, Delegation
  <2>2. Begun(c)
    BY <1>t, <1>7 DEF ResumeDelegation, Begun
  <2> QED
    BY <1>g, <2>1, <2>2 DEF Complete
<1>8. ASSUME NEW ds, NEW mode, SetPolicy(ds, mode) PROVE Goal
  <2>1. rec'[d] = rec[d] \/ (d \in Known /\ rec'[d].status = rec[d].status)
    BY <1>t, <1>8 DEF SetPolicy, Delegation
  <2> QED
    BY <1>g, <2>1 DEF Complete
<1> HIDE DEF Goal
<1>9. Goal
  BY <1>1, <1>2, <1>3, <1>4, <1>5, <1>6, <1>7, <1>8, RecChanges DEF Goal
<1> QED
  BY <1>9 DEF Goal

\* What the drain holds was the delegation before, or is held still.
LEMMA HeldMoves ==
    ASSUME TypeInv, [DelegationNext]_delegationVars
    PROVE  /\ NoResume => DOMAIN held' \subseteq DOMAIN held
           /\ \A d \in DOMAIN held' :
                 \/ /\ d \in DOMAIN held
                    /\ held'[d].status = held[d].status /\ held'[d].mode = held[d].mode
                    /\ held'[d].final = held[d].final
                 \/ held'[d] = rec[d] /\ d \in Delegations /\ ~NoResume
<1> DEFINE Goal == /\ NoResume => DOMAIN held' \subseteq DOMAIN held
                   /\ \A d \in DOMAIN held' :
                         \/ /\ d \in DOMAIN held
                            /\ held'[d].status = held[d].status /\ held'[d].mode = held[d].mode
                            /\ held'[d].final = held[d].final
                         \/ held'[d] = rec[d] /\ d \in Delegations /\ ~NoResume
<1>t. DOMAIN held \subseteq Delegations /\ held \in [DOMAIN held -> Delegation]
  BY DEF TypeInv, BridgeOK, HeldOK
<1>1. CASE UNCHANGED held
  BY <1>1
<1>2. CASE HandleEvent \/ MarkProcessed \/ BridgeCrashes
  <2>1. held' = <<>>
    BY <1>2 DEF HandleEvent, MarkProcessed, BridgeCrashes
  <2>2. DOMAIN held' = {}
    BY <2>1
  <2> QED
    BY <2>2
<1>3. ASSUME NEW s \in Strands, ResultRecorded(s) PROVE Goal
  <2>1. PICK c : c = Current(s).d
    OBVIOUS
  <2>2. \/ held' = held
        \/ c \in DOMAIN held /\ held' = [held EXCEPT ![c].injected = TRUE]
    BY <1>3, <2>1 DEF ResultRecorded
  <2>3. CASE c \in DOMAIN held /\ held' = [held EXCEPT ![c].injected = TRUE]
    BY <1>t, <2>3 DEF Delegation
  <2> QED
    BY <2>2, <2>3
<1>4. ASSUME NEW c \in Delegations, NEW mode, ResumeDelegation(c, mode) PROVE Goal
  <2>1. \/ held' = held
        \/ held' = [x \in DOMAIN held \cup {c} |-> IF x = c THEN rec[c] ELSE held[x]]
    BY <1>4 DEF ResumeDelegation
  <2>2. ~NoResume
    BY <1>4 DEF ResumeDelegation, NoResume
  <2>3. CASE held' = [x \in DOMAIN held \cup {c} |-> IF x = c THEN rec[c] ELSE held[x]]
    <3>1. DOMAIN held' = DOMAIN held \cup {c}
      BY <2>3
    <3>2. ASSUME NEW d \in DOMAIN held' 
          PROVE  (d = c /\ held'[d] = rec[d]) \/ (d \in DOMAIN held /\ held'[d] = held[d])
      BY <2>3, <3>1, <3>2
    <3> QED
      BY <1>4, <2>2, <3>2
  <2> QED
    BY <2>1, <2>2, <2>3
<1> HIDE DEF Goal
<1>5. Goal
  BY <1>1, <1>2, <1>3, <1>4, RecChanges DEF Goal
<1> QED
  BY <1>5 DEF Goal

\* Only the result of a delegation that was begun is returned.
LEMMA ReturnsBegun ==
    ASSUME TypeInv, Facts, [DelegationNext]_delegationVars, NEW d \in Delegations, ~Begun(d)
    PROVE  \A r \in Rounds : returned'[<<d, r>>] = returned[<<d, r>>]
<1>t. /\ returned \in [Delegations \X Rounds -> Nat]
      /\ AgendaOK /\ StepsOK /\ "tool" \in Strands /\ "drain" \in Strands
  BY DEF TypeInv, HistoryOK, Facts, Strands
<1>1. ASSUME NEW s, NEW c, NEW next, RecordResult(s, c, next), c # d
      PROVE  \A r \in Rounds : returned'[<<d, r>>] = returned[<<d, r>>]
  BY <1>t, <1>1 DEF RecordResult
<1>2. CASE ApplyPolicy
  <2>1. Current("drain").op = "policy" /\ StepOK(Current("drain"))
    BY <1>t, <1>2, Here DEF ApplyPolicy, StepsOK
  <2>2. Current("drain").d # d
    BY <2>1 DEF StepOK
  <2> QED
    BY <1>1, <1>2, <2>2 DEF ApplyPolicy
<1>3. CASE FlushOne
  <2>1. PICK c, next : (Terminal(c) /\ RecordResult("tool", c, next)) \/ UNCHANGED returned
    BY <1>3 DEF FlushOne
  <2>2. Terminal(c) => c # d
    BY DEF Facts, RecsOK, Unknown, NoDelegation, Terminal, Complete
  <2> QED
    BY <1>1, <2>1, <2>2
<1> QED
  BY <1>2, <1>3, Changes

LEMMA RecsKept ==
    ASSUME TypeInv, Facts, [DelegationNext]_delegationVars
    PROVE  RecsOK'
<1>t. RecsOK
  BY DEF Facts
<1>n. (NoSend' <=> NoSend) /\ (NoResume' <=> NoResume)
  BY Grows DEF NoSend, NoResume
<1>s. \A d \in Delegations : stateFile'.rec[d] = stateFile.rec[d] \/ stateFile'.rec[d] = rec[d]
  BY Changes DEF PersistState, Snapshot
<1>1. ASSUME NEW d \in Delegations, ~Begun(d)'
      PROVE  /\ Unknown(rec', d) /\ Unknown(stateFile'.rec, d)
             /\ \A r \in Rounds : returned'[<<d, r>>] = 0
  <2>1. ~Begun(d)
    BY <1>1, Grows
  <2>2. Unknown(rec, d) /\ Unknown(stateFile.rec, d) /\ \A r \in Rounds : returned[<<d, r>>] = 0
    BY <1>t, <2>1 DEF RecsOK
  <2>3. rec'[d] = rec[d] \/ rec'[d] = stateFile.rec[d]
    BY <1>1, RecMoves
  <2>4. \A r \in Rounds : returned'[<<d, r>>] = 0
    BY <2>1, <2>2, ReturnsBegun
  <2> QED
    BY <1>s, <2>2, <2>3, <2>4 DEF Unknown
<1>2. ASSUME NoSend, NEW d \in Delegations
      PROVE  /\ thread'[d].turn \in {0, 1}
             /\ Complete(rec'[d]) => Ended(d)'
             /\ Complete(stateFile'.rec[d]) => Ended(d)'
             /\ d \in DOMAIN held' /\ Complete(held'[d]) => Ended(d)'
  <2>1. /\ thread[d].turn \in {0, 1}
        /\ Complete(rec[d]) => Ended(d)
        /\ Complete(stateFile.rec[d]) => Ended(d)
        /\ d \in DOMAIN held /\ Complete(held[d]) => Ended(d)
    BY <1>t, <1>2 DEF RecsOK
  <2>2. Ended(d) => Ended(d)'
    BY <1>2, Grows
  <2>3. thread'[d].turn \in {0, 1}
    <3>1. thread \in [Delegations -> [turn : 0..MaxRounds, phase : Phase]]
      BY DEF TypeInv, OutsideOK
    <3>2. CASE UNCHANGED thread
      BY <2>1, <3>2
    <3>3. ASSUME NEW c \in Delegations, NEW mode, StartDelegation(c, mode) PROVE thread'[d].turn \in {0, 1}
      BY <2>1, <3>1, <3>3 DEF StartDelegation
    <3>4. ASSUME NEW c \in Delegations, SendDelegation(c) PROVE thread'[d].turn \in {0, 1}
      BY <1>2, <3>4 DEF SendDelegation, NoSend
    <3>5. ASSUME NEW c \in Delegations, ThreadStops(c) \/ ThreadEnds(c) PROVE thread'[d].turn \in {0, 1}
      BY <2>1, <3>1, <3>5 DEF ThreadStops, ThreadEnds
    <3> QED
      BY <3>2, <3>3, <3>4, <3>5, Changes
  <2>4. Complete(rec'[d]) => Ended(d)'
    BY <1>2, <2>1, <2>2, RecMoves
  <2>5. Complete(stateFile'.rec[d]) => Ended(d)'
    BY <1>s, <2>1, <2>2
  <2>6. d \in DOMAIN held' /\ Complete(held'[d]) => Ended(d)'
    BY <2>1, <2>2, HeldMoves DEF Complete
  <2> QED
    BY <2>3, <2>4, <2>5, <2>6
<1>3. NoResume => DOMAIN held' = {}
  BY <1>t, HeldMoves DEF RecsOK
<1>4. \A d \in Delegations : ~Begun(d)' =>
         /\ Unknown(rec', d) /\ Unknown(stateFile'.rec, d)
         /\ \A r \in Rounds : returned'[<<d, r>>] = 0
  BY <1>1
<1>5. NoSend => \A d \in Delegations :
         /\ thread'[d].turn \in {0, 1}
         /\ Complete(rec'[d]) => Ended(d)'
         /\ Complete(stateFile'.rec[d]) => Ended(d)'
         /\ d \in DOMAIN held' /\ Complete(held'[d]) => Ended(d)'
  BY <1>2
<1> QED
  BY <1>3, <1>4, <1>5, <1>n DEF RecsOK, Begun, Ended

LEMMA FactsInit == DelegationInit => Facts
<1> SUFFICES ASSUME DelegationInit PROVE Facts
  OBVIOUS
<1>1. \A s \in Strands : Steps(agenda[s]) = {}
  BY NoStep DEF DelegationInit
<1>2. StepsOK
  BY <1>1 DEF StepsOK
<1>3. EventsOK
  BY DEF DelegationInit, EventsOK
<1>4. RecsOK
  BY DEF DelegationInit, RecsOK, Unknown, Complete, NoDelegation
<1> QED
  BY <1>2, <1>3, <1>4 DEF Facts

\* What the strands have still to do is about threads that were started, the
\* Stop events are about turns that came to their end, and what is complete
\* was finished by its thread.
THEOREM FactsHold == DelegationSpec => []Facts
<1>1. TypeInv /\ Facts /\ [DelegationNext]_delegationVars => Facts'
  BY StepsKept, EventsKept, RecsKept DEF Facts
<1> QED
  BY <1>1, FactsInit, TypesHold, PTL DEF DelegationSpec

-----------------------------------------------------------------------------
(* Without an automatic policy nothing comes back unasked.                 *)

Unasked == (delegationScenario.modes \cup delegationScenario.policies) \cap Automatic = {}
ByHand ==
    Unasked =>
    /\ \A d \in Delegations : rec[d].mode \notin Automatic /\ stateFile.rec[d].mode \notin Automatic
    /\ \A d \in DOMAIN held : held[d].mode \notin Automatic
    /\ flushes = 0 => \A p \in Delegations \X Rounds : returned[p] = 0

LEMMA ModesMove ==
    ASSUME TypeInv, [DelegationNext]_delegationVars, NEW d \in Delegations
    PROVE  \/ rec'[d].mode = rec[d].mode
           \/ rec'[d] = stateFile.rec[d]
           \/ rec'[d].mode \in delegationScenario.modes \cup delegationScenario.policies \cup {"manual"}
<1> DEFINE Goal == \/ rec'[d].mode = rec[d].mode
                   \/ rec'[d] = stateFile.rec[d]
                   \/ rec'[d].mode \in delegationScenario.modes \cup delegationScenario.policies \cup {"manual"}
<1>t. rec \in [Delegations -> Delegation] /\ AgendaOK
  BY DEF TypeInv, SavedOK, RecOK
<1>1. CASE UNCHANGED rec \/ BridgeCrashes
  BY <1>1 DEF BridgeCrashes
<1>2. CASE DelegationRead
  <2>1. PICK read : read = Current("tool")
    OBVIOUS
  <2>2. read.d \in Delegations
    BY <1>t, <1>2, <2>1, Here, Fields DEF DelegationRead, Strands
  <2>3. rec' = [rec EXCEPT ![read.d].status = read.status,
                           ![read.d].final = IF read.final = 0 THEN @ ELSE read.final]
    BY <1>2, <2>1 DEF DelegationRead
  <2>4. rec[d] \in Delegation
    BY <1>t
  <2>5. rec'[d].mode = rec[d].mode
    BY <1>t, <2>2, <2>3, <2>4 DEF Delegation
  <2> QED
    BY <2>5
<1>3. CASE HandleEvent
  <2>1. PICK e : \/ UNCHANGED rec
                 \/ rec' = [rec EXCEPT ![e.thread] = [@ EXCEPT !.status = "complete", !.final = e.turn]]
    BY <1>t, <1>3, EventCases
  <2>2. CASE UNCHANGED rec \/ e.thread # d
    BY <1>t, <2>1, <2>2
  <2>3. CASE /\ e.thread = d
             /\ rec' = [rec EXCEPT ![e.thread] = [@ EXCEPT !.status = "complete", !.final = e.turn]]
    <3>1. rec'[d] = [rec[d] EXCEPT !.status = "complete", !.final = e.turn] /\ rec[d] \in Delegation
      BY <1>t, <2>3
    <3> QED
      BY <3>1 DEF Delegation
  <2> QED
    BY <2>1, <2>2, <2>3
<1>4. ASSUME NEW s \in Strands, ResultRecorded(s) PROVE Goal
  <2>1. PICK c : rec' = rec \/ rec' = [rec EXCEPT ![c].injected = TRUE]
    BY <1>4 DEF ResultRecorded
  <2> QED
    BY <1>t, <2>1 DEF Delegation
<1>5. ASSUME NEW c \in Delegations, NEW mode \in delegationScenario.modes, StartDelegation(c, mode) PROVE Goal
  BY <1>t, <1>5 DEF StartDelegation, NoDelegation, Delegation
<1>6. ASSUME NEW c \in Delegations, SendDelegation(c) PROVE Goal
  BY <1>t, <1>6 DEF SendDelegation, Delegation
<1>7. ASSUME NEW c \in Delegations, NEW mode \in delegationScenario.policies \cup {"manual"},
             ResumeDelegation(c, mode)
      PROVE  Goal
  BY <1>t, <1>7 DEF ResumeDelegation, Delegation
<1>8. ASSUME NEW ds, NEW mode \in delegationScenario.policies, SetPolicy(ds, mode) PROVE Goal
  BY <1>t, <1>8 DEF SetPolicy, Delegation
<1> HIDE DEF Goal
<1>9. Goal
  BY <1>1, <1>2, <1>3, <1>4, <1>5, <1>6, <1>7, <1>8, RecChanges DEF Goal
<1> QED
  BY <1>9 DEF Goal

LEMMA ByHandStep ==
    ASSUME TypeInv, Facts, ByHand, [DelegationNext]_delegationVars
    PROVE  ByHand'
<1>n. Unasked' <=> Unasked
  BY Grows DEF Unasked
<1> SUFFICES ASSUME Unasked
             PROVE  /\ \A d \in Delegations : rec'[d].mode \notin Automatic /\ stateFile'.rec[d].mode \notin Automatic
                    /\ \A d \in DOMAIN held' : held'[d].mode \notin Automatic
                    /\ flushes' = 0 => \A p \in Delegations \X Rounds : returned'[p] = 0
  BY <1>n DEF ByHand
<1>t. /\ \A d \in Delegations : rec[d].mode \notin Automatic /\ stateFile.rec[d].mode \notin Automatic
      /\ \A d \in DOMAIN held : held[d].mode \notin Automatic
      /\ flushes = 0 => \A p \in Delegations \X Rounds : returned[p] = 0
      /\ flushes \in Nat /\ AgendaOK /\ StepsOK
  BY DEF ByHand, TypeInv, HistoryOK, Facts
<1>1. \A d \in Delegations : rec'[d].mode \notin Automatic
  BY <1>t, ModesMove DEF Unasked, Automatic
<1>2. \A d \in Delegations : stateFile'.rec[d].mode \notin Automatic
  BY <1>t, Changes DEF PersistState, Snapshot
<1>3. \A d \in DOMAIN held' : held'[d].mode \notin Automatic
  BY <1>t, HeldMoves
<1>4. ASSUME flushes' = 0 PROVE \A p \in Delegations \X Rounds : returned'[p] = 0
  <2>1. flushes = 0
    BY <1>4, <1>t, Grows
  <2>2. CASE UNCHANGED returned
    BY <1>t, <2>1, <2>2
  <2>3. CASE ApplyPolicy
    <3>1. Current("drain").d \in Delegations
      BY <1>t, <2>3, Here, Fields DEF ApplyPolicy, Strands
    <3>2. Of("drain", Current("drain").d).mode \notin Automatic
      BY <1>t, <3>1 DEF Of
    <3> QED
      BY <1>t, <2>1, <2>3, <3>2 DEF ApplyPolicy, Returnable
  <2>4. CASE FlushOne
    <3>1. Current("tool").op = "flush" /\ StepOK(Current("tool"))
      BY <1>t, <2>4, Here DEF FlushOne, Strands, StepsOK
    <3> QED
      BY <1>t, <2>1, <3>1 DEF StepOK
  <2> QED
    BY <2>2, <2>3, <2>4, Changes
<1> QED
  BY <1>1, <1>2, <1>3, <1>4

\* As long as no delegation was ever given an automatic policy and nothing is
\* flushed, no result is injected: neither a Stop hook, a read, a resumption
\* nor a restart brings one back.
THEOREM ManualWaitsAlways == DelegationSpec => []ManualWaits
<1>1. DelegationInit => ByHand
  BY DEF DelegationInit, ByHand, NoDelegation, Automatic
<1>2. TypeInv /\ Facts /\ ByHand /\ [DelegationNext]_delegationVars => ByHand'
  BY ByHandStep
<1>3. ByHand => ManualWaits
  BY DEF ByHand, ManualWaits, Unasked
<1> QED
  BY <1>1, <1>2, <1>3, TypesHold, FactsHold, PTL DEF DelegationSpec

-----------------------------------------------------------------------------
(* A group's wake waits for the group.                                     *)

\* Every thread that a pending wake of a group names has come to its end.
GroupEnded(w) == \A i \in DOMAIN w : w[i].kind = "group" => \A d \in w[i].ids : Ended(d)
GroupsEnded == NoSend => GroupEnded(wakes) /\ GroupEnded(stateFile.wakes)

\* Queueing a wake adds nothing else.
LEMMA QueuedGroup ==
    ASSUME TypeInv, NEW kind \in Kinds, NEW ids \in SUBSET Delegations, EnqueueWake(kind, ids),
           GroupEnded(wakes), kind = "group" => \A d \in ids : Ended(d)
    PROVE  \A i \in DOMAIN wakes' : wakes'[i].kind = "group" => \A d \in wakes'[i].ids : Ended(d)
<1>1. /\ \A i \in DOMAIN wakes : i \in DOMAIN wakes' /\ wakes'[i] = wakes[i]
      /\ \A i \in DOMAIN wakes' : i \notin DOMAIN wakes =>
           wakes'[i] = [kind |-> kind, ids |-> ids, started |-> FALSE]
  BY WakesGrow DEF TypeInv, SavedOK
<1> QED
  BY <1>1 DEF GroupEnded

LEMMA GroupsEndedStep ==
    ASSUME TypeInv, Facts, GroupsEnded, [DelegationNext]_delegationVars
    PROVE  GroupsEnded'
<1>n. NoSend' <=> NoSend
  BY Grows DEF NoSend
<1> SUFFICES ASSUME NoSend PROVE GroupEnded(wakes)' /\ GroupEnded(stateFile.wakes)'
  BY <1>n DEF GroupsEnded
<1>t. GroupEnded(wakes) /\ GroupEnded(stateFile.wakes) /\ AgendaOK /\ StepsOK
  BY DEF GroupsEnded, TypeInv, Facts
<1>i. /\ \A i \in DOMAIN wakes : wakes[i].ids \subseteq Delegations
      /\ \A i \in DOMAIN stateFile.wakes : stateFile.wakes[i].ids \subseteq Delegations
  <2>1. ASSUME NEW w \in Seq(Wake), NEW i \in DOMAIN w PROVE w[i].ids \subseteq Delegations
    <3>1. w[i] \in Wake
      BY LenProperties
    <3> QED
      BY <3>1 DEF Wake
  <2> QED
    BY <2>1 DEF TypeInv, SavedOK, State
<1>e. \A d \in Delegations : Ended(d) => Ended(d)'
  BY Grows
<1>m. Members \subseteq Delegations /\ \A d \in Delegations : Terminal(d) => Ended(d)
  BY DEF Members, Known, Facts, RecsOK, Terminal
<1>1. GroupEnded(wakes)'
  <2>1. CASE UNCHANGED wakes
    BY <1>t, <1>i, <1>e, <2>1 DEF GroupEnded
  <2>2. ASSUME \A i \in DOMAIN wakes' : wakes'[i].kind = "group" => \A d \in wakes'[i].ids : Ended(d),
               \A i \in DOMAIN wakes' : wakes'[i].ids \subseteq Delegations
        PROVE  GroupEnded(wakes)'
    BY <1>e, <2>2 DEF GroupEnded
  <2>3. \A i \in DOMAIN wakes' : wakes'[i].ids \subseteq Delegations
    <3>1. wakes' \in Seq(Wake)
      BY TypeStep DEF TypeInv, SavedOK
    <3>2. \A i \in DOMAIN wakes' : wakes'[i] \in Wake
      BY <3>1, LenProperties
    <3> QED
      BY <3>2 DEF Wake
  <2>4. CASE Flushed
    <3>1. Current("tool") \in Step /\ Current("tool").op = "flush" /\ StepOK(Current("tool"))
      BY <1>t, <2>4, Here DEF Flushed, Strands, StepsOK
    <3>2. /\ Current("tool").kind \in Kinds /\ Current("tool").ids \in SUBSET Delegations
          /\ \A d \in Current("tool").ids : Ended(d)
      BY <3>1, Fields DEF StepOK
    <3>3. EnqueueWake(Current("tool").kind, Current("tool").ids)
      BY <2>4 DEF Flushed
    <3> QED
      BY <1>t, <2>2, <2>3, <3>2, <3>3, QueuedGroup
  <2>5. CASE EnqueueByPolicy
    <3>1. Current("drain").d \in Delegations
      BY <1>t, <2>5, Here, Fields DEF EnqueueByPolicy, Strands
    <3>2. CASE EnqueueWake("delegation", {Current("drain").d})
      BY <1>t, <2>2, <2>3, <3>1, <3>2, QueuedGroup DEF Kinds
    <3>3. CASE GroupDone /\ EnqueueWake("group", Members)
      BY <1>t, <1>m, <2>2, <2>3, <3>3, QueuedGroup DEF Kinds, GroupDone
    <3> QED
      BY <2>1, <2>5, <3>2, <3>3 DEF EnqueueByPolicy
  <2>6. CASE BridgeCrashes
    BY <1>t, <2>2, <2>3, <2>6 DEF BridgeCrashes, GroupEnded
  <2>7. ASSUME NEW s \in Strands, WakeStarted(s) PROVE GroupEnded(wakes)'
    <3>1. /\ DOMAIN wakes' = DOMAIN wakes
          /\ \A j \in DOMAIN wakes : wakes'[j].kind = wakes[j].kind /\ wakes'[j].ids = wakes[j].ids
      <4>1. PICK i : wakes' = [wakes EXCEPT ![i].started = TRUE]
        BY <2>7 DEF WakeStarted
      <4>2. wakes \in Seq(Wake)
        BY DEF TypeInv, SavedOK
      <4> QED
        BY <4>1, <4>2, Marked
    <3> QED
      BY <1>t, <2>2, <2>3, <3>1 DEF GroupEnded
  <2> QED
    BY <2>1, <2>4, <2>5, <2>6, <2>7, Changes
<1>2. GroupEnded(stateFile.wakes)'
  <2>1. CASE UNCHANGED stateFile
    BY <1>t, <1>i, <1>e, <2>1 DEF GroupEnded
  <2>2. ASSUME NEW s \in Strands, PersistState(s) PROVE GroupEnded(stateFile.wakes)'
    <3>1. stateFile'.wakes = wakes
      BY <2>2 DEF PersistState, Snapshot
    <3> QED
      BY <1>t, <1>i, <1>e, <3>1 DEF GroupEnded
  <2> QED
    BY <2>1, <2>2, Changes
<1> QED
  BY <1>1, <1>2

\* A wake of a group is queued only when every member of it has come to the
\* end of its turn, whether the policy queues it, a flush does or a restart
\* brings it back; as long as the operator sends nothing to a delegation again.
THEOREM GroupWakeAlwaysWaits == DelegationSpec => [](NoSend => GroupWakeWaits)
<1>1. DelegationInit => GroupsEnded
  BY DEF DelegationInit, GroupsEnded, GroupEnded
<1>2. TypeInv /\ Facts /\ GroupsEnded /\ [DelegationNext]_delegationVars => GroupsEnded'
  BY GroupsEndedStep
<1>3. TypeInv /\ GroupsEnded => (NoSend => GroupWakeWaits)
  <2> SUFFICES ASSUME TypeInv, GroupsEnded, NoSend, NEW i \in DOMAIN wakes, wakes[i].kind = "group",
                      NEW d \in wakes[i].ids
               PROVE  thread[d].turn > 0 /\ thread[d].phase # "running"
    BY DEF GroupWakeWaits
  <2>1. Ended(d)
    BY DEF GroupsEnded, GroupEnded
  <2>2. wakes[i] \in Wake
    BY LenProperties DEF TypeInv, SavedOK
  <2>3. thread[d].turn \in Nat
    BY <2>2, DelegationAssumption DEF Wake, TypeInv, OutsideOK
  <2> QED
    BY <2>1, <2>3 DEF Ended, Begun
<1> QED
  BY <1>1, <1>2, <1>3, TypesHold, FactsHold, PTL DEF DelegationSpec

-----------------------------------------------------------------------------
(* A result is injected once.                                              *)

\* Short agendas, taken apart and put together.
LEMMA Tails ==
    ASSUME NEW S, NEW x \in S, NEW y \in S, NEW z \in S
    PROVE  /\ Tail(<<x>>) = <<>> /\ Tail(<<x, y>>) = <<y>> /\ Tail(<<x, y, z>>) = <<y, z>>
           /\ <<>> \o <<x>> = <<x>> /\ <<x>> \o <<y>> = <<x, y>> /\ <<x, y>> \o <<z>> = <<x, y, z>>
           /\ <<x>> \o <<>> = <<x>> /\ <<>> \o <<x, y>> = <<x, y>>
<1>1. Tail(<<x>>) = <<>> /\ Tail(<<x, y>>) = <<y>>
  OBVIOUS
<1>2. Tail(<<x, y, z>>) = <<y, z>>
  OBVIOUS
<1>3. <<>> \o <<x>> = <<x>> /\ <<x>> \o <<>> = <<x>> /\ <<>> \o <<x, y>> = <<x, y>>
  BY ConcatEmptySeq
<1>4. <<x>> \o <<y>> = <<x, y>>
  <2>1. <<x>> \in Seq(S) /\ <<y>> \in Seq(S) /\ <<x, y>> \in Seq(S)
    OBVIOUS
  <2>2. <<x>> \o <<y>> \in Seq(S) /\ Len(<<x>> \o <<y>>) = 2
    BY <2>1
  <2>3. \A i \in 1..2 : (<<x>> \o <<y>>)[i] = <<x, y>>[i]
    BY <2>1
  <2> QED
    BY <2>1, <2>2, <2>3, SeqEqual
<1>5. <<x, y>> \o <<z>> = <<x, y, z>>
  <2>1. <<x, y>> \in Seq(S) /\ <<z>> \in Seq(S) /\ <<x, y, z>> \in Seq(S)
    OBVIOUS
  <2>2. <<x, y>> \o <<z>> \in Seq(S) /\ Len(<<x, y>> \o <<z>>) = 3
    BY <2>1
  <2>3. \A i \in 1..3 : (<<x, y>> \o <<z>>)[i] = <<x, y, z>>[i]
    BY <2>1
  <2> QED
    BY <2>1, <2>2, <2>3, SeqEqual
<1> QED
  BY <1>1, <1>2, <1>3, <1>4, <1>5

\* A strand's agenda is changed by its own steps, and by a crash.
LEMMA Elsewhere ==
    ASSUME TypeInv, [DelegationNext]_delegationVars
    PROVE  /\ agenda'["tool"] = agenda["tool"] \/ Tool \/ Call \/ BridgeCrashes
           /\ agenda'["drain"] = agenda["drain"] \/ Drain \/ BridgeCrashes
           /\ agenda'["notice"] = agenda["notice"] \/ Notice \/ RunnerReconciles \/ BridgeCrashes
<1> DEFINE Only(s) == \A t \in Strands \ {s} : agenda'[t] = agenda[t]
<1>0. ASSUME NEW s, NEW v, agenda' = [agenda EXCEPT ![s] = v] PROVE Only(s)
  BY <1>0 DEF TypeInv, AgendaOK
<1>1. ASSUME NEW s, NEW steps, Then(s, steps) PROVE Only(s)
  BY <1>0, <1>1 DEF Then
<1>2. ASSUME NEW s, ThrowIn(s) \/ Continue(s) PROVE Only(s)
  BY <1>0, <1>1, <1>2 DEF ThrowIn, Continue
<1>3. ASSUME NEW s, NEW d, NEW next, RecordResult(s, d, next) PROVE Only(s)
  BY <1>1, <1>2, <1>3 DEF RecordResult
<1> HIDE DEF Only
<1>4. ASSUME NEW s \in Strands,
             ResultRecorded(s) \/ ProcessPendingWakes(s) \/ WakeStarted(s) \/ PersistState(s)
      PROVE  Only(s)
  BY <1>1, <1>2, <1>4 DEF ResultRecorded, ProcessPendingWakes, WakeStarted, PersistState
<1>5. Drain => Only("drain")
  <2>1. StartDrain => Only("drain")
    BY <1>0 DEF StartDrain
  <2>2. HandleEvent => Only("drain")
    BY <1>1 DEF HandleEvent
  <2>3. ApplyPolicy => Only("drain")
    BY <1>2, <1>3 DEF ApplyPolicy
  <2>4. EnqueueByPolicy \/ SettleMainStop \/ MarkProcessed \/ Archive => Only("drain")
    BY <1>1, <1>2 DEF EnqueueByPolicy, SettleMainStop, MarkProcessed, Archive
  <2> QED
    BY <1>4, <2>1, <2>2, <2>3, <2>4 DEF Drain, Strands
<1>6. Tool => Only("tool")
  <2>1. FlushOne => Only("tool")
    BY <1>1, <1>3 DEF FlushOne
  <2>2. DelegationRead \/ Flushed => Only("tool")
    BY <1>1, <1>2 DEF DelegationRead, Flushed
  <2> QED
    BY <1>4, <2>1, <2>2 DEF Tool, Strands
<1>7. Notice \/ RunnerReconciles => Only("notice")
  BY <1>0, <1>4 DEF Notice, RunnerReconciles, HandleMainNotification, Strands
<1>8. Call => Only("tool")
  BY <1>0 DEF Call, StartDelegation, SendDelegation, ReadDelegation, ResumeDelegation, SetPolicy, FlushResults
<1>9. \/ UserTurn \/ MainStops \/ MainEnds \/ StartBackgroundWork \/ UNCHANGED delegationVars
      \/ \E d \in Delegations : ThreadStops(d) \/ ThreadEnds(d)
      => UNCHANGED agenda
  BY DEF UserTurn, MainStops, MainEnds, StartBackgroundWork, ThreadStops, ThreadEnds, delegationVars
<1>10. \/ Drain \/ Tool \/ Notice \/ Call \/ RunnerReconciles \/ BridgeCrashes \/ UNCHANGED agenda
  BY <1>9 DEF DelegationNext
<1> QED
  BY <1>5, <1>6, <1>7, <1>8, <1>10 DEF Only, Strands

\* What a tool call has left, step by step.
ToolShape ==
    \/ agenda["tool"] = <<>>
    \/ agenda["tool"] = <<Todo("persist")>>
    \/ \E x \in Step : x.op \in {"read", "flush", "wake", "woken"} /\ agenda["tool"] = <<x, Todo("persist")>>
    \/ \E x \in Step, y \in Step :
         x.op = "recorded" /\ y.op = "flush" /\ agenda["tool"] = <<x, y, Todo("persist")>>

\* What is behind the step that a tool call is at.
LEMMA ToolAt ==
    ASSUME TypeInv, ToolShape, NEW op, At("tool", op)
    PROVE  /\ op \in {"persist", "read", "flush", "wake", "woken", "recorded"}
           /\ op = "persist" => Tail(agenda["tool"]) = <<>>
           /\ op \in {"read", "flush", "wake", "woken"} => Tail(agenda["tool"]) = <<Todo("persist")>>
           /\ op = "recorded" => \E y \in Step : y.op = "flush" /\ Tail(agenda["tool"]) = <<y, Todo("persist")>>
<1>p. PICK p \in Step : p = Todo("persist") /\ p.op = "persist"
  BY Plain DEF Todo
<1>1. agenda["tool"] # <<>> /\ Head(agenda["tool"]).op = op
  BY DEF At
<1>2. CASE agenda["tool"] = <<Todo("persist")>>
  <2>1. agenda["tool"] = <<p>>
    BY <1>2, <1>p
  <2>2. Head(agenda["tool"]) = p /\ Tail(agenda["tool"]) = <<>>
    BY <2>1, Tails
  <2> QED
    BY <1>1, <1>p, <2>2
<1>3. ASSUME NEW x \in Step, x.op \in {"read", "flush", "wake", "woken"},
             agenda["tool"] = <<x, Todo("persist")>>
      PROVE  op = x.op /\ Tail(agenda["tool"]) = <<Todo("persist")>>
  <2>1. agenda["tool"] = <<x, p>>
    BY <1>3, <1>p
  <2>2. Head(agenda["tool"]) = x /\ Tail(agenda["tool"]) = <<p>>
    BY <2>1, Tails
  <2> QED
    BY <1>1, <1>p, <2>2
<1>4. ASSUME NEW x \in Step, NEW y \in Step, x.op = "recorded", y.op = "flush",
             agenda["tool"] = <<x, y, Todo("persist")>>
      PROVE  op = x.op /\ Tail(agenda["tool"]) = <<y, Todo("persist")>>
  <2>1. agenda["tool"] = <<x, y, p>>
    BY <1>4, <1>p
  <2>2. Head(agenda["tool"]) = x /\ Tail(agenda["tool"]) = <<y, p>>
    BY <2>1, Tails
  <2> QED
    BY <1>1, <1>p, <2>2
<1> QED
  BY <1>1, <1>2, <1>3, <1>4 DEF ToolShape

\* What the flush of one delegation comes to.
FlushGoes(d, y) ==
    /\ d \in Current("tool").left /\ y.op = "flush" /\ y.left = Current("tool").left \ {d}
    /\ y.ids \subseteq Current("tool").ids \cup {d}
    /\ \/ /\ Then("tool", <<y>>) /\ UNCHANGED returned
          /\ y.ids \subseteq Current("tool").ids \/ (Complete(rec[d]) /\ rec[d].injected)
       \/ ThrowIn("tool") /\ UNCHANGED returned
       \/ /\ Then("tool", <<TodoFor("recorded", d)>> \o <<y>>) /\ Complete(rec[d])
          /\ returned' = IF rec[d].final = 0 THEN returned
                         ELSE [returned EXCEPT ![<<d, rec[d].final>>] = @ + 1]

LEMMA FlushCases ==
    ASSUME AgendaOK, FlushOne
    PROVE  \E d \in Delegations, y \in Step : FlushGoes(d, y)
<1> DEFINE flush == Current("tool")
           Flushes == [op : {"flush"}, left : SUBSET Delegations, kind : Kinds, ids : SUBSET Delegations]
<1>1. flush \in Flushes
  <2>1. flush \in Step /\ flush.op = "flush"
    BY Here DEF FlushOne, Strands
  <2> QED
    BY <2>1 DEF Step
<1>2. PICK d \in flush.left :
        LET rest == [flush EXCEPT !.left = @ \ {d}] IN
        \/ /\ Terminal(d) /\ RecordResult("tool", d, <<[rest EXCEPT !.ids = @ \cup {d}]>>)
        \/ /\ ~Terminal(d) /\ Then("tool", <<rest>>) /\ UNCHANGED returned
  BY DEF FlushOne
<1> DEFINE rest == [flush EXCEPT !.left = @ \ {d}]
           more == [rest EXCEPT !.ids = @ \cup {d}]
<1> HIDE DEF flush
<1>3. d \in Delegations
  BY <1>1, <1>2
<1>4. rest \in Flushes /\ rest.left = flush.left \ {d} /\ rest.ids = flush.ids
  BY <1>1
<1>5. more \in Flushes /\ more.left = rest.left /\ more.ids = flush.ids \cup {d}
  BY <1>3, <1>4
<1>6. \/ RecordResult("tool", d, <<more>>) /\ Complete(rec[d])
      \/ Then("tool", <<rest>>) /\ UNCHANGED returned
  BY <1>2 DEF Terminal
<1> HIDE DEF rest, more
<1>7. rest \in Step /\ more \in Step /\ rest.op = "flush" /\ more.op = "flush"
  BY <1>4, <1>5 DEF Step
<1>8. Of("tool", d) = rec[d]
  BY DEF Of
<1>9. ASSUME RecordResult("tool", d, <<more>>), Complete(rec[d]) PROVE FlushGoes(d, more)
  BY <1>2, <1>4, <1>5, <1>7, <1>8, <1>9 DEF FlushGoes, RecordResult, MustInject, flush
<1>10. ASSUME Then("tool", <<rest>>), UNCHANGED returned PROVE FlushGoes(d, rest)
  BY <1>2, <1>4, <1>7, <1>10 DEF FlushGoes, flush
<1> QED
  BY <1>3, <1>6, <1>7, <1>9, <1>10

LEMMA ToolShapeStep ==
    ASSUME TypeInv, ToolShape, [DelegationNext]_delegationVars
    PROVE  ToolShape'
<1>p. PICK p \in Step : p = Todo("persist") /\ p.op = "persist"
  BY Plain DEF Todo
<1>t. AgendaOK /\ "tool" \in Strands /\ agenda \in [Strands -> Seq(Step)]
  BY DEF TypeInv, AgendaOK, Strands
<1>1. ASSUME NEW v, agenda' = [agenda EXCEPT !["tool"] = v] PROVE agenda'["tool"] = v
  BY <1>t, <1>1
<1>ca. \A x \in Step, y \in Step : <<x>> \o <<y>> = <<x, y>>
  BY Tails
<1>cb. ASSUME NEW x \in Step, NEW y \in Step, NEW z \in Step PROVE <<x, y>> \o <<z>> = <<x, y, z>>
  <2>1. <<x, y>> \in Seq(Step) /\ <<z>> \in Seq(Step) /\ <<x, y, z>> \in Seq(Step)
    OBVIOUS
  <2>2. <<x, y>> \o <<z>> \in Seq(Step) /\ Len(<<x, y>> \o <<z>>) = 3
    BY <2>1
  <2>3. \A i \in 1..3 : (<<x, y>> \o <<z>>)[i] = <<x, y, z>>[i]
    BY <2>1
  <2> QED
    BY <2>1, <2>2, <2>3, SeqEqual
<1>s. /\ agenda'["tool"] = <<>> => ToolShape'
      /\ agenda'["tool"] = <<p>> => ToolShape'
      /\ \A x \in Step : (x.op \in {"read", "flush", "wake", "woken"} /\ agenda'["tool"] = <<x, p>>) => ToolShape'
      /\ \A x \in Step, y \in Step :
           (x.op = "recorded" /\ y.op = "flush" /\ agenda'["tool"] = <<x, y, p>>) => ToolShape'
  BY <1>p DEF ToolShape
<1>2. CASE agenda'["tool"] = agenda["tool"]
  BY <1>2 DEF ToolShape
<1>3. CASE BridgeCrashes
  BY <1>3, <1>s DEF BridgeCrashes, Strands
<1>4. CASE Call
  <2>1. CASE agenda' = [agenda EXCEPT !["tool"] = <<Todo("persist")>>]
    <3>1. agenda'["tool"] = <<p>>
      BY <1>1, <1>p, <2>1
    <3> QED
      BY <1>s, <3>1
  <2>2. ASSUME NEW x \in Step, x.op \in {"read", "flush"},
               agenda' = [agenda EXCEPT !["tool"] = <<x, Todo("persist")>>]
        PROVE  ToolShape'
    <3>1. agenda'["tool"] = <<x, p>>
      BY <1>1, <1>p, <2>2
    <3> QED
      BY <1>s, <2>2, <3>1
  <2>3. ASSUME NEW d \in Delegations, ReadDelegation(d) PROVE ToolShape'
    <3> DEFINE x == [op |-> "read", d |-> d, status |-> IF Active(thread[d]) THEN "active" ELSE "complete",
                     final |-> IF Active(thread[d]) THEN thread[d].turn - 1 ELSE thread[d].turn]
    <3>1. agenda' = [agenda EXCEPT !["tool"] = <<x, Todo("persist")>>]
      BY <2>3 DEF ReadDelegation
    <3>2. agenda'["tool"] = <<x, p>>
      BY <1>1, <1>p, <3>1
    <3>3. x.op = "read"
      OBVIOUS
    <3> HIDE DEF x
    <3>4. x \in Step
      <4>1. agenda'["tool"] \in Seq(Step)
        BY <1>t, TypeStep DEF TypeInv, AgendaOK
      <4>2. agenda'["tool"][1] = x /\ 1 \in DOMAIN agenda'["tool"]
        BY <3>2
      <4>3. agenda'["tool"][1] \in Step
        BY <4>1, <4>2, LenProperties
      <4> QED
        BY <4>2, <4>3
    <3>5. PICK z \in Step : z = x
      BY <3>4
    <3> QED
      BY <1>s, <3>2, <3>3, <3>5
  <2>4. ASSUME NEW ds, NEW kind \in Kinds, FlushResults(ds, kind) PROVE ToolShape'
    <3>1. PICK x \in Step : x = [op |-> "flush", left |-> ds, kind |-> kind, ids |-> {}]
      BY <2>4 DEF FlushResults, Known, Step
    <3> QED
      BY <2>2, <2>4, <3>1 DEF FlushResults
  <2>5. ASSUME NEW d \in Delegations, NEW m,
               StartDelegation(d, m) \/ SendDelegation(d) \/ ResumeDelegation(d, m)
        PROVE ToolShape'
    BY <2>1, <2>5 DEF StartDelegation, SendDelegation, ResumeDelegation
  <2>6. ASSUME NEW ds, NEW m, SetPolicy(ds, m) PROVE ToolShape'
    BY <2>1, <2>6 DEF SetPolicy
  <2> QED
    BY <1>4, <2>3, <2>4, <2>5, <2>6 DEF Call, Kinds
<1>5. CASE Tool
  <2>1. ASSUME NEW steps, Then("tool", steps) PROVE agenda'["tool"] = steps \o Tail(agenda["tool"])
    BY <1>t, <2>1 DEF Then
  <2>2. CASE ThrowIn("tool")
    <3>1. agenda'["tool"] = <<>>
      BY <1>t, <2>2 DEF ThrowIn
    <3> QED
      BY <1>s, <3>1
  <2>3. ASSUME Continue("tool"), NEW op, At("tool", op) PROVE ToolShape'
    <3>1. agenda'["tool"] = <<>> \o Tail(agenda["tool"])
      BY <2>1, <2>3 DEF Continue
    <3>2. CASE op = "persist"
      <4>1. Tail(agenda["tool"]) = <<>>
        BY <2>3, <3>2, ToolAt
      <4>2. agenda'["tool"] = <<>>
        BY <3>1, <4>1
      <4> QED
        BY <1>s, <4>2
    <3>3. CASE op \in {"read", "flush", "wake", "woken"}
      <4>1. Tail(agenda["tool"]) = <<p>>
        BY <1>p, <2>3, <3>3, ToolAt
      <4>2. agenda'["tool"] = <<p>>
        BY <3>1, <4>1, Tails
      <4> QED
        BY <1>s, <4>2
    <3>4. CASE op = "recorded"
      <4>1. PICK y \in Step : y.op = "flush" /\ Tail(agenda["tool"]) = <<y, p>>
        BY <1>p, <2>3, <3>4, ToolAt
      <4>2. agenda'["tool"] = <<y, p>>
        BY <3>1, <4>1, Tails
      <4> QED
        BY <1>s, <4>1, <4>2
    <3> QED
      BY <2>3, <3>2, <3>3, <3>4, ToolAt
  <2>4. ASSUME NEW op, At("tool", op), op \in {"read", "flush", "wake", "woken"},
               NEW x \in Step, x.op \in {"read", "flush", "wake", "woken"}, Then("tool", <<x>>)
        PROVE  ToolShape'
    <3>1. Tail(agenda["tool"]) = <<p>>
      BY <1>p, <2>4, ToolAt
    <3>a. agenda'["tool"] = <<x>> \o <<p>>
      <4>1. agenda'["tool"] = <<x>> \o Tail(agenda["tool"])
        BY <2>1, <2>4
      <4> QED
        BY <3>1, <4>1
    <3>2. agenda'["tool"] = <<x, p>>
      BY <1>ca, <3>a
    <3> QED
      BY <1>s, <2>4, <3>2
  <2>5. CASE DelegationRead \/ ResultRecorded("tool") \/ WakeStarted("tool") \/ PersistState("tool")
    BY <2>3, <2>5 DEF DelegationRead, ResultRecorded, WakeStarted, PersistState
  <2>6. CASE Flushed
    <3>1. At("tool", "flush")
      BY <2>6 DEF Flushed
    <3>2. PICK w \in Step : w = Todo("wake") /\ w.op = "wake"
      BY Plain DEF Todo
    <3>3. Continue("tool") \/ Then("tool", <<w>>)
      BY <2>6, <3>2 DEF Flushed, Continue
    <3> QED
      BY <2>3, <2>4, <3>1, <3>2, <3>3
  <2>7. CASE ProcessPendingWakes("tool")
    <3>1. At("tool", "wake")
      BY <1>t, <2>7, WakeCases, ToolAt
    <3>2. WakeSteps("tool") = <<>> /\ IdleSteps("tool") = <<>>
      BY <3>1 DEF WakeSteps, IdleSteps, At, Current
    <3>3. \/ Then("tool", <<>>)
          \/ ThrowIn("tool")
          \/ \E i \in DOMAIN wakes : Then("tool", <<[op |-> "woken", i |-> i]>> \o <<>>)
      BY <1>t, <2>7, <3>2, WakeCases
    <3>4. ASSUME NEW i \in DOMAIN wakes, Then("tool", <<[op |-> "woken", i |-> i]>> \o <<>>)
          PROVE  ToolShape'
      <4>1. PICK w \in Step : w = [op |-> "woken", i |-> i] /\ w.op = "woken"
        <5>1. i \in Nat
          BY <3>4, LenProperties DEF TypeInv, SavedOK
        <5>2. [op |-> "woken", i |-> i] \in [op : {"woken"}, i : Nat]
          BY <5>1
        <5> DEFINE w == [op |-> "woken", i |-> i]
        <5>3. w.op = "woken"
          OBVIOUS
        <5>4. w \in [op : {"woken"}, i : Nat]
          BY <5>2
        <5> HIDE DEF w
        <5>5. w \in Step
          BY <5>4 DEF Step
        <5>6. w = [op |-> "woken", i |-> i]
          BY DEF w
        <5> QED
          BY <5>3, <5>5, <5>6
      <4>2. Then("tool", <<w>>)
        BY <3>4, <4>1, Tails
      <4> QED
        BY <2>4, <3>1, <4>1, <4>2
    <3> QED
      BY <2>2, <2>3, <3>1, <3>3, <3>4 DEF Continue
  <2>8. CASE FlushOne
    <3>1. At("tool", "flush")
      BY <2>8 DEF FlushOne
    <3>2. PICK d \in Delegations, x \in Step : FlushGoes(d, x)
      BY <1>t, <2>8, FlushCases
    <3>3. CASE Then("tool", <<TodoFor("recorded", d)>> \o <<x>>)
      <4>1. PICK r \in Step : r = TodoFor("recorded", d) /\ r.op = "recorded"
        BY Plain DEF TodoFor
      <4>2. Tail(agenda["tool"]) = <<p>>
        BY <1>p, <3>1, ToolAt
      <4>3. agenda'["tool"] = <<r, x>> \o <<p>>
        <5>1. agenda'["tool"] = (<<r>> \o <<x>>) \o Tail(agenda["tool"])
          BY <2>1, <3>3, <4>1
        <5>2. <<r>> \o <<x>> = <<r, x>>
          BY <1>ca
        <5> QED
          BY <4>2, <5>1, <5>2
      <4>4. agenda'["tool"] = <<r, x, p>>
        BY <1>cb, <4>3
      <4> QED
        BY <1>s, <3>2, <4>1, <4>4 DEF FlushGoes
    <3>4. CASE Then("tool", <<x>>)
      BY <2>4, <3>1, <3>2, <3>4 DEF FlushGoes
    <3> QED
      BY <2>2, <3>2, <3>3, <3>4 DEF FlushGoes
  <2> QED
    BY <1>5, <2>5, <2>6, <2>7, <2>8 DEF Tool
<1> QED
  BY <1>2, <1>3, <1>4, <1>5, Elsewhere

\* A result is injected, or a request to inject it is on its way; a flush has
\* still to come to it.
Injecting(d) == TodoFor("recorded", d) \in Steps(agenda["drain"])
Spent(d) == rec[d].injected \/ Injecting(d)
Left(d) == \E x \in Steps(agenda["tool"]) : x.op = "flush" /\ d \in x.left
Number(b) == IF b THEN 1 ELSE 0

\* Every injection is the one of the mark, or was allowed by a crash or by a
\* flush; a flush that has not come to the delegation yet still has its own.
Counted ==
    (NoSend /\ NoResume) =>
        \A d \in Delegations, r \in Rounds :
            returned[<<d, r>>] + Number(Left(d)) <= Number(Spent(d)) + bridgeCrashes + flushes

\* Where nothing is resumed the drain works on the saved delegation.
LEMMA NoneHeld ==
    ASSUME Facts, NoResume, NEW s, NEW d
    PROVE  Of(s, d) = rec[d] /\ d \notin DOMAIN held
BY DEF Facts, RecsOK, Of

\* Only a crash forgets that a result was injected.
LEMMA SpentStays ==
    ASSUME TypeInv, Facts, NoSend, NoResume, [DelegationNext]_delegationVars, ~BridgeCrashes,
           NEW d \in Delegations, Spent(d)
    PROVE  Spent(d)'
<1>t. /\ rec \in [Delegations -> Delegation] /\ AgendaOK /\ "drain" \in Strands /\ "tool" \in Strands
      /\ Later(agenda["drain"]) \subseteq Late /\ agenda["drain"] \in Seq(Step)
  BY DEF TypeInv, SavedOK, RecOK, AgendaOK, Strands
<1>1. ASSUME rec[d].injected PROVE rec'[d].injected
  <2>1. CASE UNCHANGED rec
    BY <1>1, <2>1
  <2>2. CASE DelegationRead
    <3>1. PICK c, x, y : c \in Delegations /\ rec' = [rec EXCEPT ![c].status = x, ![c].final = y]
      <4>1. Current("tool").d \in Delegations
        BY <1>t, <2>2, Here, Fields DEF DelegationRead
      <4> QED
        BY <2>2, <4>1 DEF DelegationRead
    <3>2. rec[d] \in Delegation
      BY <1>t
    <3> QED
      BY <1>t, <1>1, <3>1, <3>2 DEF Delegation
  <2>3. CASE HandleEvent
    <3>1. PICK e : \/ UNCHANGED rec
                   \/ rec' = [rec EXCEPT ![e.thread] = [@ EXCEPT !.status = "complete", !.final = e.turn]]
      BY <1>t, <2>3, EventCases
    <3>2. PICK c, x, y : rec' = rec \/ rec' = [rec EXCEPT ![c] = [@ EXCEPT !.status = x, !.final = y]]
      BY <3>1
    <3>3. CASE c = d
      <4>1. rec' = rec \/ rec'[d] = [rec[d] EXCEPT !.status = x, !.final = y]
        BY <1>t, <3>2, <3>3
      <4> QED
        BY <1>t, <1>1, <4>1 DEF Delegation
    <3>4. CASE c # d
      BY <1>t, <1>1, <3>2, <3>4
    <3> QED
      BY <3>3, <3>4
  <2>4. ASSUME NEW s \in Strands, ResultRecorded(s) PROVE rec'[d].injected
    <3>1. PICK c : rec' = rec \/ rec' = [rec EXCEPT ![c].injected = TRUE]
      BY <2>4 DEF ResultRecorded
    <3>2. rec[d].injected = TRUE
      BY <1>t, <1>1 DEF Delegation
    <3>3. CASE c = d
      <4>1. rec' = rec \/ rec'[d] = [rec[d] EXCEPT !.injected = TRUE]
        BY <1>t, <3>1, <3>3
      <4> QED
        BY <1>t, <3>2, <4>1 DEF Delegation
    <3>4. CASE c # d
      BY <1>t, <3>1, <3>2, <3>4
    <3> QED
      BY <3>3, <3>4
  <2>5. ASSUME NEW c \in Delegations, NEW mode, StartDelegation(c, mode) PROVE rec'[d].injected
    <3>1. ~Begun(c)
      BY <2>5 DEF StartDelegation, Begun
    <3>2. c # d
      BY <1>1, <3>1 DEF Facts, RecsOK, Unknown, NoDelegation
    <3> QED
      BY <1>t, <1>1, <2>5, <3>2 DEF StartDelegation
  <2>6. ASSUME NEW ds, NEW mode, SetPolicy(ds, mode) PROVE rec'[d].injected
    BY <1>t, <1>1, <2>6 DEF SetPolicy, Delegation
  <2>7. ASSUME NEW c \in Delegations, NEW mode, SendDelegation(c) \/ ResumeDelegation(c, mode) PROVE FALSE
    BY <2>7 DEF SendDelegation, ResumeDelegation, NoSend, NoResume
  <2> QED
    BY <2>1, <2>2, <2>3, <2>4, <2>5, <2>6, <2>7, RecChanges
<1>2. ASSUME Injecting(d), ~rec[d].injected PROVE Spent(d)'
  <2>1. TodoFor("recorded", d) \notin Later(agenda["drain"])
    BY <1>t DEF Late, TodoFor
  <2>2. agenda["drain"] # <<>>
    BY <1>2, NoStep DEF Injecting
  <2>3. Head(agenda["drain"]) = TodoFor("recorded", d)
    BY <1>t, <1>2, <2>1, <2>2, Rest DEF Injecting
  <2>4. Current("drain").op = "recorded" /\ Current("drain").d = d
    BY <2>3 DEF Current, TodoFor
  <2>5. CASE agenda'["drain"] = agenda["drain"]
    BY <1>2, <2>5 DEF Injecting, Spent
  <2>6. CASE Drain
    <3>1. ResultRecorded("drain")
      <4>1. \A op : At("drain", op) => op = "recorded"
        BY <2>4 DEF At, Current
      <4>2. ~Free("drain")
        BY <2>2 DEF Free
      <4> QED
        BY <2>6, <4>1, <4>2, Zenon DEF Drain, StartDrain, HandleEvent, ApplyPolicy, EnqueueByPolicy,
           ProcessPendingWakes, WakeStarted, SettleMainStop, MarkProcessed, PersistState, Archive
    <3>2. rec' = [rec EXCEPT ![d].injected = TRUE]
      BY <2>4, <3>1, NoneHeld DEF ResultRecorded
    <3>3. rec'[d].injected
      BY <1>t, <3>2 DEF Delegation
    <3> QED
      BY <3>3 DEF Spent
  <2> QED
    BY <2>5, <2>6, Elsewhere
<1> QED
  BY <1>1, <1>2 DEF Spent

\* Only a new flush comes to what no flush had to come to.
LEMMA LeftMoves ==
    ASSUME TypeInv, [DelegationNext]_delegationVars, NEW d \in Delegations, Left(d)'
    PROVE  Left(d) \/ flushes' = flushes + 1
<1>t. AgendaOK /\ "tool" \in Strands /\ agenda \in [Strands -> Seq(Step)]
  BY DEF TypeInv, AgendaOK, Strands
<1>x. PICK x \in Steps(agenda'["tool"]) : x.op = "flush" /\ d \in x.left
  BY DEF Left
<1>1. CASE agenda'["tool"] = agenda["tool"]
  BY <1>1, <1>x DEF Left
<1>2. CASE BridgeCrashes
  <2>1. Steps(agenda'["tool"]) = {}
    BY <1>t, <1>2, NoStep DEF BridgeCrashes
  <2> QED
    BY <1>x, <2>1
<1>3. CASE Call
  <2>1. agenda' # [agenda EXCEPT !["tool"] = <<Todo("persist")>>]
    <3>1. Todo("persist") \in Step /\ Todo("persist").op = "persist"
      BY Plain DEF Todo
    <3>2. ASSUME agenda' = [agenda EXCEPT !["tool"] = <<Todo("persist")>>] PROVE FALSE
      <4>1. agenda'["tool"] = <<Todo("persist")>>
        BY <1>t, <3>2
      <4>2. Steps(agenda'["tool"]) = {Todo("persist")}
        BY <3>1, <4>1, OneStep
      <4> QED
        BY <1>x, <3>1, <4>2
    <3> QED
      BY <3>2
  <2>2. ASSUME NEW c \in Delegations, ReadDelegation(c) PROVE FALSE
    <3>1. PICK y : y.op = "read" /\ agenda' = [agenda EXCEPT !["tool"] = <<y, Todo("persist")>>]
      <4> DEFINE y == [op |-> "read", d |-> c, status |-> IF Active(thread[c]) THEN "active" ELSE "complete",
                       final |-> IF Active(thread[c]) THEN thread[c].turn - 1 ELSE thread[c].turn]
      <4>1. agenda' = [agenda EXCEPT !["tool"] = <<y, Todo("persist")>>]
        BY <2>2 DEF ReadDelegation
      <4>2. y.op = "read"
        OBVIOUS
      <4> HIDE DEF y
      <4> QED
        BY <4>1, <4>2
    <3>2. agenda'["tool"] = <<y, Todo("persist")>> /\ Todo("persist").op = "persist"
      BY <1>t, <3>1 DEF Todo
    <3>3. Steps(agenda'["tool"]) = {y, Todo("persist")}
      <4>1. y \in {y, Todo("persist")} /\ Todo("persist") \in {y, Todo("persist")}
        OBVIOUS
      <4> QED
        BY <3>2, <4>1, TwoSteps
    <3> QED
      BY <1>x, <3>1, <3>2, <3>3
  <2>3. ASSUME NEW c \in Delegations, NEW m,
               StartDelegation(c, m) \/ SendDelegation(c) \/ ResumeDelegation(c, m)
        PROVE FALSE
    BY <2>1, <2>3 DEF StartDelegation, SendDelegation, ResumeDelegation
  <2>4. ASSUME NEW ds, NEW m, SetPolicy(ds, m) PROVE FALSE
    BY <2>1, <2>4 DEF SetPolicy
  <2>5. ASSUME NEW ds, NEW k, FlushResults(ds, k) PROVE flushes' = flushes + 1
    BY <2>5 DEF FlushResults
  <2> QED
    BY <1>3, <2>2, <2>3, <2>4, <2>5 DEF Call
<1>4. CASE Tool
  <2>1. ASSUME agenda["tool"] # <<>>, NEW steps \in Seq(Step), Then("tool", steps), x \notin Steps(steps)
        PROVE  Left(d)
    <3>1. /\ Steps(agenda'["tool"]) = Steps(steps) \cup Later(agenda["tool"])
          /\ Steps(agenda["tool"]) = {Head(agenda["tool"])} \cup Later(agenda["tool"])
      BY <1>t, <2>1, Went
    <3>2. x \in Steps(agenda["tool"])
      BY <1>x, <2>1, <3>1
    <3> QED
      BY <1>x, <3>2 DEF Left
  <2>n. <<>> \in Seq(Step) /\ Steps(<<>>) = {}
    BY NoStep
  <2>2. ASSUME agenda["tool"] # <<>>, Continue("tool") PROVE Left(d)
    BY <2>1, <2>2, <2>n DEF Continue
  <2>3. ~ThrowIn("tool")
    <3>1. ThrowIn("tool") => agenda'["tool"] = <<>>
      BY <1>t DEF ThrowIn
    <3> QED
      BY <1>x, <2>n, <3>1
  <2>4. CASE DelegationRead \/ ResultRecorded("tool") \/ WakeStarted("tool") \/ PersistState("tool")
    <3>1. agenda["tool"] # <<>>
      BY <2>4 DEF DelegationRead, ResultRecorded, WakeStarted, PersistState, At
    <3>2. Continue("tool")
      BY <2>4 DEF DelegationRead, ResultRecorded, WakeStarted, PersistState
    <3> QED
      BY <2>2, <3>1, <3>2
  <2>5. CASE Flushed
    <3>1. agenda["tool"] # <<>>
      BY <2>5 DEF Flushed, At
    <3>2. PICK w \in Step : w = Todo("wake") /\ w.op = "wake"
      BY Plain DEF Todo
    <3>3. <<w>> \in Seq(Step) /\ x \notin Steps(<<w>>)
      BY <1>x, <3>2, OneStep
    <3>4. Continue("tool") \/ Then("tool", <<w>>)
      BY <2>5, <3>2 DEF Flushed, Continue
    <3> QED
      BY <2>1, <2>2, <3>1, <3>3, <3>4
  <2>6. CASE ProcessPendingWakes("tool")
    <3>1. At("tool", "wake") \/ At("tool", "wakeAfter")
      BY <1>t, <2>6, WakeCases
    <3>2. /\ agenda["tool"] # <<>>
          /\ WakeSteps("tool") \in Seq(Step) /\ IdleSteps("tool") \in Seq(Step)
          /\ Steps(WakeSteps("tool")) \subseteq {TodoWith("mark", Current("tool").e)}
          /\ Steps(IdleSteps("tool")) \subseteq {TodoWith("settle", Current("tool").e)}
      BY <1>t, <3>1, WakeLeaves
    <3>3. x \notin Steps(WakeSteps("tool")) /\ x \notin Steps(IdleSteps("tool"))
      BY <1>x, <3>2 DEF TodoWith
    <3>4. ASSUME NEW i \in DOMAIN wakes, Then("tool", <<[op |-> "woken", i |-> i]>> \o WakeSteps("tool"))
          PROVE  Left(d)
      <4>0. PICK w : w = [op |-> "woken", i |-> i]
        OBVIOUS
      <4>1. w = [op |-> "woken", i |-> i] /\ w.op = "woken"
        BY <4>0
      <4>2. w \in Step
        <5>1. i \in Nat
          BY <3>4, LenProperties DEF TypeInv, SavedOK
        <5> QED
          BY <4>1, <5>1 DEF Step
      <4>3. <<w>> \o WakeSteps("tool") \in Seq(Step) /\ Steps(<<w>> \o WakeSteps("tool")) = {w} \cup Steps(WakeSteps("tool"))
        BY <3>2, <4>2, LedBy
      <4>4. x \notin Steps(<<w>> \o WakeSteps("tool"))
        BY <1>x, <3>3, <4>1, <4>3
      <4> QED
        BY <2>1, <3>2, <3>4, <4>1, <4>3, <4>4
    <3>5. \/ Then("tool", IdleSteps("tool"))
          \/ \E i \in DOMAIN wakes : Then("tool", <<[op |-> "woken", i |-> i]>> \o WakeSteps("tool"))
      BY <1>t, <2>3, <2>6, WakeCases
    <3> QED
      BY <2>1, <3>2, <3>3, <3>4, <3>5
  <2>7. CASE FlushOne
    <3>1. PICK c \in Delegations, y \in Step : FlushGoes(c, y)
      BY <1>t, <2>7, FlushCases
    <3>2. /\ agenda["tool"] # <<>> /\ Current("tool") \in Steps(agenda["tool"])
          /\ Current("tool").op = "flush"
      BY <1>t, <2>7, Here DEF FlushOne
    <3>3. x = y => Left(d)
      BY <1>x, <3>1, <3>2 DEF FlushGoes, Left
    <3>4. CASE Then("tool", <<y>>)
      <4>1. <<y>> \in Seq(Step) /\ Steps(<<y>>) = {y}
        BY OneStep
      <4> QED
        BY <2>1, <3>2, <3>3, <3>4, <4>1
    <3>5. CASE Then("tool", <<TodoFor("recorded", c)>> \o <<y>>)
      <4>1. PICK r \in Step : r = TodoFor("recorded", c) /\ r.op = "recorded"
        BY Plain DEF TodoFor
      <4>2. <<y>> \in Seq(Step) /\ Steps(<<y>>) = {y}
        BY OneStep
      <4>3. <<r>> \o <<y>> \in Seq(Step) /\ Steps(<<r>> \o <<y>>) = {r} \cup Steps(<<y>>)
        BY <4>2, LedBy
      <4>4. x # y => x \notin Steps(<<r>> \o <<y>>)
        BY <1>x, <4>1, <4>2, <4>3
      <4> QED
        BY <2>1, <3>2, <3>3, <3>5, <4>1, <4>3, <4>4
    <3> QED
      BY <2>3, <3>1, <3>4, <3>5 DEF FlushGoes
  <2> QED
    BY <1>4, <2>4, <2>5, <2>6, <2>7 DEF Tool
<1> QED
  BY <1>1, <1>2, <1>3, <1>4, Elsewhere

\* What the drain injects was not injected before; it is from now on.
LEMMA PolicyReturns ==
    ASSUME TypeInv, Facts, NoResume, ApplyPolicy, returned' # returned
    PROVE  \E d \in Delegations :
             /\ ~Spent(d) /\ Injecting(d)'
             /\ rec[d].final \in Rounds
             /\ returned' = [returned EXCEPT ![<<d, rec[d].final>>] = @ + 1]
             /\ agenda'["tool"] = agenda["tool"]
<1>t. /\ rec \in [Delegations -> Delegation] /\ AgendaOK /\ "drain" \in Strands /\ "tool" \in Strands
      /\ agenda \in [Strands -> Seq(Step)] /\ Later(agenda["drain"]) \subseteq Late
  BY DEF TypeInv, SavedOK, RecOK, AgendaOK, Strands
<1>1. /\ agenda["drain"] # <<>> /\ Current("drain") \in Step /\ Current("drain").op = "policy"
      /\ Current("drain") = Head(agenda["drain"])
  BY <1>t, Here DEF ApplyPolicy
<1>2. PICK d \in Delegations : d = Current("drain").d
  BY <1>1, Fields
<1>3. Of("drain", d) = rec[d]
  BY NoneHeld
<1>4. PICK next : RecordResult("drain", d, <<next>>) /\ next = [op |-> "enqueue", d |-> d, mode |-> rec[d].mode]
                  /\ Returnable(rec[d])
  BY <1>2, <1>3 DEF ApplyPolicy
<1>5. next \in Step
  <2>1. rec[d].mode \in Modes
    BY <1>t DEF Delegation
  <2> QED
    BY <1>4, <2>1 DEF Step
<1>6. /\ ~rec[d].injected /\ rec[d].final # 0
      /\ returned' = [returned EXCEPT ![<<d, rec[d].final>>] = @ + 1]
      /\ Then("drain", <<TodoFor("recorded", d)>> \o <<next>>)
  BY <1>3, <1>4 DEF RecordResult, MustInject
<1>7. rec[d].final \in Rounds
  BY <1>t, <1>6 DEF Delegation
<1>8. ~Injecting(d)
  <2>1. TodoFor("recorded", d) \notin Later(agenda["drain"])
    BY <1>t DEF Late, TodoFor
  <2>2. TodoFor("recorded", d) # Current("drain")
    BY <1>1 DEF TodoFor
  <2>3. Steps(agenda["drain"]) = {Head(agenda["drain"])} \cup Later(agenda["drain"])
    BY <1>t, <1>1, Rest
  <2> QED
    BY <1>1, <2>1, <2>2, <2>3 DEF Injecting
<1>9. Injecting(d)' /\ agenda'["tool"] = agenda["tool"]
  <2>1. PICK r \in Step : r = TodoFor("recorded", d)
    BY Plain
  <2>2. <<next>> \in Seq(Step)
    BY <1>5
  <2>3. <<r>> \o <<next>> \in Seq(Step) /\ Steps(<<r>> \o <<next>>) = {r} \cup Steps(<<next>>)
    BY <2>2, LedBy
  <2>4. Then("drain", <<r>> \o <<next>>)
    BY <1>6, <2>1
  <2>5. /\ Steps(agenda'["drain"]) = Steps(<<r>> \o <<next>>) \cup Later(agenda["drain"])
        /\ \A t \in Strands \ {"drain"} : agenda'[t] = agenda[t]
    BY <1>t, <1>1, <2>3, <2>4, Went
  <2>6. r \in Steps(agenda'["drain"])
    BY <2>3, <2>5
  <2> QED
    BY <1>t, <2>1, <2>5, <2>6 DEF Injecting
<1> QED
  BY <1>6, <1>7, <1>8, <1>9 DEF Spent

\* What a flush injects it had still to come to, and has no more.
LEMMA FlushReturns ==
    ASSUME TypeInv, ToolShape, FlushOne, returned' # returned
    PROVE  \E d \in Delegations :
             /\ Left(d) /\ ~Left(d)'
             /\ rec[d].final \in Rounds
             /\ returned' = [returned EXCEPT ![<<d, rec[d].final>>] = @ + 1]
<1>t. rec \in [Delegations -> Delegation] /\ AgendaOK /\ agenda \in [Strands -> Seq(Step)] /\ "tool" \in Strands
  BY DEF TypeInv, SavedOK, RecOK, AgendaOK, Strands
<1>1. /\ agenda["tool"] # <<>> /\ Current("tool") \in Steps(agenda["tool"])
      /\ Current("tool").op = "flush" /\ At("tool", "flush")
  BY <1>t, Here DEF FlushOne
<1>2. PICK d \in Delegations, y \in Step : FlushGoes(d, y)
  BY <1>t, FlushCases
<1>3. /\ Then("tool", <<TodoFor("recorded", d)>> \o <<y>>) /\ rec[d].final # 0
      /\ returned' = [returned EXCEPT ![<<d, rec[d].final>>] = @ + 1]
      /\ d \in Current("tool").left /\ d \notin y.left /\ y.op = "flush"
  BY <1>2 DEF FlushGoes
<1>4. rec[d].final \in Rounds
  BY <1>t, <1>3 DEF Delegation
<1>5. Left(d)
  BY <1>1, <1>3 DEF Left
<1>6. ~Left(d)'
  <2>1. PICK r \in Step : r = TodoFor("recorded", d) /\ r.op = "recorded"
    BY Plain DEF TodoFor
  <2>2. <<y>> \in Seq(Step) /\ Steps(<<y>>) = {y}
    BY OneStep
  <2>3. <<r>> \o <<y>> \in Seq(Step) /\ Steps(<<r>> \o <<y>>) = {r} \cup Steps(<<y>>)
    BY <2>2, LedBy
  <2>4. Then("tool", <<r>> \o <<y>>)
    BY <1>3, <2>1
  <2>5. Steps(agenda'["tool"]) = Steps(<<r>> \o <<y>>) \cup Later(agenda["tool"])
    BY <1>t, <1>1, <2>3, <2>4, Went
  <2>6. Later(agenda["tool"]) = {Todo("persist")}
    <3>1. Tail(agenda["tool"]) = <<Todo("persist")>>
      BY <1>1, ToolAt
    <3>2. Later(agenda["tool"]) = Steps(Tail(agenda["tool"]))
      BY <1>t, <1>1, Rest
    <3>3. Todo("persist") \in Step
      BY Plain
    <3> QED
      BY <3>1, <3>2, <3>3, OneStep
  <2>7. Steps(agenda'["tool"]) = {r, y, Todo("persist")} /\ Todo("persist").op = "persist"
    BY <2>2, <2>3, <2>5, <2>6 DEF Todo
  <2> QED
    BY <1>3, <2>1, <2>7 DEF Left
<1> QED
  BY <1>3, <1>4, <1>5, <1>6

LEMMA CountedStep ==
    ASSUME TypeInv, Facts, ToolShape, Counted, [DelegationNext]_delegationVars
    PROVE  Counted'
<1>n. (NoSend' <=> NoSend) /\ (NoResume' <=> NoResume)
  BY Grows DEF NoSend, NoResume
<1> SUFFICES ASSUME NoSend, NoResume, NEW d \in Delegations, NEW r \in Rounds
             PROVE  returned'[<<d, r>>] + Number(Left(d)') <= Number(Spent(d)') + bridgeCrashes' + flushes'
  BY <1>n DEF Counted
<1>1. returned[<<d, r>>] + Number(Left(d)) <= Number(Spent(d)) + bridgeCrashes + flushes
  BY DEF Counted
<1>t. /\ returned \in [Delegations \X Rounds -> Nat] /\ bridgeCrashes \in Nat /\ flushes \in Nat
      /\ returned[<<d, r>>] \in Nat /\ "drain" \in Strands
  BY DEF TypeInv, HistoryOK, Strands
<1>f. flushes' = flushes \/ flushes' = flushes + 1
  BY Changes DEF FlushResults
<1>c. bridgeCrashes' = bridgeCrashes \/ bridgeCrashes' = bridgeCrashes + 1
  BY Changes DEF BridgeCrashes
<1>l. Left(d)' => Left(d) \/ flushes' = flushes + 1
  BY LeftMoves
<1>s. ~BridgeCrashes /\ Spent(d) => Spent(d)'
  BY SpentStays
<1>2. CASE BridgeCrashes
  <2>1. agenda'["tool"] = <<>> /\ returned' = returned /\ bridgeCrashes' = bridgeCrashes + 1 /\ flushes' = flushes
    BY <1>2 DEF BridgeCrashes, Strands, history
  <2>2. ~Left(d)'
    BY <2>1, NoStep DEF Left
  <2> QED
    BY <1>1, <1>t, <2>1, <2>2 DEF Number
<1>3. CASE returned'[<<d, r>>] = returned[<<d, r>>] /\ ~BridgeCrashes
  BY <1>1, <1>3, <1>t, <1>f, <1>c, <1>l, <1>s DEF Number
<1>4. CASE ApplyPolicy /\ returned' # returned
  <2>1. PICK c \in Delegations :
             /\ ~Spent(c) /\ Injecting(c)'
             /\ rec[c].final \in Rounds
             /\ returned' = [returned EXCEPT ![<<c, rec[c].final>>] = @ + 1]
             /\ agenda'["tool"] = agenda["tool"]
    BY <1>4, PolicyReturns
  <2>2. flushes' = flushes /\ bridgeCrashes' = bridgeCrashes /\ ~BridgeCrashes
    BY <1>4, <1>t DEF ApplyPolicy, BridgeCrashes
  <2>3. CASE <<c, rec[c].final>> = <<d, r>>
    <3>1. c = d /\ returned'[<<d, r>>] = returned[<<d, r>>] + 1
      BY <1>t, <2>1, <2>3
    <3>2. ~Spent(d) /\ Spent(d)' /\ (Left(d)' <=> Left(d))
      BY <2>1, <3>1 DEF Spent, Left
    <3> QED
      BY <1>1, <1>t, <2>2, <3>1, <3>2 DEF Number
  <2>4. CASE <<c, rec[c].final>> # <<d, r>>
    <3>1. returned'[<<d, r>>] = returned[<<d, r>>]
      BY <1>t, <2>1, <2>4
    <3> QED
      BY <1>3, <2>2, <3>1
  <2> QED
    BY <2>3, <2>4
<1>5. CASE FlushOne /\ returned' # returned
  <2>1. PICK c \in Delegations :
             /\ Left(c) /\ ~Left(c)'
             /\ rec[c].final \in Rounds
             /\ returned' = [returned EXCEPT ![<<c, rec[c].final>>] = @ + 1]
    BY <1>5, FlushReturns
  <2>2. flushes' = flushes /\ bridgeCrashes' = bridgeCrashes /\ ~BridgeCrashes
    BY <1>5, <1>t DEF FlushOne, BridgeCrashes
  <2>3. CASE <<c, rec[c].final>> = <<d, r>>
    <3>1. c = d /\ returned'[<<d, r>>] = returned[<<d, r>>] + 1
      BY <1>t, <2>1, <2>3
    <3>2. Left(d) /\ ~Left(d)'
      BY <2>1, <3>1
    <3> QED
      BY <1>1, <1>s, <1>t, <2>2, <3>1, <3>2 DEF Number
  <2>4. CASE <<c, rec[c].final>> # <<d, r>>
    <3>1. returned'[<<d, r>>] = returned[<<d, r>>]
      BY <1>t, <2>1, <2>4
    <3> QED
      BY <1>3, <2>2, <3>1
  <2> QED
    BY <2>3, <2>4
<1> QED
  BY <1>2, <1>3, <1>4, <1>5, Changes

LEMMA CountedInit == DelegationInit => ToolShape /\ Counted
<1> SUFFICES ASSUME DelegationInit PROVE ToolShape /\ Counted
  OBVIOUS
<1>1. agenda["tool"] = <<>>
  BY DEF DelegationInit, Strands
<1>2. \A d \in Delegations : ~Left(d)
  BY <1>1, NoStep DEF Left
<1>3. \A d \in Delegations, r \in Rounds : returned[<<d, r>>] = 0
  BY DEF DelegationInit
<1>4. bridgeCrashes = 0 /\ flushes = 0
  BY DEF DelegationInit
<1> QED
  BY <1>1, <1>2, <1>3, <1>4 DEF ToolShape, Counted, Number

\* What the drain, the flushes and the restarts do between each other's awaits
\* injects a result once, and once more for each crash and each flush; as long
\* as nothing is sent to a delegation again and none is resumed, for either
\* clears the mark while the Stop event may be looked at again.
THEOREM InjectedAtMostOnce == DelegationSpec => [](NoSend /\ NoResume => InjectedOnce)
<1>1. TypeInv /\ Facts /\ ToolShape /\ Counted /\ [DelegationNext]_delegationVars => ToolShape' /\ Counted'
  BY ToolShapeStep, CountedStep
<1>2. TypeInv /\ Counted => (NoSend /\ NoResume => InjectedOnce)
  <2> SUFFICES ASSUME TypeInv, Counted, NoSend, NoResume, NEW p \in Delegations \X Rounds
               PROVE  returned[p] <= 1 + bridgeCrashes + flushes
    BY DEF InjectedOnce
  <2>1. PICK d \in Delegations, r \in Rounds : p = <<d, r>>
    OBVIOUS
  <2>2. returned[<<d, r>>] + Number(Left(d)) <= Number(Spent(d)) + bridgeCrashes + flushes
    BY DEF Counted
  <2>3. returned[<<d, r>>] \in Nat /\ bridgeCrashes \in Nat /\ flushes \in Nat
    BY DEF TypeInv, HistoryOK
  <2> QED
    BY <2>1, <2>2, <2>3 DEF Number
<1> QED
  BY <1>1, <1>2, CountedInit, TypesHold, FactsHold, PTL DEF DelegationSpec

-----------------------------------------------------------------------------
(* A wake starts one turn.                                                 *)

NoneWoken(a) == \A x \in Steps(a) : x.op # "woken"

\* A strand that goes on leaves the start of a wake behind.
LEMMA GoesOn ==
    ASSUME TypeInv, NEW s \in Strands, agenda[s] # <<>>
    PROVE  /\ \A steps \in Seq(Step) : NoneWoken(steps) /\ Then(s, steps) => NoneWoken(agenda'[s])
           /\ Continue(s) \/ ThrowIn(s) => NoneWoken(agenda'[s])
           /\ \A x \in Step : x.op # "woken" /\ Then(s, <<x>>) => NoneWoken(agenda'[s])
           /\ \A x \in Step, y \in Step :
                x.op # "woken" /\ y.op # "woken" /\ Then(s, <<x, y>>) => NoneWoken(agenda'[s])
<1>t. agenda \in [Strands -> Seq(Step)] /\ Later(agenda[s]) \subseteq Late
  BY DEF TypeInv, AgendaOK
<1>1. ASSUME NEW steps \in Seq(Step), NoneWoken(steps), Then(s, steps) PROVE NoneWoken(agenda'[s])
  <2>1. Steps(agenda'[s]) = Steps(steps) \cup Later(agenda[s])
    BY <1>t, <1>1, Went
  <2> QED
    BY <1>t, <1>1, <2>1 DEF NoneWoken, Late
<1>2. <<>> \in Seq(Step) /\ NoneWoken(<<>>)
  BY NoStep DEF NoneWoken
<1>3. ThrowIn(s) => NoneWoken(agenda'[s])
  <2>1. ThrowIn(s) => agenda'[s] = <<>>
    BY <1>t DEF ThrowIn
  <2> QED
    BY <1>2, <2>1
<1>4. Continue(s) => NoneWoken(agenda'[s])
  BY <1>1, <1>2 DEF Continue
<1>5. ASSUME NEW x \in Step, x.op # "woken", Then(s, <<x>>) PROVE NoneWoken(agenda'[s])
  <2>1. <<x>> \in Seq(Step) /\ NoneWoken(<<x>>)
    BY <1>5, OneStep DEF NoneWoken
  <2> QED
    BY <1>1, <1>5, <2>1
<1>6. ASSUME NEW x \in Step, NEW y \in Step, x.op # "woken", y.op # "woken", Then(s, <<x, y>>)
      PROVE  NoneWoken(agenda'[s])
  <2>1. <<x, y>> \in Seq(Step) /\ NoneWoken(<<x, y>>)
    BY <1>6, TwoSteps DEF NoneWoken
  <2> QED
    BY <1>1, <1>6, <2>1
<1> QED
  BY <1>1, <1>3, <1>4, <1>5, <1>6

\* So does one that records a result.
LEMMA RecordsOn ==
    ASSUME TypeInv, NEW s \in Strands, agenda[s] # <<>>, NEW d \in Delegations, NEW x \in Step,
           x.op # "woken", RecordResult(s, d, <<x>>)
    PROVE  NoneWoken(agenda'[s])
<1>1. PICK r \in Step : r = TodoFor("recorded", d) /\ r.op = "recorded"
  BY Plain DEF TodoFor
<1>2. <<x>> \in Seq(Step) /\ Steps(<<x>>) = {x}
  BY OneStep
<1>3. <<r>> \o <<x>> \in Seq(Step) /\ Steps(<<r>> \o <<x>>) = {r} \cup Steps(<<x>>)
  BY <1>2, LedBy
<1>4. NoneWoken(<<r>> \o <<x>>)
  BY <1>1, <1>2, <1>3 DEF NoneWoken
<1>5. Then(s, <<r>> \o <<x>>) \/ ThrowIn(s) \/ Then(s, <<x>>)
  BY <1>1 DEF RecordResult
<1> QED
  BY <1>3, <1>4, <1>5, GoesOn

\* Only the start of a wake leaves such a step.
LEMMA Unwoken ==
    ASSUME TypeInv, [DelegationNext]_delegationVars, NEW s \in Strands
    PROVE  agenda'[s] = agenda[s] \/ NoneWoken(agenda'[s]) \/ ProcessPendingWakes(s)
<1>t. /\ agenda \in [Strands -> Seq(Step)] /\ AgendaOK
      /\ "tool" \in Strands /\ "drain" \in Strands /\ "notice" \in Strands
  BY DEF TypeInv, AgendaOK, Strands
<1>n. NoneWoken(<<>>)
  BY NoStep DEF NoneWoken
<1>p. PICK p \in Step : p = Todo("persist") /\ p.op = "persist"
  BY Plain DEF Todo
<1>w. PICK w \in Step : w = Todo("wake") /\ w.op = "wake"
  BY Plain DEF Todo
<1>0. ASSUME NEW v, NoneWoken(v), NEW t \in Strands, agenda' = [agenda EXCEPT ![t] = v]
      PROVE  NoneWoken(agenda'[t])
  BY <1>0, <1>t
<1>1. NoneWoken(<<p>>) /\ \A x \in Step : x.op # "woken" => NoneWoken(<<x, p>>)
  BY <1>p, OneStep, TwoSteps DEF NoneWoken
<1>2. ASSUME NEW t \in Strands, ResultRecorded(t) \/ WakeStarted(t) \/ PersistState(t)
      PROVE  NoneWoken(agenda'[t])
  <2>1. agenda[t] # <<>> /\ Continue(t)
    BY <1>2 DEF ResultRecorded, WakeStarted, PersistState, At
  <2> QED
    BY <2>1, GoesOn
<1>3. CASE BridgeCrashes
  BY <1>3, <1>n DEF BridgeCrashes
<1>4. CASE Call /\ s = "tool"
  <2>1. ASSUME agenda' = [agenda EXCEPT !["tool"] = <<Todo("persist")>>] PROVE NoneWoken(agenda'[s])
    BY <1>0, <1>1, <1>4, <1>p, <1>t, <2>1
  <2>2. ASSUME NEW x \in Step, x.op # "woken", agenda' = [agenda EXCEPT !["tool"] = <<x, Todo("persist")>>]
        PROVE  NoneWoken(agenda'[s])
    BY <1>0, <1>1, <1>4, <1>p, <1>t, <2>2
  <2>3. ASSUME NEW d \in Delegations, ReadDelegation(d) PROVE NoneWoken(agenda'[s])
    <3> DEFINE x == [op |-> "read", d |-> d, status |-> IF Active(thread[d]) THEN "active" ELSE "complete",
                     final |-> IF Active(thread[d]) THEN thread[d].turn - 1 ELSE thread[d].turn]
    <3>1. agenda' = [agenda EXCEPT !["tool"] = <<x, Todo("persist")>>]
      BY <2>3 DEF ReadDelegation
    <3>3. x.op # "woken"
      OBVIOUS
    <3> HIDE DEF x
    <3>4. x \in Step
      <4>1. agenda'["tool"] \in Seq(Step)
        BY <1>t, TypeStep DEF TypeInv, AgendaOK
      <4>2. agenda'["tool"] = <<x, p>>
        BY <1>p, <1>t, <3>1
      <4>3. agenda'["tool"][1] = x /\ 1 \in DOMAIN agenda'["tool"]
        BY <4>2
      <4>4. agenda'["tool"][1] \in Step
        BY <4>1, <4>3, LenProperties
      <4> QED
        BY <4>3, <4>4
    <3> QED
      BY <2>2, <3>1, <3>3, <3>4
  <2>4. ASSUME NEW ds, NEW kind \in Kinds, FlushResults(ds, kind) PROVE NoneWoken(agenda'[s])
    <3>1. PICK x \in Step : x = [op |-> "flush", left |-> ds, kind |-> kind, ids |-> {}]
      BY <2>4 DEF FlushResults, Known, Step
    <3>2. x.op # "woken"
      BY <3>1
    <3> QED
      BY <2>2, <2>4, <3>1, <3>2 DEF FlushResults
  <2>5. ASSUME NEW d \in Delegations, NEW m,
               StartDelegation(d, m) \/ SendDelegation(d) \/ ResumeDelegation(d, m)
        PROVE  NoneWoken(agenda'[s])
    BY <2>1, <2>5 DEF StartDelegation, SendDelegation, ResumeDelegation
  <2>6. ASSUME NEW ds, NEW m, SetPolicy(ds, m) PROVE NoneWoken(agenda'[s])
    BY <2>1, <2>6 DEF SetPolicy
  <2> QED
    BY <1>4, <2>3, <2>4, <2>5, <2>6 DEF Call, Kinds
<1>5. CASE Tool /\ s = "tool"
  <2>1. CASE DelegationRead
    BY <1>5, <2>1, GoesOn DEF DelegationRead, At
  <2>2. CASE Flushed
    <3>1. Continue("tool") \/ Then("tool", <<w>>)
      BY <1>w, <2>2 DEF Flushed, Continue
    <3> QED
      BY <1>5, <1>w, <2>2, <3>1, GoesOn DEF Flushed, At
  <2>3. CASE FlushOne
    <3>1. PICK d \in Delegations, y \in Step : FlushGoes(d, y)
      BY <1>t, <2>3, FlushCases
    <3>2. agenda["tool"] # <<>> /\ y.op = "flush"
      BY <2>3, <3>1 DEF FlushOne, At, FlushGoes
    <3>3. PICK r \in Step : r = TodoFor("recorded", d) /\ r.op = "recorded"
      BY Plain DEF TodoFor
    <3>4. <<y>> \in Seq(Step) /\ Steps(<<y>>) = {y}
      BY OneStep
    <3>5. <<r>> \o <<y>> \in Seq(Step) /\ Steps(<<r>> \o <<y>>) = {r} \cup Steps(<<y>>)
      BY <3>4, LedBy
    <3>6. NoneWoken(<<r>> \o <<y>>)
      BY <3>2, <3>3, <3>4, <3>5 DEF NoneWoken
    <3>7. Then("tool", <<y>>) \/ ThrowIn("tool") \/ Then("tool", <<r>> \o <<y>>)
      BY <3>1, <3>3 DEF FlushGoes
    <3> QED
      BY <1>5, <1>t, <3>2, <3>5, <3>6, <3>7, GoesOn
  <2> QED
    BY <1>2, <1>5, <2>1, <2>2, <2>3 DEF Tool
<1>6. CASE Notice /\ s = "notice"
  <2>1. CASE HandleMainNotification
    <3>1. \/ agenda' = [agenda EXCEPT !["notice"] = <<p>>]
          \/ agenda' = [agenda EXCEPT !["notice"] = <<p, w, p>>]
      BY <1>p, <1>w, <2>1 DEF HandleMainNotification
    <3>2. NoneWoken(<<p, w, p>>)
      BY <1>p, <1>w, ThreeSteps DEF NoneWoken
    <3> QED
      BY <1>0, <1>1, <1>6, <3>1, <3>2
  <2> QED
    BY <1>2, <1>6, <2>1 DEF Notice
<1>7. CASE RunnerReconciles /\ s = "notice"
  BY <1>0, <1>1, <1>7, <1>p DEF RunnerReconciles
<1>8. CASE Drain /\ s = "drain"
  <2>1. CASE StartDrain
    <3>1. PICK v : v = Remaining(spool) /\ agenda' = [agenda EXCEPT !["drain"] = v]
      BY <2>1 DEF StartDrain
    <3>2. Steps(v) \subseteq {[op |-> "events", left |-> spool]}
      BY <3>1, RemainingSteps DEF TypeInv, OutsideOK
    <3> QED
      BY <1>0, <1>8, <3>1, <3>2 DEF NoneWoken
  <2>2. CASE HandleEvent
    <3>1. PICK e \in Current("drain").left :
             Then("drain", Handled(e) \o Remaining(Current("drain").left \ {e}))
      BY <1>t, <2>2, EventCases
    <3>2. PICK first, more : first = Handled(e) /\ more = Remaining(Current("drain").left \ {e})
      OBVIOUS
    <3>3. At("drain", "events")
      BY <2>2 DEF HandleEvent
    <3>4. /\ e \in Stop /\ agenda["drain"] # <<>> /\ more \in Seq(Step)
          /\ Steps(more) \subseteq {[op |-> "events", left |-> Current("drain").left \ {e}]}
      BY <1>t, <3>2, <3>3, EventSteps
    <3>5. /\ first \in Seq(Step)
          /\ Steps(first) \subseteq {TodoWith("archive", e), TodoWith("wakeAfter", e), TodoWith("mark", e),
                                     TodoFor("policy", e.thread), Todo("wake")}
      BY <3>2, <3>4, HandledSteps
    <3>6. NoneWoken(first) /\ NoneWoken(more)
      BY <3>4, <3>5 DEF NoneWoken, Todo, TodoWith, TodoFor
    <3>7. first \o more \in Seq(Step) /\ Steps(first \o more) = Steps(first) \cup Steps(more)
      BY <3>4, <3>5, Joined
    <3>8. NoneWoken(first \o more)
      BY <3>6, <3>7 DEF NoneWoken
    <3>9. Then("drain", first \o more)
      BY <3>1, <3>2
    <3> QED
      BY <1>8, <1>t, <3>4, <3>7, <3>8, <3>9, GoesOn
  <2>3. CASE ApplyPolicy
    <3>1. agenda["drain"] # <<>> /\ Current("drain").d \in Delegations
      BY <1>t, <2>3, Here, Fields DEF ApplyPolicy
    <3>2. PICK d \in Delegations : d = Current("drain").d
      BY <3>1
    <3>3. PICK x : x = [op |-> "enqueue", d |-> d, mode |-> Of("drain", d).mode]
      OBVIOUS
    <3>4. RecordResult("drain", d, <<x>>) \/ Continue("drain")
      BY <2>3, <3>2, <3>3 DEF ApplyPolicy
    <3>5. x \in Step /\ x.op = "enqueue"
      <4>1. Of("drain", d).mode \in Modes
        BY <1>t, OfTypes DEF Delegation
      <4> QED
        BY <3>3, <4>1 DEF Step
    <3> QED
      BY <1>8, <3>1, <3>4, <3>5, GoesOn, RecordsOn
  <2>4. CASE EnqueueByPolicy \/ Archive
    BY <1>8, <2>4, GoesOn DEF EnqueueByPolicy, Archive, At
  <2>5. CASE SettleMainStop \/ MarkProcessed
    <3>1. agenda["drain"] # <<>> /\ Current("drain").e \in Stop
      BY <1>t, <2>5, Here, Fields DEF SettleMainStop, MarkProcessed
    <3>2. PICK m \in Step : m = TodoWith("mark", Current("drain").e) /\ m.op = "mark"
      BY <3>1, Plain DEF TodoWith
    <3>3. PICK a \in Step : a = TodoWith("archive", Current("drain").e) /\ a.op = "archive"
      BY <3>1, Plain DEF TodoWith
    <3>4. Then("drain", <<m>>) \/ Continue("drain") \/ Then("drain", <<p, a>>)
      BY <1>p, <2>5, <3>2, <3>3 DEF SettleMainStop, MarkProcessed
    <3> QED
      BY <1>8, <1>p, <3>1, <3>2, <3>3, <3>4, GoesOn
  <2> QED
    BY <1>2, <1>8, <2>1, <2>2, <2>3, <2>4, <2>5 DEF Drain
<1> QED
  BY <1>3, <1>4, <1>5, <1>6, <1>7, <1>8, Elsewhere DEF Strands

LEMMA WorksWhileUp ==
    ASSUME [DelegationNext]_delegationVars
    PROVE  UNCHANGED agenda \/ BridgeCrashes \/ (bridgeUp /\ bridgeUp')
<1> DEFINE Goal == UNCHANGED agenda \/ bridgeUp
<1>a. (\A s, op : At(s, op) => bridgeUp) /\ (\A s : Free(s) => bridgeUp)
  BY DEF At, Free
<1>s. ASSUME NEW s, ResultRecorded(s) \/ ProcessPendingWakes(s) \/ WakeStarted(s) \/ PersistState(s)
      PROVE  Goal
  BY <1>a, <1>s DEF ResultRecorded, ProcessPendingWakes, WakeStarted, PersistState
<1>1. StartDrain \/ HandleEvent \/ ApplyPolicy \/ EnqueueByPolicy => Goal
  BY <1>a DEF StartDrain, HandleEvent, ApplyPolicy, EnqueueByPolicy
<1>2. SettleMainStop \/ MarkProcessed \/ Archive => Goal
  BY <1>a DEF SettleMainStop, MarkProcessed, Archive
<1>3. DelegationRead \/ FlushOne \/ Flushed => Goal
  BY <1>a DEF DelegationRead, FlushOne, Flushed
<1>4. HandleMainNotification \/ RunnerReconciles => Goal
  BY <1>a DEF HandleMainNotification, RunnerReconciles
<1>5. Call => Goal
  <2>1. ASSUME NEW d, NEW m,
               StartDelegation(d, m) \/ SendDelegation(d) \/ ReadDelegation(d) \/ ResumeDelegation(d, m)
        PROVE  Goal
    BY <1>a, <2>1 DEF StartDelegation, SendDelegation, ReadDelegation, ResumeDelegation, Callable
  <2>2. ASSUME NEW ds, NEW m, SetPolicy(ds, m) \/ FlushResults(ds, m) PROVE Goal
    BY <1>a, <2>2 DEF SetPolicy, FlushResults, Callable
  <2> HIDE DEF Goal
  <2> QED
    BY <2>1, <2>2 DEF Call
<1>6. UserTurn \/ MainStops \/ MainEnds \/ StartBackgroundWork \/ UNCHANGED delegationVars => Goal
  BY DEF UserTurn, MainStops, MainEnds, StartBackgroundWork, delegationVars
<1>7. (\E d \in Delegations : ThreadStops(d) \/ ThreadEnds(d)) => Goal
  BY DEF ThreadStops, ThreadEnds
<1>8. bridgeUp => bridgeUp' \/ BridgeCrashes
  BY Changes DEF StartBackgroundWork
<1> HIDE DEF Goal
<1>9. Goal \/ BridgeCrashes
  BY <1>s, <1>1, <1>2, <1>3, <1>4, <1>5, <1>6, <1>7 DEF DelegationNext, Drain, Tool, Notice
<1> QED
  BY <1>8, <1>9 DEF Goal

\* A bridge that is down has nothing to do; until the start of a wake is
\* answered, the turn that it started runs.
Waking ==
    /\ ~bridgeUp => \A s \in Strands : agenda[s] = <<>>
    /\ \A s \in Strands : ~NoneWoken(agenda[s]) => main.phase = "running"

\* The start of a wake is the first thing that its strand waits for.
LEMMA WokenFirst ==
    ASSUME TypeInv, NEW s \in Strands, NEW x \in Steps(agenda[s]), x.op = "woken"
    PROVE  agenda[s] # <<>> /\ Head(agenda[s]) = x /\ x \in Step
<1>t. /\ agenda[s] \in Seq(Step) /\ Later(agenda[s]) \subseteq Late
  BY DEF TypeInv, AgendaOK
<1>1. agenda[s] # <<>>
  BY NoStep
<1>2. Steps(agenda[s]) = {Head(agenda[s])} \cup Later(agenda[s]) /\ Head(agenda[s]) \in Step
  BY <1>1, <1>t, Rest
<1> QED
  BY <1>1, <1>2, <1>t DEF Late

LEMMA WakingStep ==
    ASSUME TypeInv, Waking, [DelegationNext]_delegationVars
    PROVE  Waking'
<1>1. ASSUME ~bridgeUp', NEW s \in Strands PROVE agenda'[s] = <<>>
  <2>1. CASE BridgeCrashes
    BY <2>1 DEF BridgeCrashes
  <2>2. CASE UNCHANGED agenda /\ ~BridgeCrashes
    <3>1. ~bridgeUp
      BY <1>1, <2>2, Changes DEF StartBackgroundWork
    <3> QED
      BY <2>2, <3>1 DEF Waking
  <2> QED
    BY <1>1, <2>1, <2>2, WorksWhileUp
<1>2. ASSUME NEW s \in Strands, ~NoneWoken(agenda'[s]) PROVE main'.phase = "running"
  <2>1. CASE ProcessPendingWakes(s) /\ main' # main
    BY <2>1, WakeCases DEF TypeInv
  <2>2. CASE agenda'[s] # agenda[s] /\ ~(ProcessPendingWakes(s) /\ main' # main)
    <3>1. ProcessPendingWakes(s) /\ UNCHANGED main
      BY <1>2, <2>2, Unwoken
    <3>2. main'.phase = "running" \/ Then(s, IdleSteps(s)) \/ ThrowIn(s)
      BY <3>1, WakeCases DEF TypeInv
    <3>3. agenda[s] # <<>> /\ IdleSteps(s) \in Seq(Step) /\ Steps(IdleSteps(s)) \subseteq {TodoWith("settle", Current(s).e)}
      BY <3>1, WakeCases, WakeLeaves DEF TypeInv
    <3>4. NoneWoken(IdleSteps(s))
      BY <3>3 DEF NoneWoken, TodoWith
    <3> QED
      BY <1>2, <3>2, <3>3, <3>4, GoesOn
  <2>3. CASE agenda'[s] = agenda[s]
    <3>1. main.phase = "running" /\ bridgeUp
      BY <1>2, <2>3, NoStep DEF Waking, NoneWoken
    <3>2. CASE UNCHANGED main
      BY <3>1, <3>2
    <3>3. CASE UserTurn \/ MainEnds
      BY <3>1, <3>3 DEF UserTurn, MainEnds, Active
    <3>4. CASE MainStops
      <4>1. PICK x \in Steps(agenda[s]) : x.op = "woken"
        BY <1>2, <2>3 DEF NoneWoken
      <4>2. At(s, "woken")
        BY <3>1, <4>1, WokenFirst DEF At
      <4> QED
        BY <3>4, <4>2 DEF MainStops
    <3>5. ASSUME NEW t \in Strands, ProcessPendingWakes(t) PROVE main'.phase = "running"
      BY <3>1, <3>5, WakeCases DEF TypeInv
    <3> QED
      BY <3>2, <3>3, <3>4, <3>5, Changes
  <2> QED
    BY <2>1, <2>2, <2>3
<1> QED
  BY <1>1, <1>2 DEF Waking, NoneWoken

\* A wake was started, or its start is on the way.
Starting(i) == \E s \in Strands : [op |-> "woken", i |-> i] \in Steps(agenda[s])
Claimed(k, ids) ==
    \E i \in DOMAIN wakes : wakes[i].kind = k /\ wakes[i].ids = ids /\ (wakes[i].started \/ Starting(i))
Turns(k, ids) == {j \in DOMAIN woken : woken[j].kind = k /\ woken[j].ids = ids}
Unique(w) == \A i, j \in DOMAIN w : (w[i].kind = w[j].kind /\ w[i].ids = w[j].ids) => i = j

\* Every turn of a wake is the one that its mark stands for, or was allowed by
\* a crash.
Numbered ==
    /\ Unique(wakes) /\ Unique(stateFile.wakes)
    /\ \A k \in Kinds, ids \in SUBSET Delegations :
         Cardinality(Turns(k, ids)) <= Number(Claimed(k, ids)) + bridgeCrashes

LEMMA TurnsFinite ==
    ASSUME TypeInv, NEW k, NEW ids
    PROVE  IsFiniteSet(Turns(k, ids)) /\ Cardinality(Turns(k, ids)) \in Nat
<1>1. DOMAIN woken = 1..Len(woken) /\ Len(woken) \in Nat
  BY LenProperties DEF TypeInv, HistoryOK
<1>2. IsFiniteSet(1..Len(woken))
  BY <1>1, FS_Interval
<1>3. Turns(k, ids) \subseteq 1..Len(woken)
  BY <1>1 DEF Turns
<1> QED
  BY <1>2, <1>3, FS_Subset, FS_CardinalityType

\* What the steps that touch the wakes leave of them.
LEMMA WakesMove ==
    ASSUME TypeInv, [DelegationNext]_delegationVars, ~BridgeCrashes
    PROVE  /\ \A i \in DOMAIN wakes :
                /\ i \in DOMAIN wakes' /\ wakes'[i].kind = wakes[i].kind /\ wakes'[i].ids = wakes[i].ids
                /\ wakes[i].started => wakes'[i].started
           /\ \A s \in Strands : WakeStarted(s) /\ Current(s).i \in DOMAIN wakes => wakes'[Current(s).i].started
           /\ Unique(wakes) => Unique(wakes')
<1> DEFINE Kept == \A i \in DOMAIN wakes :
                     /\ i \in DOMAIN wakes' /\ wakes'[i].kind = wakes[i].kind /\ wakes'[i].ids = wakes[i].ids
                     /\ wakes[i].started => wakes'[i].started
           Still == Unique(wakes) => Unique(wakes')
<1>t. wakes \in Seq(Wake) /\ AgendaOK
  BY DEF TypeInv, SavedOK
<1>1. ASSUME NEW kind \in Kinds, NEW ids \in SUBSET Delegations, EnqueueWake(kind, ids) PROVE Kept /\ Still
  <2>1. /\ \A i \in DOMAIN wakes : i \in DOMAIN wakes' /\ wakes'[i] = wakes[i]
        /\ \A i \in DOMAIN wakes' : i \notin DOMAIN wakes =>
             /\ wakes'[i] = [kind |-> kind, ids |-> ids, started |-> FALSE]
             /\ \A j \in DOMAIN wakes : ~(wakes[j].kind = kind /\ wakes[j].ids = ids)
             /\ \A j \in DOMAIN wakes' : j \notin DOMAIN wakes => j = i
    BY <1>1, <1>t, WakesGrow
  <2>2. Kept
    BY <2>1
  <2>3. \A i \in DOMAIN wakes' : i \notin DOMAIN wakes => wakes'[i].kind = kind /\ wakes'[i].ids = ids
    BY <2>1
  <2>4. ASSUME Unique(wakes), NEW i \in DOMAIN wakes', NEW j \in DOMAIN wakes',
               wakes'[i].kind = wakes'[j].kind, wakes'[i].ids = wakes'[j].ids
        PROVE  i = j
    <3>1. CASE i \in DOMAIN wakes /\ j \in DOMAIN wakes
      BY <2>1, <2>4, <3>1 DEF Unique
    <3>2. CASE i \in DOMAIN wakes /\ j \notin DOMAIN wakes
      BY <2>1, <2>3, <2>4, <3>2
    <3>3. CASE i \notin DOMAIN wakes /\ j \in DOMAIN wakes
      BY <2>1, <2>3, <2>4, <3>3
    <3>4. CASE i \notin DOMAIN wakes /\ j \notin DOMAIN wakes
      BY <2>1, <2>4, <3>4
    <3> QED
      BY <3>1, <3>2, <3>3, <3>4
  <2>5. Still
    BY <2>4 DEF Unique
  <2> QED
    BY <2>2, <2>5
<1>2. ASSUME UNCHANGED wakes PROVE Kept /\ Still
  BY <1>2
<1>3. ASSUME Flushed PROVE Kept /\ Still
  <2>1. Current("tool").kind \in Kinds /\ Current("tool").ids \in SUBSET Delegations
    BY <1>3, <1>t, Here, Fields DEF Flushed, Strands
  <2> QED
    BY <1>1, <1>3, <2>1 DEF Flushed
<1>4. ASSUME EnqueueByPolicy PROVE Kept /\ Still
  <2>1. Current("drain").d \in Delegations
    BY <1>4, <1>t, Here, Fields DEF EnqueueByPolicy, Strands
  <2>2. Members \in SUBSET Delegations /\ {Current("drain").d} \in SUBSET Delegations
    BY <2>1 DEF Members, Known
  <2> QED
    BY <1>1, <1>2, <1>4, <2>2 DEF EnqueueByPolicy, Kinds
<1>5. ASSUME NEW s \in Strands, WakeStarted(s)
      PROVE  Kept /\ Still /\ (Current(s).i \in DOMAIN wakes => wakes'[Current(s).i].started)
  <2>1. PICK i : i = Current(s).i
    OBVIOUS
  <2>2. wakes' = [wakes EXCEPT ![i].started = TRUE]
    BY <1>5, <2>1 DEF WakeStarted
  <2>3. /\ DOMAIN wakes' = DOMAIN wakes
        /\ \A j \in DOMAIN wakes :
             /\ wakes'[j].kind = wakes[j].kind /\ wakes'[j].ids = wakes[j].ids
             /\ j = i => wakes'[j].started
             /\ j # i => wakes'[j] = wakes[j]
    BY <1>t, <2>2, Marked
  <2> QED
    BY <2>1, <2>3 DEF Unique
<1>6. Kept /\ Still
  BY <1>2, <1>3, <1>4, <1>5, Changes
<1> QED
  BY <1>5, <1>6

\* Only a crash forgets that a wake was started.
LEMMA ClaimedStays ==
    ASSUME TypeInv, [DelegationNext]_delegationVars, ~BridgeCrashes, NEW k, NEW ids, Claimed(k, ids)
    PROVE  Claimed(k, ids)'
<1>1. PICK i \in DOMAIN wakes : wakes[i].kind = k /\ wakes[i].ids = ids /\ (wakes[i].started \/ Starting(i))
  BY DEF Claimed
<1>2. i \in DOMAIN wakes' /\ wakes'[i].kind = k /\ wakes'[i].ids = ids /\ (wakes[i].started => wakes'[i].started)
  BY <1>1, WakesMove
<1>3. ASSUME NEW s \in Strands, [op |-> "woken", i |-> i] \in Steps(agenda[s])
      PROVE  wakes'[i].started \/ Starting(i)'
  <2>1. PICK x : x = [op |-> "woken", i |-> i]
    OBVIOUS
  <2>2. x.op = "woken" /\ x.i = i /\ x \in Steps(agenda[s])
    BY <1>3, <2>1
  <2>3. agenda[s] # <<>> /\ Head(agenda[s]) = x /\ Current(s) = x
    BY <2>2, WokenFirst DEF Current
  <2>4. CASE agenda'[s] = agenda[s]
    BY <1>3, <2>4 DEF Starting
  <2>5. CASE agenda'[s] # agenda[s]
    <3>1. \A op : At(s, op) => op = "woken"
      BY <2>2, <2>3 DEF At, Current
    <3>2. ~Free(s)
      BY <2>3 DEF Free
    <3>3. s = "drain" => ~StartDrain /\ ~HandleEvent /\ ~ApplyPolicy /\ ~EnqueueByPolicy /\ ~SettleMainStop
                         /\ ~MarkProcessed /\ ~Archive
      BY <3>1, <3>2 DEF StartDrain, HandleEvent, ApplyPolicy, EnqueueByPolicy, SettleMainStop, MarkProcessed, Archive
    <3>4. s = "tool" => ~DelegationRead /\ ~FlushOne /\ ~Flushed
      BY <3>1 DEF DelegationRead, FlushOne, Flushed
    <3>5. s = "notice" => ~HandleMainNotification /\ ~RunnerReconciles
      BY <3>2 DEF HandleMainNotification, RunnerReconciles
    <3>6. s = "tool" => ~Call
      <4>1. s = "tool" => ~Callable
        BY <3>2 DEF Callable
      <4> QED
        BY <4>1 DEF Call, StartDelegation, SendDelegation, ReadDelegation, ResumeDelegation, SetPolicy, FlushResults
    <3>7. ~ResultRecorded(s) /\ ~ProcessPendingWakes(s) /\ ~PersistState(s)
      BY <3>1 DEF ResultRecorded, ProcessPendingWakes, PersistState
    <3>8. WakeStarted(s)
      BY <2>5, <3>3, <3>4, <3>5, <3>6, <3>7, Elsewhere DEF Drain, Tool, Notice, Strands
    <3> QED
      BY <1>1, <2>2, <2>3, <3>8, WakesMove
  <2> QED
    BY <2>4, <2>5
<1>4. wakes'[i].started \/ Starting(i)'
  BY <1>1, <1>2, <1>3 DEF Starting
<1> QED
  BY <1>2, <1>4 DEF Claimed

LEMMA NumberedStep ==
    ASSUME TypeInv, Waking, Numbered, [DelegationNext]_delegationVars
    PROVE  Numbered'
<1>t. /\ wakes \in Seq(Wake) /\ AgendaOK /\ woken \in Seq(WokenTurn) /\ bridgeCrashes \in Nat
      /\ agenda \in [Strands -> Seq(Step)]
  BY DEF TypeInv, SavedOK, HistoryOK, AgendaOK
<1>1. Unique(wakes')
  <2>1. BridgeCrashes => wakes' = stateFile.wakes
    BY DEF BridgeCrashes
  <2> QED
    BY <2>1, WakesMove DEF Numbered
<1>2. Unique(stateFile'.wakes)
  BY Changes DEF Numbered, PersistState, Snapshot
<1>3. ASSUME NEW k \in Kinds, NEW ids \in SUBSET Delegations
      PROVE  Cardinality(Turns(k, ids)') <= Number(Claimed(k, ids)') + bridgeCrashes'
  <2>1. /\ Cardinality(Turns(k, ids)) <= Number(Claimed(k, ids)) + bridgeCrashes
        /\ Cardinality(Turns(k, ids)) \in Nat /\ IsFiniteSet(Turns(k, ids))
    BY TurnsFinite DEF Numbered
  <2>2. ~BridgeCrashes /\ Claimed(k, ids) => Claimed(k, ids)'
    BY ClaimedStays
  <2>3. CASE BridgeCrashes
    <3>1. woken' = woken /\ bridgeCrashes' = bridgeCrashes + 1
      BY <2>3 DEF BridgeCrashes, history
    <3>2. Turns(k, ids)' = Turns(k, ids)
      BY <3>1 DEF Turns
    <3> QED
      BY <1>t, <2>1, <3>1, <3>2 DEF Number
  <2>4. CASE ~BridgeCrashes /\ Turns(k, ids)' = Turns(k, ids)
    <3>1. bridgeCrashes' = bridgeCrashes
      BY <2>4, Changes
    <3> QED
      BY <1>t, <2>1, <2>2, <2>4, <3>1 DEF Number
  <2>5. ASSUME NEW s \in Strands, NEW i \in DOMAIN wakes, ~wakes[i].started, main.phase = "ended", ~BridgeCrashes,
               At(s, "wake") \/ At(s, "wakeAfter"),
               woken' = Append(woken, [kind |-> wakes[i].kind, ids |-> wakes[i].ids,
                                       results |-> {p \in wakes[i].ids \X Rounds : returned[p] > 0}]),
               Then(s, <<[op |-> "woken", i |-> i]>> \o WakeSteps(s)), UNCHANGED wakes,
               wakes[i].kind = k, wakes[i].ids = ids
        PROVE  Cardinality(Turns(k, ids)') <= Number(Claimed(k, ids)') + bridgeCrashes'
    <3>1. PICK n : /\ n = [kind |-> wakes[i].kind, ids |-> wakes[i].ids,
                           results |-> {p \in wakes[i].ids \X Rounds : returned[p] > 0}]
      OBVIOUS
    <3>2. n.kind = k /\ n.ids = ids /\ woken' = Append(woken, n)
      BY <2>5, <3>1
    <3>3. n \in WokenTurn
      BY <3>1, <3>2 DEF WokenTurn
    <3>4. /\ DOMAIN woken = 1..Len(woken) /\ Len(woken) \in Nat /\ DOMAIN woken' = 1..(Len(woken) + 1)
          /\ \A j \in 1..Len(woken) : woken'[j] = woken[j]
          /\ woken'[Len(woken) + 1] = n
      <4>1. /\ woken' \in Seq(WokenTurn) /\ Len(woken') = Len(woken) + 1
            /\ \A j \in 1..Len(woken) : woken'[j] = woken[j]
            /\ woken'[Len(woken) + 1] = n
        BY <1>t, <3>2, <3>3, AppendProperties
      <4> QED
        BY <1>t, <4>1, LenProperties
    <3>5. Turns(k, ids)' = Turns(k, ids) \cup {Len(woken) + 1}
      BY <3>2, <3>4 DEF Turns
    <3>6. Len(woken) + 1 \notin Turns(k, ids)
      BY <3>4 DEF Turns
    <3>7. Cardinality(Turns(k, ids)') = Cardinality(Turns(k, ids)) + 1
      BY <2>1, <3>5, <3>6, FS_AddElement
    <3>8. ~Claimed(k, ids)
      <4>1. ASSUME NEW j \in DOMAIN wakes, wakes[j].kind = k, wakes[j].ids = ids PROVE j = i
        BY <2>5, <4>1 DEF Numbered, Unique
      <4>2. ~Starting(i)
        <5>1. \A t \in Strands : NoneWoken(agenda[t])
          BY <2>5 DEF Waking
        <5>2. [op |-> "woken", i |-> i].op = "woken"
          OBVIOUS
        <5> QED
          BY <5>1, <5>2 DEF Starting, NoneWoken
      <4> QED
        BY <2>5, <4>1, <4>2 DEF Claimed
    <3>9. Claimed(k, ids)'
      <4>0. PICK w : w = [op |-> "woken", i |-> i]
        OBVIOUS
      <4>1. w \in Step
        <5>1. i \in Nat
          BY <1>t, <2>5, LenProperties
        <5> QED
          BY <4>0, <5>1 DEF Step
      <4>2. agenda[s] # <<>> /\ WakeSteps(s) \in Seq(Step)
        BY <1>t, <2>5, WakeLeaves
      <4>3. <<w>> \o WakeSteps(s) \in Seq(Step) /\ Steps(<<w>> \o WakeSteps(s)) = {w} \cup Steps(WakeSteps(s))
        BY <4>1, <4>2, LedBy
      <4>4. Then(s, <<w>> \o WakeSteps(s))
        BY <2>5, <4>0
      <4>5. Steps(agenda'[s]) = Steps(<<w>> \o WakeSteps(s)) \cup Later(agenda[s])
        BY <1>t, <4>2, <4>3, <4>4, Went
      <4>6. w \in Steps(agenda'[s])
        BY <4>3, <4>5
      <4>7. Starting(i)'
        BY <4>0, <4>6 DEF Starting
      <4> QED
        BY <2>5, <4>7 DEF Claimed
    <3>10. bridgeCrashes' = bridgeCrashes
      BY <2>5, Changes
    <3> QED
      BY <1>t, <2>1, <3>7, <3>8, <3>9, <3>10 DEF Number
  <2>6. ASSUME NEW s \in Strands, ProcessPendingWakes(s)
        PROVE  Cardinality(Turns(k, ids)') <= Number(Claimed(k, ids)') + bridgeCrashes'
    <3>1. ~BridgeCrashes
      <4>1. At(s, "wake") \/ At(s, "wakeAfter")
        BY <1>t, <2>6, WakeCases
      <4>2. bridgeUp /\ bridgeUp' = bridgeUp
        BY <2>6, <4>1 DEF ProcessPendingWakes, At
      <4> QED
        BY <4>2 DEF BridgeCrashes
    <3>2. CASE UNCHANGED woken
      <4>1. Turns(k, ids)' = Turns(k, ids)
        BY <3>2 DEF Turns
      <4> QED
        BY <2>4, <3>1, <4>1
    <3>3. ASSUME NEW i \in DOMAIN wakes, wakes[i].kind # k \/ wakes[i].ids # ids,
                 woken' = Append(woken, [kind |-> wakes[i].kind, ids |-> wakes[i].ids,
                                         results |-> {p \in wakes[i].ids \X Rounds : returned[p] > 0}])
          PROVE  Turns(k, ids)' = Turns(k, ids)
      <4>1. PICK n : /\ n = [kind |-> wakes[i].kind, ids |-> wakes[i].ids,
                             results |-> {p \in wakes[i].ids \X Rounds : returned[p] > 0}]
        OBVIOUS
      <4>2. (n.kind # k \/ n.ids # ids) /\ woken' = Append(woken, n)
        BY <3>3, <4>1
      <4>3. n \in WokenTurn
        <5>1. wakes[i] \in Wake
          BY <1>t, <3>3, LenProperties
        <5> QED
          BY <4>1, <5>1 DEF Wake, WokenTurn, Kinds
      <4>4. /\ woken' \in Seq(WokenTurn) /\ Len(woken') = Len(woken) + 1
            /\ \A j \in 1..Len(woken) : woken'[j] = woken[j]
            /\ woken'[Len(woken) + 1] = n
        BY <1>t, <4>2, <4>3, AppendProperties
      <4>5. DOMAIN woken = 1..Len(woken) /\ Len(woken) \in Nat /\ DOMAIN woken' = 1..(Len(woken) + 1)
        BY <1>t, <4>4, LenProperties
      <4> QED
        BY <4>2, <4>4, <4>5 DEF Turns
    <3> QED
      BY <1>t, <2>4, <2>5, <2>6, <3>1, <3>2, <3>3, WakeCases DEF savedState
  <2> QED
    BY <2>3, <2>4, <2>6, Changes DEF Turns
<1> QED
  BY <1>1, <1>2, <1>3 DEF Numbered, Turns, Claimed, Starting

LEMMA NumberedInit == DelegationInit => Waking /\ Numbered
<1> SUFFICES ASSUME DelegationInit PROVE Waking /\ Numbered
  OBVIOUS
<1>1. \A s \in Strands : agenda[s] = <<>>
  BY DEF DelegationInit
<1>2. Waking
  BY <1>1, NoStep DEF Waking, NoneWoken
<1>3. woken = <<>> /\ wakes = <<>> /\ stateFile.wakes = <<>> /\ bridgeCrashes = 0
  BY DEF DelegationInit
<1>4. \A k, ids : Turns(k, ids) = {}
  BY <1>3 DEF Turns
<1>5. Cardinality({}) = 0
  BY FS_EmptySet
<1> QED
  BY <1>2, <1>3, <1>4, <1>5 DEF Numbered, Unique, Number

\* Whichever strands find a wake, it starts one turn of the main thread, and
\* one more for each crash.
THEOREM WokenOnce == DelegationSpec => []WakeOnce
<1>1. TypeInv /\ Waking /\ Numbered /\ [DelegationNext]_delegationVars => Waking' /\ Numbered'
  BY WakingStep, NumberedStep
<1>2. TypeInv /\ Numbered => WakeOnce
  <2> SUFFICES ASSUME TypeInv, Numbered, NEW i \in DOMAIN woken
               PROVE  Cardinality({j \in DOMAIN woken : woken[j].kind = woken[i].kind /\ woken[j].ids = woken[i].ids})
                          <= 1 + bridgeCrashes
    BY DEF WakeOnce
  <2>1. woken[i] \in WokenTurn
    BY LenProperties DEF TypeInv, HistoryOK
  <2>2. PICK k \in Kinds, ids \in SUBSET Delegations : k = woken[i].kind /\ ids = woken[i].ids
    BY <2>1 DEF WokenTurn
  <2>3. Cardinality(Turns(k, ids)) <= Number(Claimed(k, ids)) + bridgeCrashes /\ Cardinality(Turns(k, ids)) \in Nat
    BY TurnsFinite DEF Numbered
  <2>4. bridgeCrashes \in Nat
    BY DEF TypeInv, HistoryOK
  <2> QED
    BY <2>2, <2>3, <2>4 DEF Number, Turns
<1> QED
  BY <1>1, <1>2, NumberedInit, TypesHold, PTL DEF DelegationSpec

\* What the drain, the tools and the notifications do between each other's
\* awaits repeats no result and no wake, as long as the marks of a result are
\* not cleared behind it.
THEOREM NothingEverRepeats == DelegationSpec => [](NoSend /\ NoResume => NothingRepeats)
<1>1. (NoSend /\ NoResume => InjectedOnce) /\ WakeOnce => (NoSend /\ NoResume => NothingRepeats)
  BY DEF NothingRepeats
<1> QED
  BY <1>1, InjectedAtMostOnce, WokenOnce, PTL

-----------------------------------------------------------------------------
(* No result is lost.                                                      *)

OnlyFlush == delegationScenario.tools \subseteq {"flush"}
Back(d) == returned[<<d, 1>>] > 0
\* A wake of its own is queued for the delegation, or was.
Queued(w, d) == \E i \in DOMAIN w : w[i].kind = "delegation" /\ w[i].ids = {d}
\* Nothing more has to be done for the result of the delegation.
Passed(r, w, d) == /\ r[d].mode \in Automatic => Back(d)
                   /\ r[d].mode = "wake_on_done" => Queued(w, d)
Turned(kind, ids) == \E j \in DOMAIN woken : woken[j].kind = kind /\ woken[j].ids = ids

RecGood(r) ==
    \A d \in Delegations : /\ Complete(r[d]) => r[d].final = 1
                           /\ r[d].injected => Back(d)
                           /\ r[d].status = "none" => r[d].mode = "manual"
WakesGood(w) ==
    \A i \in DOMAIN w : /\ w[i].kind = "delegation" => \A d \in w[i].ids : Back(d)
                        /\ w[i].started => Turned(w[i].kind, w[i].ids)
StepGood(x) ==
    /\ x.op \in {"recorded", "enqueue"} => Back(x.d)
    /\ x.op = "enqueue" => x.mode = rec[x.d].mode
    /\ x.op = "flush" => \A d \in x.ids : Back(d)
    /\ x.op = "policy" => Complete(rec[x.d])
    /\ x.op = "woken" => x.i \in DOMAIN wakes /\ Turned(wakes[x.i].kind, wakes[x.i].ids)
    /\ x.op \in {"wakeAfter", "settle"} => x.e.thread = Main
    /\ x.op # "read"
StepsGood == \A s \in Strands : \A x \in Steps(agenda[s]) : StepGood(x)
\* The drain is at the policy of the delegation, or at what it leads to.
AtFor(a, op, d) == a # <<>> /\ Head(a).op = op /\ Head(a).d = d
Handling(d) ==
    LET a == agenda["drain"] IN
    \/ AtFor(a, "policy", d) \/ AtFor(a, "enqueue", d)
    \/ a # <<>> /\ Head(a).op = "recorded" /\ AtFor(Tail(a), "enqueue", d)
\* Before an event is marked, what its result needs was done, or is what the
\* drain is at.
MarkGood ==
    \A x \in Steps(agenda["drain"]) : (x.op = "mark" /\ x.e.thread # Main) =>
        \/ Passed(rec, wakes, x.e.thread)
        \/ Handling(x.e.thread)
DoneGood(es, r, w) == \A e \in es : e.thread # Main => Passed(r, w, e.thread)
WokenGood ==
    \A j \in DOMAIN woken : woken[j].kind = "delegation" =>
        \A d \in woken[j].ids : <<d, 1>> \in woken[j].results

Delivered ==
    OnlyFlush =>
    /\ RecGood(rec) /\ RecGood(stateFile.rec)
    /\ WakesGood(wakes) /\ WakesGood(stateFile.wakes)
    /\ StepsGood /\ MarkGood /\ WokenGood
    /\ DoneGood(processedEvents, rec, wakes) /\ DoneGood(stateFile.processed, stateFile.rec, stateFile.wakes)

\* Where only flushes are asked for, a delegation has one turn and its mode.
LEMMA FlushOnly ==
    ASSUME OnlyFlush
    PROVE  NoSend /\ NoResume /\ "read" \notin delegationScenario.tools /\ "policy" \notin delegationScenario.tools
BY DEF OnlyFlush, NoSend, NoResume

\* What is back is back for good.
LEMMA BackStays ==
    ASSUME TypeInv, [DelegationNext]_delegationVars, NEW p \in Delegations \X Rounds, returned[p] > 0
    PROVE  returned'[p] > 0
<1>t. returned \in [Delegations \X Rounds -> Nat]
  BY DEF TypeInv, HistoryOK
<1>1. \A q : returned' = [returned EXCEPT ![q] = @ + 1] => returned'[p] > 0
  <2> TAKE q
  <2>1. CASE q \in Delegations \X Rounds
    BY <1>t, <2>1
  <2>2. CASE q \notin Delegations \X Rounds
    BY <1>t, <2>2
  <2> QED
    BY <2>1, <2>2
<1>2. \A s, d, next : RecordResult(s, d, next) => returned'[p] > 0
  BY <1>1 DEF RecordResult
<1>3. ApplyPolicy => returned'[p] > 0
  BY <1>2 DEF ApplyPolicy
<1>4. FlushOne => returned'[p] > 0
  BY <1>2 DEF FlushOne
<1> QED
  BY <1>3, <1>4, Changes

LEMMA FirstRound == 1 \in Rounds /\ \A d \in Delegations : <<d, 1>> \in Delegations \X Rounds
BY DelegationAssumption DEF Rounds

\* What is known of a delegation, and the wakes that were queued, stay.
LEMMA Stays ==
    ASSUME TypeInv, Facts, OnlyFlush, StepsGood, [DelegationNext]_delegationVars, ~BridgeCrashes,
           NEW d \in Delegations
    PROVE  /\ Back(d) => Back(d)'
           /\ Begun(d) => rec'[d].mode = rec[d].mode
           /\ Complete(rec[d]) => Complete(rec'[d])
           /\ Queued(wakes, d) => Queued(wakes', d)
           /\ Begun(d) /\ Passed(rec, wakes, d) => Passed(rec, wakes, d)'
<1>t. /\ rec \in [Delegations -> Delegation] /\ AgendaOK /\ "tool" \in Strands
  BY DEF TypeInv, SavedOK, RecOK, Strands
<1>1. Back(d) => Back(d)'
  BY BackStays, FirstRound DEF Back
<1>2. /\ Begun(d) => rec'[d].mode = rec[d].mode
      /\ Complete(rec[d]) => Complete(rec'[d])
  <2> DEFINE Goal == /\ Begun(d) => rec'[d].mode = rec[d].mode
                     /\ Complete(rec[d]) => Complete(rec'[d])
  <2>1. CASE UNCHANGED rec
    BY <2>1
  <2>2. ~DelegationRead
    BY <1>t, Here DEF DelegationRead, StepsGood, StepGood
  <2>3. CASE HandleEvent
    <3>1. PICK e : \/ UNCHANGED rec
                   \/ rec' = [rec EXCEPT ![e.thread] = [@ EXCEPT !.status = "complete", !.final = e.turn]]
      BY <1>t, <2>3, EventCases
    <3>2. CASE UNCHANGED rec \/ e.thread # d
      BY <1>t, <3>1, <3>2
    <3>3. CASE /\ e.thread = d
               /\ rec' = [rec EXCEPT ![e.thread] = [@ EXCEPT !.status = "complete", !.final = e.turn]]
      <4>1. rec[d] \in Delegation /\ rec'[d] = [rec[d] EXCEPT !.status = "complete", !.final = e.turn]
        BY <1>t, <3>3
      <4> QED
        BY <4>1 DEF Delegation, Complete
    <3> QED
      BY <3>1, <3>2, <3>3
  <2>4. ASSUME NEW s \in Strands, ResultRecorded(s) PROVE Goal
    <3>1. PICK c : rec' = rec \/ rec' = [rec EXCEPT ![c].injected = TRUE]
      BY <2>4 DEF ResultRecorded
    <3> QED
      BY <1>t, <3>1 DEF Delegation, Complete
  <2>5. ASSUME NEW c \in Delegations, NEW mode, StartDelegation(c, mode) PROVE Goal
    <3>1. ~Begun(c)
      BY <2>5 DEF StartDelegation, Begun
    <3>2. ~Complete(rec[c])
      BY <3>1 DEF Facts, RecsOK, Unknown, NoDelegation, Complete
    <3> QED
      BY <1>t, <2>5, <3>1, <3>2 DEF StartDelegation
  <2>6. ASSUME NEW ds, NEW c, NEW mode, SetPolicy(ds, mode) \/ SendDelegation(c) \/ ResumeDelegation(c, mode)
        PROVE  FALSE
    BY <2>6, FlushOnly DEF SetPolicy, SendDelegation, ResumeDelegation, NoSend, NoResume
  <2> HIDE DEF Goal
  <2>7. Goal
    BY <2>1, <2>2, <2>3, <2>4, <2>5, <2>6, RecChanges DEF Goal
  <2> QED
    BY <2>7 DEF Goal
<1>3. Queued(wakes, d) => Queued(wakes', d)
  BY WakesMove DEF Queued
<1>4. Begun(d) /\ Passed(rec, wakes, d) => Passed(rec, wakes, d)'
  BY <1>1, <1>2, <1>3 DEF Passed, Back
<1> QED
  BY <1>1, <1>2, <1>3, <1>4

LEMMA TurnedStays ==
    ASSUME TypeInv, [DelegationNext]_delegationVars, NEW k, NEW ids, Turned(k, ids)
    PROVE  Turned(k, ids)'
<1>t. woken \in Seq(WokenTurn)
  BY DEF TypeInv, HistoryOK
<1>1. CASE UNCHANGED woken
  BY <1>1 DEF Turned
<1>2. ASSUME NEW s \in Strands, ProcessPendingWakes(s), ~UNCHANGED woken PROVE Turned(k, ids)'
  <2>1. PICK n : woken' = Append(woken, n)
    BY <1>2, WakeCases DEF TypeInv
  <2>2. woken' \in Seq(WokenTurn)
    BY TypeStep DEF TypeInv, HistoryOK
  <2>3. \A j \in DOMAIN woken : j \in DOMAIN woken' /\ woken'[j] = woken[j]
    <3>1. DOMAIN woken = 1..Len(woken) /\ Len(woken) \in Nat
      BY <1>t, LenProperties
    <3>2. Len(woken') = Len(woken) + 1 /\ \A j \in 1..Len(woken) : woken'[j] = woken[j]
      BY <1>t, <2>1, AppendProperties
    <3>3. DOMAIN woken' = 1..Len(woken')
      BY <2>2, LenProperties
    <3> QED
      BY <3>1, <3>2, <3>3
  <2> QED
    BY <2>3 DEF Turned
<1> QED
  BY <1>1, <1>2, Changes

LEMMA GoodStays ==
    ASSUME TypeInv, Facts, OnlyFlush, StepsGood, [DelegationNext]_delegationVars, ~BridgeCrashes,
           NEW x \in Step, StepOK(x), StepGood(x)
    PROVE  StepGood(x)'
<1>1. x.op \in {"recorded", "enqueue", "policy"} => x.d \in Delegations /\ Begun(x.d)
  BY Fields DEF StepOK
<1>2. x.op \in {"recorded", "enqueue"} => Back(x.d)'
  BY <1>1, Stays DEF StepGood
<1>3. x.op = "enqueue" => x.mode = rec'[x.d].mode
  BY <1>1, Stays DEF StepGood
<1>4. x.op = "flush" => \A d \in x.ids : Back(d)'
  BY Fields, Stays DEF StepGood
<1>5. x.op = "policy" => Complete(rec'[x.d])
  BY <1>1, Stays DEF StepGood
<1>6. x.op = "woken" => x.i \in DOMAIN wakes' /\ Turned(wakes[x.i].kind, wakes[x.i].ids)'
  <2> SUFFICES ASSUME x.op = "woken" PROVE x.i \in DOMAIN wakes' /\ Turned(wakes[x.i].kind, wakes[x.i].ids)'
    OBVIOUS
  <2>1. x.i \in DOMAIN wakes /\ Turned(wakes[x.i].kind, wakes[x.i].ids)
    BY DEF StepGood
  <2>2. PICK k, ids : k = wakes[x.i].kind /\ ids = wakes[x.i].ids
    OBVIOUS
  <2>3. Turned(k, ids)'
    BY <2>1, <2>2, TurnedStays
  <2>4. x.i \in DOMAIN wakes' /\ wakes'[x.i].kind = k /\ wakes'[x.i].ids = ids
    BY <2>1, <2>2, WakesMove
  <2> QED
    BY <2>3, <2>4
<1> QED
  BY <1>2, <1>3, <1>4, <1>5, <1>6 DEF StepGood, Back, Turned

\* The agenda of a strand whose next steps are all of a kind.
LEMMA Into ==
    ASSUME TypeInv, NEW s \in Strands, agenda[s] # <<>>, NEW G \in SUBSET Step, Later(agenda[s]) \subseteq G
    PROVE  /\ \A steps \in Seq(Step) : Steps(steps) \subseteq G /\ Then(s, steps) => Steps(agenda'[s]) \subseteq G
           /\ Continue(s) \/ ThrowIn(s) => Steps(agenda'[s]) \subseteq G
           /\ \A x \in G : Then(s, <<x>>) => Steps(agenda'[s]) \subseteq G
           /\ \A x \in G, y \in G : Then(s, <<x, y>>) \/ Then(s, <<x>> \o <<y>>) => Steps(agenda'[s]) \subseteq G
<1>t. agenda \in [Strands -> Seq(Step)]
  BY DEF TypeInv, AgendaOK
<1>1. ASSUME NEW steps \in Seq(Step), Steps(steps) \subseteq G, Then(s, steps) PROVE Steps(agenda'[s]) \subseteq G
  <2>1. Steps(agenda'[s]) = Steps(steps) \cup Later(agenda[s])
    BY <1>t, <1>1, Went
  <2> QED
    BY <1>1, <2>1
<1>2. <<>> \in Seq(Step) /\ Steps(<<>>) \subseteq G
  BY NoStep
<1>3. ThrowIn(s) => Steps(agenda'[s]) \subseteq G
  <2>1. ThrowIn(s) => agenda'[s] = <<>>
    BY <1>t DEF ThrowIn
  <2> QED
    BY <1>2, <2>1
<1>4. Continue(s) => Steps(agenda'[s]) \subseteq G
  BY <1>1, <1>2 DEF Continue
<1>5. ASSUME NEW x \in G, Then(s, <<x>>) PROVE Steps(agenda'[s]) \subseteq G
  <2>1. <<x>> \in Seq(Step) /\ Steps(<<x>>) = {x}
    BY OneStep
  <2> QED
    BY <1>1, <1>5, <2>1
<1>6. ASSUME NEW x \in G, NEW y \in G, Then(s, <<x, y>>) \/ Then(s, <<x>> \o <<y>>)
      PROVE  Steps(agenda'[s]) \subseteq G
  <2>1. <<x, y>> \in Seq(Step) /\ Steps(<<x, y>>) = {x, y}
    BY TwoSteps
  <2>2. <<y>> \in Seq(Step) /\ Steps(<<y>>) = {y}
    BY OneStep
  <2>3. <<x>> \o <<y>> \in Seq(Step) /\ Steps(<<x>> \o <<y>>) = {x} \cup Steps(<<y>>)
    BY <2>2, LedBy
  <2> QED
    BY <1>1, <1>6, <2>1, <2>2, <2>3
<1> QED
  BY <1>1, <1>3, <1>4, <1>5, <1>6

\* What the policy of a delegation comes to.
PolicyGoes(d, x) ==
    /\ Current("drain").op = "policy" /\ d = Current("drain").d
    /\ x = [op |-> "enqueue", d |-> d, mode |-> rec[d].mode]
    /\ \/ ThrowIn("drain") /\ UNCHANGED returned
       \/ ~Returnable(rec[d]) /\ Continue("drain") /\ UNCHANGED returned
       \/ Returnable(rec[d]) /\ rec[d].injected /\ Then("drain", <<x>>) /\ UNCHANGED returned
       \/ /\ Returnable(rec[d]) /\ Then("drain", <<TodoFor("recorded", d)>> \o <<x>>)
          /\ returned' = IF rec[d].final = 0 THEN returned
                         ELSE [returned EXCEPT ![<<d, rec[d].final>>] = @ + 1]

LEMMA PolicyCases ==
    ASSUME TypeInv, Facts, NoResume, ApplyPolicy
    PROVE  agenda["drain"] # <<>> /\ \E d \in Delegations, x \in Step : PolicyGoes(d, x)
<1>t. rec \in [Delegations -> Delegation] /\ AgendaOK /\ "drain" \in Strands
  BY DEF TypeInv, SavedOK, RecOK, Strands
<1>1. agenda["drain"] # <<>> /\ Current("drain").op = "policy" /\ Current("drain").d \in Delegations
  BY <1>t, Here, Fields DEF ApplyPolicy
<1>2. PICK d \in Delegations : d = Current("drain").d
  BY <1>1
<1>3. Of("drain", d) = rec[d]
  BY NoneHeld
<1>4. PICK x : x = [op |-> "enqueue", d |-> d, mode |-> rec[d].mode]
  OBVIOUS
<1>5. x \in Step
  <2>1. rec[d].mode \in Modes
    BY <1>t DEF Delegation
  <2> QED
    BY <1>4, <2>1 DEF Step
<1>6. \/ Returnable(rec[d]) /\ RecordResult("drain", d, <<x>>)
      \/ ~Returnable(rec[d]) /\ Continue("drain") /\ UNCHANGED returned
  BY <1>2, <1>3, <1>4 DEF ApplyPolicy
<1>7. PolicyGoes(d, x)
  BY <1>1, <1>2, <1>3, <1>4, <1>6 DEF PolicyGoes, RecordResult, MustInject
<1> QED
  BY <1>1, <1>5, <1>7

\* A result that is injected is back.
LEMMA InjectedIsBack ==
    ASSUME TypeInv, NEW d \in Delegations, Complete(rec[d]) => rec[d].final = 1, Complete(rec[d]),
           returned' = IF rec[d].final = 0 THEN returned
                       ELSE [returned EXCEPT ![<<d, rec[d].final>>] = @ + 1]
    PROVE  Back(d)'
<1>1. returned \in [Delegations \X Rounds -> Nat] /\ <<d, 1>> \in Delegations \X Rounds
  BY FirstRound DEF TypeInv, HistoryOK
<1>f. PICK f : f = rec[d].final
  OBVIOUS
<1>g. f = 1 /\ f # 0
  BY <1>f
<1>h. returned' = IF f = 0 THEN returned ELSE [returned EXCEPT ![<<d, f>>] = @ + 1]
  BY <1>f
<1>2. returned' = [returned EXCEPT ![<<d, 1>>] = @ + 1]
  BY <1>g, <1>h
<1>3. returned'[<<d, 1>>] = returned[<<d, 1>>] + 1 /\ returned[<<d, 1>>] \in Nat
  BY <1>1, <1>2
<1> QED
  BY <1>3 DEF Back

\* The other steps of the drain, with what they leave to do.
LEMMA DrainGoes ==
    ASSUME TypeInv, ResultRecorded("drain") \/ EnqueueByPolicy \/ ProcessPendingWakes("drain")
                    \/ WakeStarted("drain") \/ SettleMainStop \/ MarkProcessed \/ PersistState("drain") \/ Archive
    PROVE  /\ agenda["drain"] # <<>>
           /\ \/ ThrowIn("drain")
              \/ \E steps \in Seq(Step) :
                   /\ Then("drain", steps)
                   /\ \A x \in Steps(steps) :
                        \/ x.op \in {"persist", "archive"}
                        \/ /\ x.op \in {"mark", "settle"} /\ Current("drain").op \in {"wakeAfter", "settle"}
                           /\ x.e = Current("drain").e
                        \/ x.op = "woken" /\ ProcessPendingWakes("drain")
<1> DEFINE Goes(steps) ==
              /\ Then("drain", steps)
              /\ \A x \in Steps(steps) :
                   \/ x.op \in {"persist", "archive"}
                   \/ /\ x.op \in {"mark", "settle"} /\ Current("drain").op \in {"wakeAfter", "settle"}
                      /\ x.e = Current("drain").e
                   \/ x.op = "woken" /\ ProcessPendingWakes("drain")
           Goal == ThrowIn("drain") \/ \E steps \in Seq(Step) : Goes(steps)
<1>t. AgendaOK /\ "drain" \in Strands
  BY DEF TypeInv, Strands
<1>0. agenda["drain"] # <<>>
  BY DEF ResultRecorded, EnqueueByPolicy, ProcessPendingWakes, WakeStarted, SettleMainStop, MarkProcessed,
         PersistState, Archive, At
<1>1. ASSUME Continue("drain") PROVE Goal
  <2>1. <<>> \in Seq(Step) /\ Goes(<<>>)
    BY <1>1, NoStep DEF Continue
  <2> QED
    BY <2>1
<1>2. ASSUME ResultRecorded("drain") \/ EnqueueByPolicy \/ WakeStarted("drain") \/ PersistState("drain") \/ Archive
      PROVE  Goal
  <2>1. Continue("drain")
    BY <1>2 DEF ResultRecorded, EnqueueByPolicy, WakeStarted, PersistState, Archive
  <2> QED
    BY <1>1, <2>1
<1>3. ASSUME SettleMainStop PROVE Goal
  <2>1. Current("drain").op = "settle" /\ Current("drain").e \in Stop
    BY <1>t, <1>3, Here, Fields DEF SettleMainStop
  <2>2. PICK m \in Step : m = TodoWith("mark", Current("drain").e) /\ m.op = "mark" /\ m.e = Current("drain").e
    BY <2>1, Plain DEF TodoWith
  <2>3. <<m>> \in Seq(Step) /\ Steps(<<m>>) = {m}
    BY OneStep
  <2>4. Then("drain", <<m>>) \/ Continue("drain")
    BY <1>3, <2>2 DEF SettleMainStop
  <2>5. Then("drain", <<m>>) => Goes(<<m>>)
    BY <2>1, <2>2, <2>3
  <2> HIDE DEF Goes
  <2> QED
    BY <1>1, <2>3, <2>4, <2>5
<1>4. ASSUME MarkProcessed PROVE Goal
  <2>1. Current("drain").e \in Stop
    BY <1>t, <1>4, Here, Fields DEF MarkProcessed
  <2>2. PICK a \in Step : a = TodoWith("archive", Current("drain").e) /\ a.op = "archive"
    BY <2>1, Plain DEF TodoWith
  <2>3. PICK p \in Step : p = Todo("persist") /\ p.op = "persist"
    BY Plain DEF Todo
  <2>4. <<p, a>> \in Seq(Step) /\ Steps(<<p, a>>) = {p, a}
    BY TwoSteps
  <2>5. Then("drain", <<p, a>>)
    BY <1>4, <2>2, <2>3 DEF MarkProcessed
  <2>6. Goes(<<p, a>>)
    BY <2>2, <2>3, <2>4, <2>5
  <2> HIDE DEF Goes
  <2> QED
    BY <2>4, <2>6
<1>5. ASSUME ProcessPendingWakes("drain") PROVE Goal
  <2>1. At("drain", "wake") \/ At("drain", "wakeAfter")
    BY <1>5, <1>t, WakeCases
  <2>2. /\ WakeSteps("drain") \in Seq(Step) /\ IdleSteps("drain") \in Seq(Step)
        /\ Current("drain").op # "wakeAfter" => Steps(WakeSteps("drain")) = {} /\ Steps(IdleSteps("drain")) = {}
        /\ Steps(WakeSteps("drain")) \subseteq {TodoWith("mark", Current("drain").e)}
        /\ Steps(IdleSteps("drain")) \subseteq {TodoWith("settle", Current("drain").e)}
    <3>1. Current("drain").op # "wakeAfter" => WakeSteps("drain") = <<>> /\ IdleSteps("drain") = <<>>
      BY DEF WakeSteps, IdleSteps
    <3> QED
      BY <1>t, <2>1, <3>1, WakeLeaves, NoStep
  <2>3. \A x \in Steps(WakeSteps("drain")) \cup Steps(IdleSteps("drain")) :
           x.op \in {"mark", "settle"} /\ Current("drain").op \in {"wakeAfter", "settle"} /\ x.e = Current("drain").e
    BY <2>2 DEF TodoWith
  <2>4. CASE Then("drain", IdleSteps("drain"))
    <3>1. Goes(IdleSteps("drain"))
      BY <2>3, <2>4
    <3> HIDE DEF Goes
    <3> QED
      BY <2>2, <3>1
  <2>5. ASSUME NEW i \in DOMAIN wakes, Then("drain", <<[op |-> "woken", i |-> i]>> \o WakeSteps("drain")) PROVE Goal
    <3>1. PICK w : w = [op |-> "woken", i |-> i]
      OBVIOUS
    <3>2. w \in Step /\ w.op = "woken"
      <4>1. i \in Nat
        BY <2>5, LenProperties DEF TypeInv, SavedOK
      <4> QED
        BY <3>1, <4>1 DEF Step
    <3>3. /\ <<w>> \o WakeSteps("drain") \in Seq(Step)
          /\ Steps(<<w>> \o WakeSteps("drain")) = {w} \cup Steps(WakeSteps("drain"))
      BY <2>2, <3>2, LedBy
    <3>4. Goes(<<w>> \o WakeSteps("drain"))
      BY <1>5, <2>3, <2>5, <3>1, <3>2, <3>3
    <3> HIDE DEF Goes
    <3> QED
      BY <3>3, <3>4
  <2> HIDE DEF Goal
  <2> QED
    BY <1>5, <1>t, <2>4, <2>5, WakeCases DEF Goal
<1> HIDE DEF Goal
<1>6. Goal
  BY <1>2, <1>3, <1>4, <1>5
<1> QED
  BY <1>0, <1>6 DEF Goal

\* Nothing is asked of these steps.
LEMMA Untroubled ==
    ASSUME NEW x, x.op \in {"persist", "wake", "events", "archive", "mark"}
    PROVE  StepGood(x)'
BY DEF StepGood

\* The steps that are left stay as they have to be.
LEMMA GoodLeft ==
    ASSUME TypeInv, Facts, OnlyFlush, StepsGood, [DelegationNext]_delegationVars, ~BridgeCrashes,
           NEW s \in Strands
    PROVE  \E G \in SUBSET Step : /\ \A x \in Step : x \in G <=> StepGood(x)'
                                  /\ Steps(agenda[s]) \subseteq G /\ Later(agenda[s]) \subseteq G
<1>1. PICK G : G = {x \in Step : StepGood(x)'}
  OBVIOUS
<1>2. G \in SUBSET Step /\ \A x \in Step : x \in G <=> StepGood(x)'
  BY <1>1
<1>3. agenda[s] \in Seq(Step)
  BY DEF TypeInv, AgendaOK
<1>4. Later(agenda[s]) \subseteq Steps(agenda[s])
  BY DEF Later, Steps
<1>5. ASSUME NEW x \in Steps(agenda[s]) PROVE x \in G
  <2>1. x \in Step
    BY <1>3, <1>5, LenProperties DEF Steps
  <2>2. StepOK(x) /\ StepGood(x)
    BY <1>5 DEF StepsGood, Facts, StepsOK
  <2> QED
    BY <1>2, <2>1, <2>2, GoodStays
<1> QED
  BY <1>2, <1>4, <1>5

\* The turn of a wake is among the turns once it was started.
LEMMA WakeTurned ==
    ASSUME TypeInv, NEW kind, NEW ids, NEW n, n.kind = kind, n.ids = ids, woken' = Append(woken, n),
           woken' \in Seq(WokenTurn)
    PROVE  Turned(kind, ids)'
<1>1. woken \in Seq(WokenTurn)
  BY DEF TypeInv, HistoryOK
<1>2. Len(woken) \in Nat /\ Len(woken') = Len(woken) + 1 /\ woken'[Len(woken) + 1] = n
  BY <1>1, AppendProperties, LenProperties
<1>3. Len(woken) + 1 \in DOMAIN woken'
  BY <1>2, LenProperties
<1> QED
  BY <1>2, <1>3 DEF Turned

\* The steps that several strands have.
LEMMA SharedGood ==
    ASSUME TypeInv, Facts, OnlyFlush, StepsGood, [DelegationNext]_delegationVars, ~BridgeCrashes,
           NEW s \in Strands,
           ProcessPendingWakes(s) \/ WakeStarted(s) \/ PersistState(s) \/ ResultRecorded(s)
    PROVE  \A x \in Steps(agenda'[s]) : StepGood(x)'
<1>t. AgendaOK
  BY DEF TypeInv
<1>0. agenda[s] # <<>>
  BY DEF ProcessPendingWakes, WakeStarted, PersistState, ResultRecorded, At
<1>1. PICK G \in SUBSET Step : /\ \A x \in Step : x \in G <=> StepGood(x)'
                               /\ Steps(agenda[s]) \subseteq G /\ Later(agenda[s]) \subseteq G
  BY GoodLeft
<1>2. CASE WakeStarted(s) \/ PersistState(s) \/ ResultRecorded(s)
  <2>1. Continue(s)
    BY <1>2 DEF WakeStarted, PersistState, ResultRecorded
  <2> QED
    BY <1>0, <1>1, <2>1, Into
<1>3. CASE ProcessPendingWakes(s)
  <2>1. At(s, "wake") \/ At(s, "wakeAfter")
    BY <1>t, <1>3, WakeCases
  <2>2. PICK c : c = Current(s)
    OBVIOUS
  <2>3. /\ WakeSteps(s) \in Seq(Step) /\ IdleSteps(s) \in Seq(Step) /\ c \in Step /\ c \in Steps(agenda[s])
        /\ Steps(WakeSteps(s)) \subseteq {TodoWith("mark", c.e)}
        /\ Steps(IdleSteps(s)) \subseteq {TodoWith("settle", c.e)}
        /\ c.op # "wakeAfter" => IdleSteps(s) = <<>>
    BY <1>t, <2>1, <2>2, WakeLeaves DEF IdleSteps
  <2>4. /\ \A x \in Steps(WakeSteps(s)) : x \in Step /\ x.op = "mark"
        /\ \A x \in Steps(IdleSteps(s)) : x \in Step /\ x.op = "settle" /\ x.e = c.e
    <3>1. Steps(WakeSteps(s)) \subseteq Step /\ Steps(IdleSteps(s)) \subseteq Step
      BY <1>t, <2>1, WakeLeaves, Plain
    <3> QED
      BY <2>3, <3>1 DEF TodoWith
  <2>5. Steps(WakeSteps(s)) \subseteq G
    BY <1>1, <2>4, Untroubled
  <2>6. Steps(IdleSteps(s)) \subseteq G
    <3>1. CASE c.op # "wakeAfter"
      BY <2>3, <3>1, NoStep
    <3>2. CASE c.op = "wakeAfter"
      <4>1. c.e.thread = Main
        BY <2>3, <3>2 DEF StepsGood, StepGood
      <4>2. \A x : x.op = "settle" /\ x.e = c.e => StepGood(x)'
        BY <4>1 DEF StepGood
      <4> QED
        BY <1>1, <2>4, <4>2
    <3> QED
      BY <3>1, <3>2
  <2>7. ASSUME NEW i \in DOMAIN wakes, NEW w, w = [op |-> "woken", i |-> i], w \in Step,
               woken' = Append(woken, [kind |-> wakes[i].kind, ids |-> wakes[i].ids,
                                       results |-> {p \in wakes[i].ids \X Rounds : returned[p] > 0}])
        PROVE  w \in G
    <3>1. wakes' = wakes
      BY <1>3 DEF ProcessPendingWakes, savedState
    <3>2. PICK k, ids : k = wakes[i].kind /\ ids = wakes[i].ids
      OBVIOUS
    <3>3. woken' \in Seq(WokenTurn)
      BY TypeStep DEF TypeInv, HistoryOK
    <3>4. PICK n : woken' = Append(woken, n) /\ n.kind = k /\ n.ids = ids
      BY <2>7, <3>2
    <3>5. Turned(k, ids)'
      BY <3>3, <3>4, WakeTurned
    <3>6. w.i = i /\ w.op = "woken"
      BY <2>7
    <3>7. StepGood(w)'
      BY <3>1, <3>2, <3>5, <3>6 DEF StepGood
    <3> QED
      BY <1>1, <2>7, <3>7
  <2>8. ASSUME Then(s, IdleSteps(s)) \/ ThrowIn(s) PROVE Steps(agenda'[s]) \subseteq G
    BY <1>0, <1>1, <2>3, <2>6, <2>8, Into
  <2>9. ASSUME NEW i \in DOMAIN wakes, Then(s, <<[op |-> "woken", i |-> i]>> \o WakeSteps(s)),
               woken' = Append(woken, [kind |-> wakes[i].kind, ids |-> wakes[i].ids,
                                       results |-> {p \in wakes[i].ids \X Rounds : returned[p] > 0}])
        PROVE  Steps(agenda'[s]) \subseteq G
    <3>1. PICK w : w = [op |-> "woken", i |-> i]
      OBVIOUS
    <3>2. w \in Step
      <4>1. i \in Nat
        BY <2>9, LenProperties DEF TypeInv, SavedOK
      <4> QED
        BY <3>1, <4>1 DEF Step
    <3>3. w \in G
      BY <2>7, <2>9, <3>1, <3>2
    <3>4. <<w>> \o WakeSteps(s) \in Seq(Step) /\ Steps(<<w>> \o WakeSteps(s)) = {w} \cup Steps(WakeSteps(s))
      BY <2>3, <3>2, LedBy
    <3>5. Then(s, <<w>> \o WakeSteps(s)) /\ Steps(<<w>> \o WakeSteps(s)) \subseteq G
      BY <2>5, <2>9, <3>1, <3>3, <3>4
    <3> QED
      BY <1>0, <1>1, <3>4, <3>5, Into
  <2>10. \/ Then(s, IdleSteps(s)) \/ ThrowIn(s)
         \/ \E i \in DOMAIN wakes :
              /\ Then(s, <<[op |-> "woken", i |-> i]>> \o WakeSteps(s))
              /\ woken' = Append(woken, [kind |-> wakes[i].kind, ids |-> wakes[i].ids,
                                         results |-> {p \in wakes[i].ids \X Rounds : returned[p] > 0}])
    BY <1>t, <1>3, WakeCases
  <2>11. Steps(agenda'[s]) \subseteq G
    BY <2>8, <2>9, <2>10
  <2> QED
    BY <1>1, <2>11
<1> QED
  BY <1>2, <1>3

LEMMA ToolGood ==
    ASSUME TypeInv, Facts, OnlyFlush, RecGood(rec), StepsGood, [DelegationNext]_delegationVars, ~BridgeCrashes,
           Tool \/ Call
    PROVE  \A x \in Steps(agenda'["tool"]) : StepGood(x)'
<1>t. AgendaOK /\ agenda \in [Strands -> Seq(Step)] /\ "tool" \in Strands
  BY DEF TypeInv, AgendaOK, Strands
<1>1. PICK G \in SUBSET Step : /\ \A x \in Step : x \in G <=> StepGood(x)'
                               /\ Steps(agenda["tool"]) \subseteq G /\ Later(agenda["tool"]) \subseteq G
  BY <1>t, GoodLeft
<1>p. PICK p \in Step : p = Todo("persist") /\ p.op = "persist" /\ p \in G
  BY <1>1, Plain, Untroubled DEF Todo
<1>w. PICK w \in Step : w = Todo("wake") /\ w.op = "wake" /\ w \in G
  BY <1>1, Plain, Untroubled DEF Todo
<1>2. ASSUME NEW d \in Delegations, NEW m, StartDelegation(d, m) PROVE Steps(agenda'["tool"]) \subseteq G
  <2>1. agenda'["tool"] = <<p>>
    BY <1>t, <1>p, <1>2 DEF StartDelegation
  <2> QED
    BY <1>p, <2>1, OneStep
<1>3. ASSUME NEW ds, NEW kind \in Kinds, FlushResults(ds, kind) PROVE Steps(agenda'["tool"]) \subseteq G
  <2>1. PICK x : x = [op |-> "flush", left |-> ds, kind |-> kind, ids |-> {}]
    OBVIOUS
  <2>2. x \in Step /\ x.op = "flush" /\ x.ids = {}
    BY <1>3, <2>1 DEF FlushResults, Known, Step
  <2>3. agenda'["tool"] = <<x, p>>
    BY <1>t, <1>p, <1>3, <2>1 DEF FlushResults
  <2>4. x \in G
    BY <1>1, <2>2 DEF StepGood
  <2> QED
    BY <1>p, <2>2, <2>3, <2>4, TwoSteps
<1>4. CASE Call
  <2>1. ASSUME NEW d, NEW m, SendDelegation(d) \/ ReadDelegation(d) \/ ResumeDelegation(d, m) \/ SetPolicy(d, m)
        PROVE  FALSE
    BY <2>1, FlushOnly DEF SendDelegation, ReadDelegation, ResumeDelegation, SetPolicy, NoSend, NoResume
  <2>2. Steps(agenda'["tool"]) \subseteq G
    BY <1>2, <1>3, <1>4, <2>1 DEF Call, Kinds
  <2> QED
    BY <1>1, <2>2
<1>5. ~DelegationRead
  BY <1>t, Here DEF DelegationRead, StepsGood, StepGood
<1>6. CASE Flushed
  <2>1. agenda["tool"] # <<>>
    BY <1>6 DEF Flushed, At
  <2>2. Continue("tool") \/ Then("tool", <<w>>)
    BY <1>6, <1>w DEF Flushed, Continue
  <2>3. Steps(agenda'["tool"]) \subseteq G
    BY <1>t, <1>1, <1>w, <2>1, <2>2, Into
  <2> QED
    BY <1>1, <2>3
<1>7. CASE FlushOne
  <2>1. agenda["tool"] # <<>> /\ Current("tool") \in Steps(agenda["tool"]) /\ Current("tool").op = "flush"
        /\ Current("tool") \in Step
    BY <1>t, <1>7, Here DEF FlushOne
  <2>2. PICK d \in Delegations, y \in Step : FlushGoes(d, y)
    BY <1>t, <1>7, FlushCases
  <2>3. PICK ids : ids = Current("tool").ids
    OBVIOUS
  <2>4. \A c \in ids : c \in Delegations /\ Back(c) /\ Back(c)'
    <3>1. \A c \in ids : c \in Delegations /\ Back(c)
      BY <1>t, <2>1, <2>3, Fields DEF StepsGood, StepGood
    <3> QED
      BY <3>1, Stays
  <2>5. y.op = "flush" /\ y.ids \subseteq ids \cup {d}
    BY <2>2, <2>3 DEF FlushGoes
  <2>6. ASSUME Back(d)' PROVE y \in G
    <3>1. \A c \in y.ids : Back(c)'
      BY <2>4, <2>5, <2>6
    <3> QED
      BY <1>1, <2>5, <3>1 DEF StepGood
  <2>7. CASE Then("tool", <<y>>) /\ y.ids \subseteq ids
    <3>1. y \in G
      BY <1>1, <2>4, <2>5, <2>7 DEF StepGood
    <3>2. Steps(agenda'["tool"]) \subseteq G
      BY <1>t, <1>1, <2>1, <2>7, <3>1, Into
    <3> QED
      BY <1>1, <3>2
  <2>8. CASE Then("tool", <<y>>) /\ Complete(rec[d]) /\ rec[d].injected
    <3>1. Back(d)'
      BY <2>8, Stays DEF RecGood
    <3>2. Steps(agenda'["tool"]) \subseteq G
      BY <1>t, <1>1, <2>1, <2>6, <2>8, <3>1, Into
    <3> QED
      BY <1>1, <3>2
  <2>9. CASE ThrowIn("tool")
    <3>1. Steps(agenda'["tool"]) \subseteq G
      BY <1>t, <1>1, <2>1, <2>9, Into
    <3> QED
      BY <1>1, <3>1
  <2>10. CASE /\ Then("tool", <<TodoFor("recorded", d)>> \o <<y>>) /\ Complete(rec[d])
              /\ returned' = IF rec[d].final = 0 THEN returned
                             ELSE [returned EXCEPT ![<<d, rec[d].final>>] = @ + 1]
    <3>1. Back(d)'
      BY <2>10, InjectedIsBack DEF RecGood
    <3>2. PICK r \in Step : r = TodoFor("recorded", d) /\ r.op = "recorded" /\ r.d = d
      BY Plain DEF TodoFor
    <3>3. r \in G
      BY <1>1, <3>1, <3>2 DEF StepGood
    <3>4. Steps(agenda'["tool"]) \subseteq G
      BY <1>t, <1>1, <2>1, <2>6, <2>10, <3>1, <3>2, <3>3, Into
    <3> QED
      BY <1>1, <3>4
  <2> QED
    BY <2>2, <2>3, <2>7, <2>8, <2>9, <2>10 DEF FlushGoes
<1> QED
  BY <1>t, <1>4, <1>5, <1>6, <1>7, SharedGood DEF Tool

LEMMA NoticeGood ==
    ASSUME TypeInv, Facts, OnlyFlush, StepsGood, [DelegationNext]_delegationVars, ~BridgeCrashes,
           Notice \/ RunnerReconciles
    PROVE  \A x \in Steps(agenda'["notice"]) : StepGood(x)'
<1>t. agenda \in [Strands -> Seq(Step)] /\ "notice" \in Strands
  BY DEF TypeInv, AgendaOK, Strands
<1>p. PICK p \in Step : p = Todo("persist") /\ p.op = "persist"
  BY Plain DEF Todo
<1>w. PICK w \in Step : w = Todo("wake") /\ w.op = "wake"
  BY Plain DEF Todo
<1>1. StepGood(p)' /\ StepGood(w)'
  BY <1>p, <1>w, Untroubled
<1>2. CASE HandleMainNotification \/ RunnerReconciles
  <2>1. agenda'["notice"] = <<p>> \/ agenda'["notice"] = <<p, w, p>>
    BY <1>t, <1>p, <1>w, <1>2 DEF HandleMainNotification, RunnerReconciles
  <2>2. Steps(agenda'["notice"]) \subseteq {p, w}
    BY <2>1, OneStep, ThreeSteps
  <2> QED
    BY <1>1, <2>2
<1> QED
  BY <1>t, <1>2, SharedGood DEF Notice

LEMMA DrainGood ==
    ASSUME TypeInv, Facts, OnlyFlush, RecGood(rec), StepsGood, [DelegationNext]_delegationVars, ~BridgeCrashes,
           Drain
    PROVE  \A x \in Steps(agenda'["drain"]) : StepGood(x)'
<1>t. AgendaOK /\ agenda \in [Strands -> Seq(Step)] /\ "drain" \in Strands /\ rec \in [Delegations -> Delegation]
  BY DEF TypeInv, AgendaOK, Strands, SavedOK, RecOK
<1>1. PICK G \in SUBSET Step : /\ \A x \in Step : x \in G <=> StepGood(x)'
                               /\ Steps(agenda["drain"]) \subseteq G /\ Later(agenda["drain"]) \subseteq G
  BY <1>t, GoodLeft
<1>2. CASE StartDrain
  <2>1. agenda'["drain"] = Remaining(spool) /\ spool \in SUBSET Stop
    BY <1>t, <1>2 DEF StartDrain, TypeInv, OutsideOK
  <2>2. PICK x : x = [op |-> "events", left |-> spool]
    OBVIOUS
  <2>3. Steps(agenda'["drain"]) \subseteq {x} /\ x.op = "events"
    BY <2>1, <2>2, RemainingSteps
  <2> QED
    BY <2>3, Untroubled
<1>3. CASE HandleEvent
  <2>1. PICK e \in Current("drain").left :
             /\ Then("drain", Handled(e) \o Remaining(Current("drain").left \ {e}))
             /\ \/ UNCHANGED rec /\ (e \in processedEvents \/ e.thread = Main \/ e.thread \notin Known)
                \/ /\ e \notin processedEvents /\ e.thread \in Known
                   /\ rec' = [rec EXCEPT ![e.thread] = [@ EXCEPT !.status = "complete", !.final = e.turn]]
    BY <1>t, <1>3, EventCases
  <2>2. At("drain", "events")
    BY <1>3 DEF HandleEvent
  <2>3. PICK left : left = Current("drain").left
    OBVIOUS
  <2>4. /\ e \in Stop /\ agenda["drain"] # <<>> /\ Remaining(left \ {e}) \in Seq(Step)
        /\ Steps(Remaining(left \ {e})) \subseteq {[op |-> "events", left |-> left \ {e}]}
    BY <1>t, <2>2, <2>3, EventSteps
  <2>5. Steps(Remaining(left \ {e})) \subseteq G
    <3>1. PICK x : x = [op |-> "events", left |-> left \ {e}]
      OBVIOUS
    <3>2. x.op = "events" /\ Steps(Remaining(left \ {e})) \subseteq {x}
      BY <2>4, <3>1
    <3>3. Steps(Remaining(left \ {e})) \subseteq Step
      BY <2>4, LenProperties DEF Steps
    <3>4. StepGood(x)'
      BY <3>2, Untroubled
    <3> QED
      BY <1>1, <3>2, <3>3, <3>4
  <2>6. Handled(e) \in Seq(Step) /\ Steps(Handled(e)) \subseteq Step
    BY <2>4, HandledSteps, LenProperties DEF Steps
  <2>7. \A x \in Steps(Handled(e)) : StepGood(x)'
    <3>1. CASE e \in processedEvents
      <4>1. PICK x \in Step : x = TodoWith("archive", e) /\ x.op = "archive"
        BY <2>4, Plain DEF TodoWith
      <4>2. Steps(Handled(e)) = {x}
        BY <2>4, <3>1, <4>1, HandledSteps
      <4> QED
        BY <4>1, <4>2, Untroubled
    <3>2. CASE e \notin processedEvents /\ e.thread = Main
      <4>1. PICK x \in Step : x = TodoWith("wakeAfter", e) /\ x.op = "wakeAfter" /\ x.e = e
        BY <2>4, Plain DEF TodoWith
      <4>2. Steps(Handled(e)) = {x}
        BY <2>4, <3>2, <4>1, HandledSteps
      <4>3. StepGood(x)'
        BY <3>2, <4>1 DEF StepGood
      <4> QED
        BY <4>2, <4>3
    <3>3. CASE e \notin processedEvents /\ e.thread # Main /\ e.thread \notin Known
      <4>1. PICK x \in Step : x = TodoWith("mark", e) /\ x.op = "mark"
        BY <2>4, Plain DEF TodoWith
      <4>2. Steps(Handled(e)) = {x}
        BY <2>4, <3>3, <4>1, HandledSteps
      <4> QED
        BY <4>1, <4>2, Untroubled
    <3>4. CASE e \notin processedEvents /\ e.thread # Main /\ e.thread \in Known
      <4>1. PICK d \in Delegations : d = e.thread
        BY <3>4 DEF Known
      <4>2. PICK x \in Step : x = TodoFor("policy", d) /\ x.op = "policy" /\ x.d = d
        BY <2>4, Plain DEF TodoFor
      <4>3. PICK w \in Step : w = Todo("wake") /\ w.op = "wake"
        BY <2>4, Plain DEF Todo
      <4>4. PICK m \in Step : m = TodoWith("mark", e) /\ m.op = "mark"
        BY <2>4, Plain DEF TodoWith
      <4>5. Steps(Handled(e)) = {x, w, m}
        BY <2>4, <3>4, <4>1, <4>2, <4>3, <4>4, HandledSteps
      <4>6. Complete(rec'[d])
        <5>1. rec' = [rec EXCEPT ![d] = [@ EXCEPT !.status = "complete", !.final = e.turn]]
          BY <2>1, <3>4, <4>1
        <5>2. rec'[d] = [rec[d] EXCEPT !.status = "complete", !.final = e.turn] /\ rec[d] \in Delegation
          BY <1>t, <5>1
        <5> QED
          BY <5>2 DEF Delegation, Complete
      <4>7. StepGood(x)'
        BY <4>2, <4>6 DEF StepGood
      <4>8. StepGood(w)' /\ StepGood(m)'
        BY <4>3, <4>4, Untroubled
      <4> QED
        BY <4>5, <4>7, <4>8
    <3> QED
      BY <3>1, <3>2, <3>3, <3>4
  <2>8. Steps(Handled(e)) \subseteq G
    BY <1>1, <2>6, <2>7
  <2>9. /\ Handled(e) \o Remaining(left \ {e}) \in Seq(Step)
        /\ Steps(Handled(e) \o Remaining(left \ {e})) = Steps(Handled(e)) \cup Steps(Remaining(left \ {e}))
    <3>1. PICK h, r : h = Handled(e) /\ r = Remaining(left \ {e})
      OBVIOUS
    <3>2. h \in Seq(Step) /\ r \in Seq(Step)
      BY <2>4, <2>6, <3>1
    <3>3. h \o r \in Seq(Step) /\ Steps(h \o r) = Steps(h) \cup Steps(r)
      BY <3>2, Joined
    <3> QED
      BY <3>1, <3>3
  <2>10. Steps(Handled(e) \o Remaining(left \ {e})) \subseteq G
    BY <2>5, <2>8, <2>9
  <2>11. Steps(agenda'["drain"]) \subseteq G
    BY <1>t, <1>1, <2>1, <2>3, <2>4, <2>9, <2>10, Into
  <2> QED
    BY <1>1, <2>11
<1>4. CASE ApplyPolicy
  <2>1. agenda["drain"] # <<>> /\ NoResume
    BY <1>4, FlushOnly DEF ApplyPolicy, At
  <2>2. PICK d \in Delegations, x \in Step : PolicyGoes(d, x)
    BY <1>4, <2>1, PolicyCases
  <2>3. rec' = rec
    BY <1>4 DEF ApplyPolicy, savedState
  <2>4. Current("drain") \in Steps(agenda["drain"])
    BY <1>t, <1>4, Here DEF ApplyPolicy
  <2>5. Complete(rec[d])
    BY <1>t, <2>2, <2>4 DEF PolicyGoes, StepsGood, StepGood
  <2>6. x.op = "enqueue" /\ x.d = d /\ x.mode = rec'[d].mode
    BY <2>2, <2>3 DEF PolicyGoes
  <2>7. ASSUME Back(d)' PROVE x \in G
    BY <1>1, <2>6, <2>7 DEF StepGood
  <2>8. CASE ThrowIn("drain") \/ Continue("drain")
    <3>1. Steps(agenda'["drain"]) \subseteq G
      BY <1>t, <1>1, <2>1, <2>8, Into
    <3> QED
      BY <1>1, <3>1
  <2>9. CASE rec[d].injected /\ Then("drain", <<x>>)
    <3>1. Back(d)'
      BY <2>9, Stays DEF RecGood
    <3>2. Steps(agenda'["drain"]) \subseteq G
      BY <1>t, <1>1, <2>1, <2>7, <2>9, <3>1, Into
    <3> QED
      BY <1>1, <3>2
  <2>10. CASE /\ Then("drain", <<TodoFor("recorded", d)>> \o <<x>>)
              /\ returned' = IF rec[d].final = 0 THEN returned
                             ELSE [returned EXCEPT ![<<d, rec[d].final>>] = @ + 1]
    <3>1. Back(d)'
      BY <2>5, <2>10, InjectedIsBack DEF RecGood
    <3>2. PICK r \in Step : r = TodoFor("recorded", d) /\ r.op = "recorded" /\ r.d = d
      BY Plain DEF TodoFor
    <3>3. r \in G
      BY <1>1, <3>1, <3>2 DEF StepGood
    <3>4. Steps(agenda'["drain"]) \subseteq G
      BY <1>t, <1>1, <2>1, <2>7, <2>10, <3>1, <3>2, <3>3, Into
    <3> QED
      BY <1>1, <3>4
  <2> QED
    BY <2>2, <2>8, <2>9, <2>10 DEF PolicyGoes
<1>5. CASE EnqueueByPolicy \/ Archive
  <2>1. agenda["drain"] # <<>> /\ Continue("drain")
    BY <1>5 DEF EnqueueByPolicy, Archive, At
  <2>2. Steps(agenda'["drain"]) \subseteq G
    BY <1>t, <1>1, <2>1, Into
  <2> QED
    BY <1>1, <2>2
<1>6. CASE SettleMainStop
  <2>1. agenda["drain"] # <<>> /\ Current("drain").e \in Stop
    BY <1>t, <1>6, Here, Fields DEF SettleMainStop
  <2>2. PICK m \in Step : m = TodoWith("mark", Current("drain").e) /\ m.op = "mark"
    BY <2>1, Plain DEF TodoWith
  <2>3. Continue("drain") \/ Then("drain", <<m>>)
    BY <1>6, <2>2 DEF SettleMainStop
  <2>4. m \in G
    BY <1>1, <2>2, Untroubled
  <2>5. Steps(agenda'["drain"]) \subseteq G
    BY <1>t, <1>1, <2>1, <2>3, <2>4, Into
  <2> QED
    BY <1>1, <2>5
<1>7. CASE MarkProcessed
  <2>1. agenda["drain"] # <<>> /\ Current("drain").e \in Stop
    BY <1>t, <1>7, Here, Fields DEF MarkProcessed
  <2>2. PICK a \in Step : a = TodoWith("archive", Current("drain").e) /\ a.op = "archive"
    BY <2>1, Plain DEF TodoWith
  <2>3. PICK p \in Step : p = Todo("persist") /\ p.op = "persist"
    BY Plain DEF Todo
  <2>4. Then("drain", <<p, a>>)
    BY <1>7, <2>2, <2>3 DEF MarkProcessed
  <2>5. a \in G /\ p \in G
    BY <1>1, <2>2, <2>3, Untroubled
  <2>6. Steps(agenda'["drain"]) \subseteq G
    BY <1>t, <1>1, <2>1, <2>4, <2>5, Into
  <2> QED
    BY <1>1, <2>6
<1> QED
  BY <1>t, <1>2, <1>3, <1>4, <1>5, <1>6, <1>7, SharedGood DEF Drain

LEMMA StepsGoodKept ==
    ASSUME TypeInv, Facts, OnlyFlush, RecGood(rec), StepsGood, [DelegationNext]_delegationVars
    PROVE  StepsGood'
<1>1. CASE BridgeCrashes
  <2>1. \A s \in Strands : agenda'[s] = <<>>
    BY <1>1 DEF BridgeCrashes
  <2> QED
    BY <2>1, NoStep DEF StepsGood
<1>2. CASE ~BridgeCrashes
  <2>1. ASSUME NEW s \in Strands, agenda'[s] = agenda[s] PROVE \A x \in Steps(agenda'[s]) : StepGood(x)'
    <3>1. PICK G \in SUBSET Step : /\ \A x \in Step : x \in G <=> StepGood(x)'
                                   /\ Steps(agenda[s]) \subseteq G /\ Later(agenda[s]) \subseteq G
      BY <1>2, GoodLeft
    <3> QED
      BY <2>1, <3>1
  <2>2. "tool" \in Strands /\ "drain" \in Strands /\ "notice" \in Strands
    BY DEF Strands
  <2>3. \A x \in Steps(agenda'["tool"]) : StepGood(x)'
    BY <1>2, <2>1, <2>2, ToolGood, Elsewhere
  <2>4. \A x \in Steps(agenda'["drain"]) : StepGood(x)'
    BY <1>2, <2>1, <2>2, DrainGood, Elsewhere
  <2>5. \A x \in Steps(agenda'["notice"]) : StepGood(x)'
    BY <1>2, <2>1, <2>2, NoticeGood, Elsewhere
  <2> QED
    BY <2>3, <2>4, <2>5 DEF StepsGood, Strands
<1> QED
  BY <1>1, <1>2

\* Two steps put before others.
LEMMA TwoBefore ==
    ASSUME NEW S, NEW x \in S, NEW y \in S, NEW t \in Seq(S), NEW b, b = (<<x>> \o <<y>>) \o t
    PROVE  b # <<>> /\ Head(b) = x /\ Tail(b) # <<>> /\ Head(Tail(b)) = y
<1>1. <<x>> \o <<y>> = <<x, y>> /\ <<x, y>> \in Seq(S)
  <2>1. <<x>> \o <<y>> = <<x, y>>
    BY Tails
  <2>2. <<x, y>> \in Seq(S)
    BY TwoSteps
  <2> QED
    BY <2>1, <2>2
<1>2. b \in Seq(S) /\ Len(b) = 2 + Len(t) /\ b[1] = x /\ b[2] = y
  BY <1>1, ConcatProperties
<1>3. Len(t) \in Nat /\ b # <<>>
  BY <1>2, LenProperties, EmptySeq
<1>4. Head(b) = x
  BY <1>2, <1>3, HeadTailProperties
<1>5. Tail(b) \in Seq(S) /\ Len(Tail(b)) = 1 + Len(t) /\ Tail(b)[1] = y
  BY <1>2, <1>3, HeadTailProperties
<1>6. Tail(b) # <<>>
  <2>1. PICK u : u = Tail(b)
    OBVIOUS
  <2>2. Len(u) # 0
    BY <1>3, <1>5, <2>1
  <2>3. u = <<>> => Len(u) = 0
    BY EmptySeq
  <2> QED
    BY <2>1, <2>2, <2>3
<1> QED
  BY <1>3, <1>4, <1>5, <1>6, HeadTailProperties

\* What is put into the queue is there.
LEMMA EnqueuedIsQueued ==
    ASSUME TypeInv, NEW d \in Delegations, EnqueueWake("delegation", {d})
    PROVE  Queued(wakes', d)
<1>t. wakes \in Seq(Wake)
  BY DEF TypeInv, SavedOK
<1>1. CASE \E i \in DOMAIN wakes : wakes[i].kind = "delegation" /\ wakes[i].ids = {d}
  BY <1>1 DEF EnqueueWake, Queued
<1>2. CASE ~ \E i \in DOMAIN wakes : wakes[i].kind = "delegation" /\ wakes[i].ids = {d}
  <2>1. PICK n : n = [kind |-> "delegation", ids |-> {d}, started |-> FALSE]
    OBVIOUS
  <2>2. n \in Wake /\ n.kind = "delegation" /\ n.ids = {d}
    BY <2>1 DEF Wake
  <2>3. wakes' = Append(wakes, n)
    BY <1>2, <2>1 DEF EnqueueWake
  <2>4. wakes' \in Seq(Wake) /\ Len(wakes') = Len(wakes) + 1 /\ wakes'[Len(wakes) + 1] = n /\ Len(wakes) \in Nat
    BY <1>t, <2>2, <2>3, AppendProperties, LenProperties
  <2>5. Len(wakes) + 1 \in DOMAIN wakes'
    BY <2>4, LenProperties
  <2> QED
    BY <2>2, <2>4, <2>5 DEF Queued
<1> QED
  BY <1>1, <1>2

LEMMA MarkGoodKept ==
    ASSUME TypeInv, Facts, OnlyFlush, RecGood(rec), StepsGood, MarkGood, [DelegationNext]_delegationVars
    PROVE  MarkGood'
<1>t. /\ AgendaOK /\ agenda \in [Strands -> Seq(Step)] /\ "drain" \in Strands
      /\ rec \in [Delegations -> Delegation] /\ agenda'["drain"] \in Seq(Step)
  BY TypeStep DEF TypeInv, AgendaOK, Strands, SavedOK, RecOK
<1>0. CASE BridgeCrashes
  <2>1. agenda'["drain"] = <<>>
    BY <1>t, <1>0 DEF BridgeCrashes
  <2> QED
    BY <2>1, NoStep DEF MarkGood
<1> SUFFICES ASSUME ~BridgeCrashes, NEW x \in Steps(agenda'["drain"]), x.op = "mark", x.e.thread # Main,
                    NEW d, d = x.e.thread
             PROVE  Passed(rec, wakes, d)' \/ Handling(d)'
  BY <1>0 DEF MarkGood
<1>1. x \in Step /\ x.e \in Stop /\ d \in Delegations
  <2>1. x \in Step
    BY <1>t, LenProperties DEF Steps
  <2> QED
    BY <2>1, Fields DEF Stop, Event
<1>2. ASSUME Begun(d), Passed(rec, wakes, d) PROVE Passed(rec, wakes, d)'
  BY <1>1, <1>2, Stays
<1>3. ASSUME x \in Steps(agenda["drain"]) PROVE Begun(d) /\ (Passed(rec, wakes, d)' \/ Handling(d))
  <2>1. Begun(d)
    BY <1>t, <1>3 DEF Facts, StepsOK, StepOK, Happened
  <2> QED
    BY <1>2, <1>3, <2>1 DEF MarkGood
<1>4. x \in Later(agenda["drain"]) => x \in Steps(agenda["drain"])
  BY DEF Later, Steps
<1>5. CASE agenda'["drain"] = agenda["drain"]
  BY <1>3, <1>5 DEF Handling, AtFor
<1>6. CASE StartDrain
  <2>1. agenda'["drain"] = Remaining(spool) /\ spool \in SUBSET Stop
    BY <1>t, <1>6 DEF StartDrain, TypeInv, OutsideOK
  <2>2. PICK v : v = [op |-> "events", left |-> spool]
    OBVIOUS
  <2>3. Steps(agenda'["drain"]) \subseteq {v} /\ v.op = "events"
    BY <2>1, <2>2, RemainingSteps
  <2> QED
    BY <2>3
<1>7. CASE HandleEvent
  <2>1. PICK e \in Current("drain").left :
             /\ Then("drain", Handled(e) \o Remaining(Current("drain").left \ {e}))
             /\ \/ UNCHANGED rec /\ (e \in processedEvents \/ e.thread = Main \/ e.thread \notin Known)
                \/ /\ e \notin processedEvents /\ e.thread \in Known
                   /\ rec' = [rec EXCEPT ![e.thread] = [@ EXCEPT !.status = "complete", !.final = e.turn]]
    BY <1>t, <1>7, EventCases
  <2>2. At("drain", "events") /\ wakes' = wakes
    BY <1>7 DEF HandleEvent
  <2>3. PICK left : left = Current("drain").left
    OBVIOUS
  <2>4. /\ e \in Stop /\ agenda["drain"] # <<>> /\ Remaining(left \ {e}) \in Seq(Step)
        /\ Steps(Remaining(left \ {e})) \subseteq {[op |-> "events", left |-> left \ {e}]}
    BY <1>t, <2>2, <2>3, EventSteps
  <2>5. Handled(e) \in Seq(Step) /\ Handled(e) # <<>>
    BY <2>4, HandledSteps
  <2>p. PICK steps : steps = Handled(e) \o Remaining(left \ {e})
    OBVIOUS
  <2>6. /\ Then("drain", steps) /\ steps \in Seq(Step)
        /\ Steps(steps) = Steps(Handled(e)) \cup Steps(Remaining(left \ {e}))
        /\ steps # <<>> /\ Head(steps) = Head(Handled(e))
    <3>1. Then("drain", steps)
      BY <2>1, <2>3, <2>p
    <3>2. PICK h, r : h = Handled(e) /\ r = Remaining(left \ {e})
      OBVIOUS
    <3>3. h \in Seq(Step) /\ r \in Seq(Step) /\ h # <<>> /\ steps = h \o r
      BY <2>4, <2>5, <2>p, <3>2
    <3>4. /\ h \o r \in Seq(Step) /\ Steps(h \o r) = Steps(h) \cup Steps(r)
          /\ h \o r # <<>> /\ Head(h \o r) = Head(h)
      BY <3>3, Joined
    <3> QED
      BY <3>1, <3>2, <3>3, <3>4
  <2>7. /\ Steps(agenda'["drain"]) = Steps(steps) \cup Later(agenda["drain"])
        /\ agenda'["drain"] # <<>> /\ Head(agenda'["drain"]) = Head(Handled(e))
    BY <1>t, <2>4, <2>6, Went
  <2>8. CASE x \in Later(agenda["drain"])
    <3>1. ~Handling(d)
      BY <2>2 DEF Handling, AtFor, At
    <3> QED
      BY <1>3, <1>4, <2>8, <3>1
  <2>9. x \notin Steps(Remaining(left \ {e}))
    <3>1. PICK v : v = [op |-> "events", left |-> left \ {e}]
      OBVIOUS
    <3>2. Steps(Remaining(left \ {e})) \subseteq {v} /\ v.op = "events"
      BY <2>4, <3>1
    <3> QED
      BY <3>2
  <2>10. CASE x \in Steps(Handled(e))
    <3>1. e \notin processedEvents
      BY <2>4, <2>10, HandledSteps DEF TodoWith
    <3>2. e.thread # Main
      BY <2>4, <2>10, <3>1, HandledSteps DEF TodoWith
    <3>3. CASE e.thread \notin Known
      <4>1. x = TodoWith("mark", e)
        BY <2>4, <2>10, <3>1, <3>2, <3>3, HandledSteps
      <4>2. x.e = e /\ d = e.thread
        BY <4>1 DEF TodoWith
      <4>3. rec[d].status = "none" /\ rec[d].mode = "manual"
        BY <1>1, <3>3, <4>2 DEF RecGood, Known
      <4>4. rec' = rec
        BY <2>1, <3>3
      <4> QED
        BY <4>3, <4>4 DEF Passed, Automatic
    <3>4. CASE e.thread \in Known
      <4>1. PICK c \in Delegations : c = e.thread
        BY <3>4 DEF Known
      <4>2. PICK y \in Step : y = TodoFor("policy", c) /\ y.op = "policy" /\ y.d = c
        BY Plain DEF TodoFor
      <4>3. PICK w \in Step : w = Todo("wake") /\ w.op = "wake"
        BY Plain DEF Todo
      <4>4. PICK m \in Step : m = TodoWith("mark", e) /\ m.op = "mark" /\ m.e = e
        BY <2>4, Plain DEF TodoWith
      <4>5. Steps(Handled(e)) = {y, w, m} /\ Head(Handled(e)) = y
        BY <2>4, <3>1, <3>2, <3>4, <4>1, <4>2, <4>3, <4>4, HandledSteps
      <4>6. c = d
        BY <2>10, <4>1, <4>2, <4>3, <4>4, <4>5
      <4> QED
        BY <2>7, <4>2, <4>5, <4>6 DEF Handling, AtFor
    <3> QED
      BY <3>3, <3>4
  <2> QED
    BY <2>6, <2>7, <2>8, <2>9, <2>10
<1>8. CASE ApplyPolicy
  <2>1. /\ agenda["drain"] # <<>> /\ NoResume /\ Head(agenda["drain"]).op = "policy"
        /\ Head(agenda["drain"]) \in Steps(agenda["drain"])
    BY <1>t, <1>8, Here, FlushOnly DEF ApplyPolicy, At
  <2>2. PICK c \in Delegations, y \in Step : PolicyGoes(c, y)
    BY <1>8, <2>1, PolicyCases
  <2>3. c = Head(agenda["drain"]).d /\ y.op = "enqueue" /\ y.d = c
    BY <2>2 DEF PolicyGoes, Current
  <2>4. Handling(d) => d = c
    BY <2>1, <2>3 DEF Handling, AtFor
  <2>5. Complete(rec[c])
    BY <1>t, <2>1, <2>3 DEF StepsGood, StepGood
  <2>6. CASE ThrowIn("drain")
    <3>1. agenda'["drain"] = <<>>
      BY <1>t, <2>6 DEF ThrowIn
    <3> QED
      BY <3>1, NoStep
  <2>7. CASE ~Returnable(rec[c]) /\ Continue("drain")
    <3>1. x \in Steps(agenda["drain"])
      BY <1>t, <1>4, <2>1, <2>7, Went, NoStep DEF Continue
    <3>2. CASE d = c
      <4>1. rec[d].mode \notin Automatic
        BY <2>5, <2>7, <3>2 DEF Returnable
      <4> QED
        BY <1>2, <1>3, <3>1, <4>1 DEF Passed, Automatic
    <3> QED
      BY <1>3, <2>4, <3>1, <3>2
  <2>8. CASE Then("drain", <<y>>)
    <3>1. <<y>> \in Seq(Step) /\ Steps(<<y>>) = {y} /\ Head(<<y>>) = y /\ <<y>> # <<>>
      BY OneStep
    <3>2. /\ Steps(agenda'["drain"]) = {y} \cup Later(agenda["drain"])
          /\ agenda'["drain"] # <<>> /\ Head(agenda'["drain"]) = y
      <4>1. PICK steps \in Seq(Step) : steps = <<y>>
        BY <3>1
      <4>2. Then("drain", steps) /\ Steps(steps) = {y} /\ Head(steps) = y /\ steps # <<>>
        BY <2>8, <3>1, <4>1
      <4> QED
        BY <1>t, <2>1, <4>2, Went
    <3>3. x \in Steps(agenda["drain"])
      BY <1>4, <2>3, <3>2
    <3>4. d = c => Handling(d)'
      BY <2>3, <3>2 DEF Handling, AtFor
    <3> QED
      BY <1>3, <2>4, <3>3, <3>4
  <2>9. CASE Then("drain", <<TodoFor("recorded", c)>> \o <<y>>)
    <3>1. PICK r \in Step : r = TodoFor("recorded", c) /\ r.op = "recorded"
      BY Plain DEF TodoFor
    <3>2. <<y>> \in Seq(Step) /\ Steps(<<y>>) = {y}
      BY OneStep
    <3>3. <<r>> \o <<y>> \in Seq(Step) /\ Steps(<<r>> \o <<y>>) = {r, y}
      <4>1. PICK last \in Seq(Step) : last = <<y>> /\ Steps(last) = {y}
        BY <3>2
      <4>2. <<r>> \o last \in Seq(Step) /\ Steps(<<r>> \o last) = {r} \cup Steps(last)
        BY LedBy
      <4> QED
        BY <4>1, <4>2
    <3>4. Steps(agenda'["drain"]) = {r, y} \cup Later(agenda["drain"])
      BY <1>t, <2>1, <2>9, <3>1, <3>3, Went
    <3>5. x \in Steps(agenda["drain"])
      BY <1>4, <2>3, <3>1, <3>4
    <3>6. PICK u \in Seq(Step) : u = Tail(agenda["drain"])
      BY <1>t, <2>1, Rest
    <3>7. agenda'["drain"] = (<<r>> \o <<y>>) \o u
      BY <1>t, <2>9, <3>1, <3>6 DEF Then
    <3>8. PICK b : b = agenda'["drain"]
      OBVIOUS
    <3>a. b = (<<r>> \o <<y>>) \o u
      BY <3>7, <3>8
    <3>9. b # <<>> /\ Head(b) = r /\ Tail(b) # <<>> /\ Head(Tail(b)) = y
      <4>1. r \in Step /\ y \in Step /\ u \in Seq(Step)
        OBVIOUS
      <4> QED
        BY <3>a, <4>1, TwoBefore
    <3>10. d = c => Handling(d)'
      BY <2>3, <3>1, <3>8, <3>9 DEF Handling, AtFor
    <3> QED
      BY <1>3, <2>4, <3>5, <3>10
  <2> QED
    BY <2>2, <2>6, <2>7, <2>8, <2>9 DEF PolicyGoes
<1>9. CASE ResultRecorded("drain")
  <2>1. agenda["drain"] # <<>> /\ Head(agenda["drain"]).op = "recorded" /\ Continue("drain")
    BY <1>9 DEF ResultRecorded, At
  <2>2. x \in Steps(agenda["drain"])
    BY <1>t, <1>4, <2>1, Went, NoStep DEF Continue
  <2>3. agenda'["drain"] = Tail(agenda["drain"])
    <3>1. Tail(agenda["drain"]) \in Seq(Step)
      BY <1>t, <2>1, Rest
    <3>2. agenda'["drain"] = <<>> \o Tail(agenda["drain"])
      BY <1>t, <2>1 DEF Continue, Then
    <3> QED
      BY <3>1, <3>2, ConcatEmptySeq
  <2>4. Handling(d) => Handling(d)'
    BY <2>1, <2>3 DEF Handling, AtFor
  <2> QED
    BY <1>3, <2>2, <2>4
<1>10. CASE EnqueueByPolicy
  <2>1. /\ agenda["drain"] # <<>> /\ Head(agenda["drain"]).op = "enqueue" /\ Continue("drain")
        /\ Head(agenda["drain"]) \in Steps(agenda["drain"])
    BY <1>t, <1>10, Here DEF EnqueueByPolicy, At
  <2>2. x \in Steps(agenda["drain"])
    BY <1>t, <1>4, <2>1, Went, NoStep DEF Continue
  <2>3. CASE Handling(d)
    <3>1. Head(agenda["drain"]).d = d
      BY <2>1, <2>3 DEF Handling, AtFor
    <3>2. PICK y : y = Head(agenda["drain"]) /\ y.op = "enqueue" /\ y.d = d
      BY <2>1, <3>1
    <3>3. Back(d) /\ y.mode = rec[d].mode
      BY <1>t, <2>1, <3>2 DEF StepsGood, StepGood
    <3>4. Back(d)' /\ rec' = rec
      BY <1>1, <1>10, <3>3, Stays DEF EnqueueByPolicy
    <3>5. rec[d].mode = "wake_on_done" => Queued(wakes', d)
      <4>1. rec[d].mode = "wake_on_done" => EnqueueWake("delegation", {d})
        BY <1>10, <3>2, <3>3 DEF EnqueueByPolicy, Current
      <4> QED
        BY <1>1, <4>1, EnqueuedIsQueued
    <3> QED
      BY <3>4, <3>5 DEF Passed, Back
  <2> QED
    BY <1>3, <2>2, <2>3
<1>11. CASE \/ ProcessPendingWakes("drain") \/ WakeStarted("drain") \/ SettleMainStop
            \/ MarkProcessed \/ PersistState("drain") \/ Archive
  <2>1. agenda["drain"] # <<>> /\ Head(agenda["drain"]).op \notin {"policy", "enqueue", "recorded"}
    BY <1>11 DEF ProcessPendingWakes, WakeStarted, SettleMainStop, MarkProcessed, PersistState, Archive, At
  <2>2. ~Handling(d)
    BY <2>1 DEF Handling, AtFor
  <2>3. CASE ThrowIn("drain")
    <3>1. agenda'["drain"] = <<>>
      BY <1>t, <2>3 DEF ThrowIn
    <3> QED
      BY <3>1, NoStep
  <2>4. CASE ~ThrowIn("drain")
    <3>1. PICK steps \in Seq(Step) :
             /\ Then("drain", steps)
             /\ \A y \in Steps(steps) :
                  \/ y.op \in {"persist", "archive"}
                  \/ /\ y.op \in {"mark", "settle"} /\ Current("drain").op \in {"wakeAfter", "settle"}
                     /\ y.e = Current("drain").e
                  \/ y.op = "woken" /\ ProcessPendingWakes("drain")
      BY <1>11, <2>4, DrainGoes
    <3>2. Steps(agenda'["drain"]) = Steps(steps) \cup Later(agenda["drain"]) /\ Current("drain") \in Steps(agenda["drain"])
      <4>1. Current("drain") \in Steps(agenda["drain"])
        BY <1>t, <2>1, Went, <3>1 DEF Current
      <4> QED
        BY <1>t, <2>1, <3>1, <4>1, Went
    <3>3. x \notin Steps(steps)
      <4>1. Current("drain").op \in {"wakeAfter", "settle"} => Current("drain").e.thread = Main
        BY <1>t, <3>2 DEF StepsGood, StepGood
      <4> QED
        BY <3>1, <4>1
    <3> QED
      BY <1>3, <1>4, <2>2, <3>2, <3>3
  <2> QED
    BY <2>3, <2>4
<1> QED
  BY <1>5, <1>6, <1>7, <1>8, <1>9, <1>10, <1>11, Elsewhere DEF Drain

\* What is good of a saved state stays so.
LEMMA SavedStays ==
    ASSUME TypeInv, [DelegationNext]_delegationVars
    PROVE  /\ \A r : RecGood(r) => RecGood(r)'
           /\ \A w \in Seq(Wake) : WakesGood(w) => WakesGood(w)'
           /\ \A es \in SUBSET Event : \A r, w : DoneGood(es, r, w) => DoneGood(es, r, w)'
<1>1. \A d \in Delegations : Back(d) => Back(d)'
  BY BackStays, FirstRound DEF Back
<1>2. \A r : RecGood(r) => RecGood(r)'
  BY <1>1 DEF RecGood
<1>3. ASSUME NEW w \in Seq(Wake), WakesGood(w) PROVE WakesGood(w)'
  <2> SUFFICES ASSUME NEW i \in DOMAIN w
               PROVE  /\ w[i].kind = "delegation" => \A d \in w[i].ids : Back(d)'
                      /\ w[i].started => Turned(w[i].kind, w[i].ids)'
    BY DEF WakesGood
  <2>1. w[i].ids \subseteq Delegations
    <3>1. w[i] \in Wake
      BY LenProperties
    <3> QED
      BY <3>1 DEF Wake
  <2>2. w[i].kind = "delegation" => \A d \in w[i].ids : Back(d)'
    BY <1>1, <1>3, <2>1 DEF WakesGood
  <2>3. w[i].started => Turned(w[i].kind, w[i].ids)'
    BY <1>3, TurnedStays DEF WakesGood
  <2> QED
    BY <2>2, <2>3
<1>4. ASSUME NEW es \in SUBSET Event, NEW r, NEW w, DoneGood(es, r, w) PROVE DoneGood(es, r, w)'
  <2>1. \A e \in es : e.thread # Main => e.thread \in Delegations
    BY DEF Event
  <2> QED
    BY <1>1, <1>4, <2>1 DEF DoneGood, Passed
<1> QED
  BY <1>2, <1>3, <1>4

LEMMA RecGoodKept ==
    ASSUME TypeInv, Facts, OnlyFlush, RecGood(rec), RecGood(stateFile.rec), StepsGood,
           [DelegationNext]_delegationVars
    PROVE  RecGood(rec)'
<1>t. rec \in [Delegations -> Delegation] /\ AgendaOK /\ "drain" \in Strands /\ "tool" \in Strands
  BY DEF TypeInv, SavedOK, RecOK, Strands
<1>1. \A d \in Delegations : Back(d) => Back(d)'
  BY BackStays, FirstRound DEF Back
<1>2. CASE BridgeCrashes
  <2>1. PICK r : r = stateFile.rec
    OBVIOUS
  <2>2. RecGood(r)' /\ rec' = r
    BY <1>2, <2>1, SavedStays DEF BridgeCrashes
  <2> QED
    BY <2>2
<1>3. CASE UNCHANGED rec
  BY <1>1, <1>3 DEF RecGood
<1>4. ASSUME HandleEvent, ~UNCHANGED rec PROVE RecGood(rec)'
  <2>1. PICK e \in Current("drain").left :
           rec' = [rec EXCEPT ![e.thread] = [@ EXCEPT !.status = "complete", !.final = e.turn]] /\ e.thread \in Known
    BY <1>t, <1>4, EventCases
  <2>2. Current("drain") \in Steps(agenda["drain"]) /\ Current("drain").op = "events"
    BY <1>t, <1>4, Here DEF HandleEvent
  <2>3. Happened(e)
    BY <1>t, <2>1, <2>2 DEF Facts, StepsOK, StepOK
  <2>4. PICK c \in Delegations : c = e.thread
    BY <2>1 DEF Known
  <2>5. e.turn = 1
    BY <2>3, <2>4, FlushOnly, DelegationAssumption DEF Happened
  <2>6. rec'[c] = [rec[c] EXCEPT !.status = "complete", !.final = 1] /\ rec[c] \in Delegation
    BY <1>t, <2>1, <2>4, <2>5
  <2>7. /\ rec'[c].status = "complete" /\ rec'[c].final = 1 /\ rec'[c].injected = rec[c].injected
        /\ rec'[c].mode = rec[c].mode
    BY <2>6 DEF Delegation
  <2>8. \A d \in Delegations : d # c => rec'[d] = rec[d]
    BY <1>t, <2>1, <2>4
  <2> QED
    BY <1>1, <2>7, <2>8 DEF RecGood, Complete
<1>5. ASSUME NEW s \in Strands, ResultRecorded(s) PROVE RecGood(rec)'
  <2>1. Current(s) \in Step /\ Current(s).op = "recorded" /\ Current(s) \in Steps(agenda[s])
    BY <1>t, <1>5, Here DEF ResultRecorded
  <2>2. PICK c \in Delegations : c = Current(s).d
    BY <2>1, Fields
  <2>3. Back(c)
    BY <2>1, <2>2 DEF StepsGood, StepGood
  <2>4. rec' = [rec EXCEPT ![c].injected = TRUE]
    <3>1. c \notin DOMAIN held
      BY FlushOnly, NoneHeld
    <3> QED
      BY <1>5, <2>2, <3>1 DEF ResultRecorded
  <2>5. /\ rec'[c].status = rec[c].status /\ rec'[c].final = rec[c].final /\ rec'[c].mode = rec[c].mode
        /\ \A d \in Delegations : d # c => rec'[d] = rec[d]
    <3>1. rec[c] \in Delegation /\ rec'[c] = [rec[c] EXCEPT !.injected = TRUE]
      BY <1>t, <2>4
    <3>2. \A d \in Delegations : d # c => rec'[d] = rec[d]
      BY <1>t, <2>4
    <3> QED
      BY <3>1, <3>2 DEF Delegation
  <2> QED
    BY <1>1, <2>3, <2>5 DEF RecGood, Complete
<1>6. ASSUME NEW c \in Delegations, NEW mode, StartDelegation(c, mode) PROVE RecGood(rec)'
  <2>1. PICK n : n = [NoDelegation EXCEPT !.status = "active", !.mode = mode, !.group = c \in delegationScenario.grouped]
    OBVIOUS
  <2>2. rec' = [rec EXCEPT ![c] = n] /\ n.status = "active" /\ ~n.injected
    BY <1>6, <2>1 DEF StartDelegation, NoDelegation
  <2>3. rec'[c] = n /\ \A d \in Delegations : d # c => rec'[d] = rec[d]
    BY <1>t, <2>2
  <2> QED
    BY <1>1, <2>2, <2>3 DEF RecGood, Complete
<1>7. ASSUME NEW ds, NEW c, NEW mode, SetPolicy(ds, mode) \/ SendDelegation(c) \/ ResumeDelegation(c, mode)
      PROVE  FALSE
  BY <1>7, FlushOnly DEF SetPolicy, SendDelegation, ResumeDelegation, NoSend, NoResume
<1>8. ~DelegationRead
  BY <1>t, Here DEF DelegationRead, StepsGood, StepGood
<1> QED
  BY <1>2, <1>3, <1>4, <1>5, <1>6, <1>7, <1>8, RecChanges

\* A wake that is put into the queue keeps it good.
LEMMA EnqueueGood ==
    ASSUME TypeInv, WakesGood(wakes), NEW kind \in Kinds, NEW ids \in SUBSET Delegations,
           EnqueueWake(kind, ids), kind = "delegation" => \A d \in ids : Back(d)
    PROVE  WakesGood(wakes') /\ wakes' \in Seq(Wake)
<1>t. wakes \in Seq(Wake)
  BY DEF TypeInv, SavedOK
<1>1. PICK n : n = [kind |-> kind, ids |-> ids, started |-> FALSE]
  OBVIOUS
<1>2. n \in Wake /\ n.kind = kind /\ n.ids = ids /\ ~n.started
  BY <1>1 DEF Wake, Kinds
<1>3. CASE wakes' = wakes
  BY <1>t, <1>3
<1>4. CASE wakes' = Append(wakes, n)
  <2>1. /\ Append(wakes, n) \in Seq(Wake) /\ Len(Append(wakes, n)) = Len(wakes) + 1
        /\ \A i \in 1..Len(wakes) : Append(wakes, n)[i] = wakes[i]
        /\ Append(wakes, n)[Len(wakes) + 1] = n
    BY <1>t, <1>2, AppendProperties
  <2>2. DOMAIN wakes' = 1..(Len(wakes) + 1) /\ DOMAIN wakes = 1..Len(wakes) /\ Len(wakes) \in Nat
    BY <1>t, <1>4, <2>1, LenProperties
  <2>3. ASSUME NEW i \in DOMAIN wakes'
        PROVE  /\ wakes'[i].kind = "delegation" => \A d \in wakes'[i].ids : Back(d)
               /\ wakes'[i].started => Turned(wakes'[i].kind, wakes'[i].ids)
    <3>1. CASE i \in 1..Len(wakes)
      <4>1. wakes'[i] = wakes[i] /\ i \in DOMAIN wakes
        BY <1>4, <2>1, <2>2, <3>1
      <4> QED
        BY <4>1 DEF WakesGood
    <3>2. CASE i = Len(wakes) + 1
      <4>1. wakes'[i] = n
        BY <1>4, <2>1, <3>2
      <4> QED
        BY <1>2, <4>1
    <3> QED
      BY <2>2, <3>1, <3>2
  <2> QED
    BY <1>4, <2>1, <2>3 DEF WakesGood
<1> QED
  BY <1>1, <1>3, <1>4 DEF EnqueueWake

LEMMA WakesGoodKept ==
    ASSUME TypeInv, Facts, OnlyFlush, WakesGood(wakes), WakesGood(stateFile.wakes), StepsGood,
           [DelegationNext]_delegationVars
    PROVE  WakesGood(wakes)'
<1>t. /\ wakes \in Seq(Wake) /\ stateFile.wakes \in Seq(Wake) /\ AgendaOK
      /\ "drain" \in Strands /\ "tool" \in Strands
  BY DEF TypeInv, SavedOK, Strands, State
<1>1. SUFFICES WakesGood(wakes') /\ wakes' \in Seq(Wake)
  <2>1. PICK w : w = wakes'
    OBVIOUS
  <2>2. ASSUME WakesGood(w), w \in Seq(Wake) PROVE WakesGood(w)'
    BY <2>2, SavedStays
  <2> QED
    BY <2>1, <2>2
<1>2. CASE UNCHANGED wakes
  BY <1>t, <1>2
<1>3. CASE BridgeCrashes
  BY <1>t, <1>3 DEF BridgeCrashes
<1>4. CASE Flushed
  <2>1. Current("tool") \in Step /\ Current("tool").op = "flush" /\ Current("tool") \in Steps(agenda["tool"])
    BY <1>t, <1>4, Here DEF Flushed
  <2>2. PICK kind \in Kinds, ids \in SUBSET Delegations : kind = Current("tool").kind /\ ids = Current("tool").ids
    BY <2>1, Fields
  <2>3. \A d \in ids : Back(d)
    BY <1>t, <2>1, <2>2 DEF StepsGood, StepGood
  <2>4. EnqueueWake(kind, ids)
    BY <1>4, <2>2 DEF Flushed
  <2> QED
    BY <2>3, <2>4, EnqueueGood
<1>5. CASE EnqueueByPolicy
  <2>1. Current("drain") \in Step /\ Current("drain").op = "enqueue" /\ Current("drain") \in Steps(agenda["drain"])
    BY <1>t, <1>5, Here DEF EnqueueByPolicy
  <2>2. PICK c \in Delegations : c = Current("drain").d
    BY <2>1, Fields
  <2>3. Back(c)
    BY <1>t, <2>1, <2>2 DEF StepsGood, StepGood
  <2>4. EnqueueWake("delegation", {c}) \/ EnqueueWake("group", Members) \/ UNCHANGED wakes
    BY <1>5, <2>2 DEF EnqueueByPolicy
  <2>5. CASE EnqueueWake("delegation", {c})
    BY <2>3, <2>5, EnqueueGood DEF Kinds
  <2>6. CASE EnqueueWake("group", Members)
    <3>1. PICK ids \in SUBSET Delegations : ids = Members
      BY DEF Members, Known
    <3>2. EnqueueWake("group", ids)
      BY <2>6, <3>1
    <3>3. PICK kind \in Kinds : kind = "group"
      BY DEF Kinds
    <3>4. EnqueueWake(kind, ids) /\ kind # "delegation"
      BY <3>2, <3>3
    <3> QED
      BY <3>4, EnqueueGood
  <2> QED
    BY <1>2, <2>4, <2>5, <2>6
<1>6. ASSUME NEW s \in Strands, WakeStarted(s) PROVE WakesGood(wakes') /\ wakes' \in Seq(Wake)
  <2>1. Current(s).op = "woken" /\ Current(s) \in Steps(agenda[s])
    BY <1>t, <1>6, Here DEF WakeStarted
  <2>2. PICK i : i = Current(s).i
    OBVIOUS
  <2>3. i \in DOMAIN wakes /\ Turned(wakes[i].kind, wakes[i].ids)
    BY <2>1, <2>2 DEF StepsGood, StepGood
  <2>4. wakes' = [wakes EXCEPT ![i].started = TRUE]
    BY <1>6, <2>2 DEF WakeStarted
  <2>5. /\ wakes' \in Seq(Wake) /\ DOMAIN wakes' = DOMAIN wakes
        /\ \A j \in DOMAIN wakes :
             /\ wakes'[j].kind = wakes[j].kind /\ wakes'[j].ids = wakes[j].ids
             /\ j = i => wakes'[j].started
             /\ j # i => wakes'[j] = wakes[j]
    <3>1. wakes \in Seq(Wake)
      BY <1>t
    <3>2. /\ DOMAIN wakes' = DOMAIN wakes
          /\ \A j \in DOMAIN wakes :
               /\ wakes'[j].kind = wakes[j].kind /\ wakes'[j].ids = wakes[j].ids
               /\ j = i => wakes'[j].started
               /\ j # i => wakes'[j] = wakes[j]
      BY <2>4, <3>1, Marked
    <3>3. wakes' \in Seq(Wake)
      BY <2>4, <3>1, Marked
    <3> QED
      BY <3>2, <3>3
  <2>6. ASSUME NEW j \in DOMAIN wakes'
        PROVE  /\ wakes'[j].kind = "delegation" => \A d \in wakes'[j].ids : Back(d)
               /\ wakes'[j].started => Turned(wakes'[j].kind, wakes'[j].ids)
    <3>1. j \in DOMAIN wakes
      BY <2>5
    <3>2. CASE j = i
      <4>1. wakes'[j].kind = wakes[i].kind /\ wakes'[j].ids = wakes[i].ids
        BY <2>5, <3>1, <3>2
      <4> QED
        BY <2>3, <4>1 DEF WakesGood
    <3>3. CASE j # i
      <4>1. wakes'[j] = wakes[j]
        BY <2>5, <3>1, <3>3
      <4> QED
        BY <3>1, <4>1 DEF WakesGood
    <3> QED
      BY <3>2, <3>3
  <2> QED
    BY <2>5, <2>6 DEF WakesGood
<1> QED
  BY <1>2, <1>3, <1>4, <1>5, <1>6, Changes

LEMMA DoneGoodKept ==
    ASSUME TypeInv, Facts, OnlyFlush, StepsGood, MarkGood, DoneGood(processedEvents, rec, wakes),
           DoneGood(stateFile.processed, stateFile.rec, stateFile.wakes), [DelegationNext]_delegationVars
    PROVE  DoneGood(processedEvents, rec, wakes)'
<1>t. AgendaOK /\ "drain" \in Strands /\ processedEvents \subseteq Event /\ stateFile.processed \subseteq Event
  BY DEF TypeInv, SavedOK, Strands, State
<1>1. CASE BridgeCrashes
  <2>1. PICK es, r, w : es \in SUBSET Event /\ es = stateFile.processed /\ r = stateFile.rec /\ w = stateFile.wakes
    BY <1>t
  <2>2. DoneGood(es, r, w)'
    BY <2>1, SavedStays
  <2>3. processedEvents' = es /\ rec' = r /\ wakes' = w
    BY <1>1, <2>1 DEF BridgeCrashes
  <2> QED
    BY <2>2, <2>3
<1>2. CASE ~BridgeCrashes
  <2>1. ASSUME NEW e \in Event, Happened(e), e.thread # Main, Passed(rec, wakes, e.thread)
        PROVE  Passed(rec, wakes, e.thread)'
    <3>1. PICK d \in Delegations : d = e.thread
      BY <2>1 DEF Event
    <3>2. Begun(d) /\ Passed(rec, wakes, d)
      BY <2>1, <3>1 DEF Happened
    <3>3. Passed(rec, wakes, d)'
      BY <1>2, <3>2, Stays
    <3> QED
      BY <3>1, <3>3
  <2>2. ASSUME NEW e \in processedEvents, e.thread # Main PROVE Passed(rec, wakes, e.thread)'
    <3>1. e \in Event /\ Happened(e) /\ Passed(rec, wakes, e.thread)
      BY <1>t, <2>2 DEF Facts, EventsOK, DoneGood
    <3> QED
      BY <2>1, <2>2, <3>1
  <2>3. CASE UNCHANGED processedEvents
    BY <2>2, <2>3 DEF DoneGood
  <2>4. CASE MarkProcessed
    <3>1. /\ Current("drain") \in Step /\ Current("drain").op = "mark" /\ Current("drain") \in Steps(agenda["drain"])
          /\ Current("drain") = Head(agenda["drain"])
      BY <1>t, <2>4, Here DEF MarkProcessed
    <3>2. PICK e \in Event : e = Current("drain").e
      BY <3>1, Fields DEF Stop
    <3>3. Happened(e)
      BY <1>t, <3>1, <3>2 DEF Facts, StepsOK, StepOK
    <3>4. ASSUME e.thread # Main PROVE Passed(rec, wakes, e.thread)'
      <4>1. ~Handling(e.thread)
        BY <3>1 DEF Handling, AtFor
      <4>2. Passed(rec, wakes, e.thread)
        BY <3>1, <3>2, <3>4, <4>1 DEF MarkGood
      <4> QED
        BY <2>1, <3>3, <3>4, <4>2
    <3>5. processedEvents' \subseteq processedEvents \cup {e}
      BY <2>4, <3>2 DEF MarkProcessed
    <3> QED
      BY <2>2, <3>4, <3>5 DEF DoneGood
  <2> QED
    BY <1>2, <2>3, <2>4, Changes
<1> QED
  BY <1>1, <1>2

\* The file is the state as it was when it was saved.
LEMMA FileGoodKept ==
    ASSUME TypeInv, RecGood(rec), WakesGood(wakes), DoneGood(processedEvents, rec, wakes),
           RecGood(stateFile.rec), WakesGood(stateFile.wakes),
           DoneGood(stateFile.processed, stateFile.rec, stateFile.wakes), [DelegationNext]_delegationVars
    PROVE  /\ RecGood(stateFile.rec)' /\ WakesGood(stateFile.wakes)'
           /\ DoneGood(stateFile.processed, stateFile.rec, stateFile.wakes)'
<1>t. /\ wakes \in Seq(Wake) /\ stateFile.wakes \in Seq(Wake)
      /\ processedEvents \subseteq Event /\ stateFile.processed \subseteq Event
  BY DEF TypeInv, SavedOK, State
<1>1. \/ stateFile' = stateFile
      \/ stateFile'.rec = rec /\ stateFile'.wakes = wakes /\ stateFile'.processed = processedEvents
  <2>1. (\E s \in Strands : PersistState(s)) => stateFile' = Snapshot
    BY DEF PersistState
  <2> QED
    BY <2>1, Changes DEF Snapshot
<1>2. PICK es, r, w : es = stateFile'.processed /\ r = stateFile'.rec /\ w = stateFile'.wakes
  OBVIOUS
<1>3. es \in SUBSET Event /\ w \in Seq(Wake)
  BY <1>t, <1>1, <1>2
<1>4. RecGood(r) /\ WakesGood(w) /\ DoneGood(es, r, w)
  BY <1>1, <1>2
<1>5. RecGood(r)' /\ WakesGood(w)' /\ DoneGood(es, r, w)'
  BY <1>3, <1>4, SavedStays
<1> QED
  BY <1>2, <1>5

LEMMA WokenGoodKept ==
    ASSUME TypeInv, WakesGood(wakes), WokenGood, [DelegationNext]_delegationVars
    PROVE  WokenGood'
<1>t. wakes \in Seq(Wake) /\ woken \in Seq(WokenTurn) /\ woken' \in Seq(WokenTurn) /\ AgendaOK
  BY TypeStep DEF TypeInv, SavedOK, HistoryOK
<1>1. CASE UNCHANGED woken
  BY <1>1 DEF WokenGood
<1>2. ASSUME NEW s \in Strands, ProcessPendingWakes(s), ~UNCHANGED woken PROVE WokenGood'
  <2>1. PICK i \in DOMAIN wakes :
          woken' = Append(woken, [kind |-> wakes[i].kind, ids |-> wakes[i].ids,
                                  results |-> {p \in wakes[i].ids \X Rounds : returned[p] > 0}])
    BY <1>t, <1>2, WakeCases
  <2>2. PICK n : n = [kind |-> wakes[i].kind, ids |-> wakes[i].ids,
                      results |-> {p \in wakes[i].ids \X Rounds : returned[p] > 0}]
    OBVIOUS
  <2>3. n.kind = "delegation" => \A d \in n.ids : <<d, 1>> \in n.results
    <3>1. n.kind = "delegation" => \A d \in n.ids : Back(d)
      BY <2>2 DEF WakesGood
    <3>2. \A d \in n.ids : <<d, 1>> \in n.ids \X Rounds
      BY FirstRound
    <3>3. n.results = {p \in n.ids \X Rounds : returned[p] > 0}
      BY <2>2
    <3> QED
      BY <3>1, <3>2, <3>3 DEF Back
  <2>4. /\ Len(woken) \in Nat /\ Len(woken') = Len(woken) + 1
        /\ \A j \in 1..Len(woken) : woken'[j] = woken[j]
        /\ woken'[Len(woken) + 1] = n
    BY <1>t, <2>1, <2>2, AppendProperties, LenProperties
  <2>5. DOMAIN woken' = 1..(Len(woken) + 1) /\ DOMAIN woken = 1..Len(woken)
    BY <1>t, <2>4, LenProperties
  <2>6. ASSUME NEW j \in DOMAIN woken', woken'[j].kind = "delegation"
        PROVE  \A d \in woken'[j].ids : <<d, 1>> \in woken'[j].results
    <3>1. CASE j \in 1..Len(woken)
      <4>1. woken'[j] = woken[j] /\ j \in DOMAIN woken
        BY <2>4, <2>5, <3>1
      <4> QED
        BY <2>6, <4>1 DEF WokenGood
    <3>2. CASE j = Len(woken) + 1
      <4>1. woken'[j] = n
        BY <2>4, <3>2
      <4> QED
        BY <2>3, <2>6, <4>1
    <3>3. j \in 1..Len(woken) \/ j = Len(woken) + 1
      <4>1. j \in 1..(Len(woken) + 1) /\ Len(woken) \in Nat
        BY <2>4, <2>5
      <4> QED
        BY <4>1
    <3> QED
      BY <3>1, <3>2, <3>3
  <2> QED
    BY <2>6 DEF WokenGood
<1> QED
  BY <1>1, <1>2, Changes

LEMMA DeliveredStep ==
    ASSUME TypeInv, Facts, Delivered, [DelegationNext]_delegationVars
    PROVE  Delivered'
<1>1. SUFFICES ASSUME OnlyFlush
               PROVE  /\ RecGood(rec)' /\ RecGood(stateFile.rec)'
                      /\ WakesGood(wakes)' /\ WakesGood(stateFile.wakes)'
                      /\ StepsGood' /\ MarkGood' /\ WokenGood'
                      /\ DoneGood(processedEvents, rec, wakes)'
                      /\ DoneGood(stateFile.processed, stateFile.rec, stateFile.wakes)'
  <2>1. delegationScenario' = delegationScenario
    BY Changes
  <2>2. OnlyFlush' => OnlyFlush
    BY <2>1 DEF OnlyFlush
  <2> QED
    BY <2>2 DEF Delivered
<1>2. /\ RecGood(rec) /\ RecGood(stateFile.rec) /\ WakesGood(wakes) /\ WakesGood(stateFile.wakes)
      /\ StepsGood /\ MarkGood /\ WokenGood /\ DoneGood(processedEvents, rec, wakes)
      /\ DoneGood(stateFile.processed, stateFile.rec, stateFile.wakes)
  BY <1>1 DEF Delivered
<1>3. RecGood(rec)'
  BY <1>1, <1>2, RecGoodKept
<1>4. WakesGood(wakes)'
  BY <1>1, <1>2, WakesGoodKept
<1>5. StepsGood'
  BY <1>1, <1>2, StepsGoodKept
<1>6. MarkGood'
  BY <1>1, <1>2, MarkGoodKept
<1>7. DoneGood(processedEvents, rec, wakes)'
  BY <1>1, <1>2, DoneGoodKept
<1>8. /\ RecGood(stateFile.rec)' /\ WakesGood(stateFile.wakes)'
      /\ DoneGood(stateFile.processed, stateFile.rec, stateFile.wakes)'
  BY <1>2, FileGoodKept
<1>9. WokenGood'
  BY <1>2, WokenGoodKept
<1> QED
  BY <1>3, <1>4, <1>5, <1>6, <1>7, <1>8, <1>9

LEMMA DeliveredInit == DelegationInit => Delivered
<1> SUFFICES ASSUME DelegationInit PROVE Delivered
  OBVIOUS
<1>1. /\ \A d \in Delegations : rec[d] = NoDelegation
      /\ wakes = <<>> /\ processedEvents = {} /\ woken = <<>>
      /\ stateFile.rec = rec /\ stateFile.wakes = <<>> /\ stateFile.processed = {}
      /\ \A s \in Strands : agenda[s] = <<>>
  BY DEF DelegationInit
<1>2. RecGood(rec)
  BY <1>1 DEF RecGood, NoDelegation, Complete
<1>3. WakesGood(<<>>)
  BY DEF WakesGood
<1>4. StepsGood
  BY <1>1, NoStep DEF StepsGood
<1>5. MarkGood
  BY <1>1, NoStep DEF MarkGood, Strands
<1>6. WokenGood
  BY <1>1 DEF WokenGood
<1>7. DoneGood({}, rec, wakes) /\ DoneGood({}, stateFile.rec, stateFile.wakes)
  BY DEF DoneGood
<1> QED
  BY <1>1, <1>2, <1>3, <1>4, <1>5, <1>6, <1>7 DEF Delivered

LEMMA DeliveredAlways == DelegationSpec => [](Facts /\ TypeInv /\ Delivered)
<1>1. TypeInv /\ Facts /\ Delivered /\ [DelegationNext]_delegationVars => Delivered'
  BY DeliveredStep
<1> QED
  BY <1>1, DeliveredInit, TypesHold, FactsHold, PTL DEF DelegationSpec

\* Once the file has the Stop event of a delegation the event is never looked
\* at again; its result was injected by then, if the policy is automatic, at
\* whatever step the bridge crashed or a request failed; as long as the operator
\* only starts and flushes delegations.
THEOREM ResultsAreReturned == DelegationSpec => [](OnlyFlush => MarkedIsReturned)
<1>1. Facts /\ TypeInv /\ Delivered => (OnlyFlush => MarkedIsReturned)
  <2> SUFFICES ASSUME Facts, Delivered, OnlyFlush,
                      NEW d \in Delegations, NEW r \in Rounds, NEW e, e = [thread |-> d, turn |-> r],
                      e \in stateFile.processed, stateFile.rec[d].mode \in Automatic
               PROVE  returned[<<d, r>>] > 0
    BY DEF MarkedIsReturned
  <2>1. e.thread = d /\ e.turn = r /\ d # Main
    BY DelegationAssumption
  <2>2. r = 1
    BY <2>1, FlushOnly DEF Facts, EventsOK, Happened
  <2>3. Back(d)
    BY <2>1 DEF Delivered, DoneGood, Passed
  <2> QED
    BY <2>2, <2>3 DEF Back
<1> QED
  BY <1>1, DeliveredAlways, PTL

\* A result that came back under wake_on_done has its wake pending in the file,
\* or a turn of the main thread began when the result was there to be read; as
\* long as the operator only starts and flushes delegations.
THEOREM ResultsAreWoken == DelegationSpec => [](OnlyFlush => MarkedIsWoken)
<1>1. Facts /\ TypeInv /\ Delivered => (OnlyFlush => MarkedIsWoken)
  <2> SUFFICES ASSUME Facts, Delivered, OnlyFlush,
                      NEW d \in Delegations, NEW r \in Rounds, NEW e, e = [thread |-> d, turn |-> r],
                      e \in stateFile.processed, stateFile.rec[d].mode = "wake_on_done"
               PROVE  \/ \E i \in DOMAIN stateFile.wakes : d \in stateFile.wakes[i].ids /\ ~stateFile.wakes[i].started
                      \/ \E i \in DOMAIN woken : <<d, r>> \in woken[i].results
    BY DEF MarkedIsWoken
  <2>1. e.thread = d /\ e.turn = r /\ d # Main
    BY DelegationAssumption
  <2>2. r = 1
    BY <2>1, FlushOnly DEF Facts, EventsOK, Happened
  <2>3. Queued(stateFile.wakes, d)
    BY <2>1 DEF Delivered, DoneGood, Passed
  <2>4. PICK i \in DOMAIN stateFile.wakes : stateFile.wakes[i].kind = "delegation" /\ stateFile.wakes[i].ids = {d}
    BY <2>3 DEF Queued
  <2>5. CASE stateFile.wakes[i].started
    <3>1. Turned("delegation", {d})
      BY <2>4, <2>5 DEF Delivered, WakesGood
    <3>2. PICK j \in DOMAIN woken : woken[j].kind = "delegation" /\ woken[j].ids = {d}
      BY <3>1 DEF Turned
    <3>3. <<d, 1>> \in woken[j].results
      BY <3>2 DEF Delivered, WokenGood
    <3> QED
      BY <2>2, <3>3
  <2> QED
    BY <2>4, <2>5
<1> QED
  BY <1>1, DeliveredAlways, PTL
=============================================================================
