------------------------------- MODULE Workbench -------------------------------
(***************************************************************************)
(* The workbench of packages/codex-client/src/workbench.ts: a snapshot of  *)
(* a thread, reduced from the notifications of the app-server, and the     *)
(* progress messages its consumer toldAs.  A text is the number of its      *)
(* deltas, with the turn it is of.                                         *)
(***************************************************************************)
EXTENDS Integers, Sequences, SequencesExt

CONSTANTS
    OfferedItems,    \* by turn of the thread: the items that it may have
    MaxParts,   \* bound on the summary parts of a turn's reasoning
    MaxChunks   \* by item: bound on the deltas of a text

VARIABLES
    turns,     \* the turns at the app-server
    bench,     \* the snapshot
    benchMode, \* the progress that is wanted: "summary" or "commentary"
    attached,  \* the turn in which the snapshot was made, or -1
    rawEvents, \* a commentary was reported as a raw item as well
    posting,   \* the messages that are being posted
    toldAs,     \* the messages that were
    again      \* one of them for a second time

benchVars == <<turns, bench, benchMode, attached, rawEvents, posting, toldAs, again>>

\* The items of a turn come in this order, and none has to come.
ItemOrder == <<"thoughts", "command", "note", "answer">>
BenchItems == {ItemOrder[i] : i \in DOMAIN ItemOrder}
Place(i) == CHOOSE n \in DOMAIN ItemOrder : ItemOrder[n] = i
NoTurn == 0
NoText == [turn |-> NoTurn, chunks |-> 0]
NewTurn == [open |-> "none", done |-> {}, parts |-> <<>>, chunks |-> [i \in {"note", "answer"} |-> 0], status |-> "inProgress"]

createThreadSnapshot ==
    [active |-> NoTurn, status |-> "idle", running |-> {}, summaries |-> <<>>, drafts |-> {}, messages |-> {}, answer |-> NoText]

BenchTypeOK ==
    /\ Len(turns) <= Len(OfferedItems) /\ attached \in -1..Len(OfferedItems)
    /\ bench.active \in 0..Len(OfferedItems) /\ bench.status \in {"idle", "inProgress", "completed", "interrupted"}
    /\ \A m \in bench.messages : m.delivered \in BOOLEAN
    /\ posting \subseteq {m.id : m \in bench.messages}

BenchInit ==
    /\ turns = <<>> /\ bench = createThreadSnapshot /\ attached = -1
    /\ benchMode \in {"summary", "commentary"} /\ rawEvents = FALSE
    /\ posting = {} /\ toldAs = {} /\ again = FALSE

-----------------------------------------------------------------------------
(* The reducer.                                                            *)

\* Mutant: the messages that still wait are dropped.
UpsertAlone(messages, id, text) ==
    {m \in messages : m.delivered /\ m.id # id} \cup {[id |-> id, text |-> text, delivered |-> FALSE]}
\* upsertProgressMessage: it stays delivered.
Upsert(messages, id, text) ==
    {m \in messages : m.id # id}
    \cup {[id |-> id, text |-> text, delivered |-> \E m \in messages : m.id = id /\ m.delivered]}
WithMessage(s, id, text) == [s EXCEPT !.messages = Upsert(@, id, text)]
Text(t, n) == [turn |-> t, chunks |-> n]

\* finalizeSummary for the buffers of a turn's parts before one, which leave.
Finalized(s, t, part) ==
    FoldLeft(LAMBDA u, b : WithMessage(u, <<"summary", b.turn, b.part>>, Text(b.turn, b.chunks)),
             [s EXCEPT !.summaries = SelectSeq(@, LAMBDA b : b.turn # t \/ b.part >= part)],
             SelectSeq(s.summaries, LAMBDA b : b.turn = t /\ b.part < part /\ b.chunks > 0))

\* The buffer of a summary part, or of an agent message, with n more deltas.
Buffered(s, t, p, n) ==
    LET old == SelectSeq(s.summaries, LAMBDA b : b.turn = t /\ b.part = p)
        new == [turn |-> t, part |-> p, chunks |-> n + IF old = <<>> THEN 0 ELSE old[1].chunks] IN
    [s EXCEPT !.summaries = Append(SelectSeq(@, LAMBDA b : b.turn # t \/ b.part # p), new)]
DraftOf(s, t, i) == {d \in s.drafts : d.turn = t /\ d.item = i}
Heard(s, t, i) == IF DraftOf(s, t, i) = {} THEN 0 ELSE (CHOOSE d \in DraftOf(s, t, i) : TRUE).chunks
Drafted(s, t, i) ==
    [s EXCEPT !.drafts = (@ \ DraftOf(s, t, i)) \cup {[turn |-> t, item |-> i, chunks |-> Heard(s, t, i) + 1]}]

\* applyThreadItem for an item that started,
Begun(s, t, i) ==
    [s EXCEPT !.active = t, !.status = "inProgress", !.running = IF i = "command" THEN @ \cup {t} ELSE @]
\* and for one that completed; an agent message may come without its text.
Completed(s, t, i, turn, texts) ==
    LET n == IF texts THEN turn.chunks[i] ELSE Heard(s, t, i) IN
    CASE i = "command" -> [s EXCEPT !.running = @ \ {t}]
      [] i = "thoughts" ->
           FoldLeft(LAMBDA u, p : IF turn.parts[p] = 0 THEN u ELSE WithMessage(u, <<"summary", t, p>>, Text(t, turn.parts[p])),
                    s, [p \in DOMAIN turn.parts |-> p])
      [] i \in {"note", "answer"} /\ n = 0 -> s
      [] i = "note" /\ n > 0 -> [WithMessage(s, <<"commentary", t, i>>, Text(t, n)) EXCEPT !.drafts = @ \ DraftOf(s, t, i)]
      [] i = "answer" /\ n > 0 -> [s EXCEPT !.answer = Text(t, n), !.drafts = @ \ DraftOf(s, t, i)]

\* finalTextFromTurn: a commentary when there is no answer.
finalTextFromTurn(t, turn, items) ==
    IF "answer" \in items THEN Text(t, turn.chunks["answer"])
    ELSE IF "note" \in items THEN Text(t, turn.chunks["note"]) ELSE NoText

\* reduceCompletedTurn, with the items that turn/completed brings.
reduceCompletedTurn(s, t, turn, items, status) ==
    LET applied == FoldLeft(LAMBDA u, i : Completed(u, t, i, turn, TRUE), s, SelectSeq(ItemOrder, LAMBDA i : i \in items))
        final == Finalized(applied, t, MaxParts + 1)
        text == IF final.answer # NoText THEN final.answer ELSE finalTextFromTurn(t, turn, items)
        told == IF text = NoText THEN final ELSE WithMessage([final EXCEPT !.answer = text], <<"final", t, "">>, text) IN
    [told EXCEPT !.active = IF @ = t THEN NoTurn ELSE @, !.status = status, !.running = @ \ {t}]

\* snapshotFromThread: the turns of thread/read, the last may be in progress.
snapshotFromThread(past) ==
    FoldLeft(LAMBDA s, t :
               IF past[t].status # "inProgress" THEN reduceCompletedTurn(s, t, past[t], past[t].done, past[t].status)
               ELSE FoldLeft(LAMBDA u, i : Completed(u, t, i, past[t], TRUE),
                             [s EXCEPT !.active = t, !.status = "inProgress", !.running = IF past[t].open = "command" THEN @ \cup {t} ELSE @],
                             SelectSeq(ItemOrder, LAMBDA i : i \in past[t].done)),
             createThreadSnapshot, [t \in DOMAIN past |-> t])

-----------------------------------------------------------------------------
(* The app-server's notifications, reduced as they come, once the client   *)
(* is attached.                                                            *)

Now == Len(turns)
InTurn == Now > 0 /\ turns[Now].status = "inProgress"
Current == turns[Now]
Told(s) == bench' = IF attached = -1 THEN bench ELSE s
Rest == UNCHANGED <<benchMode, attached, posting, toldAs, again>>

TurnStarted ==
    /\ ~InTurn /\ Now < Len(OfferedItems) /\ turns' = Append(turns, NewTurn)
    /\ Told([bench EXCEPT !.active = Now + 1, !.status = "inProgress"]) /\ Rest /\ UNCHANGED rawEvents

ItemStarted(i) ==
    /\ InTurn /\ i \in OfferedItems[Now] /\ Current.open = "none" /\ \A d \in Current.done : Place(d) < Place(i)
    /\ turns' = [turns EXCEPT ![Now].open = i]
    /\ Told(Begun(bench, Now, i)) /\ Rest /\ UNCHANGED rawEvents

SummaryPartAdded ==
    /\ InTurn /\ Current.open = "thoughts" /\ Len(Current.parts) < MaxParts
    /\ turns' = [turns EXCEPT ![Now].parts = Append(@, 0)]
    /\ LET p == Len(Current.parts) + 1 IN
       Told(Buffered(Finalized(bench, Now, p), Now, p, 0))
    /\ Rest /\ UNCHANGED rawEvents

SummaryTextDelta ==
    /\ InTurn /\ Current.open = "thoughts" /\ Current.parts # <<>>
    /\ LET p == Len(Current.parts) IN
       /\ Current.parts[p] < MaxChunks["thoughts"] /\ turns' = [turns EXCEPT ![Now].parts[p] = @ + 1]
       /\ Told(Buffered(bench, Now, p, 1))
    /\ Rest /\ UNCHANGED rawEvents

AgentMessageDelta ==
    /\ InTurn /\ Current.open \in {"note", "answer"} /\ Current.chunks[Current.open] < MaxChunks[Current.open]
    /\ turns' = [turns EXCEPT ![Now].chunks[Current.open] = @ + 1]
    /\ Told(Drafted(bench, Now, Current.open)) /\ Rest /\ UNCHANGED rawEvents

OutputDelta ==
    /\ InTurn /\ Current.open = "command"
    /\ Told([bench EXCEPT !.running = @ \cup {Now}]) /\ UNCHANGED <<turns, rawEvents>> /\ Rest

\* An agent message that completes without its text was told in deltas.
ItemCompleted(texts) ==
    /\ InTurn /\ Current.open # "none"
    /\ Current.open \in {"note", "answer"} => Current.chunks[Current.open] > 0
    /\ ~texts => Current.open \in {"note", "answer"}
    /\ turns' = [turns EXCEPT ![Now].open = "none", ![Now].done = @ \cup {Current.open}]
    /\ Told(Completed(bench, Now, Current.open, Current, texts)) /\ Rest /\ UNCHANGED rawEvents

\* The raw item of the message that was the last to complete.
RawItemCompleted ==
    /\ InTurn /\ Current.open = "none"
    /\ \/ /\ "note" \in Current.done /\ "answer" \notin Current.done /\ ~rawEvents /\ rawEvents' = TRUE
          /\ Told(WithMessage(bench, <<"commentary", Now, "raw">>, Text(Now, Current.chunks["note"])))
       \/ /\ "answer" \in Current.done /\ UNCHANGED rawEvents
          /\ Told([bench EXCEPT !.answer = Text(Now, Current.chunks["answer"])])
    /\ UNCHANGED turns /\ Rest

\* turn/completed brings the items or none; only an interrupted one is open.
TurnCompleted(items, status) ==
    /\ InTurn /\ items \in {{}, Current.done}
    /\ status = IF Current.open = "none" THEN "completed" ELSE "interrupted"
    /\ turns' = [turns EXCEPT ![Now].status = status]
    /\ Told(reduceCompletedTurn(bench, Now, Current, items, status)) /\ Rest /\ UNCHANGED rawEvents

-----------------------------------------------------------------------------
(* The consumer.                                                           *)

Attach ==
    /\ attached = -1 /\ attached' = Now /\ bench' = snapshotFromThread(turns)
    /\ UNCHANGED <<turns, benchMode, rawEvents, posting, toldAs, again>>

pendingProgressMessages == {m \in bench.messages : ~m.delivered /\ m.id[1] \in {"final", benchMode}}
Post ==
    /\ posting = {} /\ pendingProgressMessages # {}
    /\ posting' = {m.id : m \in pendingProgressMessages}
    /\ toldAs' = toldAs \cup {[id |-> m.id, text |-> m.text] : m \in pendingProgressMessages}
    /\ again' = (again \/ \E m \in pendingProgressMessages, p \in toldAs : m.id = p.id)
    /\ UNCHANGED <<turns, bench, benchMode, attached, rawEvents>>

markProgressMessagesDelivered ==
    /\ posting # {} /\ posting' = {}
    /\ bench' = [bench EXCEPT !.messages = {IF m.id \in posting THEN [m EXCEPT !.delivered = TRUE] ELSE m : m \in @}]
    /\ UNCHANGED <<turns, benchMode, attached, rawEvents, toldAs, again>>

BenchNext ==
    \/ TurnStarted \/ SummaryPartAdded \/ SummaryTextDelta \/ AgentMessageDelta \/ OutputDelta \/ RawItemCompleted
    \/ \E i \in BenchItems : ItemStarted(i)
    \/ \E texts \in BOOLEAN : ItemCompleted(texts)
    \/ \E items \in {{}} \cup {turns[t].done : t \in DOMAIN turns}, status \in {"completed", "interrupted"} : TurnCompleted(items, status)
    \/ Attach \/ Post \/ markProgressMessagesDelivered

BenchSpec == BenchInit /\ [][BenchNext]_benchVars

-----------------------------------------------------------------------------
(* Properties.                                                             *)

\* The final message of a turn is that turn's answer; only a turn that gave
\* none, or whose deltas the client missed, may be told with an earlier
\* turn's answer or with a commentary.
AnswerIsOwn ==
    \A m \in bench.messages :
      m.id[1] = "final" => \/ m.text = Text(m.id[2], turns[m.id[2]].chunks["answer"])
                           \/ "answer" \notin turns[m.id[2]].done
                           \/ m.id[2] = attached
\* It is told of every turn but the one whose deltas the client missed.
AnswerIsTold ==
    attached # -1 => \A t \in DOMAIN turns \ {attached} :
      (turns[t].status # "inProgress" /\ "answer" \in turns[t].done) => \E m \in bench.messages : m.id = <<"final", t, "">>

\* What is posted of a turn that began after the client attached is the whole
\* text, although it is posted while the turn goes on.
PostedWhole ==
    \A p \in toldAs : (p.id[2] > attached /\ p.id[1] # "final") =>
      p.text.chunks = IF p.id[1] = "summary" THEN turns[p.id[2]].parts[p.id[3]] ELSE turns[p.id[2]].chunks["note"]

\* Between turns nothing is shown as running.
NothingRuns == (attached # -1 /\ ~InTurn) => bench.active = NoTurn /\ bench.running = {} /\ bench.status # "inProgress"

BenchIsSound == ~again /\ AnswerIsOwn /\ AnswerIsTold /\ PostedWhole /\ NothingRuns
=============================================================================
