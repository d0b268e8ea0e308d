--------------------------- MODULE WorkspacePickers ---------------------------
(***************************************************************************)
(* The pickers of /threads, /status and /goals: the backend                *)
(* (apps/discord-bridge/src/local-workspace-backend.ts) keeps the entries  *)
(* of a picker under an id until one is chosen, the transport              *)
(* (discord-transport.ts) puts the id and the option into the custom id of *)
(* a button and takes them apart again when it is pressed.                 *)
(***************************************************************************)
EXTENDS Integers, Sequences, FiniteSets, Functions

CONSTANTS
    Listed,     \* codex threads that are listed
    Commands,   \* ephemeral replies, each to one command at a time: a picker or text
    MaxPickers  \* bound on the pickers

Goals == {"active", "paused", "complete"}

VARIABLES
    pickers,    \* the numbers of the pickers the backend keeps
    shownAs,    \* every picker that was made, by number
    screen,     \* by command: the picker its reply shows, 0 for text
    goal,       \* the goals at the app-server
    inDiscord,  \* threads that are opened
    acting,     \* choices that are carried out: command, picker, option
    taken,      \* by picker: how many of its options were carried out
    rebooted    \* whether the bridge was restarted

pickerVars == <<pickers, shownAs, screen, goal, inDiscord, acting, taken, rebooted>>

\* A picker of kind "threads" or "goals" lists threads; one of kind "actions"
\* offers what can be done about the goal of one thread.  It keeps what was read.
Picker(kind, t, goals, opened) == [kind |-> kind, thread |-> t, goals |-> goals, opened |-> opened]
List(kind) == Picker(kind, "none", goal, inDiscord)

PickerTypeOK ==
    /\ pickers \subseteq DOMAIN shownAs /\ Len(shownAs) <= MaxPickers
    /\ \A c \in Commands : screen[c] \in 0..Len(shownAs)
    /\ goal \in [Listed -> Goals \cup {"none"}] /\ inDiscord \subseteq Listed
    /\ \A a \in acting : a.command \in Commands /\ a.picker \in DOMAIN shownAs

PickerInit ==
    /\ pickers = {} /\ shownAs = <<>> /\ screen = [c \in Commands |-> 0]
    /\ goal \in [Listed -> {"none", "active"}] /\ inDiscord = {}
    /\ acting = {} /\ taken = <<>> /\ rebooted = FALSE

\* A list has a thread once, whether the app-server, the sessions, the
\* delegations or the observed threads name it.
Entries == Listed
\* The ids of a picker's options, in the parts that their colons set apart.
Options(p) ==
    IF p.kind # "actions" THEN {<<t>> : t \in Entries}
    ELSE LET g == p.goals[p.thread] IN
         (IF p.thread \in p.opened THEN {} ELSE {<<"open">>}) \cup
         (IF g = "none" THEN {} ELSE {<<"clear">>} \cup {<<"status", s>> : s \in Goals \ {g}})

\* A button carries the picker and the option; only an id of three parts is
\* taken for one of a picker.
CustomId(p, option) == <<"codex_threads", p>> \o option
Parses(customId) == Len(customId) = 3

\* The reply of command c shows picker p, under a new id, or text when p has
\* nothing to offer or cannot be sent.  A list that cannot be sent is dropped.
ShowPicker(c, p, kept, sent) ==
    IF Options(p) = {}
    THEN screen' = [screen EXCEPT ![c] = 0] /\ pickers' = kept /\ UNCHANGED <<shownAs, taken>>
    ELSE /\ Len(shownAs) < MaxPickers
         /\ shownAs' = Append(shownAs, p) /\ taken' = Append(taken, 0)
         /\ pickers' = kept \cup (IF sent \/ p.kind = "actions" THEN {Len(shownAs')} ELSE {})
         /\ screen' = [screen EXCEPT ![c] = IF sent THEN Len(shownAs') ELSE 0]

Idle(c) == screen[c] = 0 /\ \A a \in acting : a.command # c

\* /threads and /status list threads to open, /goals in a workspace lists
\* threads with their goals.
AskList(c, kind) ==
    /\ Idle(c) /\ \E sent \in BOOLEAN : ShowPicker(c, List(kind), pickers, sent)
    /\ UNCHANGED <<goal, inDiscord, acting, rebooted>>

\* /goals in an opened thread: the goal is updated or only read, and its
\* actions are shown; when they cannot be sent, the update remains.
AskGoal(c, t, g) ==
    /\ Idle(c) /\ t \in inDiscord /\ g \in {goal[t], "active"} /\ goal' = [goal EXCEPT ![t] = g]
    /\ \E sent \in BOOLEAN : ShowPicker(c, Picker("actions", t, goal', inDiscord), pickers, sent)
    /\ UNCHANGED <<inDiscord, acting, rebooted>>

\* The same with clear.
ClearGoal(t) ==
    /\ t \in inDiscord /\ goal' = [goal EXCEPT ![t] = "none"]
    /\ UNCHANGED <<pickers, shownAs, screen, inDiscord, acting, taken, rebooted>>

\* Mutant: a picker stays for another choice.
StaysOpen(p) == pickers
\* A picker is used up by the first choice.
Used(p) == pickers \ {p}

\* Once a choice is begun, the reply still shows the buttons.
Begin(c, p, option) ==
    /\ pickers' = Used(p) /\ taken' = [taken EXCEPT ![p] = @ + 1]
    /\ acting' = acting \cup {[command |-> c, picker |-> p, option |-> option]}
    /\ UNCHANGED <<shownAs, screen>>

\* A button that is shown is pressed.
Press(c, option) ==
    LET p == screen[c] IN
    /\ p > 0 /\ option \in Options(shownAs[p])
    /\ Parses(CustomId(p, option)) \* an id that does not parse is dropped
    /\ \/ /\ p \notin pickers /\ screen' = [screen EXCEPT ![c] = 0]
          /\ UNCHANGED <<pickers, shownAs, acting, taken>>
       \/ /\ p \in pickers /\ shownAs[p].kind = "goals"
          /\ ShowPicker(c, [shownAs[p] EXCEPT !.kind = "actions", !.thread = Head(option)], Used(p), TRUE)
          /\ UNCHANGED acting
       \/ p \in pickers /\ shownAs[p].kind # "goals" /\ Begin(c, p, option)
    /\ UNCHANGED <<goal, inDiscord, rebooted>>

\* The thread a choice is about.
Subject(a) == IF shownAs[a.picker].kind = "actions" THEN shownAs[a.picker].thread ELSE Head(a.option)

\* What a choice makes of the goal of its thread.
Applied(option, g) ==
    CASE option = <<"clear">> -> "none" [] Len(option) = 2 -> option[2] [] OTHER -> g

\* The call succeeds: a thread of the list is opened; or the goal is cleared; or
\* the thread is opened or the goal set, and what can be done next is shown.
Carried(a) ==
    LET t == Subject(a)
        was == shownAs[a.picker] IN
    /\ acting' = acting \ {a}
    /\ goal' = [goal EXCEPT ![t] = Applied(a.option, @)]
    /\ inDiscord' = IF a.option \in {<<"open">>, <<t>>} THEN inDiscord \cup {t} ELSE inDiscord
    /\ IF was.kind = "threads" \/ a.option = <<"clear">>
       THEN screen' = [screen EXCEPT ![a.command] = 0] /\ UNCHANGED <<pickers, shownAs, taken>>
       ELSE ShowPicker(a.command, [was EXCEPT !.goals[t] = Applied(a.option, @), !.opened = IF a.option = <<"open">> THEN @ \cup {t} ELSE @],
                       pickers, TRUE)
    /\ UNCHANGED <<rebooted>>

\* It fails.
Refused(a) ==
    /\ acting' = acting \ {a} /\ screen' = [screen EXCEPT ![a.command] = 0]
    /\ UNCHANGED <<pickers, shownAs, goal, inDiscord, taken, rebooted>>

\* Another client of the app-server changes a goal.
OtherSetsGoal(t) ==
    /\ goal[t] # "complete" /\ goal' = [goal EXCEPT ![t] = "complete"]
    /\ UNCHANGED <<pickers, shownAs, screen, inDiscord, acting, taken, rebooted>>

\* A restart of the bridge loses the pickers and what is in progress; the
\* buttons stay in Discord.
Reboot ==
    /\ ~rebooted /\ rebooted' = TRUE /\ pickers' = {} /\ acting' = {}
    /\ UNCHANGED <<shownAs, screen, goal, inDiscord, taken>>

PickerNext ==
    \/ \E c \in Commands : \/ \E kind \in {"threads", "goals"} : AskList(c, kind)
                           \/ \E t \in Listed, g \in Goals \cup {"none"} : AskGoal(c, t, g)
                           \/ screen[c] > 0 /\ \E option \in Options(shownAs[screen[c]]) : Press(c, option)
    \/ \E t \in Listed : ClearGoal(t) \/ OtherSetsGoal(t)
    \/ \E a \in acting : Carried(a) \/ Refused(a)
    \/ Reboot

PickerSpec == PickerInit /\ [][PickerNext]_pickerVars

\* One picker carries out one choice, however often its buttons are pressed
\* while it is carried out.
PickedOnce == \A p \in DOMAIN taken : taken[p] <= 1

\* Unless the bridge was restarted, buttons that are shown belong to a picker
\* that is kept, or whose choice is being carried out for this very reply.
ButtonsAreAlive ==
    ~rebooted => \A c \in Commands : screen[c] = 0 \/ screen[c] \in pickers
                                     \/ \E a \in acting : a.command = c /\ a.picker = screen[c]

PickersAreSound == PickedOnce /\ ButtonsAreAlive

=============================================================================
