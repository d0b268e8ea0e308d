----------------------------- MODULE CommandLine -----------------------------
(***************************************************************************)
(* The arguments of the command line tool                                  *)
(* (packages/codex-client/src/cli/args.ts): options anywhere, the last one *)
(* counts, and the words that are left name the command and what it works  *)
(* on.  One step reads one argument.                                       *)
(***************************************************************************)
EXTENDS Integers, Sequences, FiniteSets, TLC

CONSTANTS
    Arguments,      \* the command lines: sequences of arguments
    Numerals,       \* the words that are positive integers
    DefaultTimeout, \* of the calls
    ProbeTimeout    \* of what only looks whether somebody is there

VARIABLES
    argv, index, settings, words, command

lineVars == <<argv, index, settings, words, command>>

Unset == "unset"
None == [type |-> "none", args |-> <<>>, timeout |-> Unset]
Help == [None EXCEPT !.type = "help"]
Fails == [None EXCEPT !.type = "error"]

\* An argument: the option that it is, if any, the value behind its "=", and as a word.
Word(w) == [option |-> "", inline |-> Unset, text |-> w]
Option(o) == [option |-> o, inline |-> Unset, text |-> o]
Assigned(o, v) == [option |-> o, inline |-> v, text |-> o]
End == Option("--")

\* The options with a value and what they set.
Plain == {"timeout-ms", "limit", "mode", "workspace-root", "global-codex-home", "workspace-codex-home", "codex-home", "output", "ref",
          "include", "exclude", "merge", "event", "event-id", "run-id", "type", "status", "flow", "step", "artifact-text"}
AppUrls == {"app-url", "app-server-url"}
WorkspaceUrls == {"workspace-url", "workspace-backend-url"}
Urls == {"url", "ws-url"}
Valued == Plain \cup AppUrls \cup WorkspaceUrls \cup Urls
Sets(o) == IF o \in Plain THEN {o} ELSE IF o \in AppUrls THEN {"appUrl"}
           ELSE IF o \in WorkspaceUrls THEN {"workspaceUrl"} ELSE {"appUrl", "workspaceUrl"}
Numbers == {"timeout-ms", "limit"}
Collected == {"include", "exclude"}
Modes == {"", "auto", "local", "actions"}
\* The options without, and what they switch.
On == {"pretty", "color", "backup"}
Off == {"compact", "no-color", "no-backup"}
Raised == {"json", "apply", "overwrite", "replace", "wait", "forgejo", "github", "with-smoke", "with-agent-turn"}
Switches == On \cup Off \cup Raised
Switched(o) == IF o = "compact" THEN "pretty" ELSE IF o = "no-color" THEN "color" ELSE IF o = "no-backup" THEN "backup" ELSE o

TakesValue(a) == a.option \in Valued /\ a.inline = Unset
Names == Plain \cup {"appUrl", "workspaceUrl"} \cup On \cup Raised
Default(n) == IF n \in Collected THEN <<>> ELSE IF n = "timeout-ms" THEN DefaultTimeout
              ELSE IF n \in On THEN TRUE ELSE IF n \in Raised THEN FALSE ELSE Unset
Setting(n) == IF n \in DOMAIN settings THEN settings[n] ELSE Default(n)

LineTypeOK ==
    /\ index \in 1 .. Len(argv) + 1 /\ \A n \in DOMAIN settings : n \in Names
    /\ \A k \in DOMAIN words : words[k] \in {argv[j].text : j \in DOMAIN argv}
    /\ DOMAIN command = DOMAIN None

LineStarts(lines) ==
    /\ argv \in lines /\ index = 1 /\ settings = <<>> /\ words = <<>> /\ command = None
LineInit == LineStarts(Arguments)

-----------------------------------------------------------------------------
(* Arguments.                                                              *)

\* Numbers are positive; a mode and a merge are of their lists.
Acceptable(o, v) ==
    /\ o \in Numbers => v \in Numerals
    /\ o = "mode" => v \in Modes
    /\ o = "merge" => v = "codex"
\* parseMode: an empty mode is none.
Stored(o, v) == IF o = "mode" /\ v = "" THEN Unset ELSE v
Assign(o, v) ==
    IF Acceptable(o, v)
    THEN /\ settings' = [n \in Sets(o) |-> IF o \in Collected THEN Append(Setting(n), v) ELSE Stored(o, v)] @@ settings
         /\ UNCHANGED command
    ELSE command' = Fails /\ UNCHANGED settings

Current == argv[index]
Reads == index <= Len(argv) /\ command = None /\ UNCHANGED argv
\* Mutant: the value is read once more.
NextOnly(k) == index + 1
\* The argument behind the value.
Behind(k) == index + k + 1

Empty == Reads /\ Current = Word("") /\ index' = index + 1 /\ UNCHANGED <<settings, words, command>>
AskHelp == Reads /\ Current = Option("help") /\ command' = Help /\ UNCHANGED <<index, settings, words>>
\* A value is the next argument, whatever it looks like, unless it is empty.
TakeNext ==
    /\ Reads /\ TakesValue(Current)
    /\ IF index = Len(argv) \/ (index < Len(argv) /\ argv[index + 1] = Word(""))
       THEN command' = Fails /\ UNCHANGED <<index, settings>>
       ELSE Assign(Current.option, argv[index + 1].text) /\ index' = Behind(1)
    /\ UNCHANGED words
TakeInline ==
    /\ Reads /\ Current.option \in Valued /\ Current.inline # Unset
    /\ Assign(Current.option, Current.inline) /\ index' = Behind(0) /\ UNCHANGED words
Switch ==
    /\ Reads /\ Current.option \in Switches /\ Current.inline = Unset /\ index' = index + 1
    /\ settings' = (Switched(Current.option) :> (Current.option \notin Off)) @@ settings
    /\ UNCHANGED <<words, command>>
\* The rest is words.
Ends ==
    /\ Reads /\ Current = End /\ index' = Len(argv) + 1
    /\ words' = words \o [k \in 1 .. Len(argv) - index |-> argv[index + k].text]
    /\ UNCHANGED <<settings, command>>
Unknown ==
    /\ Reads /\ Current.option \notin {""} \cup Valued /\ Current # End
    /\ ~(Current.option \in Switches \cup {"help"} /\ Current.inline = Unset)
    /\ command' = Fails /\ UNCHANGED <<index, settings, words>>
Positional ==
    /\ Reads /\ Current.option = "" /\ Current.text # "" /\ index' = index + 1
    /\ words' = Append(words, Current.text) /\ UNCHANGED <<settings, command>>

-----------------------------------------------------------------------------
(* The command.                                                            *)

\* What the words name: the subcommand by its names, and its arguments, each a
\* word at its place, or, before it, an option.
Shape(type, names, needs) == [type |-> type, names |-> names, needs |-> needs]
Shapes ==
    [fetch |-> {}, app |-> {}, workspace |-> {
        Shape("workspace-doctor", {"doctor"}, <<>>), Shape("workspace-tick", {"tick"}, <<>>),
        Shape("workspace-run", {"run"}, <<"">>), Shape("workspace-init-actions", {"init"}, <<"">>)},
     flow |-> {
        Shape("flow-dispatch", {"dispatch"}, <<"event">>), Shape("flow-list-events", {"events", "list-events"}, <<>>),
        Shape("flow-get-event", {"event", "show-event"}, <<"event-id">>), Shape("flow-replay", {"replay", "replay-event"}, <<"event-id">>),
        Shape("flow-list-runs", {"runs", "list-runs"}, <<>>), Shape("flow-get-run", {"run", "show-run"}, <<"run-id">>)},
     actions |-> {
        Shape("actions-prepare-auth", {"prepare-auth"}, <<>>), Shape("actions-cleanup", {"cleanup"}, <<>>),
        Shape("actions-dispatch", {"dispatch"}, <<"event">>), Shape("actions-assert-run", {"assert-run"}, <<"flow", "step">>)},
     memories |-> {Shape("memories-transplant", {"transplant"}, <<"">>)},
     threads |-> {
        Shape("threads-locate", {"locate"}, <<"">>), Shape("threads-export", {"export"}, <<"", "output">>),
        Shape("threads-inspect", {"inspect"}, <<"">>), Shape("threads-import", {"import"}, <<"">>)},
     pack |-> {
        Shape("pack-inspect", {"inspect"}, <<"">>), Shape("pack-add", {"add"}, <<"">>),
        Shape("pack-doctor", {"doctor"}, <<>>), Shape("pack-list", {"list"}, <<>>)}]
\* The only words that some of them know.
Directions == {"global-to-workspace", "workspace-to-global"}
Known(type, args) ==
    /\ type = "workspace-init-actions" => args = <<"actions">>
    /\ type = "memories-transplant" => args[1] \in Directions

WordAt(k) == IF k <= Len(words) /\ words[k] # "" THEN words[k] ELSE Unset
Need(shape, k) == IF shape.needs[k] # "" /\ Setting(shape.needs[k]) # Unset THEN Setting(shape.needs[k]) ELSE WordAt(k + 2)
\* An explicit timeout that is the default counts as none.
Timeout(type) ==
    IF type \in {"fetch", "workspace-doctor"} /\ Setting("timeout-ms") = DefaultTimeout THEN ProbeTimeout ELSE Setting("timeout-ms")
Parsed(type, args) == [type |-> type, args |-> args, timeout |-> Timeout(type)]
Shaped(shape) ==
    LET args == [k \in DOMAIN shape.needs |-> Need(shape, k)] IN
    IF Unset \in {args[k] : k \in DOMAIN args} \/ ~Known(shape.type, args) THEN Fails ELSE Parsed(shape.type, args)

\* app and workspace call the methods of the backends, whose names are words.
Rest(k) == SubSeq(words, k, Len(words))
Call(type, from) == IF WordAt(from) = Unset THEN Fails ELSE Parsed(type, Rest(from))
AppCommand ==
    IF WordAt(2) \in {Unset, "actions"} THEN Parsed("app-actions", <<>>)
    ELSE IF WordAt(2) = "call" THEN Call("app-call", 3) ELSE Call("app-call", 2)
WorkspaceCall ==
    IF WordAt(2) \in {Unset, "methods"} THEN Parsed("workspace-methods", <<>>)
    ELSE IF WordAt(2) = "app" THEN Call("workspace-app-call", 3)
    ELSE IF WordAt(2) = "call" THEN Call("workspace-call", 3) ELSE Call("workspace-call", 2)
Commanded(name) ==
    IF name \in {Unset, "help"} THEN Help
    ELSE IF name \in {"fetch", "neofetch"} THEN Parsed("fetch", <<>>)
    ELSE IF name \notin DOMAIN Shapes THEN Fails
    ELSE IF \E s \in Shapes[name] : WordAt(2) \in s.names THEN Shaped(CHOOSE s \in Shapes[name] : WordAt(2) \in s.names)
    ELSE IF name = "app" THEN AppCommand ELSE IF name = "workspace" THEN WorkspaceCall ELSE Fails
Decide ==
    /\ index > Len(argv) /\ command = None /\ command' = Commanded(WordAt(1))
    /\ UNCHANGED <<argv, index, settings, words>>

LineNext ==
    \/ Empty \/ AskHelp \/ TakeNext \/ TakeInline \/ Switch \/ Ends \/ Unknown \/ Positional \/ Decide

LineSpec == LineInit /\ [][LineNext]_lineVars
-----------------------------------------------------------------------------
(* What was written: a definition without an order.                        *)

IsValue == LET v[i \in 1 .. Len(argv)] == i > 1 /\ TakesValue(argv[i - 1]) /\ ~v[i - 1] IN v
Ending == {i \in DOMAIN argv : argv[i] = End /\ ~IsValue[i]}
Written == {i \in DOMAIN argv : ~IsValue[i] /\ \A e \in Ending : i < e}
WordsWritten == {i \in Written : argv[i].option = "" /\ argv[i].text # ""}
                \cup {i \in DOMAIN argv : \E e \in Ending : e < i /\ \A f \in Ending : e <= f}
ValueOf(i) == IF argv[i].option \in Switches THEN argv[i].option \notin Off
              ELSE IF TakesValue(argv[i]) THEN argv[i + 1].text ELSE argv[i].inline
About(i, n) ==
    \/ argv[i].option \in Valued /\ n \in Sets(argv[i].option)
    \/ argv[i].option \in Switches /\ n = Switched(argv[i].option)

\* Of a line that is understood, every setting is what the last option for it
\* says, wherever that stands between the words, or its default; nothing is both
\* an option and a value.
LastOptionCounts ==
    command.type \notin {"none", "help", "error"} =>
        \A n \in Names \ Collected :
            LET by == {i \in Written : About(i, n)} IN
            Setting(n) = IF by = {} THEN Default(n)
                          ELSE LET i == CHOOSE i \in by : \A j \in by : j <= i IN Stored(argv[i].option, ValueOf(i))

\* Every word that is not a value names the command or is given to it, in order;
\* of the rest, no command sees anything.
WordsAreKept ==
    command.type \notin {"none", "help", "error"} =>
        /\ Len(words) = Cardinality(WordsWritten)
        /\ \A k \in DOMAIN words : \E i \in WordsWritten :
             words[k] = argv[i].text /\ Cardinality({j \in WordsWritten : j <= i}) = k

\* Help is shown only for a line without a command, or one that asks for it.
HelpIsAsked ==
    command = Help => (words = <<>> \/ words[1] \in {"", "help"}) \/ \E i \in DOMAIN argv : argv[i] = Option("help")

\* No command goes on without what it works on; only a value given as "--option="
\* may be empty.
NothingIsMissing ==
    \A k \in DOMAIN command.args :
        /\ command.args[k] # Unset
        /\ command.args[k] = "" => \E i \in DOMAIN argv : argv[i].inline = ""

LineIsSound == LastOptionCounts /\ WordsAreKept /\ HelpIsAsked /\ NothingIsMissing
=============================================================================
