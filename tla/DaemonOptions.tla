---------------------------- MODULE DaemonOptions ----------------------------
(***************************************************************************)
(* How the three services read their command lines and the environment:   *)
(* the Discord bridge (apps/discord-bridge/src/config.ts), the voice       *)
(* gateway (apps/workspace-voice-gateway/src/config.ts) and the flow       *)
(* backend (apps/workspace-backend/src/flow/config.ts).  One step reads    *)
(* one argument; then the settings are looked up, flags before the         *)
(* environment before the defaults.                                        *)
(***************************************************************************)
EXTENDS Integers, Sequences, FiniteSets, TLC

CONSTANTS
    Services,     \* what is started: [program, argv, env], env a function from names to values, none blank
    FlagNumerals  \* the texts that are numbers

VARIABLES
    service, next, flags, taken, outcome, result

optionVars == <<service, next, flags, taken, outcome, result>>

\* A text is the sequence of its parts between "=": <<>> is blank, and so is a
\* value that is all spaces.
Blank == <<>>
Given == <<"given">>  \* a flag without a value
Unset == <<"unset">>
\* An argument: a flag with or without "=value", or a text.
Flag(f) == [flag |-> f, inline |-> Unset, text |-> <<"--", f>>]
FlagIs(f, v) == [Flag(f) EXCEPT !.inline = v]
Text(v) == [flag |-> "", inline |-> Unset, text |-> v]

UpToSecond(v) == IF Len(v) > 1 THEN <<v[1]>> ELSE v

Program == service.program
argv == service.argv
Env(e) == IF e \in DOMAIN service.env THEN service.env[e] ELSE Unset

OptionTypeOK ==
    /\ Program \in {"bridge", "voice", "flow"} /\ next \in 1 .. Len(argv) + 1
    /\ \A f \in DOMAIN flags : flags[f] = Given \/ flags[f] \in {argv[i].text : i \in DOMAIN argv} \cup {argv[i].inline : i \in DOMAIN argv}
                              \/ \E i \in DOMAIN argv : flags[f] = UpToSecond(argv[i].inline)
    /\ taken \subseteq DOMAIN argv /\ outcome \in {"reading", "error", "help", "ready"}

OptionsStart(services) ==
    /\ service \in services /\ taken = {} /\ result = <<>>
    /\ flags = <<>>
    \* The flow backend is given a command first.
    /\ IF service.program # "flow" THEN next = 1 /\ outcome = "reading"
       ELSE IF service.argv = <<>> \/ (Len(service.argv) > 0 /\ service.argv[1] \in {Text(Blank), Text(<<"help">>), Flag("help")})
       THEN next = 1 /\ outcome = "help"
       ELSE next = 2 /\ outcome = "reading"
OptionInit == OptionsStart(Services)

-----------------------------------------------------------------------------
(* Arguments.                                                              *)

Reading == outcome = "reading" /\ next <= Len(argv)
Arg == argv[next]
HasNext == next < Len(argv)
Fail == outcome' = "error" /\ UNCHANGED <<service, next, flags, taken, result>>
Put(f, v, n) ==
    /\ flags' = (f :> v) @@ flags /\ next' = next + n /\ taken' = IF n = 2 THEN taken \cup {next + 1} ELSE taken
    /\ UNCHANGED <<service, outcome, result>>

\* The bridge: one text is the directory; split("=", 2) drops what is behind a second "=".
BooleanFlags == {"debug", "help", "h", "local-app-server"}
\* Mutant: a flag is taken for the value of the one before it.
AnyText(a) == a.text # Blank
\* A value is a text behind a flag.
IsValue(a) == a.flag = "" /\ a.text # Blank
BridgeFlag ==
    /\ Reading /\ Program = "bridge"
    /\ IF Arg.flag = ""
       THEN IF "positional-dir" \in DOMAIN flags THEN Fail ELSE Put("positional-dir", Arg.text, 1)
       ELSE IF Arg.inline # Unset THEN Put(Arg.flag, UpToSecond(Arg.inline), 1)
       ELSE IF Arg.flag \notin BooleanFlags /\ HasNext /\ IsValue(argv[next + 1])
       THEN Put(Arg.flag, argv[next + 1].text, 2)
       ELSE Put(Arg.flag, Given, 1)

\* The voice gateway: no text stands alone, and every flag takes the text behind it.
VoiceFlag ==
    /\ Reading /\ Program = "voice"
    /\ IF Arg.flag = "" THEN Fail
       ELSE IF Arg.inline # Unset THEN Put(Arg.flag, Arg.inline, 1)
       ELSE IF HasNext /\ IsValue(argv[next + 1]) THEN Put(Arg.flag, argv[next + 1].text, 2)
       ELSE Put(Arg.flag, Given, 1)

\* The flow backend knows its flags; some of them also with "=".  A value is
\* whatever comes next, and a text is an id for the commands that take one,
\* unless there is one already.
command == argv[1].text[1]
FlowFlags == {"cwd", "data-dir", "host", "port", "secret", "executor", "bun", "flow-runner", "event"}
InlineFlags == {"workspace-backend-url", "event-id", "run-id", "status", "limit", "type"}
Executors == {Blank, <<"direct">>, <<"systemd-run">>}
Unfilled(f) == ~(f \in DOMAIN flags /\ flags[f] # Blank)
Acceptable == argv[next + 1].text # Blank /\ (Arg.flag = "executor" => argv[next + 1].text \in Executors)
FlowFlag ==
    /\ Reading /\ Program = "flow"
    /\ IF Arg = Text(Blank) THEN next' = next + 1 /\ UNCHANGED <<service, flags, taken, outcome, result>>
       ELSE IF Arg.flag = "wait" /\ Arg.inline = Unset THEN Put("wait", Given, 1)
       ELSE IF Arg.flag \in FlowFlags \cup InlineFlags /\ Arg.inline = Unset
       THEN IF HasNext /\ Acceptable THEN Put(Arg.flag, argv[next + 1].text, 2) ELSE Fail
       ELSE IF Arg.flag \in InlineFlags THEN Put(Arg.flag, Arg.inline, 1)
       ELSE IF Arg.flag = "" /\ command \in {"show-event", "replay-event"} /\ Unfilled("event-id") THEN Put("event-id", Arg.text, 1)
       ELSE IF Arg.flag = "" /\ command = "show-run" /\ Unfilled("run-id") THEN Put("run-id", Arg.text, 1)
       ELSE Fail

-----------------------------------------------------------------------------
(* Settings.                                                               *)

\* stringFlag and stringOption: a flag given without a value, or with a blank
\* one, is none.
FlagValue(f) == IF f \in DOMAIN flags /\ flags[f] \notin {Given, Blank} THEN flags[f] ELSE Unset
FromFlag(f) == [from |-> "flag", name |-> f]
FromEnv(e) == [from |-> "env", name |-> e]
Value(s) == IF s.from = "flag" THEN FlagValue(s.name) ELSE Env(s.name)
\* The first source that has one.
First(sources, default) ==
    IF \E k \in DOMAIN sources : Value(sources[k]) # Unset
    THEN Value(sources[CHOOSE k \in DOMAIN sources : Value(sources[k]) # Unset /\ \A j \in 1 .. k - 1 : Value(sources[j]) = Unset])
    ELSE default
Yes == {<<"1">>, <<"true">>}
YesOrOn == Yes \cup {<<"yes">>, <<"on">>}
IsGiven(f) == f \in DOMAIN flags /\ flags[f] = Given

\* What a setting is looked up in: the sources of the strings of each program.
Sources ==
    [bridge |->
       "token" :> <<FromFlag("token"), FromEnv("BOT_TOKEN")>>
       @@ "users" :> <<FromFlag("allowed-user-ids"), FromEnv("ALLOWED_USER_IDS")>>
       @@ "explicitUrl" :> <<FromFlag("app-server-url"), FromFlag("url")>>
       @@ "url" :> <<FromFlag("app-server-url"), FromFlag("url"), FromEnv("APP_SERVER_WS_URL")>>
       @@ "permissions" :> <<FromFlag("permissions-profile"), FromEnv("PERMISSIONS_PROFILE")>>
       @@ "sandbox" :> <<FromFlag("sandbox"), FromEnv("SANDBOX")>>
       @@ "cwd" :> <<FromFlag("dir"), FromFlag("positional-dir"), FromEnv("DIR"), FromFlag("cwd"), FromEnv("CWD")>>,
     voice |->
       "token" :> <<FromFlag("discord-token"), FromEnv("VOICE_TOKEN"), FromEnv("BOT_TOKEN")>>
       @@ "channel" :> <<FromFlag("discord-voice-channel-id"), FromFlag("discord-channel-id"), FromEnv("VOICE_CHANNEL_ID")>>
       @@ "effort" :> <<FromFlag("announcer-reasoning-effort"), FromEnv("EFFORT")>>,
     flow |->
       "secret" :> <<FromFlag("secret"), FromEnv("SECRET")>>
       @@ "executor" :> <<FromFlag("executor"), FromEnv("EXECUTOR")>>
       @@ "cwd" :> <<FromFlag("cwd"), FromEnv("CWD")>>]
Allowed ==
    "sandbox" :> {Unset, <<"read-only">>, <<"workspace-write">>, <<"danger-full-access">>}
    @@ "effort" :> {Unset, <<"none">>, <<"minimal">>, <<"low">>, <<"medium">>, <<"high">>, <<"xhigh">>}
    @@ "executor" :> Executors \cup {Unset}
Strings == [n \in DOMAIN Sources[Program] |-> First(Sources[Program][n], Unset)]

\* booleanFlag; and booleanValue, whose negative flag is the stronger one.
Local == IsGiven("local-app-server") \/ FlagValue("local-app-server") \in YesOrOn
Bool(f, negative, e, default) ==
    IF negative \in DOMAIN flags THEN FALSE
    ELSE IF f \in DOMAIN flags THEN flags[f] \in Yes \cup {Given}
    ELSE IF Env(e) = Unset THEN default ELSE Env(e) \in Yes
\* numberOption
NumberText == IF "max-queued-announcements" \in DOMAIN flags THEN flags["max-queued-announcements"] ELSE Env("MAX_QUEUE")
BadNumber == NumberText \notin {Unset, Given, Blank} \cup FlagNumerals

InvalidBridge ==
    \/ Strings["token"] = Unset \/ Strings["users"] = Unset
    \/ Local /\ Strings["explicitUrl"] # Unset
    \/ Strings["sandbox"] # Unset /\ Strings["permissions"] # Unset
    \/ "positional-dir" \in DOMAIN flags /\ {"dir", "cwd"} \cap DOMAIN flags # {}
DryRun == Bool("dry-run", "", "DRY_RUN", FALSE)
InvalidVoice == BadNumber \/ (~DryRun /\ Unset \in {Strings["token"], Strings["channel"]})
NeedsId(f) == f \notin DOMAIN flags
InvalidFlow ==
    \/ command \notin {"serve", "dispatch", "list-events", "events", "show-event", "event", "replay-event", "replay",
                       "list-runs", "runs", "show-run", "run"}
    \/ command = "dispatch" /\ Unfilled("event")
    \/ command \in {"show-event", "event", "replay-event", "replay"} /\ NeedsId("event-id")
    \/ command \in {"show-run", "run"} /\ NeedsId("run-id")
Invalid ==
    \/ \E n \in DOMAIN Strings : n \in DOMAIN Allowed /\ Strings[n] \notin Allowed[n]
    \/ Program = "bridge" /\ InvalidBridge
    \/ Program = "voice" /\ InvalidVoice
    \/ Program = "flow" /\ InvalidFlow

Settle ==
    /\ outcome = "reading" /\ next > Len(argv)
    /\ outcome' = IF Program # "flow" /\ {"help", "h"} \cap DOMAIN flags # {} THEN "help" ELSE IF Invalid THEN "error" ELSE "ready"
    /\ result' = IF outcome' # "ready" THEN result
                 ELSE IF Program = "bridge" /\ Local THEN [Strings EXCEPT !["url"] = Unset] ELSE Strings
    /\ UNCHANGED <<service, next, flags, taken>>

OptionNext == BridgeFlag \/ VoiceFlag \/ FlowFlag \/ Settle

OptionSpec == OptionInit /\ [][OptionNext]_optionVars
-----------------------------------------------------------------------------
(* Properties.                                                             *)

\* The position at which a flag is given last, not as a value of another.
Last(f) == LET at == {i \in DOMAIN argv : argv[i].flag = f /\ i \notin taken} IN
           IF at = {} THEN 0 ELSE CHOOSE i \in at : \A j \in at : j <= i

\* A service that starts has used every argument: as a flag, a flag's value, the
\* directory, an id or the command; and in the bridge and the gateway no flag is
\* ever taken for the value of another one.
EveryArgumentIsUsed ==
    outcome = "ready" =>
        \A i \in DOMAIN argv :
            /\ argv[i].flag # "" /\ i \in taken => Program = "flow"
            /\ argv[i].flag = "" /\ i \notin taken =>
                 \/ Program = "flow" /\ (i = 1 \/ argv[i].text = Blank)
                 \/ \E f \in {"positional-dir", "event-id", "run-id"} : f \in DOMAIN flags

\* What is said on the command line is stronger than the environment, unless it is
\* the --cwd of the bridge, which gives way to the variable for the directory.
FlagBeatsEnvironment ==
    outcome = "ready" =>
        \A n \in DOMAIN result : \A k \in DOMAIN Sources[Program][n] :
            LET s == Sources[Program][n][k] IN
            s.from = "flag" /\ Value(s) # Unset =>
                \/ \E j \in DOMAIN Sources[Program][n] : Sources[Program][n][j].from = "flag" /\ result[n] = Value(Sources[Program][n][j])
                \/ s.name = "cwd" /\ Program = "bridge" /\ Env("DIR") # Unset

\* The value of a setting is one that was written, the last one of its flag.
LastIsMeant ==
    outcome = "ready" =>
        \A f \in DOMAIN flags : Last(f) > 0 /\ argv[Last(f)].inline = Unset /\ flags[f] # Given /\ f \notin {"event-id", "run-id"} =>
            flags[f] = argv[Last(f) + 1].text

\* A bridge that runs an app-server of its own talks to no other, and knows one
\* rule for its sandbox.
OneAppServer ==
    outcome = "ready" /\ Program = "bridge" =>
        /\ Local => result["url"] = Unset /\ result["explicitUrl"] = Unset
        /\ result["sandbox"] = Unset \/ result["permissions"] = Unset

OptionsAreSound == EveryArgumentIsUsed /\ FlagBeatsEnvironment /\ LastIsMeant /\ OneAppServer
=============================================================================
