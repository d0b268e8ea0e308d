----------------------------- MODULE HookInstall -----------------------------
(***************************************************************************)
(* `codex-discord-bridge hook install` (apps/discord-bridge/src/           *)
(* hook-cli.ts): it turns the hooks of Codex on in config.toml and puts    *)
(* its own handler before those that hooks.json has.  Installs may run     *)
(* beside each other, end in between and be repeated; the user and other   *)
(* tools edit the files between them.                                      *)
(***************************************************************************)
EXTENDS Integers, Sequences, FiniteSets, SequencesExt

CONSTANTS
    Installs,     \* processes
    CommandLines, \* their arguments: sequences of [flag, inline] records
    ConfigFiles,  \* config.toml: sequences of the kinds of its lines
    HookFiles,    \* the groups of an event in hooks.json: sequences of sequences of handlers
    MaxEdits      \* by others: a bound of the model

VARIABLES
    config,  \* config.toml
    groups,  \* the groups of an event; all six are treated alike
    torn,    \* hooks.json cannot be parsed
    install, \* what each install does, and the files that it read
    others,  \* the handlers of others: those that the files had, and that were added while no install wrote
    edits

installVars == <<config, groups, torn, install, others, edits>>

\* The handlers that an install replaces: those it wrote, with or without bunx, and
\* those of versions before it.  It does not know a command that it was told.
OwnHandlers == {"bridge", "bunx", "stopHook"}
Told == "told"
Headers == {"features", "noted", "table"}
Lines == Headers \cup {"on", "off", "key"}
Handlers(gs) == FlattenSeq(gs)
Count(s, h) == Cardinality({k \in DOMAIN s : s[k] = h})

InstallTypeOK ==
    /\ \A k \in DOMAIN config : config[k] \in Lines
    /\ \A k \in DOMAIN Handlers(groups) : Handlers(groups)[k] \in OwnHandlers \cup {Told, "user"}
    /\ torn \in BOOLEAN /\ edits \in 0 .. MaxEdits /\ others \in 0 .. 10
    /\ \A p \in Installs : install[p].at \in {"no", "parsed", "half", "read", "configured", "written", "ended", "refused"}

InstallStart(lines, files) ==
    /\ config \in lines /\ groups \in files /\ torn \in BOOLEAN /\ edits = 0
    /\ others = Count(Handlers(groups), "user")
    /\ install = [p \in Installs |-> [at |-> "no", command |-> "bridge", config |-> <<>>, groups |-> <<>>, torn |-> FALSE]]
InstallInit == InstallStart(ConfigFiles, HookFiles)

Now(p, at) == install' = [install EXCEPT ![p].at = at]

-----------------------------------------------------------------------------
(* The arguments.                                                          *)

TakesValue == {"command", "bunx-package", "config-path", "hooks-path"}
\* What is known so far, and the flag that waits for its value.
NoneGiven == [set |-> {}, waits |-> "", bad |-> FALSE]
Given(o, f, value) ==
    CASE f = "command" -> [o EXCEPT !.set = IF value = "" THEN @ \ {f} ELSE @ \cup {f}, !.waits = ""]
      [] f = "bunx-package" -> [o EXCEPT !.set = @ \cup {"bunx"}, !.waits = ""]
      [] OTHER -> [o EXCEPT !.waits = ""]
\* A flag that waits takes the next argument, a flag as well.
Argument(o, a) ==
    CASE o.waits # "" -> IF a.flag = "" /\ a.inline = "" THEN [o EXCEPT !.bad = TRUE] ELSE Given(o, o.waits, "v")
      [] o.waits = "" /\ a.flag \in TakesValue -> IF a.inline = "unset" THEN [o EXCEPT !.waits = a.flag] ELSE Given(o, a.flag, a.inline)
      [] o.waits = "" /\ a.flag \in {"dry-run", "bunx"} /\ a.inline = "unset" -> [o EXCEPT !.set = @ \cup {a.flag}]
      [] o.waits = "" /\ a.flag = "" /\ a.inline = "" -> o
      [] OTHER -> [o EXCEPT !.bad = TRUE]
parseInstallArgs(argv) == FoldLeft(Argument, NoneGiven, argv)

hookCommand(set) == IF "command" \in set THEN Told ELSE IF "bunx" \in set THEN "bunx" ELSE "bridge"

Parse(p, argv) ==
    LET o == parseInstallArgs(argv)
        refused == o.bad \/ o.waits # "" \/ {"command", "bunx"} \subseteq o.set IN
    /\ install[p].at = "no" /\ UNCHANGED <<config, groups, torn, others, edits>>
    /\ install' = [install EXCEPT ![p].at = IF refused THEN "refused" ELSE IF "dry-run" \in o.set THEN "ended" ELSE "parsed",
                                  ![p].command = hookCommand(o.set)]

-----------------------------------------------------------------------------
(* The files: both are read before one is written.                         *)

\* The lines of the first table "[features]", whose header has no comment.
Header == "features"
enableHooksFeature(lines) ==
    LET at == SelectInSeq(lines, LAMBDA l : l = Header)
        End(k) == \A j \in at + 1 .. k - 1 : lines[j] \notin Headers
        flags == {k \in at + 1 .. Len(lines) : End(k) /\ lines[k] \in {"on", "off"}} IN
    IF at = 0 THEN lines \o <<"features", "on">>
    ELSE IF flags = {} THEN InsertAt(lines, at + 1, "on")
    ELSE [lines EXCEPT ![CHOOSE k \in flags : \A j \in flags : k <= j] = "on"]

\* The own handlers go, and the groups that have none then.
Without(gs, handlers) ==
    SelectSeq([k \in DOMAIN gs |-> SelectSeq(gs[k], LAMBDA h : h \notin handlers)], LAMBDA g : g # <<>>)
upsertStopHookConfig(gs, command) == <<<<command>>>> \o Without(gs, OwnHandlers)

ReadConfig(p) ==
    /\ install[p].at = "parsed" /\ install' = [install EXCEPT ![p].at = "half", ![p].config = config]
    /\ UNCHANGED <<config, groups, torn, others, edits>>
ReadHooks(p) ==
    /\ install[p].at = "half" /\ install' = [install EXCEPT ![p].at = "read", ![p].groups = groups, ![p].torn = torn]
    /\ UNCHANGED <<config, groups, torn, others, edits>>
WriteConfig(p) ==
    /\ install[p].at = "read" /\ Now(p, "configured") /\ config' = enableHooksFeature(install[p].config)
    /\ UNCHANGED <<groups, torn, others, edits>>
\* Only now the text of hooks.json is looked at.
WriteHooks(p) ==
    /\ install[p].at = "configured" /\ UNCHANGED <<config, others, edits>>
    /\ \/ install[p].torn /\ Now(p, "refused") /\ UNCHANGED <<groups, torn>>
       \/ ~install[p].torn /\ Now(p, "written") /\ torn' = FALSE /\ groups' = upsertStopHookConfig(install[p].groups, install[p].command)
Killed(p) == install[p].at \in {"parsed", "half", "read", "configured"} /\ Now(p, "ended") /\ UNCHANGED <<config, groups, torn, others, edits>>

\* What is added between the reading and the writing of an install is lost.
Edit ==
    /\ edits < MaxEdits /\ edits' = edits + 1 /\ UNCHANGED install
    /\ \/ /\ groups' = Append(groups, <<"user">>) /\ torn' = FALSE /\ UNCHANGED config
          /\ others' = IF \E p \in Installs : install[p].at \in {"read", "configured"} THEN others ELSE others + 1
       \/ config' = [k \in DOMAIN config |-> IF config[k] = "on" THEN "off" ELSE config[k]] /\ UNCHANGED <<groups, torn, others>>

InstallNext ==
    \/ \E p \in Installs, argv \in CommandLines : Parse(p, argv)
    \/ \E p \in Installs : ReadConfig(p) \/ ReadHooks(p) \/ WriteConfig(p) \/ WriteHooks(p) \/ Killed(p)
    \/ Edit

InstallSpec == InstallInit /\ [][InstallNext]_installVars
-----------------------------------------------------------------------------
(* Properties.                                                             *)

Settled == \A p \in Installs : install[p].at \notin {"half", "read", "configured"}
Wrote == {p \in Installs : install[p].at = "written"}

\* However many installs ran, and in whatever order their reads and writes came,
\* the hooks are on, unless somebody turned them off, in the one table of the features
\* (a second one makes Codex refuse the file), whose header bears no comment.
HooksAreOn ==
    Settled /\ Wrote # {} /\ edits = 0 /\ Count(config, "noted") = 0 =>
        Count(config, "features") = 1 /\ Count(config, "on") = 1 /\ Count(config, "off") = 0

\* One handler is the bridge's, before those of others; one it was told is there
\* once for every install that was told it.
OneOwnHandler ==
    Wrote # {} =>
        /\ Cardinality({k \in DOMAIN Handlers(groups) : Handlers(groups)[k] \in OwnHandlers}) <= 1
        /\ Count(Handlers(groups), Told) <= Cardinality({p \in Wrote : install[p].command = Told})
        /\ Head(Head(groups)) \in {install[p].command : p \in Wrote}

\* The handlers of others are kept.
OthersAreKept == Count(Handlers(groups), "user") >= others

HooksAreInstalled == HooksAreOn /\ OneOwnHandler /\ OthersAreKept
=============================================================================
