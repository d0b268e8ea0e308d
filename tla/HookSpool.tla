------------------------------ MODULE HookSpool ------------------------------
(***************************************************************************)
(* The events of Codex hooks on their way into the bridge: a process per   *)
(* event (apps/discord-bridge/src/hook-cli.ts) that leaves a file in a     *)
(* directory (stop-hook-spool.ts), and the drain of the bridge that reads  *)
(* the files, marks them in the state and archives them.                   *)
(***************************************************************************)
EXTENDS Integers, Sequences, FiniteSets, SequencesExt

CONSTANTS
    Inputs,     \* what the hook processes are given: [name, thread, turn, tool, from, whole] records
    Main,       \* the operator's main thread; a bound of the model:
    MaxTroubles \* failing calls, deaths of the bridge and saves by its other parts

VARIABLES
    hook,      \* what the process of each input has done
    answered,  \* inputs whose Codex was told to continue
    pending,   \* the files of the directory: [id, n], n the input, 0 if nobody can read it
    order,     \* the names of the files in the order of their hashes
    drain,     \* [names, files, at], and what is done about the first of the files
    due,       \* a timer or a start of the bridge will drain
    memory,    \* [ids, seen]: marked events, and the input last seen of each thread
    disk,      \* the memory that was saved
    wake,      \* a wake waits for the main thread
    archived,  \* the archives: <<where, file>>
    times,     \* how often the events of a name were handled
    up,
    trouble    \* [faults, saves, deaths] so far

spoolVars == <<hook, answered, pending, order, drain, due, memory, disk, wake, archived, times, up, trouble>>

Unset == "-"
\* The events that Codex waits for an answer to.
Continues == {"SessionStart", "UserPromptSubmit", "Stop"}
Known == Continues \cup {"PreToolUse", "PermissionRequest", "PostToolUse"}

N == DOMAIN Inputs
\* Equal events have equal names: those of a turn differ by tool and use only,
\* the others by where they come from.
hookEventId(e) ==
    [name |-> e.name, thread |-> e.thread, turn |-> e.turn, tool |-> IF e.turn = Unset THEN Unset ELSE e.tool,
     from |-> IF e.turn = Unset THEN e.from ELSE Unset]
Id(n) == hookEventId(Inputs[n])
Old == [name |-> Unset, thread |-> Unset, turn |-> Unset, tool |-> Unset, from |-> Unset]
\* An input that is not read, or of another kind, leaves no file.
Refuses(n) == ~Inputs[n].whole \/ Inputs[n].name \notin Known \/ Inputs[n].thread = Unset
Ids == {Id(n) : n \in {n \in N : ~Refuses(n)}} \cup {Old}
Threads == {Inputs[n].thread : n \in N}
Fresh == [ids |-> {}, seen |-> [t \in Threads |-> 0]]
Idle == [names |-> <<>>, files |-> <<>>, at |-> "idle", held |-> FALSE]

SpoolTypeOK ==
    /\ hook \in [N -> {"no", "written", "published", "failed"}] /\ answered \subseteq N
    /\ \A f \in pending : f.id \in Ids /\ f.n \in 0 .. Len(Inputs)
    /\ drain.at \in {"idle", "names", "files", "handling", "handled", "marked", "saved", "refused"} /\ due \in BOOLEAN /\ up \in BOOLEAN /\ wake \in BOOLEAN
    /\ \A m \in {memory, disk} : m.ids \subseteq Ids /\ m.seen \in [Threads -> 0 .. Len(Inputs)]

SpoolInit ==
    /\ hook = [n \in N |-> "no"] /\ answered = {}
    /\ pending \in {{}, {[id |-> Old, n |-> 0]}}
    /\ order \in {s \in [1 .. Cardinality(Ids) -> Ids] : IsInjective(s)}
    /\ drain = Idle /\ due = FALSE /\ memory = Fresh /\ disk = Fresh /\ wake = TRUE
    /\ archived = {} /\ times = [i \in Ids |-> 0] /\ up = FALSE /\ trouble = [faults |-> 0, saves |-> 0, deaths |-> 0]

Trouble(kind) == trouble.faults + trouble.saves + trouble.deaths < MaxTroubles /\ trouble' = [trouble EXCEPT ![kind] = @ + 1]
Fault == Trouble("faults")

-----------------------------------------------------------------------------
(* The process of a hook.  Whatever fails, Codex goes on, if it can be told *)
(* which event this was.                                                   *)

Answer(n) == answered' = IF Inputs[n].name \in Continues THEN answered \cup {n} ELSE answered

WriteTemp(n) ==
    /\ hook[n] = "no" /\ UNCHANGED <<pending, order, drain, due, memory, disk, wake, archived, times, up, trouble>>
    /\ \/ ~Refuses(n) /\ hook' = [hook EXCEPT ![n] = "written"] /\ UNCHANGED answered
       \/ Refuses(n) /\ hook' = [hook EXCEPT ![n] = "failed"] /\ IF Inputs[n].whole THEN Answer(n) ELSE UNCHANGED answered
\* It writes beside the files that are read.  The rename takes the place of a file of the same name; the bridge watches it.
Publish(n) ==
    /\ hook[n] = "written" /\ hook' = [hook EXCEPT ![n] = "published"] /\ Answer(n)
    /\ pending' = {f \in pending : f.id # Id(n)} \cup {[id |-> Id(n), n |-> n]}
    /\ due' = (up \/ due) /\ UNCHANGED <<order, drain, memory, disk, wake, archived, times, up, trouble>>
SpoolFails(n) ==
    /\ hook[n] = "written" /\ hook' = [hook EXCEPT ![n] = "failed"] /\ Answer(n) /\ Fault
    /\ UNCHANGED <<pending, order, drain, due, memory, disk, wake, archived, times, up>>
runHookEvent == \E n \in N : WriteTemp(n) \/ Publish(n) \/ SpoolFails(n)

-----------------------------------------------------------------------------
(* The drain: one at a time.                                               *)

hookVars == <<hook, answered, order>>

Start == ~up /\ up' = TRUE /\ due' = TRUE /\ memory' = disk /\ UNCHANGED <<hookVars, pending, drain, disk, wake, archived, times, trouble>>
Die ==
    /\ up /\ Trouble("deaths")
    /\ up' = FALSE /\ due' = FALSE /\ drain' = Idle /\ memory' = Fresh /\ UNCHANGED <<hookVars, pending, disk, wake, archived, times>>
\* Another part of the bridge saves the state, which makes new lists: what the
\* drain holds is no longer the list of the state.
OtherSave ==
    /\ up /\ drain.at \in {"handling", "handled"} /\ Trouble("saves")
    /\ disk' = memory /\ drain' = [drain EXCEPT !.held = FALSE] /\ UNCHANGED <<hookVars, pending, due, memory, wake, archived, times, up>>

Bridge == up /\ UNCHANGED <<hookVars, up>>

ListFiles ==
    /\ Bridge /\ due /\ drain.at \in {"idle", "refused"} /\ due' = FALSE
    /\ drain' = [Idle EXCEPT !.names = SelectSeq(order, LAMBDA i : \E f \in pending : f.id = i), !.at = "names"]
    /\ UNCHANGED <<pending, memory, disk, wake, archived, times, trouble>>
\* All are read before the first is handled.
ReadFile ==
    /\ Bridge /\ drain.at = "names" /\ drain.names # <<>>
    /\ drain' = [drain EXCEPT !.names = Tail(@), !.files = Append(@, CHOOSE f \in pending : f.id = Head(drain.names))]
    /\ UNCHANGED <<pending, due, memory, disk, wake, archived, times, trouble>>
AllRead ==
    /\ Bridge /\ drain.at = "names" /\ drain.names = <<>> /\ drain' = [drain EXCEPT !.at = "files"]
    /\ UNCHANGED <<pending, due, memory, disk, wake, archived, times, trouble>>

File == Head(drain.files)
Event == Inputs[File.n]
\* The file that now has the name goes to the archive, whatever it holds.
archive(where) ==
    /\ archived' = archived \cup {<<where, f>> : f \in {f \in pending : f.id = File.id}}
    /\ pending' = {f \in pending : f.id # File.id}
    /\ drain' = [drain EXCEPT !.files = Tail(@), !.at = "files", !.held = FALSE]
Now(at) == drain' = [drain EXCEPT !.at = at]

Discard ==
    /\ Bridge /\ drain.at = "files" /\ drain.files # <<>>
    /\ \/ File.n = 0 /\ archive("failed")
       \/ File.n # 0 /\ File.id \in memory.ids /\ archive("ignored")
    /\ UNCHANGED <<due, memory, disk, wake, times, trouble>>
\* An event of a thread that is not the main one tells what its thread does, even
\* if a later one of the thread has been handled.
recordObservedThreadEvent ==
    /\ Bridge /\ drain.at = "files" /\ drain.files # <<>> /\ File.n # 0 /\ File.id \notin memory.ids
    /\ drain' = [drain EXCEPT !.at = "handling", !.held = TRUE]
    /\ memory' = IF Event.thread = Main THEN memory ELSE [memory EXCEPT !.seen[Event.thread] = File.n]
    /\ UNCHANGED <<pending, due, disk, wake, archived, times, trouble>>
\* A Stop of the main thread stays until nobody waits for it.
handleWorkspaceHookEvent ==
    /\ Bridge /\ drain.at = "handling" /\ UNCHANGED <<pending, memory, disk, archived, trouble>>
    /\ \/ (Event.name # "Stop" \/ Event.thread # Main \/ ~wake) /\ Now("handled") /\ times' = [times EXCEPT ![File.id] = @ + 1] /\ UNCHANGED <<wake, due>>
       \/ Event.name = "Stop" /\ Event.thread = Main /\ wake /\ wake' = FALSE /\ Now("handled") /\ times' = [times EXCEPT ![File.id] = @ + 1] /\ UNCHANGED due
       \/ /\ Event.name = "Stop" /\ Event.thread = Main /\ wake
          /\ drain' = [drain EXCEPT !.files = Tail(@), !.at = "files", !.held = FALSE] /\ due' = TRUE /\ UNCHANGED <<wake, times>>
Mark ==
    /\ Bridge /\ drain.at = "handled" /\ Now("marked")
    /\ memory' = IF drain.held THEN [memory EXCEPT !.ids = @ \cup {File.id}] ELSE memory
    /\ UNCHANGED <<pending, due, disk, wake, archived, times, trouble>>
persist == Bridge /\ drain.at = "marked" /\ Now("saved") /\ disk' = memory /\ UNCHANGED <<pending, due, memory, wake, archived, times, trouble>>
Archive == Bridge /\ drain.at = "saved" /\ archive("processed") /\ UNCHANGED <<due, memory, disk, wake, times, trouble>>
Finish == Bridge /\ drain.at = "files" /\ drain.files = <<>> /\ drain' = Idle /\ UNCHANGED <<pending, due, memory, disk, wake, archived, times, trouble>>
\* What fails ends the drain; the next event, or start, begins another.
DrainFails ==
    /\ Bridge /\ drain.at \in {"handling", "marked", "saved"} /\ Fault /\ drain' = [Idle EXCEPT !.at = "refused"]
    /\ UNCHANGED <<pending, due, memory, disk, wake, archived, times>>

drainOnce == ListFiles \/ ReadFile \/ AllRead \/ Discard \/ recordObservedThreadEvent \/ handleWorkspaceHookEvent \/ Mark \/ persist \/ Archive \/ Finish \/ DrainFails

SpoolNext == runHookEvent \/ Start \/ Die \/ OtherSave \/ drainOnce

SpoolSpec == SpoolInit /\ [][SpoolNext]_spoolVars
-----------------------------------------------------------------------------
(* Properties.                                                             *)

\* Every event whose file was put in place is handled, or still there, or gave its
\* place to one that equals it.
EventsAreHandled ==
    \A n \in N : hook[n] = "published" => times[Id(n)] > 0 \/ \E f \in pending : f.id = Id(n)
\* Equal events are handled once, but for a crash, a failing call or a save in between.
HandledOnce == \A i \in Ids : times[i] <= 1 + trouble.faults + trouble.saves + trouble.deaths
\* While no drain failed, no file waits for the next event.
NoneIsStranded == up /\ drain.at = "idle" /\ pending # {} => due
\* When a file is archived, the state that is saved knows its thread: a crash
\* forgets none.
SeenIsSaved ==
    trouble.faults = 0 =>
        \A a \in archived : a[2].n # 0 /\ a[2].id.thread # Main => disk.seen[a[2].id.thread] # 0

SpoolIsSound == EventsAreHandled /\ HandledOnce /\ NoneIsStranded /\ SeenIsSaved
=============================================================================
