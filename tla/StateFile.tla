------------------------------ MODULE StateFile ------------------------------
(***************************************************************************)
(* The state file of the Discord bridge (apps/discord-bridge/src/state.ts):*)
(* the lists that a save cuts down, the write beside the file that a       *)
(* rename puts in its place, and what the next start makes of the file.    *)
(***************************************************************************)
EXTENDS Integers, Sequences, FiniteSets, SequencesExt

CONSTANTS
    Legacy,      \* records of files that other versions wrote
    Watched,     \* Codex threads that hook events tell of
    MaxHooks,    \* processedHookEventIds, more than MaxStops
    MaxStops,    \* processedStopHookEventIds, at least one
    MaxMessages, \* processedMessageIds, and deliveries
    MaxObserved, \* observedThreads; bounds of the model:
    MaxChanges,  \* of the state
    MaxRecords,  \* how many of them are of records, and how many are threads that were seen
    MaxLate,     \* of the changes come between the cut and the write of a save
    MaxStarts    \* of the bridge

VARIABLES
    memory, \* the state: [records, hooks, stops, messages, observed], and what it stands for
    disk,   \* the file, Empty if there is none
    image,  \* the text that is written beside it
    saving, \* "no", "trimmed", "writing"
    up,
    counts  \* changes and starts so far, and the changes between the cut and the write of a save

stateVars == <<memory, disk, image, saving, up, counts>>

Unset == "unset"

\* A record by what tells it from others and the fields that are of a list.
Record(type, tag, mode) == [type |-> type, tag |-> tag, mode |-> mode, whole |-> TRUE]
\* What the bridge writes into them.
Written ==
    {Record("session", Unset, m) : m \in {"new", "resumed", "operator", "delegated", "workspace"}}
    \cup {Record("queue", s, Unset) : s \in {"pending", "processing", "failed"}}
    \cup {Record("turn", Unset, o) : o \in {"discord", "external"}}
    \cup {Record("delivery", k, Unset) : k \in {"summary", "commentary", "final", "error"}}
    \cup {Record("delegation", s, m) : s \in {"active", "idle", "failed", "complete", "reported"}, m \in {"manual", Unset}}
    \cup {Record("wake", k, Unset) : k \in {"delegation", "group"}}
    \cup {Record("observed", Unset, s) : s \in {"starting", "active", "tool", "waiting", "idle"}}
    \cup {Record("folder", Unset, Unset)}

Empty == [records |-> {}, hooks |-> <<>>, stops |-> <<>>, messages |-> <<>>, observed |-> <<>>,
          marked |-> <<>>, marks |-> <<>>, seen |-> [t \in Watched |-> 0], back |-> FALSE]

StateTypeOK ==
    /\ saving \in {"no", "trimmed", "writing"} /\ up \in BOOLEAN /\ counts \in [changes : 0 .. MaxChanges, starts : 0 .. MaxStarts, late : 0 .. MaxChanges]
    /\ \A r \in memory.records : r \in Written \cup Legacy \/ r.mode \in {Unset, "external", "idle"}
    /\ \A k \in DOMAIN memory.hooks : memory.hooks[k] \in 1 .. MaxChanges

StateInit ==
    /\ memory = Empty /\ image = Empty /\ saving = "no" /\ up = FALSE /\ counts = [changes |-> 0, starts |-> 0, late |-> 0]
    /\ disk \in {Empty} \cup {[Empty EXCEPT !.records = {r}] : r \in Legacy}

-----------------------------------------------------------------------------
(* The bridge.  The lists do not depend on each other: a behaviour fills one *)
(* of them.                                                                *)

Changes ==
    /\ up /\ counts.changes < MaxChanges /\ (saving = "trimmed" => counts.late < MaxLate) /\ UNCHANGED <<disk, image, saving, up>>
    /\ counts' = [counts EXCEPT !.changes = @ + 1, !.late = IF saving = "trimmed" THEN @ + 1 ELSE @]
This == counts.changes + 1
\* A record is made or changed.
Put(r) ==
    /\ Changes /\ counts.changes < MaxRecords /\ memory = [Empty EXCEPT !.records = memory.records]
    /\ memory' = [memory EXCEPT !.records = {r}]
\* A hook event is marked; the marks of Stop are kept twice.
MarkHook(stop) ==
    /\ Changes /\ memory.records = {} /\ memory.messages = <<>> /\ memory.observed = <<>>
    /\ memory' = [memory EXCEPT !.hooks = Append(@, This), !.marked = Append(@, This),
                                !.stops = IF stop THEN Append(@, This) ELSE @, !.marks = IF stop THEN Append(@, This) ELSE @]
\* A message is done, and its answer delivered.
MarkMessage == Changes /\ counts.changes < MaxRecords + 1 /\ memory.records = {} /\ memory.hooks = <<>> /\ memory' = [memory EXCEPT !.messages = Append(@, This)]
\* A thread is seen at a time that may be before the one it was seen at last: the
\* events are not handled in their order.
See(t, at) ==
    /\ Changes /\ counts.changes < MaxRecords + 1 /\ memory.records = {} /\ memory.hooks = <<>> /\ memory.messages = <<>>
    /\ LET k == SelectInSeq(memory.observed, LAMBDA o : o.thread = t)
           o == [thread |-> t, seen |-> at] IN
       memory' = [memory EXCEPT !.observed = IF k = 0 THEN Append(@, o) ELSE [@ EXCEPT ![k] = o], !.seen[t] = at, !.back = @ \/ at < memory.seen[t]]

-----------------------------------------------------------------------------
(* Saving: one save at a time, each of the state of its moment.            *)

\* Mutant: the first ones are kept.
KeepFirst(s, n) == IF Len(s) <= n THEN s ELSE SubSeq(s, 1, n)
KeepLast(s, n) == IF Len(s) <= n THEN s ELSE SubSeq(s, Len(s) - n + 1, Len(s))
LatestSeen(s) ==
    LET sorted == SortSeq(s, LAMBDA a, b : a.seen > b.seen) IN
    SubSeq(sorted, 1, IF Len(sorted) < MaxObserved THEN Len(sorted) ELSE MaxObserved)

\* trimState changes the state itself.
trimState ==
    /\ up /\ saving = "no" /\ saving' = "trimmed"
    /\ memory' = [memory EXCEPT !.messages = KeepLast(@, MaxMessages), !.stops = KeepLast(@, MaxStops),
                                !.hooks = KeepLast(@, MaxHooks), !.observed = LatestSeen(@)]
    /\ UNCHANGED <<disk, image, up, counts>>
Write == up /\ saving = "trimmed" /\ saving' = "writing" /\ image' = memory /\ UNCHANGED <<memory, disk, up, counts>>
Rename == up /\ saving = "writing" /\ saving' = "no" /\ disk' = image /\ image' = Empty /\ UNCHANGED <<memory, up, counts>>
\* A half written image stays beside the file and is never read.
Crash ==
    /\ up /\ up' = FALSE /\ memory' = Empty /\ saving' = "no" /\ image' = Empty /\ UNCHANGED <<disk, counts>>

-----------------------------------------------------------------------------
(* Loading.                                                                *)

Kept(value, values, otherwise) == IF value \in values THEN value ELSE otherwise
Statuses(type) ==
    CASE type = "queue" -> {"pending", "processing", "failed"}
      [] type = "delivery" -> {"summary", "commentary", "final", "error"}
      [] type = "delegation" -> {"active", "idle", "failed", "complete", "reported"}
      [] type = "wake" -> {"delegation", "group"}
      [] OTHER -> {Unset}
\* Without a required field, or with a status nobody knows, the file is refused.
Readable(r) == r.whole /\ r.tag \in Statuses(r.type)
\* What is optional is forgotten unless it is known: "operator" is not.
Parsed(r) ==
    [r EXCEPT !.mode =
        CASE r.type = "session" -> Kept(@, {"new", "resumed", "workspace", "delegated"}, Unset)
          [] r.type = "turn" -> Kept(@, {"discord", "external"}, "external")
          [] r.type = "delegation" -> Kept(@, {"detached", "record_only", "wake_on_done", "wake_on_group", "manual"}, Unset)
          [] r.type = "observed" -> Kept(@, {"starting", "active", "tool", "waiting", "idle"}, "idle")
          [] OTHER -> @]
WithStops(f) == f.hooks \o SelectSeq(f.stops, LAMBDA e : ~Contains(f.hooks, e))
parseState(f) == [f EXCEPT !.records = {Parsed(r) : r \in @}, !.hooks = WithStops(f)]

Refused == \E r \in disk.records : ~Readable(r)
Load ==
    /\ ~up /\ counts.starts < MaxStarts /\ ~Refused
    /\ up' = TRUE /\ counts' = [counts EXCEPT !.starts = @ + 1]
    /\ memory' = parseState(disk)
    /\ UNCHANGED <<disk, image, saving>>

StateNext ==
    \/ (\E r \in Written : Put(r)) \/ (\E stop \in BOOLEAN : MarkHook(stop)) \/ MarkMessage
    \/ (\E t \in Watched, at \in 1 .. 2 : See(t, at))
    \/ trimState \/ Write \/ Rename \/ Crash \/ Load

StateSpec == StateInit /\ [][StateNext]_stateVars
-----------------------------------------------------------------------------
(* Properties.                                                             *)

Newest(s, n) == {s[k] : k \in {k \in DOMAIN s : k > Len(s) - n}}

\* The bridge starts from every file that it wrote itself.
OwnFileIsRead == counts.starts > 0 => ~Refused

\* A hook event that was marked is known, however often the bridge was started and
\* whatever was cut, until MaxHooks - MaxStops others were marked: the marks of Stop
\* that a start puts behind the others cost the oldest of these their place; so do
\* those that come between the cut and the write of a save, which makes the
\* directory in between.
MarksAreKnown ==
    up => Newest(memory.marked, MaxHooks - MaxStops - counts.late) \subseteq {memory.hooks[k] : k \in DOMAIN memory.hooks}

\* A Stop is told from a new one at the next start until MaxStops others came,
\* whatever else was marked since.
StopsAreKept ==
    ~up => Newest(disk.marks, MaxStops) \subseteq {WithStops(disk)[k] : k \in DOMAIN WithStops(disk)}

\* The thread that was seen last is never cut, while the events of a thread come in
\* their order.
LastSeenIsKept ==
    ~memory.back => \A t \in Watched :
        (\A u \in Watched \ {t} : memory.seen[u] < memory.seen[t]) => \E k \in DOMAIN memory.observed : memory.observed[k].thread = t


StateFileIsSound == OwnFileIsRead /\ MarksAreKnown /\ StopsAreKept /\ LastSeenIsKept
=============================================================================
