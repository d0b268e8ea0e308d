------------------------- MODULE WorkspaceDashboards -------------------------
(***************************************************************************)
(* The posts of the workspace forums                                       *)
(* (apps/discord-bridge/src/local-workspace-backend.ts).  Every folder has *)
(* a post in the forum of the surface it is routed to, and the post lists  *)
(* the threads of the folder that are open in Discord or that work.  Posts *)
(* are made by the reconciliation at a start, by hook events, by           *)
(* delegations and by the opening of a thread, each between awaits of its  *)
(* own; a restart may find another configuration of the surfaces.          *)
(***************************************************************************)
EXTENDS Integers, Sequences, FiniteSets

CONSTANTS
    FolderOrder,  \* the top-level folders below the root, in their order
    Surfaces,     \* the configured surfaces
    Delegate,     \* a codex thread that is a delegation,
    Stranger,     \* and one that only its hooks tell of;
    Workplace,    \* the folder that both work in
    Routings,     \* configurations, the first one first: the surface of each folder
    MaxPosts,     \* bounds: on the posts,
    MaxCauses     \* and on hooks, calls, picks, clears, restarts and refusals together

VARIABLES
    routing,  \* what #workspaceSurfaceForCwd answers
    state,    \* the workspaces, observed threads, delegation and sessions kept
    disk,     \* the state file
    posts,    \* Discord: the posts of the forums
    strands,  \* what the handlers await and have left
    spool,    \* hook events that are not handled
    settled,  \* the reconciliation got through without a refusal
    cleared,  \* threads whose session was deleted
    causes, reboots, refusals,
    crossed   \* posts that were made although another was on its way

dashboardVars == <<routing, state, disk, posts, strands, spool, settled, cleared,
                   causes, reboots, refusals, crossed>>
givenVars == <<routing, reboots>>

None == "none"
Workers == {Delegate, Stranger}
Folders == {FolderOrder[i] : i \in DOMAIN FolderOrder}
Handlers == {"boot", "hook", "tool", "pick"}
Work(surface, active) == [surface |-> surface, active |-> active]

\* What a handler does: list a folder, sync the delegation (ends: its turn is
\* over), place a thread, save, or mark a hook event and save.
Op(kind, folder) == [kind |-> kind, folder |-> folder, ends |-> FALSE, thread |-> Stranger]
Save == Op("save", Workplace)
Strand(ops) ==
    [phase |-> "start", op |-> Head(ops), todo |-> Tail(ops), surface |-> None, post |-> 0, failed |-> FALSE]
Idle == [Strand(<<Save>>) EXCEPT !.phase = "idle"]
Reconcile ==
    Strand([i \in DOMAIN FolderOrder |-> Op("list", FolderOrder[i])] \o <<Op("sync", Workplace), Save>>)

DashboardTypeOK ==
    /\ \E i \in DOMAIN Routings : routing = Routings[i]
    /\ settled \in BOOLEAN /\ cleared \subseteq Workers
    /\ \A s \in {state, disk} :
         /\ \A i \in DOMAIN s.rows :
              s.rows[i].post \in DOMAIN posts /\ s.rows[i].folder \in Folders /\ s.rows[i].surface \in Surfaces \cup {None}
         /\ s.open \subseteq Workers \X Surfaces /\ s.delegation.surface \in Surfaces \cup {None}
    /\ \A i \in DOMAIN posts : posts[i].folder \in Folders /\ posts[i].shown \subseteq Workers
    /\ \A h \in Handlers : strands[h].phase \in {"idle", "start", "making", "updating", "placing"}

\* A row may be from before there were surfaces.
Post(surface, folder, keyed) == [surface |-> surface, folder |-> folder, keyed |-> keyed, shown |-> {}]
Row(surface, folder, post) == [surface |-> surface, folder |-> folder, post |-> post]
DashboardInit ==
    /\ routing = Routings[1]
    /\ posts \in {<<>>, <<Post(routing[Workplace], Workplace, FALSE)>>}
    /\ state = [rows |-> [i \in DOMAIN posts |-> Row(None, Workplace, i)],
                seen |-> [t \in Workers |-> Work(None, FALSE)],
                delegation |-> Work(None, FALSE), known |-> FALSE, open |-> {}]
    /\ disk = state /\ spool = <<>> /\ settled = FALSE /\ cleared = {}
    /\ strands = [h \in Handlers |-> IF h = "boot" THEN Reconcile ELSE Idle]
    /\ causes = 0 /\ reboots = 0 /\ refusals = 0 /\ crossed = 0

-----------------------------------------------------------------------------
(* Routing and listing.                                                    *)

\* Mutant: the surface of a row is not asked for.
SameFolder(row, folder, surface) == row.folder = folder
\* The row that #ensureWorkspaceSurfaceForCwd finds.
Matches(row, folder, surface) == row.folder = folder /\ row.surface \in {surface, None}
Found(folder, surface) == {i \in DOMAIN state.rows : Matches(state.rows[i], folder, surface)}
First(indices) == CHOOSE i \in indices : \A j \in indices : i <= j

\* #workspaceSurfaceForWorkspace, -ForDelegation, -ForObserved: the kept key is
\* that of a surface, or the folder is routed.
SurfaceOf(key, folder) == IF key = None THEN routing[folder] ELSE key

\* #listWorkspaceDashboardThreads: open threads, the working delegation and
\* what is seen to work.
Listing(s, row) ==
    LET surface == SurfaceOf(row.surface, row.folder)
        Works(work) == work.active /\ SurfaceOf(work.surface, Workplace) = surface
    IN IF row.folder # Workplace THEN {}
       ELSE {t \in Workers : <<t, surface>> \in s.open \/ Works(s.seen[t])}
            \cup (IF s.known /\ Works(s.delegation) THEN {Delegate} ELSE {})

-----------------------------------------------------------------------------
(* The handlers, from await to await.                                      *)

Caused == causes < MaxCauses /\ causes' = causes + 1
Refused == Caused /\ refusals' = refusals + 1
Granted == UNCHANGED <<causes, refusals>>
At(h, phase) == strands[h].phase = phase
Goes(h, strand) == strands' = [strands EXCEPT ![h] = strand]
\* The handler goes on after this op; failed: with an error that was caught.
Continues(h, failed) ==
    LET strand == strands[h] IN
    Goes(h, IF strand.todo = <<>> THEN Idle
            ELSE [Strand(strand.todo) EXCEPT !.failed = strand.failed \/ failed])
Throws(h) == Goes(h, Idle)

\* #updateWorkspaceSurface: what is listed now.
Shows(s, row) == posts' = [posts EXCEPT ![row.post].shown = Listing(s, row)]

\* What is true before the folder's row is looked for.
Before(op) == IF op.ends THEN [state EXCEPT !.delegation.active = FALSE] ELSE state
SurfaceFor(op) ==
    IF op.kind = "sync" THEN SurfaceOf(state.delegation.surface, Workplace) ELSE routing[op.folder]
\* #ensureWorkspaceSurface: the delegation gets the surface of the row.
WithRow(s, op, surface) == IF op.kind = "sync" THEN [s EXCEPT !.delegation.surface = surface] ELSE s

\* #ensureWorkspaceSurfaceForCwd finds the row, which takes the surface if it
\* had none, and the dashboard is updated...
UpdateFound(h) ==
    /\ At(h, "start") /\ strands[h].op.kind \in {"list", "sync"}
    /\ LET op == strands[h].op
           surface == SurfaceFor(op)
           i == First(Found(op.folder, surface))
           s == WithRow([Before(op) EXCEPT !.rows[i].surface = surface], op, surface)
       IN /\ op.kind = "sync" => state.known
          /\ Found(op.folder, surface) # {}
          /\ state' = s
          /\ \/ Granted /\ Shows(s, s.rows[i]) /\ Continues(h, FALSE)
             \/ Refused /\ Continues(h, TRUE) /\ UNCHANGED posts
    /\ UNCHANGED <<givenVars, disk, spool, settled, cleared, crossed>>
\* ... or there is no delegation to sync...
NothingToSync(h) ==
    /\ At(h, "start") /\ strands[h].op.kind = "sync" /\ ~state.known
    /\ Continues(h, FALSE)
    /\ UNCHANGED <<givenVars, causes, state, disk, posts, spool, settled, cleared, refusals, crossed>>
\* ... or there is no row: createWorkspacePost.
Create(h) ==
    /\ At(h, "start") /\ strands[h].op.kind \in {"list", "sync", "place"}
    /\ LET op == strands[h].op
           surface == SurfaceFor(op)
       IN /\ op.kind = "sync" => state.known
          /\ Found(op.folder, surface) = {}
          /\ state' = Before(op)
          /\ Goes(h, [strands[h] EXCEPT !.phase = "making", !.surface = surface])
    /\ UNCHANGED <<givenVars, causes, disk, posts, spool, settled, cleared, refusals, crossed>>
\* A thread is placed with the row that is there.
PlaceFound(h) ==
    /\ At(h, "start") /\ strands[h].op.kind = "place"
    /\ LET surface == routing[Workplace]
           found == Found(Workplace, surface)
       IN /\ found # {}
          /\ state' = [state EXCEPT !.rows[First(found)].surface = surface]
          /\ Goes(h, [strands[h] EXCEPT !.phase = "placing", !.surface = surface,
                                        !.post = state.rows[First(found)].post])
    /\ UNCHANGED <<givenVars, causes, disk, posts, spool, settled, cleared, refusals, crossed>>

\* The post is there, and gets its row.
PostMade(h) ==
    /\ At(h, "making") /\ Len(posts) < MaxPosts /\ Granted
    /\ LET strand == strands[h]
           new == Len(posts) + 1
       IN /\ posts' = Append(posts, Post(strand.surface, strand.op.folder, TRUE))
          /\ state' = WithRow([state EXCEPT !.rows = Append(@, Row(strand.surface, strand.op.folder, new))],
                              strand.op, strand.surface)
          /\ Goes(h, [strand EXCEPT !.post = new, !.phase = IF strand.op.kind = "place" THEN "placing" ELSE "updating"])
          /\ crossed' = IF \E g \in Handlers \ {h} : /\ At(g, "making") /\ strands[g].surface = strand.surface
                                                     /\ strands[g].op.folder = strand.op.folder
                        THEN crossed + 1 ELSE crossed
    /\ UNCHANGED <<givenVars, disk, spool, settled, cleared>>
\* It is refused: reconcile goes on with the next folder, and sync reports it; a
\* hook event stays in the spool, and a picker tells the user.
PostRefused(h) ==
    /\ At(h, "making") /\ Refused
    /\ IF h = "boot" \/ strands[h].op.kind = "sync" THEN Continues(h, TRUE) ELSE Throws(h)
    /\ UNCHANGED <<givenVars, state, disk, posts, spool, settled, cleared, crossed>>
\* The new post is filled in.
UpdateNew(h) ==
    /\ At(h, "updating")
    /\ LET row == CHOOSE r \in {state.rows[i] : i \in DOMAIN state.rows} : r.post = strands[h].post IN
       \/ Granted /\ Shows(state, row) /\ Continues(h, FALSE)
       \/ Refused /\ Continues(h, TRUE) /\ UNCHANGED posts
    /\ UNCHANGED <<givenVars, state, disk, spool, settled, cleared, crossed>>
\* The task thread is there: the session, and the dashboard of its folder.
Placed(h) ==
    /\ At(h, "placing")
    /\ LET strand == strands[h]
           row == CHOOSE r \in {state.rows[i] : i \in DOMAIN state.rows} : r.post = strand.post
           s == [state EXCEPT !.open = @ \cup {<<strand.op.thread, strand.surface>>}]
       IN \/ Granted /\ state' = s /\ Shows(s, row) /\ Continues(h, FALSE)
          \/ Refused /\ state' \in {state, s} /\ Throws(h) /\ UNCHANGED posts
    /\ cleared' = cleared \ {strands[h].op.thread}
    /\ UNCHANGED <<givenVars, disk, spool, settled, crossed>>
\* #persist, the last thing a handler does.
Persist(h) ==
    /\ At(h, "start") /\ strands[h].op.kind \in {"save", "mark"}
    /\ disk' = state /\ Continues(h, FALSE)
    /\ spool' = IF strands[h].op.kind = "mark" THEN Tail(spool) ELSE spool
    /\ settled' = IF h = "boot" THEN ~strands[h].failed ELSE settled
    /\ UNCHANGED <<givenVars, causes, state, posts, cleared, refusals, crossed>>

-----------------------------------------------------------------------------
(* What makes them run.                                                    *)

\* A hook of a thread writes an event: its turn works, or it stops.
HookFires(t, active) ==
    /\ Caused
    /\ spool' = Append(spool, [thread |-> t, active |-> active])
    /\ UNCHANGED <<routing, state, disk, posts, strands, settled, cleared, reboots, refusals, crossed>>
\* The drain, which runs once the reconciliation is over: #recordObservedThreadEvent.
Drain ==
    /\ spool # <<>> /\ At("hook", "idle") /\ At("boot", "idle")
    /\ LET event == Head(spool)
           stops == event.thread = Delegate /\ ~event.active /\ state.known
       IN /\ state' = [state EXCEPT !.seen[event.thread] = Work(routing[Workplace], event.active)]
          /\ Goes("hook", Strand(<<Op("list", Workplace)>>
                                 \o (IF stops THEN <<[Op("sync", Workplace) EXCEPT !.ends = TRUE]>> ELSE <<>>)
                                 \o <<Op("mark", Workplace)>>))
    /\ UNCHANGED <<givenVars, causes, disk, posts, spool, settled, cleared, refusals, crossed>>
\* start_delegation and send_delegation, called by the main thread.
Delegates ==
    /\ At("tool", "idle") /\ ~state.delegation.active /\ Caused
    /\ state' = [state EXCEPT !.known = TRUE,
                              !.delegation = Work(IF state.known THEN @.surface ELSE routing[Workplace], TRUE)]
    /\ Goes("tool", Strand(<<Op("sync", Workplace), Save>>))
    /\ UNCHANGED <<routing, disk, posts, spool, settled, cleared, reboots, refusals, crossed>>
\* A thread is chosen in a picker; its resume is on its way.
Picked(t) ==
    /\ At("pick", "idle") /\ <<t, routing[Workplace]>> \notin state.open /\ Caused
    /\ Goes("pick", Strand(<<[Op("place", Workplace) EXCEPT !.thread = t], Save>>))
    /\ UNCHANGED <<routing, state, disk, posts, spool, settled, cleared, reboots, refusals, crossed>>
\* /clear deletes the task threads and their sessions, and saves.
Clear ==
    /\ state.open # {} /\ Caused
    /\ state' = [state EXCEPT !.open = {}] /\ disk' = state'
    /\ cleared' = cleared \cup {o[1] : o \in state.open}
    /\ UNCHANGED <<givenVars, posts, strands, spool, settled, refusals, crossed>>
\* The bridge dies and is started, with any configuration.
Reboot ==
    /\ Caused /\ reboots' = reboots + 1
    /\ \E i \in DOMAIN Routings : routing' = Routings[i]
    /\ state' = disk /\ settled' = FALSE
    /\ strands' = [h \in Handlers |-> IF h = "boot" THEN Reconcile ELSE Idle]
    /\ UNCHANGED <<disk, posts, spool, cleared, refusals, crossed>>

DashboardNext ==
    \/ \E h \in Handlers :
         \/ UpdateFound(h) \/ NothingToSync(h) \/ Create(h) \/ PlaceFound(h)
         \/ PostMade(h) \/ PostRefused(h) \/ UpdateNew(h) \/ Placed(h) \/ Persist(h)
    \/ \E t \in Workers : Picked(t) \/ \E active \in BOOLEAN : HookFires(t, active)
    \/ Drain \/ Delegates \/ Clear \/ Reboot

DashboardSpec == DashboardInit /\ [][DashboardNext]_dashboardVars

-----------------------------------------------------------------------------
(* Properties.                                                             *)

Here(t) == <<t, routing[Workplace]>>
Works(t) ==
    \/ state.seen[t] = Work(routing[Workplace], TRUE)
    \/ t = Delegate /\ state.known /\ state.delegation = Work(routing[Workplace], TRUE)

\* A folder has one post in a forum; only a second handler that makes it at the
\* same time, or a crash before the state is saved, makes another.
OnePostPerFolder ==
    \A s \in Surfaces, f \in Folders :
        Cardinality({i \in DOMAIN posts : posts[i].surface = s /\ posts[i].folder = f}) <= 1 + crossed + reboots

\* After a start that nothing was refused in, every folder has a row whose post
\* is in the forum of the surface it routes to (README.md:121-123); a row from
\* before there were surfaces is given to the surface that asks first.
EveryFolderIsPosted ==
    settled => \A f \in Folders : \E i \in DOMAIN state.rows :
        /\ state.rows[i].folder = f /\ state.rows[i].surface = routing[f]
        /\ posts[state.rows[i].post].keyed => posts[state.rows[i].post].surface = routing[f]

\* Once every handler is done, the threads of a folder that work or are open are
\* shown in its post, and beside them only what was cleared; of two posts that
\* were made at the same time one shows it.
PostsTellTheWork ==
    (settled /\ refusals = 0 /\ spool = <<>> /\ \A h \in Handlers : At(h, "idle"))
    => LET shown == UNION {posts[state.rows[i].post].shown : i \in Found(Workplace, routing[Workplace])}
           right == {t \in Workers : Works(t) \/ Here(t) \in state.open}
       IN right \subseteq shown /\ (crossed = 0 => shown \subseteq right \cup cleared)

DashboardsAreSound == OnePostPerFolder /\ EveryFolderIsPosted /\ PostsTellTheWork
=============================================================================
