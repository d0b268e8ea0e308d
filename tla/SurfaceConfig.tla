---------------------------- MODULE SurfaceConfig ----------------------------
(***************************************************************************)
(* Which Discord channels are whose: the workspace.toml files of the       *)
(* folders below the bridge's directory, merged with the channels of the   *)
(* command line and the environment (workspaceConfig,                      *)
(* apps/discord-bridge/src/config.ts).  One step reads one folder.         *)
(***************************************************************************)
EXTENDS Integers, Sequences, FiniteSets

CONSTANTS
    Folders,    \* in the order of their names
    Files,      \* what may stand in a workspace.toml: a number of surfaces and what the first one says
    Configured, \* what flags and environment say: [home, forum, tasks, main]
    DefaultKey, \* the key of the surface of the command line
    NoChannel

VARIABLES
    file, configured, read, merged, phase, workspace

surfaceVars == <<file, configured, read, merged, phase, workspace>>

FolderSet == {Folders[k] : k \in DOMAIN Folders}
Everywhere == {} \* the folders of a surface that is for all others
Surface(key, home, forum, tasks, cwds) == [key |-> key, home |-> home, forum |-> forum, tasks |-> tasks, cwds |-> cwds]
ChannelsOf(s) == {s.home, s.forum, s.tasks} \ {NoChannel}
NoWorkspace == [home |-> NoChannel, forum |-> NoChannel, tasks |-> NoChannel, surfaces |-> <<>>]

SurfaceTypeOK ==
    /\ phase \in {"reading", "error", "ready"} /\ read \in 0 .. Len(Folders)
    /\ \A k \in DOMAIN merged : merged[k].cwds \subseteq FolderSet
    /\ workspace # NoWorkspace => phase = "ready"

SurfacesStart(files, settings) ==
    /\ file \in [FolderSet -> files] /\ configured \in settings
    /\ read = 0 /\ merged = <<>> /\ phase = "reading" /\ workspace = NoWorkspace
SurfaceInit == SurfacesStart(Files, Configured)

-----------------------------------------------------------------------------
(* Merging.                                                                *)

Both(s) == (s.forum = NoChannel) = (s.tasks = NoChannel)
Distinct(s) == s.forum # NoChannel /\ s.tasks # NoChannel => Cardinality(ChannelsOf(s)) = 3
\* parseWorkspaceSurface: one surface, with a key and a home.
Parses(f) == f.count = 1 => f.key # "" /\ f.home # NoChannel /\ Both(f) /\ Distinct(f)

SameChannels(a, b) == <<a.home, a.forum, a.tasks>> = <<b.home, b.forum, b.tasks>>
\* The place of a key, or the next one.
Place(surfaces, key) ==
    IF \E k \in DOMAIN surfaces : surfaces[k].key = key THEN CHOOSE k \in DOMAIN surfaces : surfaces[k].key = key
    ELSE Len(surfaces) + 1
\* mergeWorkspaceSurfaces: a key that is for all folders stays so.
Widened(a, b) == IF a = Everywhere \/ b = Everywhere THEN Everywhere ELSE a \cup b
Fits(surfaces, s) == LET k == Place(surfaces, s.key) IN k <= Len(surfaces) => SameChannels(surfaces[k], s)
With(surfaces, s) ==
    LET k == Place(surfaces, s.key) IN
    IF k > Len(surfaces) THEN Append(surfaces, s) ELSE [surfaces EXCEPT ![k].cwds = Widened(@, s.cwds)]
\* Mutant: only the homes are compared.
HomesOnly(surfaces) == \A j, k \in DOMAIN surfaces : j # k => surfaces[j].home # surfaces[k].home
\* validateWorkspaceSurfaces
NoneTwice(surfaces) == \A j, k \in DOMAIN surfaces : j # k => ChannelsOf(surfaces[j]) \cap ChannelsOf(surfaces[k]) = {}
OneForAll(surfaces) == Cardinality({k \in DOMAIN surfaces : surfaces[k].cwds = Everywhere}) <= 1
Valid(surfaces) == NoneTwice(surfaces) /\ OneForAll(surfaces)

Fail == phase' = "error" /\ UNCHANGED <<merged, workspace>>
ReadFolder ==
    /\ phase = "reading" /\ read < Len(Folders) /\ read' = read + 1 /\ UNCHANGED <<file, configured>>
    /\ LET folder == Folders[read']
           f == file[folder]
           s == Surface(f.key, f.home, f.forum, f.tasks, {folder}) IN
       \/ f.count = 0 /\ UNCHANGED <<merged, phase, workspace>>
       \/ f.count > 1 /\ Fail
       \/ f.count = 1 /\ ~(Parses(f) /\ Fits(merged, s)) /\ Fail
       \/ f.count = 1 /\ Parses(f) /\ Fits(merged, s) /\ merged' = With(merged, s) /\ UNCHANGED <<phase, workspace>>

-----------------------------------------------------------------------------
(* The workspace.                                                          *)

\* Without a home of its own the command line is about the first surface.
Primary(c, channel) ==
    IF configured[c] # NoChannel THEN configured[c]
    ELSE IF configured.home = NoChannel /\ merged # <<>> THEN merged[1][channel] ELSE NoChannel
OwnChannels == [home |-> Primary("home", "home"), forum |-> Primary("forum", "forum"), tasks |-> Primary("tasks", "tasks")]
OwnSurface == Surface(DefaultKey, OwnChannels.home, OwnChannels.forum, OwnChannels.tasks, Everywhere)

\* The surface of the command line goes before those of the files.
FitsAll == \A k \in DOMAIN merged : merged[k].key = DefaultKey => SameChannels(OwnSurface, merged[k])
AllSurfaces ==
    IF merged = <<>> THEN <<>>
    ELSE IF configured.home = NoChannel THEN merged
    ELSE <<OwnSurface>> \o SelectSeq(merged, LAMBDA s : s.key # DefaultKey)

Refused ==
    \/ ~Valid(merged)
    \/ OwnChannels.home = NoChannel /\ (configured.main \/ OwnChannels.forum # NoChannel \/ OwnChannels.tasks # NoChannel)
    \/ OwnChannels.home # NoChannel /\ ~(Both(OwnChannels) /\ Distinct(OwnChannels))
    \/ OwnChannels.home # NoChannel /\ configured.home # NoChannel /\ merged # <<>> /\ ~(FitsAll /\ Valid(AllSurfaces))
Conclude ==
    /\ phase = "reading" /\ read = Len(Folders) /\ UNCHANGED <<file, configured, read, merged>>
    /\ IF Refused THEN phase' = "error" /\ UNCHANGED workspace
       ELSE /\ phase' = "ready"
            /\ workspace' = IF OwnChannels.home = NoChannel THEN NoWorkspace
                            ELSE [home |-> OwnChannels.home, forum |-> OwnChannels.forum, tasks |-> OwnChannels.tasks, surfaces |-> AllSurfaces]

SurfaceNext == ReadFolder \/ Conclude

SurfaceSpec == SurfaceInit /\ [][SurfaceNext]_surfaceVars
-----------------------------------------------------------------------------
(* Properties.                                                             *)

Ready == phase = "ready" /\ workspace.surfaces # <<>>

\* A message in a channel is about one surface, and at most one surface takes the
\* folders that no other one names, whatever the files and the flags say.
ChannelHasOneSurface ==
    Ready => LET surfaces == workspace.surfaces IN
        \A j, k \in DOMAIN surfaces : j # k =>
            /\ {surfaces[j].home, surfaces[j].forum, surfaces[j].tasks} \cap {surfaces[k].home, surfaces[k].forum, surfaces[k].tasks}
                 \subseteq {NoChannel}
            /\ surfaces[j].cwds = Everywhere => surfaces[k].cwds # Everywhere

\* The folder of every file that was read is served: by the surface of its file,
\* or by the one for all folders.
FoldersAreServed ==
    Ready => \A d \in FolderSet : file[d].count = 1 =>
        \E k \in DOMAIN workspace.surfaces :
            LET s == workspace.surfaces[k] IN
            s.key = file[d].key /\ SameChannels(s, file[d]) /\ (d \in s.cwds \/ s.cwds = Everywhere)

\* The home of the workspace is one surface's, and so are its other channels,
\* unless one of them is configured without a home.
WorkspaceIsASurface ==
    Ready => \E k \in DOMAIN workspace.surfaces :
        /\ workspace.surfaces[k].home = workspace.home
        /\ \/ SameChannels(workspace.surfaces[k], workspace)
           \/ configured.home = NoChannel /\ {configured.forum, configured.tasks} # {NoChannel}

\* Where there is no home there are no other channels and no main thread.
HomeComesFirst ==
    phase = "ready" /\ workspace.home = NoChannel =>
        configured.home = NoChannel /\ ~configured.main /\ \A d \in FolderSet : file[d].count = 0

SurfacesAreSound == ChannelHasOneSurface /\ FoldersAreServed /\ WorkspaceIsASurface /\ HomeComesFirst
=============================================================================
