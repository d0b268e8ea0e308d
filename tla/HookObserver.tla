----------------------------- MODULE HookObserver -----------------------------
(***************************************************************************)
(* The voice gateway's observer of the hook spool                          *)
(* (apps/workspace-voice-gateway/src/hook-spool.ts): it only reads the     *)
(* pending directory, from which the bridge archives files at any time.    *)
(* A change of the directory schedules a scan after 150 ms.                *)
(***************************************************************************)
EXTENDS Integers, Sequences, FiniteSets, SequencesExt

CONSTANTS
    OldFiles,  \* pending before the gateway started
    NewFiles,  \* Stop events that come later
    TornFiles  \* those of them that do not parse

HookFiles == OldFiles \cup NewFiles

VARIABLES
    pendingFiles, \* the pending directory
    seenFiles,    \* seenFiles, and seenEvents: a file holds one event
    scanTimer,    \* the debounce timer runs
    hookScan,     \* the scan in progress: "none", "listing" or "reading", and the files left
    heardHooks,   \* how often a file was announced
    writtenHooks, \* the new files that were written
    dropped       \* files whose scan was not made

hookVars == <<pendingFiles, seenFiles, scanTimer, hookScan, heardHooks, writtenHooks, dropped>>

HookTypeOK ==
    /\ pendingFiles \subseteq HookFiles /\ seenFiles \subseteq HookFiles /\ dropped \subseteq HookFiles
    /\ scanTimer \in BOOLEAN
    /\ hookScan.at \in {"none", "listing", "reading"} /\ ToSet(hookScan.left) \subseteq HookFiles
    /\ heardHooks \in [HookFiles -> Nat] /\ writtenHooks \subseteq NewFiles

NoScan == [at |-> "none", left |-> <<>>]
\* start: a scan at once.
HookInit ==
    /\ pendingFiles = OldFiles /\ seenFiles = {}
    /\ scanTimer = TRUE /\ hookScan = NoScan
    /\ heardHooks = [f \in HookFiles |-> 0] /\ writtenHooks = {} /\ dropped = {}

\* The hook CLI renames the file into the directory; the watcher schedules a
\* scan, which puts off one that was scheduled.
WriteHook(f) ==
    /\ f \in NewFiles \ writtenHooks /\ writtenHooks' = writtenHooks \cup {f}
    /\ pendingFiles' = pendingFiles \cup {f} /\ scanTimer' = TRUE
    /\ UNCHANGED <<seenFiles, hookScan, heardHooks, dropped>>

\* The bridge is done with it.
ArchiveHook(f) ==
    /\ f \in pendingFiles
    /\ pendingFiles' = pendingFiles \ {f} /\ scanTimer' = TRUE
    /\ UNCHANGED <<seenFiles, hookScan, heardHooks, writtenHooks, dropped>>

\* scan: while one is made, another is not.
Scan ==
    /\ scanTimer /\ scanTimer' = FALSE
    /\ \/ /\ hookScan.at = "none"
          /\ hookScan' = [NoScan EXCEPT !.at = "listing"] /\ UNCHANGED dropped
       \/ /\ hookScan.at # "none"
          /\ dropped' = dropped \cup (pendingFiles \ (seenFiles \cup ToSet(hookScan.left)))
          /\ UNCHANGED hookScan
    /\ UNCHANGED <<pendingFiles, seenFiles, heardHooks, writtenHooks>>

Listing(files) == IF files = {} THEN {<<>>} ELSE SetToSeqs(files)
\* readdir; a directory that cannot be read ends the scan.
ListHooks ==
    /\ hookScan.at = "listing"
    /\ \/ \E order \in Listing(pendingFiles) :
            /\ hookScan' = IF order = <<>> THEN NoScan ELSE [at |-> "reading", left |-> order]
            /\ UNCHANGED dropped
       \/ hookScan' = NoScan /\ dropped' = dropped \cup (pendingFiles \ seenFiles)
    /\ UNCHANGED <<pendingFiles, seenFiles, scanTimer, heardHooks, writtenHooks>>

\* Mutant: the time of the file is not looked at.
NeverOld(f) == FALSE
Old(f) == f \in OldFiles
\* #processFile: a file that was seen is passed over, an old one and one that
\* has gone count as seen, one that does not parse is left for the next scan.
ProcessFile ==
    /\ hookScan.at = "reading"
    /\ LET f == Head(hookScan.left)
           announce == f \notin seenFiles /\ f \in pendingFiles /\ ~Old(f) /\ f \notin TornFiles
           skipped == f \in pendingFiles /\ ~Old(f) /\ f \in TornFiles IN
       /\ seenFiles' = IF skipped THEN seenFiles ELSE seenFiles \cup {f}
       /\ heardHooks' = IF announce THEN [heardHooks EXCEPT ![f] = @ + 1] ELSE heardHooks
    /\ hookScan' = IF Len(hookScan.left) = 1 THEN NoScan ELSE [hookScan EXCEPT !.left = Tail(@)]
    /\ UNCHANGED <<pendingFiles, scanTimer, writtenHooks, dropped>>

HookNext ==
    \/ \E f \in HookFiles : WriteHook(f) \/ ArchiveHook(f)
    \/ Scan \/ ListHooks \/ ProcessFile

HookSpec == HookInit /\ [][HookNext]_hookVars

-----------------------------------------------------------------------------
(* Properties.                                                             *)

\* A Stop event is announced once, and one from before the start never
\* (docs/pages/reference/workspace-voice-gateway.md:102-103).
HookHeardOnce ==
    \A f \in HookFiles : heardHooks[f] <= IF f \in OldFiles THEN 0 ELSE 1

\* A new file that is pending and was not seen is about to be: a scan is
\* scheduled or has it before it.  The exception is the scan that failed or
\* fell into another one: its files wait for the next change of the directory.
NewHookIsScanned ==
    \A f \in (pendingFiles \cap NewFiles) \ (seenFiles \cup TornFiles) :
        \/ scanTimer \/ hookScan.at = "listing" \/ f \in ToSet(hookScan.left)
        \/ f \in dropped
=============================================================================
