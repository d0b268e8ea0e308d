----------------------------- MODULE PackInstall -----------------------------
(***************************************************************************)
(* "codex-flows pack add --apply" (packages/codex-client/src/cli/pack.ts): *)
(* the items of a pack repository are planned against what the workspace   *)
(* has, copied one after the other, and entered in the marketplace file,   *)
(* in hooks.json and in the lock file.  The user changes the same files,   *)
(* and the command may die between any two steps.                          *)
(***************************************************************************)
EXTENDS Integers, Sequences, FiniteSets, SequencesExt

CONSTANTS
    Items,      \* the pack's items, in the order of kind and name
    Plugins,    \* those that are plugins
    Hooks,      \* those that are direct hook packs
    Contents,   \* the contents a source has of an item at a time
    HookGroups, \* by hook pack and content: the groups of its hooks.json
    UserGroup,  \* a hook group that the user wrote
    MaxAdds, MaxEdits, MaxAborts \* bounds on the commands, the user's changes, the deaths

VARIABLES
    destination, \* by item: "missing", "file", "mine", "torn" or a content
    lock,        \* pack-lock.json: by item the content, or "none"
    market,      \* marketplace.json: by plugin "none", "pack" or "other"
    hooksJson,   \* the groups in hooks.json
    hooksOf,     \* its codexPack part: by hook pack the groups it was given
    torn,        \* of the three files, those that were cut short
    copies,      \* the backups: item and content
    plan,        \* the command in progress
    adds, edits, aborts,
    own,         \* by item: what the user put there last, or "none"
    unsettled,   \* items that the user or a command that died changed since
    lostEntry    \* a marketplace entry of the user's, for a plugin that no pack
                 \* installed, was replaced and not saved

packVars == <<destination, lock, market, hooksJson, hooksOf, torn, copies, plan,
              adds, edits, aborts, own, unsettled, lostEntry>>

ItemSet == {Items[i] : i \in DOMAIN Items}
PackFiles == {"market", "hooks", "lock"}
NoPlan == [at |-> "none", left |-> <<>>, installed |-> {}, content |-> "none", savesEntry |-> FALSE]

PackTypeOK ==
    /\ destination \in [ItemSet -> Contents \cup {"missing", "file", "mine", "torn"}]
    /\ lock \in [ItemSet -> Contents \cup {"none"}] /\ market \in [Plugins -> {"none", "pack", "other"}]
    /\ torn \subseteq PackFiles /\ DOMAIN hooksOf = Hooks
    /\ plan.at \in {"none", "back up", "remove", "copy", "market", "hooks", "lock"}
    /\ plan.installed \subseteq ItemSet /\ unsettled \subseteq ItemSet

PackInit ==
    /\ destination = [i \in ItemSet |-> "missing"] /\ lock = [i \in ItemSet |-> "none"]
    /\ market \in [Plugins -> {"none", "other"}]
    /\ hooksJson = {UserGroup} /\ hooksOf = [h \in Hooks |-> {}]
    /\ torn = {} /\ copies = {} /\ plan = NoPlan
    /\ adds = 0 /\ edits = 0 /\ aborts = 0 /\ own = [i \in ItemSet |-> "none"] /\ unsettled = {} /\ lostEntry = FALSE

-----------------------------------------------------------------------------
(* The plan.                                                               *)

\* collectMarketplacePluginConflicts: a plugin of that name from elsewhere,
\* which the lock does not name.
Elsewhere(i) == i \in Plugins /\ market[i] = "other" /\ lock[i] = "none"
\* Mutant: a destination that is there is not compared.
ActionByPath(i, content, overwrite) ==
    CASE Elsewhere(i) /\ ~overwrite -> "conflict"
      [] destination[i] = content -> "unchanged"
      [] OTHER -> "add"
Action(i, content, overwrite) ==
    CASE Elsewhere(i) /\ ~overwrite -> "conflict"
      [] destination[i] = "missing" -> "add"
      [] destination[i] = content -> "unchanged"
      [] OTHER -> IF overwrite THEN "overwrite" ELSE "conflict"

\* What is next once an item is done with: the next that is not unchanged, or
\* the files.
NextOf(p) ==
    IF p.left # <<>> THEN [p EXCEPT !.at = IF Head(p.left).action = "overwrite" THEN "back up" ELSE "copy"]
    ELSE IF p.installed \cap Plugins # {} THEN [p EXCEPT !.at = "market"]
    ELSE IF p.installed \cap Hooks # {} THEN [p EXCEPT !.at = "hooks"]
    ELSE [p EXCEPT !.at = "lock"]

\* pack add: what is selected of the items, as the source has them now.  A lock
\* or a marketplace file that does not parse ends it.
Add(chosen, content, overwrite) ==
    /\ plan.at = "none" /\ adds < MaxAdds /\ adds' = adds + 1
    /\ "lock" \notin torn /\ (chosen \cap Plugins # {} => "market" \notin torn)
    /\ LET action(i) == Action(i, content, overwrite)
           copied == SelectSeq(Items, LAMBDA i : i \in chosen /\ action(i) \in {"add", "overwrite"}) IN
       plan' = NextOf([NoPlan EXCEPT !.left = [n \in DOMAIN copied |-> [item |-> copied[n], action |-> action(copied[n])]],
                                     !.installed = {i \in chosen : action(i) # "conflict"},
                                     !.content = content,
                                     !.savesEntry = overwrite /\ \E i \in chosen : Elsewhere(i)])
    /\ UNCHANGED <<destination, lock, market, hooksJson, hooksOf, torn, copies, edits, aborts, own, unsettled, lostEntry>>

-----------------------------------------------------------------------------
(* applyPlan.                                                              *)

Item == Head(plan.left).item

\* What is overwritten is copied to the backups of this command,
BackUp ==
    /\ plan.at = "back up"
    /\ copies' = copies \cup {<<Item, destination[Item]>>}
    /\ plan' = [plan EXCEPT !.at = "remove"]
    /\ UNCHANGED <<destination, lock, market, hooksJson, hooksOf, torn, adds, edits, aborts, own, unsettled, lostEntry>>

\* and removed;
RemoveOld ==
    /\ plan.at = "remove"
    /\ destination' = [destination EXCEPT ![Item] = "missing"]
    /\ plan' = [plan EXCEPT !.at = "copy"]
    /\ UNCHANGED <<lock, market, hooksJson, hooksOf, torn, copies, adds, edits, aborts, own, unsettled, lostEntry>>

\* then the source is copied.
Copy ==
    /\ plan.at = "copy"
    /\ destination' = [destination EXCEPT ![Item] = plan.content]
    /\ plan' = NextOf([plan EXCEPT !.left = Tail(@)])
    /\ UNCHANGED <<lock, market, hooksJson, hooksOf, torn, copies, adds, edits, aborts, own, unsettled, lostEntry>>

\* updateMarketplace: the entries of the installed plugins replace those of
\* their names; the file is saved before if the plan said so.
UpdateMarketplace ==
    /\ plan.at = "market"
    /\ market' = [i \in Plugins |-> IF i \in plan.installed THEN "pack" ELSE market[i]]
    /\ lostEntry' = \/ lostEntry
                    \/ ~plan.savesEntry /\ \E i \in plan.installed \cap Plugins : market[i] = "other" /\ lock[i] = "none"
    /\ plan' = [plan EXCEPT !.at = IF plan.installed \cap Hooks # {} THEN "hooks" ELSE "lock"]
    /\ UNCHANGED <<destination, lock, hooksJson, hooksOf, torn, copies, adds, edits, aborts, own, unsettled>>

\* Mutant: the groups that a hook pack brought before are left.
MergedOnly(groups, h) == groups \cup HookGroups[h][plan.content]
\* Its former groups go, those it has now are added.
Merged(groups, h) == (groups \ hooksOf[h]) \cup HookGroups[h][plan.content]
\* updateHooksJson, or its end when the file does not parse.
UpdateHooks ==
    /\ plan.at = "hooks"
    /\ IF "hooks" \in torn
       THEN plan' = NoPlan /\ unsettled' = unsettled \cup plan.installed /\ UNCHANGED <<hooksJson, hooksOf>>
       ELSE /\ hooksJson' = FoldLeft(Merged, hooksJson, SelectSeq(Items, LAMBDA i : i \in Hooks \cap plan.installed))
            /\ hooksOf' = [h \in Hooks |-> IF h \in plan.installed THEN HookGroups[h][plan.content] ELSE hooksOf[h]]
            /\ plan' = [plan EXCEPT !.at = "lock"] /\ UNCHANGED unsettled
    /\ UNCHANGED <<destination, lock, market, torn, copies, adds, edits, aborts, own, lostEntry>>

\* updatePackLock: what was installed, with the content it was planned with.
UpdateLock ==
    /\ plan.at = "lock"
    /\ lock' = [i \in ItemSet |-> IF i \in plan.installed THEN plan.content ELSE lock[i]]
    /\ plan' = NoPlan /\ unsettled' = unsettled \ plan.installed
    /\ UNCHANGED <<destination, market, hooksJson, hooksOf, torn, copies, adds, edits, aborts, own, lostEntry>>

\* The command dies; what it was writing is cut short.
Abort ==
    /\ plan.at # "none" /\ aborts < MaxAborts /\ aborts' = aborts + 1
    /\ plan' = NoPlan /\ unsettled' = unsettled \cup plan.installed
    /\ \/ UNCHANGED <<destination, torn>>
       \/ plan.at = "copy" /\ destination' = [destination EXCEPT ![Item] = "torn"] /\ UNCHANGED torn
       \/ plan.at \in PackFiles /\ torn' = torn \cup {plan.at} /\ UNCHANGED destination
    /\ UNCHANGED <<lock, market, hooksJson, hooksOf, copies, adds, edits, own, lostEntry>>

-----------------------------------------------------------------------------
(* The user: an item of one's own, and a file that is put right.           *)

Edit(i, as) ==
    /\ plan.at = "none" /\ edits < MaxEdits /\ edits' = edits + 1
    /\ as \in {"mine", "file"} /\ destination' = [destination EXCEPT ![i] = as]
    /\ own' = [own EXCEPT ![i] = as] /\ unsettled' = unsettled \cup {i}
    /\ UNCHANGED <<lock, market, hooksJson, hooksOf, torn, copies, plan, adds, aborts, lostEntry>>
EditEntry(i) ==
    /\ plan.at = "none" /\ edits < MaxEdits /\ edits' = edits + 1
    /\ market' = [market EXCEPT ![i] = "other"] /\ unsettled' = unsettled \cup {i}
    /\ UNCHANGED <<destination, lock, hooksJson, hooksOf, torn, copies, plan, adds, aborts, own, lostEntry>>
Repair ==
    /\ plan.at = "none" /\ torn # {} /\ torn' = {}
    /\ UNCHANGED <<destination, lock, market, hooksJson, hooksOf, copies, plan, adds, edits, aborts, own, unsettled, lostEntry>>

PackNext ==
    \/ \E chosen \in SUBSET ItemSet \ {{}}, content \in Contents, overwrite \in BOOLEAN : Add(chosen, content, overwrite)
    \/ BackUp \/ RemoveOld \/ Copy \/ UpdateMarketplace \/ UpdateHooks \/ UpdateLock
    \/ Abort \/ Repair \/ \E i \in ItemSet, as \in {"mine", "file"} : Edit(i, as)
    \/ \E i \in Plugins : EditEntry(i)

PackSpec == PackInit /\ [][PackNext]_packVars

-----------------------------------------------------------------------------
(* Properties.                                                             *)

\* What the user put at a destination is there or in a backup, also when the
\* command died on its way.
NothingIsLost == \A i \in ItemSet : own[i] \in {"none", destination[i]} \/ <<i, own[i]>> \in copies

\* When no command runs, an item that the lock names, and nobody changed since,
\* has that content; its plugin entry and its hook groups are there, unless
\* another pack brought the same group and took it away.
LockIsTrue ==
    plan.at = "none" =>
    \A i \in ItemSet \ unsettled : lock[i] # "none" =>
        /\ destination[i] = lock[i]
        /\ i \in Plugins => market[i] = "pack"
        /\ i \in Hooks => /\ hooksOf[i] = HookGroups[i][lock[i]]
                          /\ \A g \in hooksOf[i] : g \in hooksJson \/ \E h \in Hooks \ {i} : \E c \in Contents : g \in HookGroups[h][c]

\* hooks.json has the user's group, and no group that no pack has any more.
HooksAreCurrent ==
    UserGroup \in hooksJson /\ hooksJson \subseteq {UserGroup} \cup UNION {hooksOf[h] : h \in Hooks}

PacksAreSound == NothingIsLost /\ LockIsTrue /\ HooksAreCurrent /\ ~lostEntry
=============================================================================
