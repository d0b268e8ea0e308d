----------------------------- MODULE WebhookSweep -----------------------------
(***************************************************************************)
(* /clear-webhooks: deleteWebhookMessages of                               *)
(* apps/discord-bridge/src/discord-transport.ts goes through a channel     *)
(* from its newest message to its oldest, a page at a time, and deletes    *)
(* the messages of all webhooks, or of one.  The channel goes on changing  *)
(* while it does, and two commands may run at a time.                      *)
(***************************************************************************)
EXTENDS Integers, Sequences, FiniteSets, FiniteSetsExt, SequencesExt

CONSTANTS
    Sweeps,      \* commands
    Authors,     \* webhooks, and people
    Webhooks,       \* the authors that are webhooks
    PageSize,    \* messages of one fetch; 100 in the code
    MaxPosts,    \* bound on messages; a message is its number
    MaxRefusals  \* bound on calls of Discord that fail

VARIABLES
    author,   \* the author of each message that was posted
    channel,  \* Discord: the messages that are there
    sweep,    \* the commands
    swept,    \* messages that commands deleted
    refusals

sweepVars == <<author, channel, sweep, swept, refusals>>

Posted == DOMAIN author
NotAsked == [at |-> "new", target |-> Webhooks, before |-> 0, page |-> <<>>, full |-> FALSE,
             deleted |-> 0, failed |-> 0, found |-> {}, refused |-> {}]

SweepTypeOK ==
    /\ author \in Seq(Authors) /\ channel \subseteq Posted /\ swept \subseteq Posted \ channel
    /\ \A s \in Sweeps :
         /\ sweep[s].at \in {"new", "fetching", "deleting", "told", "failed"}
         /\ sweep[s].target \subseteq Webhooks /\ sweep[s].deleted + sweep[s].failed \in 0..Len(author)
         /\ ToSet(sweep[s].page) \subseteq Posted
    /\ refusals \in 0..MaxRefusals

SweepInit ==
    /\ author = <<>> /\ channel = {} /\ swept = {} /\ refusals = 0
    /\ sweep = [s \in Sweeps |-> NotAsked]

Wanted(s, m) == author[m] \in sweep[s].target

\* The command: every webhook, or the one whose URL is given.
Ask(s, target) ==
    /\ sweep[s].at = "new"
    /\ sweep' = [sweep EXCEPT ![s] = [@ EXCEPT !.at = "fetching", !.target = target,
                                               !.found = {m \in channel : author[m] \in target}]]
    /\ UNCHANGED <<author, channel, swept, refusals>>

\* messages.fetch: the newest messages before one, newest first.  The first
\* fetch asks for the newest of all.
Before(s) == IF sweep[s].before = 0 THEN channel ELSE {m \in channel : m < sweep[s].before}
Newest(some) ==
    LET sorted == SetToSortSeq(some, >) IN SubSeq(sorted, 1, IF Len(sorted) < PageSize THEN Len(sorted) ELSE PageSize)
Fetch(s) ==
    /\ sweep[s].at = "fetching"
    /\ LET page == Newest(Before(s)) IN
       sweep' = [sweep EXCEPT ![s] =
                   IF page = <<>> THEN [@ EXCEPT !.at = "told"]
                   ELSE [@ EXCEPT !.at = "deleting", !.page = page, !.before = Last(page), !.full = Len(page) = PageSize]]
    /\ UNCHANGED <<author, channel, swept, refusals>>
\* A fetch that fails ends the command; its reply tells no numbers.
FetchFails(s) ==
    /\ sweep[s].at = "fetching" /\ refusals < MaxRefusals /\ refusals' = refusals + 1
    /\ sweep' = [sweep EXCEPT ![s].at = "failed"]
    /\ UNCHANGED <<author, channel, swept>>

\* The messages of the page, one after the other.
Skip(s) ==
    /\ sweep[s].at = "deleting" /\ sweep[s].page # <<>> /\ ~Wanted(s, Head(sweep[s].page))
    /\ sweep' = [sweep EXCEPT ![s].page = Tail(@)]
    /\ UNCHANGED <<author, channel, swept, refusals>>
Delete(s) ==
    /\ sweep[s].at = "deleting" /\ sweep[s].page # <<>> /\ Wanted(s, Head(sweep[s].page))
    /\ LET m == Head(sweep[s].page) IN
       \/ /\ m \in channel /\ channel' = channel \ {m} /\ swept' = swept \cup {m}
          /\ sweep' = [sweep EXCEPT ![s].page = Tail(@), ![s].deleted = @ + 1]
          /\ UNCHANGED refusals
       \* It is gone, or Discord refuses.
       \/ /\ refusals' = refusals + (IF m \in channel THEN 1 ELSE 0) /\ refusals' <= MaxRefusals
          /\ sweep' = [sweep EXCEPT ![s].page = Tail(@), ![s].failed = @ + 1, ![s].refused = @ \cup {m}]
          /\ UNCHANGED <<channel, swept>>
    /\ UNCHANGED author

\* Mutant: a page on which not all is deleted is taken for the last one.
AllDeleted(s) == sweep[s].full /\ sweep[s].deleted >= PageSize
\* Whether there may be another page.
GoesOn(s) == sweep[s].full
\* A short page is the last; the next starts before the oldest of this one,
\* whether that is still there or not.
PageDone(s) ==
    /\ sweep[s].at = "deleting" /\ sweep[s].page = <<>>
    /\ sweep' = [sweep EXCEPT ![s].at = IF GoesOn(s) THEN "fetching" ELSE "told"]
    /\ UNCHANGED <<author, channel, swept, refusals>>

\* The channel: somebody writes, or deletes a message.
Post(a) ==
    /\ Len(author) < MaxPosts /\ author' = Append(author, a) /\ channel' = channel \cup {Len(author) + 1}
    /\ UNCHANGED <<sweep, swept, refusals>>
Withdraw(m) ==
    /\ m \in channel /\ refusals < MaxRefusals /\ refusals' = refusals + 1 /\ channel' = channel \ {m}
    /\ UNCHANGED <<author, sweep, swept>>

SweepNext ==
    \/ \E s \in Sweeps :
         \/ \E target \in {Webhooks} \cup {{h} : h \in Webhooks} : Ask(s, target)
         \/ Fetch(s) \/ FetchFails(s) \/ Skip(s) \/ Delete(s) \/ PageDone(s)
    \/ \E a \in Authors : Post(a)
    \/ \E m \in Posted : Withdraw(m)

SweepSpec == SweepInit /\ [][SweepNext]_sweepVars
-----------------------------------------------------------------------------
(* Properties.                                                             *)

\* A command that tells its numbers has deleted what it was asked to and what
\* was there at the time, or has counted it as failed, however the channel
\* changed under its pages (handleClearWebhooks tells "deleted" and "failed").
SweepIsComplete ==
    \A s \in Sweeps : sweep[s].at = "told" => sweep[s].found \cap channel \subseteq sweep[s].refused

\* Two commands never both count a message as deleted, and none of them deletes
\* what no command was asked for.
SweptIsCounted ==
    /\ Cardinality(swept) = MapThenSumSet(LAMBDA s : sweep[s].deleted, Sweeps)
    /\ \A m \in swept : \E s \in Sweeps : Wanted(s, m)

SweepsAreSound == SweepIsComplete /\ SweptIsCounted
=============================================================================
