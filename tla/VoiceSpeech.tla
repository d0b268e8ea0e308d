------------------------------ MODULE VoiceSpeech ------------------------------
(***************************************************************************)
(* The speech queue of the voice gateway and its Discord speaker           *)
(* (apps/workspace-voice-gateway/src/speech-queue.ts, discord-voice.ts and *)
(* tts-client.ts): one announcement at a time is synthesized and played    *)
(* over a voice connection, which Discord may drop and the speaker joins   *)
(* again.                                                                  *)
(***************************************************************************)
EXTENDS Integers, Sequences, FiniteSets, SequencesExt

CONSTANTS
    Spoken,    \* ids of announcements
    Urgent,    \* those of priority high
    MaxQueued, \* maxQueuedAnnouncements
    MaxSeen,   \* maxSeenAnnouncements
    MaxHeard,  \* bound on the announcements, repeated ones included
    MaxLosses  \* bound on lost voice connections

ASSUME SpeechAssumption ==
    /\ MaxQueued \in Nat /\ MaxSeen \in Nat \ {0}
    /\ MaxHeard \in Nat /\ MaxLosses \in Nat

VARIABLES
    speech,      \* the queue
    seenSpeech,  \* seenOrder
    speaking,    \* the announcement in speak: its id, how far, and on which player
    voice,       \* the voice connection: its number and state
    player,      \* the number of the connection that the player was made for
    rejoining,   \* #recoverConnection: "no", "waits" or "joins"
    closing,     \* the queue is closed
    speechHeard, \* announcements so far
    said,        \* how often an id was passed to speak
    lost,        \* lost connections
    droppedIds   \* ids that a full queue dropped

speechVars == <<speech, seenSpeech, speaking, voice, player, rejoining, closing,
                speechHeard, said, lost, droppedIds>>

Silence == [id |-> "none", at |-> "none", player |-> 0]
SpeechTypeOK ==
    /\ speech \in Seq(Spoken) /\ (Len(speech) <= MaxQueued \/ Len(speech) <= 1)
    /\ seenSpeech \in Seq(Spoken) /\ Len(seenSpeech) <= MaxSeen
    /\ speaking \in [id: Spoken \cup {"none"}, player: Nat,
                     at: {"none", "synthesizing", "playing", "over"}]
    /\ voice \in [n: Nat, state: {"ready", "disconnected", "connecting", "destroyed"}]
    /\ player \in Nat /\ rejoining \in {"no", "waits", "joins"} /\ closing \in BOOLEAN
    /\ speechHeard \in 0..MaxHeard /\ lost \in 0..MaxLosses
    /\ said \in [Spoken -> Nat] /\ droppedIds \subseteq Spoken

\* start: the gateway has joined before anything is announced.
SpeechInit ==
    /\ speech = <<>> /\ seenSpeech = <<>> /\ speaking = Silence
    /\ voice = [n |-> 1, state |-> "ready"] /\ player = 1 /\ rejoining = "no"
    /\ closing = FALSE /\ speechHeard = 0 /\ lost = 0
    /\ said = [a \in Spoken |-> 0] /\ droppedIds = {}

\* Mutant: nothing is remembered.
Forget(a) == seenSpeech
\* #remember: the oldest are forgotten.
Remember(a) ==
    IF Len(seenSpeech) < MaxSeen THEN Append(seenSpeech, a) ELSE Append(Tail(seenSpeech), a)
\* A full queue drops its head, the next to be spoken.
Full == speech # <<>> /\ Len(speech) >= MaxQueued
Kept == IF Full THEN Tail(speech) ELSE speech
\* enqueue, and #drain, which takes the head at once when nothing is spoken.
Enqueue(a) ==
    /\ ~closing /\ speechHeard < MaxHeard /\ speechHeard' = speechHeard + 1
    /\ \/ /\ a \in ToSet(seenSpeech)
          /\ UNCHANGED <<speech, seenSpeech, speaking, said, droppedIds>>
       \/ /\ a \notin ToSet(seenSpeech)
          /\ seenSpeech' = Remember(a)
          /\ LET queue == IF a \in Urgent THEN <<a>> \o Kept ELSE Append(Kept, a) IN
             IF speaking.at = "none"
             THEN /\ speech' = Tail(queue)
                  /\ speaking' = [id |-> Head(queue), at |-> "synthesizing", player |-> player]
                  /\ said' = [said EXCEPT ![Head(queue)] = @ + 1]
             ELSE speech' = queue /\ UNCHANGED <<speaking, said>>
          /\ droppedIds' = IF Full THEN droppedIds \cup {Head(speech)} ELSE droppedIds
    /\ UNCHANGED <<voice, player, rejoining, closing, lost>>

\* speak: the file is synthesized and played on the player that was there at
\* first, or one of that throws.
Play ==
    /\ speaking.at = "synthesizing"
    /\ speaking' = [speaking EXCEPT !.at = "playing"]
    /\ UNCHANGED <<speech, seenSpeech, voice, player, rejoining, closing, speechHeard, said, lost,
                   droppedIds>>
SynthesisFails ==
    /\ speaking.at = "synthesizing"
    /\ speaking' = [speaking EXCEPT !.at = "over"]
    /\ UNCHANGED <<speech, seenSpeech, voice, player, rejoining, closing, speechHeard, said, lost,
                   droppedIds>>

\* The player pauses without a connection that is ready; else it plays to the
\* end or to an error, and its listener resolves the playback.
Audible == voice.state = "ready" /\ voice.n = speaking.player
PlayerIdle ==
    /\ speaking.at = "playing" /\ Audible
    /\ speaking' = [speaking EXCEPT !.at = "over"]
    /\ UNCHANGED <<speech, seenSpeech, voice, player, rejoining, closing, speechHeard, said, lost,
                   droppedIds>>

\* Mutant: #drain says one announcement.
DrainsOne == TRUE
\* The loop of #drain goes on with the next.
DrainEnds == speech = <<>> \/ closing
SpeakNext ==
    /\ speaking.at = "over"
    /\ IF DrainEnds
       THEN speaking' = Silence /\ UNCHANGED <<speech, said>>
       ELSE /\ speaking' = [id |-> Head(speech), at |-> "synthesizing", player |-> player]
            /\ speech' = Tail(speech) /\ said' = [said EXCEPT ![Head(speech)] = @ + 1]
    /\ UNCHANGED <<seenSpeech, voice, player, rejoining, closing, speechHeard, lost, droppedIds>>

\* Discord drops the connection; while one recovery runs another does not start.
Lose ==
    /\ ~closing /\ voice.state \in {"ready", "connecting"} /\ lost < MaxLosses
    /\ lost' = lost + 1 /\ voice' = [voice EXCEPT !.state = "disconnected"]
    /\ rejoining' = IF rejoining # "no" THEN rejoining ELSE "waits"
    /\ UNCHANGED <<speech, seenSpeech, speaking, player, closing, speechHeard, said, droppedIds>>
\* @discordjs/voice connects again by itself.
Reconnect ==
    /\ ~closing
    /\ \/ voice.state = "disconnected" /\ voice' = [voice EXCEPT !.state = "connecting"]
       \/ voice.state = "connecting" /\ voice' = [voice EXCEPT !.state = "ready"]
    /\ UNCHANGED <<speech, seenSpeech, speaking, player, rejoining, closing, speechHeard, said,
                   lost, droppedIds>>
\* #recoverConnection sees that it does within five seconds,
Recovered ==
    /\ ~closing /\ rejoining = "waits" /\ voice.state # "disconnected" /\ rejoining' = "no"
    /\ UNCHANGED <<speech, seenSpeech, speaking, voice, player, closing, speechHeard, said, lost,
                   droppedIds>>
\* or destroys it and joins the channel again,
GiveUpVoice ==
    /\ ~closing /\ rejoining = "waits" /\ voice.state = "disconnected"
    /\ rejoining' = "joins" /\ voice' = [voice EXCEPT !.state = "destroyed"]
    /\ UNCHANGED <<speech, seenSpeech, speaking, player, closing, speechHeard, said, lost,
                   droppedIds>>
\* with a player for the new connection, unless that is not ready in time or
\* not even asked for.  Nobody tries again.
JoinAgain ==
    /\ ~closing /\ rejoining = "joins" /\ voice.state = "destroyed"
    /\ \/ voice' = [n |-> voice.n + 1, state |-> "connecting"] /\ UNCHANGED rejoining
       \/ rejoining' = "no" /\ UNCHANGED voice
    /\ UNCHANGED <<speech, seenSpeech, speaking, player, closing, speechHeard, said, lost,
                   droppedIds>>
Joined ==
    /\ ~closing /\ rejoining = "joins" /\ voice.state # "destroyed" /\ rejoining' = "no"
    /\ \/ voice.state = "ready" /\ player' = voice.n
       \/ voice.state # "ready" /\ UNCHANGED player
    /\ UNCHANGED <<speech, seenSpeech, speaking, voice, closing, speechHeard, said, lost,
                   droppedIds>>

\* close: the queue is emptied and the connection destroyed; the process exits.
CloseSpeech ==
    /\ ~closing /\ closing' = TRUE
    /\ speech' = <<>> /\ voice' = [voice EXCEPT !.state = "destroyed"]
    /\ UNCHANGED <<seenSpeech, speaking, player, rejoining, speechHeard, said, lost, droppedIds>>

SpeechNext ==
    \/ \E a \in Spoken : Enqueue(a)
    \/ Play \/ SynthesisFails \/ PlayerIdle \/ SpeakNext
    \/ Lose \/ Reconnect \/ Recovered \/ GiveUpVoice \/ JoinAgain \/ Joined \/ CloseSpeech

\* Synthesis answers, what is heard ends, and the loop is the event loop's.
SpeechSpec ==
    /\ SpeechInit /\ [][SpeechNext]_speechVars
    /\ WF_speechVars(Play) /\ WF_speechVars(PlayerIdle) /\ WF_speechVars(SpeakNext)

\* An announcement that is remembered was said, waits, or was dropped from a full
\* queue or by close: a repeated one that is turned away is never a lost one.
NoneIsLost ==
    \A a \in ToSet(seenSpeech) :
        closing \/ said[a] > 0 \/ a \in ToSet(speech) \/ a \in droppedIds

\* While none is forgotten every announcement has one fate: it waits at one place,
\* or it was said, once, or it was dropped.
OneFate ==
    Len(seenSpeech) < MaxSeen =>
        /\ \A i, j \in DOMAIN speech : i # j => speech[i] # speech[j]
        /\ \A a \in ToSet(speech) : said[a] = 0 /\ a \notin droppedIds
        /\ \A a \in Spoken : said[a] <= 1 /\ (a \in droppedIds => said[a] = 0)

\* Whatever repeats come from the observers, an announcement is said once.
SaidOnce == NoneIsLost /\ OneFate

\* Waiting announcements are said or dropped, unless the one before them plays
\* for a connection that is gone: a player that lost its connection for good
\* never reports that it is idle.
Stranded == speaking.at = "playing" /\ ~Audible
SpeechFlows ==
    \A a \in Spoken :
        a \in ToSet(speech) ~> (a \notin ToSet(speech) \/ Stranded)
=============================================================================
