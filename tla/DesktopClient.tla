---------------------------- MODULE DesktopClient ----------------------------
(***************************************************************************)
(* athena-voice-client: one session, opened once the subscription is live, *)
(* with a text or with audio that a task of its own feeds into the MQTT    *)
(* client's bounded channel.  Only the main loop polls the event loop that *)
(* empties the channel, and it stops polling while it publishes `end`.     *)
(***************************************************************************)
EXTENDS Naturals, Sequences

CONSTANTS
    ChannelCap,   \* AsyncClient::new(opts, 64)
    Frames,       \* bound: 100 ms chunks of the recording
    MaxCuts       \* bound: connections lost

ASSUME ClientAssumption == {ChannelCap, Frames, MaxCuts} \subseteq Nat

VARIABLES
    mode,       \* "text" or "audio" (--text, or --wav and --microphone)
    at,         \* where main is
    channel,    \* requests no poll has taken yet
    online,     \* the event loop is connected
    listening,  \* the broker knows our subscription
    started,    \* `started`: the SubAck came
    feeder,     \* messages the audio task has still to publish
    heard,      \* tts chunks are there
    endSent,    \* `end_sent`
    late,       \* the deadline has passed
    cuts,
    said        \* what has been handed to the MQTT client, by session

clientVars == <<mode, at, channel, online, listening, started, feeder, heard,
          endSent, late, cuts, said>>

\* How far the session has come: main has still to send the text, or its task
\* the rest of the audio.
ClientStage ==
    IF ~started THEN "new"
    ELSE IF at = "text" \/ feeder > 0 THEN "open" ELSE "asked"

ClientProtocol == INSTANCE SessionProtocol
    WITH Sessions <- {1}, Lossless <- TRUE,
         stage <- [s \in {1} |-> ClientStage], wire <- said

Ending == {"end quiet", "end late", "end done"}

ClientTypeOK ==
    /\ mode \in {"text", "audio"}
    /\ at \in {"loop", "text", "flush", "exited"} \cup Ending
    /\ channel \in Seq({"subscribe", "publish"}) /\ Len(channel) <= ChannelCap
    /\ {online, listening, started, heard, endSent, late} \subseteq BOOLEAN
    /\ feeder \in 0..(Frames + 1)
    /\ cuts \in 0..MaxCuts

ClientInit ==
    /\ mode \in {"text", "audio"}
    /\ at = "loop" /\ channel = <<"subscribe">>
    /\ online = FALSE /\ listening = FALSE /\ started = FALSE
    /\ feeder = 0 /\ heard = FALSE /\ endSent = FALSE /\ late = FALSE
    /\ cuts = 0 /\ said = [s \in {1} |-> <<>>]

ChannelRoom == Len(channel) < ChannelCap
Say(ms) == said' = [said EXCEPT ![1] = ms]
Recorded(ms, m) == ClientProtocol!Recorded(ms, m)

\* eventloop.poll(): connects, and sends the next request; `started` comes
\* with the broker's answer to the subscribe.
PollConnects ==
    /\ at \in {"loop", "flush"} /\ ~online
    /\ online' = TRUE
    /\ UNCHANGED <<mode, at, channel, listening, started, feeder, heard,
                   endSent, late, cuts, said>>

PollSends ==
    /\ at \in {"loop", "flush"} /\ online /\ channel # <<>>
    /\ channel' = Tail(channel)
    /\ listening' = (listening \/ Head(channel) = "subscribe")
    /\ UNCHANGED <<mode, at, online, started, feeder, heard, endSent, late,
                   cuts, said>>

\* The connection breaks; nobody subscribes again after it.
PollFails ==
    /\ at \in {"loop", "flush"} /\ online /\ cuts < MaxCuts
    /\ cuts' = cuts + 1 /\ online' = FALSE /\ listening' = FALSE
    /\ UNCHANGED <<mode, at, channel, started, feeder, heard, endSent, late, said>>

\* The first SubAck opens the session with `start`; then comes the text, or the
\* task that feeds the audio.  Until now only the subscribe was in the channel.
SubAck ==
    /\ at = "loop" /\ listening /\ ~started
    /\ started' = TRUE
    /\ channel' = Append(channel, "publish")
    /\ Say(<<"start">>)
    /\ IF mode = "text" THEN at' = "text" /\ UNCHANGED feeder
                        ELSE feeder' = Frames + 1 /\ UNCHANGED at
    /\ UNCHANGED <<mode, online, listening, heard, endSent, late, cuts>>

SayText ==
    /\ at = "text" /\ ChannelRoom
    /\ channel' = Append(channel, "publish")
    /\ Say(Recorded(said[1], "question"))
    /\ at' = "loop"
    /\ UNCHANGED <<mode, online, listening, started, feeder, heard, endSent,
                   late, cuts>>

\* Faulty variant: after the marker comes the rest of the last chunk.
FeedAfterMarker ==
    /\ feeder > 0 /\ at # "exited" /\ ChannelRoom
    /\ channel' = Append(channel, "publish")
    /\ Say(Recorded(said[1], IF feeder = 2 THEN "question" ELSE "audio"))
    /\ feeder' = feeder - 1
    /\ UNCHANGED <<mode, at, online, listening, started, heard, endSent, late, cuts>>

\* The audio task waits for room, chunk by chunk; the last frame is empty.
Feed ==
    /\ feeder > 0 /\ at # "exited" /\ ChannelRoom
    /\ channel' = Append(channel, "publish")
    /\ Say(Recorded(said[1], IF feeder = 1 THEN "question" ELSE "audio"))
    /\ feeder' = feeder - 1
    /\ UNCHANGED <<mode, at, online, listening, started, heard, endSent, late, cuts>>

\* handle_publish: a chunk of the answer, or `done`, which ends the loop.
HandlePublish ==
    /\ at = "loop" /\ listening /\ started
    /\ \/ heard' = TRUE /\ UNCHANGED at
       \/ at' = "end done" /\ UNCHANGED heard
    /\ UNCHANGED <<mode, channel, online, listening, started, feeder, endSent,
                   late, cuts, said>>

\* The tick: 1.2 s without a chunk after the first one.
Quiet ==
    /\ at = "loop" /\ started /\ ~endSent /\ heard
    /\ endSent' = TRUE /\ at' = "end quiet"
    /\ UNCHANGED <<mode, channel, online, listening, started, feeder, heard,
                   late, cuts, said>>

Deadline ==
    /\ at = "loop" /\ ~late
    /\ late' = TRUE /\ at' = "end late"
    /\ UNCHANGED <<mode, channel, online, listening, started, feeder, heard,
                   endSent, cuts, said>>

\* Publishing `end` waits for room, and nobody polls meanwhile.
PublishEnd ==
    /\ at \in Ending /\ ChannelRoom
    /\ channel' = Append(channel, "publish")
    /\ Say(IF started THEN Recorded(said[1], "end") ELSE said[1])
    /\ at' = IF at = "end quiet" THEN "loop" ELSE "flush"
    /\ UNCHANGED <<mode, online, listening, started, feeder, heard, endSent,
                   late, cuts>>

\* Faulty variant: polls until everything has left.
FlushAll ==
    /\ at = "flush" /\ channel = <<>> /\ listening
    /\ at' = "exited"
    /\ UNCHANGED <<mode, channel, online, listening, started, feeder, heard,
                   endSent, late, cuts, said>>

\* flush_eventloop returns after a PubAck, a quiet 100 ms, or 500 ms.
FlushEnds ==
    /\ at = "flush"
    /\ at' = "exited"
    /\ UNCHANGED <<mode, channel, online, listening, started, feeder, heard,
                   endSent, late, cuts, said>>

ClientNext ==
    \/ PollConnects \/ PollSends \/ PollFails \/ SubAck \/ SayText
    \/ Feed \/ HandlePublish \/ Quiet \/ Deadline \/ PublishEnd \/ FlushEnds

\* Only the deadline is certain to come.
ClientFairness == /\ SF_clientVars(Deadline) /\ WF_clientVars(SayText)
            /\ WF_clientVars(PublishEnd) /\ WF_clientVars(FlushEnds)

-----------------------------------------------------------------------------
(* Properties *)

\* main waits for room in a channel that only main empties.
Stuck == at \in Ending /\ ~ChannelRoom

\* The program ends, at its deadline at the latest, unless it publishes `end`
\* while the audio task keeps the channel full; then it never does, and
\* --timeout-secs means nothing.  A text session cannot get there.
OnlyAFullChannelKeepsTheClient ==
    at # "exited" ~> at = "exited" \/ (mode = "audio" /\ Stuck)

ClientKeepsProtocol == ClientProtocol!Spec
=============================================================================
