------------------------------ MODULE Satellite ------------------------------
(***************************************************************************)
(* The ESP32 satellite: the main loop that owns the session state machine  *)
(* (session.rs) and runs its commands, and the threads around it: button,  *)
(* microphone, ticker, MQTT callbacks and speaker.  The threads talk to    *)
(* the main loop by one unbounded channel, and the microphone thread       *)
(* shares two flags with it, `streaming` and `armed`.                      *)
(*                                                                         *)
(* The server is whoever publishes on the session's topics: any message,   *)
(* in any order, late, for an old session, or never.                       *)
(***************************************************************************)
EXTENDS Naturals, Sequences

CONSTANTS
    MaxSessions,   \* bound: triggers that open a session
    QueueBound,    \* bound: events waiting for the main loop
    MaxInbound,    \* bound: messages from the server
    MaxOutages,    \* bound: connections lost
    UtteranceTicks, ReplyTicks   \* UTTERANCE_MAX_MS, REPLY_TIMEOUT_MS

ASSUME SatelliteAssumption ==
    /\ {MaxSessions, MaxInbound, MaxOutages} \subseteq Nat
    /\ {QueueBound, UtteranceTicks, ReplyTicks} \subseteq Nat \ {0}

VARIABLES
    state,       \* Session.state
    sid,         \* Session.sid, 0 for None; ids count the sessions
    opened,      \* sessions opened so far
    left,        \* ticks until Session.deadline_ms
    main,        \* the main loop: waiting, or with the flags still to store
    events,      \* the channel of AppEvents
    streaming, armed,   \* the flags
    mic,         \* the microphone thread
    speaker,     \* the speaker thread has audio to play
    link,        \* connection to the broker, and whether it knows our filters
    inbound, outages,
    wire         \* what has been published, by session

session == <<state, sid, opened, left>>
flags   == <<streaming, armed>>
net     == <<link, inbound, outages>>
vars    == <<session, main, events, flags, mic, speaker, net, wire>>

Ids == 1..MaxSessions
Ticks == 0..(IF UtteranceTicks > ReplyTicks THEN UtteranceTicks ELSE ReplyTicks)
Inbound == {"answer", "done"} \X Ids
Event == Inbound \cup ({"trigger", "frame", "utterance end", "tick"} \X {0})

TypeOK ==
    /\ state \in {"Idle", "Streaming", "AwaitingReply", "Playing"}
    /\ sid \in 0..MaxSessions /\ opened \in 0..MaxSessions
    /\ left \in Ticks
    /\ main \in {"receive", "store streaming", "store armed"}
    /\ events \in Seq(Event)
    /\ streaming \in BOOLEAN /\ armed \in BOOLEAN
    /\ mic \in [at : {"read", "send", "stop", "end", "wake"}, was : BOOLEAN,
                spoke : BOOLEAN, done : BOOLEAN]
    /\ speaker \in BOOLEAN
    /\ link \in {"subscribed", "down", "up"}
    /\ inbound \in 0..MaxInbound /\ outages \in 0..MaxOutages

Init ==
    /\ state = "Idle" /\ sid = 0 /\ opened = 0 /\ left = 0
    /\ main = "receive" /\ events = <<>>
    /\ streaming = FALSE /\ armed = TRUE
    /\ mic = [at |-> "read", was |-> FALSE, spoke |-> FALSE, done |-> FALSE]
    /\ speaker = FALSE
    /\ link = "subscribed" /\ inbound = 0 /\ outages = 0
    /\ wire = [s \in Ids |-> <<>>]

Room == Len(events) < QueueBound
Queue(event) == Room /\ events' = Append(events, event)

-----------------------------------------------------------------------------
(* The session state machine, run by the main loop *)

\* How far a session has come is what the session machine makes of it.
Stage(s) ==
    IF s > opened THEN "new"
    ELSE IF state = "Streaming" /\ s = sid THEN "open" ELSE "asked"

Protocol == INSTANCE SessionProtocol
    WITH Sessions <- Ids, Lossless <- FALSE, stage <- [s \in Ids |-> Stage(s)]

\* mqtt.publish, QoS 0: without a connection it fails, which is only logged,
\* and the session goes on as if the message had been sent.
Publish(s, m) ==
    wire' = IF link = "down" THEN wire
            ELSE [wire EXCEPT ![s] = Protocol!Recorded(@, m)]

OnTrigger ==
    IF state = "Idle" /\ opened < MaxSessions
    THEN /\ state' = "Streaming" /\ left' = UtteranceTicks
         /\ sid' = opened + 1 /\ opened' = opened + 1
         /\ Publish(opened + 1, "start")
    ELSE UNCHANGED <<session, wire>>

OnMicFrame ==
    /\ IF state = "Streaming" THEN Publish(sid, "audio") ELSE UNCHANGED wire
    /\ UNCHANGED session

\* Faulty variant: any silence ends the utterance, also of a session that has
\* already sent its marker.
EndUtteranceAgain ==
    IF state # "Idle"
    THEN /\ state' = "AwaitingReply" /\ left' = ReplyTicks
         /\ Publish(sid, "question")
         /\ UNCHANGED <<sid, opened>>
    ELSE UNCHANGED <<session, wire>>

\* end_utterance: the empty frame, once.
EndUtterance ==
    IF state = "Streaming"
    THEN /\ state' = "AwaitingReply" /\ left' = ReplyTicks
         /\ Publish(sid, "question")
         /\ UNCHANGED <<sid, opened>>
    ELSE UNCHANGED <<session, wire>>

\* Faulty variant: the microphone is not told.
FinishQuietly ==
    /\ state' = "Idle" /\ sid' = 0 /\ left' = 0
    /\ UNCHANGED <<opened, streaming>>

\* finish, with the main loop's SessionEnded: the microphone stops.
Finish ==
    /\ state' = "Idle" /\ sid' = 0 /\ left' = 0
    /\ UNCHANGED opened
    /\ streaming' = FALSE

\* on_inbound: a message of the session, once the question is asked: its answer
\* (tts/meta, or tts with audio for the speaker) or `done`.  What is only shown
\* (transcript, tts/text) changes nothing and is left out.
OnInbound(kind, s) ==
    IF state \in {"AwaitingReply", "Playing"} /\ s = sid
    THEN \/ /\ kind = "answer"
            /\ state' = "Playing"
            /\ speaker' \in {TRUE, speaker}
            /\ UNCHANGED <<sid, opened, left, streaming>>
         \/ /\ kind = "done"
            /\ Finish /\ UNCHANGED speaker
      ELSE UNCHANGED <<session, streaming, speaker>>

\* Faulty variant: playback is given all the time it takes.
OnTickSparesPlayback ==
    \/ state = "Streaming" /\ left = 0 /\ EndUtterance /\ UNCHANGED streaming
    \/ state = "AwaitingReply" /\ left = 0 /\ Finish /\ UNCHANGED wire
    \/ (state \in {"Idle", "Playing"} \/ left > 0) /\ UNCHANGED <<session, wire, streaming>>

\* on_tick: the deadlines, which the first answer does not extend.
OnTick ==
    \/ state = "Streaming" /\ left = 0 /\ EndUtterance /\ UNCHANGED streaming
    \/ state \in {"AwaitingReply", "Playing"} /\ left = 0 /\ Finish /\ UNCHANGED wire
    \/ (state = "Idle" \/ left > 0) /\ UNCHANGED <<session, wire, streaming>>

\* One turn of the main loop: the event is handled ...
Handle ==
    /\ main = "receive" /\ events # <<>>
    /\ events' = Tail(events)
    /\ main' = "store streaming"
    /\ LET event == Head(events) IN
       \/ event[1] = "trigger" /\ OnTrigger /\ UNCHANGED <<streaming, speaker>>
       \/ event[1] = "frame" /\ OnMicFrame /\ UNCHANGED <<streaming, speaker>>
       \/ event[1] = "utterance end" /\ EndUtterance /\ UNCHANGED <<streaming, speaker>>
       \/ event[1] = "tick" /\ OnTick /\ UNCHANGED speaker
       \/ event \in Inbound /\ OnInbound(event[1], event[2]) /\ UNCHANGED wire
    /\ UNCHANGED <<armed, mic, net>>

\* ... and then the flags are stored, one after the other, while the
\* microphone thread reads and writes them too.
StoreStreaming ==
    /\ main = "store streaming"
    /\ streaming' = (streaming \/ state = "Streaming")
    /\ main' = "store armed"
    /\ UNCHANGED <<session, events, armed, mic, speaker, net, wire>>

StoreArmed ==
    /\ main = "store armed"
    /\ armed' = (state = "Idle")
    /\ main' = "receive"
    /\ UNCHANGED <<session, events, streaming, mic, speaker, net, wire>>

-----------------------------------------------------------------------------
(* The threads *)

Press ==
    /\ opened < MaxSessions
    /\ Queue(<<"trigger", 0>>)
    /\ UNCHANGED <<session, main, flags, mic, speaker, net, wire>>

Clock ==
    /\ left > 0 /\ left' = left - 1
    /\ UNCHANGED <<state, sid, opened, main, events, flags, mic, speaker, net, wire>>

\* Bound: one tick in the channel at a time, they are all alike.
Tick ==
    /\ \A i \in DOMAIN events : events[i] # <<"tick", 0>>
    /\ Queue(<<"tick", 0>>)
    /\ UNCHANGED <<session, main, flags, mic, speaker, net, wire>>

micOnly == <<session, main, speaker, net, wire>>

\* A frame is read.  While streaming, the silence tracker, reset at the first
\* such frame, says whether the utterance ends here: only after some speech.
MicReads ==
    /\ mic.at = "read" /\ streaming
    /\ LET spoke == mic.was /\ mic.spoke IN
       \/ mic' = [at |-> "send", was |-> TRUE, spoke |-> TRUE, done |-> FALSE]
       \/ \E done \in {FALSE, spoke} :
             mic' = [at |-> "send", was |-> TRUE, spoke |-> spoke, done |-> done]
    /\ UNCHANGED <<events, flags, micOnly>>

MicSends ==
    /\ mic.at = "send"
    /\ Queue(<<"frame", 0>>)
    /\ mic' = [mic EXCEPT !.at = IF mic.done THEN "stop" ELSE "read",
                          !.done = FALSE]
    /\ UNCHANGED <<flags, micOnly>>

MicStops ==
    /\ mic.at = "stop"
    /\ streaming' = FALSE
    /\ mic' = [mic EXCEPT !.at = "end"]
    /\ UNCHANGED <<events, armed, micOnly>>

MicEnds ==
    /\ mic.at = "end"
    /\ Queue(<<"utterance end", 0>>)
    /\ mic' = [mic EXCEPT !.at = "read"]
    /\ UNCHANGED <<flags, micOnly>>

\* Idle: the frame only tells the room's noise, and, when armed, may complete
\* the wake word.
MicIdles ==
    /\ mic.at = "read" /\ ~streaming
    /\ mic' = [mic EXCEPT !.was = FALSE, !.spoke = FALSE,
                          !.at = IF armed /\ opened < MaxSessions THEN "wake" ELSE "read"]
    /\ UNCHANGED <<events, flags, micOnly>>

MicWakes ==
    /\ mic.at = "wake"
    /\ mic' = [mic EXCEPT !.at = "read"]
    /\ Queue(<<"trigger", 0>>) \/ UNCHANGED events
    /\ UNCHANGED <<flags, micOnly>>

\* A message from the server, through the MQTT callback and mqtt-fwd.
Receive ==
    /\ link = "subscribed" /\ inbound < MaxInbound
    /\ \E kind \in {"answer", "done"}, s \in 1..opened : Queue(<<kind, s>>)
    /\ inbound' = inbound + 1
    /\ UNCHANGED <<session, main, flags, mic, speaker, link, outages, wire>>

\* The speaker thread has played what there was.
Play ==
    /\ speaker /\ speaker' = FALSE
    /\ UNCHANGED <<session, main, events, flags, mic, net, wire>>

\* A connection is lost, esp-idf reconnects, and the helper thread subscribes
\* again for every Connected event.
Disconnect ==
    /\ link # "down" /\ outages < MaxOutages
    /\ link' = "down" /\ outages' = outages + 1
    /\ UNCHANGED <<session, main, events, flags, mic, speaker, inbound, wire>>

Reconnect ==
    /\ link = "down" /\ link' = "up"
    /\ UNCHANGED <<session, main, events, flags, mic, speaker, inbound, outages, wire>>

Resubscribe ==
    /\ link = "up" /\ link' = "subscribed"
    /\ UNCHANGED <<session, main, events, flags, mic, speaker, inbound, outages, wire>>

Next ==
    \/ Handle \/ StoreStreaming \/ StoreArmed
    \/ Press \/ Clock \/ Tick \/ Receive \/ Play
    \/ MicReads \/ MicSends \/ MicStops \/ MicEnds \/ MicIdles \/ MicWakes
    \/ Disconnect \/ Reconnect \/ Resubscribe

\* The main loop runs, time passes and the ticker ticks; the other threads, the
\* server and the network owe nothing.  The channel is not really bounded, so
\* the ticker finds room again and again: hence SF.
Fairness ==
    /\ WF_vars(Handle) /\ WF_vars(StoreStreaming) /\ WF_vars(StoreArmed)
    /\ WF_vars(Clock) /\ SF_vars(Tick)

Spec == Init /\ [][Next]_vars /\ Fairness

-----------------------------------------------------------------------------
(* Properties *)

\* Between two turns of the main loop the microphone streams for no session
\* that is over, and the wake word is listened for exactly when no session is
\* open, whatever the microphone thread stored in between (SessionEnded and
\* the flag stores of the main loop).
IdleMicIsArmed ==
    /\ main = "receive" => (armed <=> state = "Idle")
    /\ state = "Idle" => ~streaming
    /\ state = "Idle" <=> sid = 0

\* Every session returns to idle, also when the server never answers, answers
\* without end, or its `done` is lost: ticks and deadlines see to it (on_tick).
SessionsEnd == state # "Idle" ~> state = "Idle"

\* What is published, with all the firmware's threads, stale events and
\* failed publishes, is what SessionProtocol lets a lossy satellite say
\* (session.rs, "Satellite protocol"; main.rs, "publish to ... failed").
ImplementsProtocol == Protocol!Spec

\* main.rs: "Wake detection only listens while the session is idle, so TTS
\* playback can't retrigger it".
PlaybackCannotRetrigger == mic.at = "wake" => ~speaker
=============================================================================
