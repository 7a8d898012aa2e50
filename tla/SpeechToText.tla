---------------------------- MODULE SpeechToText -----------------------------
(***************************************************************************)
(* The way of one session's speech: audio frames from the satellite pass   *)
(* the ingest and VAD stages, MqttStt pumps them over MQTT to the STT      *)
(* worker, the worker transcribes an utterance at its boundary, and the    *)
(* transcripts come back by the provider client's route of the session to  *)
(* the STT stage, which hands them to the router.                          *)
(*                                                                         *)
(* A frame is <<"pcm", u>>, audio of utterance u long enough to be worth   *)
(* transcribing, or <<"mark", u>>, the empty frame that ends utterance u.  *)
(*                                                                         *)
(* The client serves every session, and its task both empties the request  *)
(* channel and waits for room in it, after each ConnAck.                   *)
(***************************************************************************)
EXTENDS Naturals, Sequences

CONSTANTS
    AudioCap,       \* capacity of a session's audio channel (64)
    StageCap,       \* capacity of the channels between the stages (64)
    NetCap,         \* requests on their way to the worker (128 in the client)
    RouteCap,       \* capacity of a route (32)
    Frames,         \* bound: audio frames of one utterance
    MaxUtterances,  \* bound: utterances spoken
    MaxLosses       \* bound: broker and worker failures

\* An utterance has audio.
ASSUME SttAssumption ==
    /\ Frames \in Nat \ {0}
    /\ {AudioCap, StageCap, NetCap, RouteCap, MaxUtterances, MaxLosses} \subseteq Nat

VARIABLES
    spoken,       \* frames the satellite has sent
    cancelled,    \* the session's token
    queue,        \* the channels "audio", "ingest" (to VAD) and "vad" (to STT)
    stage,        \* the frame each stage is sending, or its state
    stt,          \* the STT stage
    pump,         \* the task that publishes the audio
    net,          \* requests on their way to the worker
    worker,       \* its buffer for the session, and what it is transcribing
    replies,      \* responses on their way back
    route,        \* the client's route of the session
    transcripts,  \* transcripts the router got
    losses,
    sttWedged,    \* the client's task waits for room that only it can make
    lossless      \* nothing has been dropped, lost or timed out so far

sttVars == <<spoken, cancelled, queue, stage, stt, pump, net, worker, replies,
          route, transcripts, losses, sttWedged, lossless>>

Stages == {"ingest", "vad"}
Input(st) == IF st = "ingest" THEN "audio" ELSE "ingest"
Utterances == 1..MaxUtterances
Frame == {"pcm", "mark"} \X Utterances
Request == Frame \cup {<<"start", 0>>, <<"done", 0>>}
NoBuffer == [known |-> FALSE, locale |-> "fr", pcm |-> <<>>]
Transcript == [audio : Seq(Utterances), locale : {"fr", "en"}]
Nothing == [audio |-> <<>>, locale |-> "fr"]

SttTypeOK ==
    /\ spoken \in 0..(MaxUtterances * (Frames + 1))
    /\ {cancelled, sttWedged, lossless} \subseteq BOOLEAN
    /\ losses \in 0..MaxLosses
    /\ queue \in [{"audio", "ingest", "vad"} -> Seq(Frame)]
    /\ Len(queue["audio"]) <= AudioCap
    /\ \A st \in Stages : Len(queue[st]) <= StageCap
    /\ stage \in [Stages -> Frame \cup {<<"select", 0>>, <<"ended", 0>>}]
    /\ stt \in [at : {"call", "select", "send", "ended"}, holds : Transcript]
    /\ pump \in {"off", "run", "flush", "ended"}
    /\ net \in Seq(Request) /\ Len(net) <= NetCap
    /\ worker \in [buffer : [known : BOOLEAN, locale : {"fr", "en"}, pcm : Seq(Utterances)],
                   busy : Transcript]
    /\ replies \in Seq(Transcript) /\ transcripts \in Seq(Transcript)
    /\ route \in [known : BOOLEAN, open : BOOLEAN, queue : Seq(Transcript)]
    /\ Len(route.queue) <= RouteCap

SttInit ==
    /\ spoken = 0 /\ cancelled = FALSE /\ lossless = TRUE /\ losses = 0
    /\ sttWedged = FALSE
    /\ queue = [q \in {"audio", "ingest", "vad"} |-> <<>>]
    /\ stage = [st \in Stages |-> <<"select", 0>>]
    /\ stt = [at |-> "call", holds |-> Nothing]
    /\ pump = "off" /\ net = <<>>
    /\ worker = [buffer |-> NoBuffer, busy |-> Nothing]
    /\ replies = <<>> /\ transcripts = <<>>
    /\ route = [known |-> FALSE, open |-> FALSE, queue |-> <<>>]

-----------------------------------------------------------------------------
(* Ingress and the passthrough stages *)

\* The satellite speaks: Frames audio frames per utterance, then the marker.
NextFrame ==
    LET u == spoken \div (Frames + 1) + 1
    IN  <<IF spoken % (Frames + 1) = Frames THEN "mark" ELSE "pcm", u>>

\* The audio arm of handle_publish: a frame that finds the channel full, or
\* its receiver gone, is dropped.
Ingress ==
    /\ ~cancelled /\ spoken < MaxUtterances * (Frames + 1)
    /\ spoken' = spoken + 1
    /\ IF Len(queue["audio"]) < AudioCap /\ stage["ingest"] # <<"ended", 0>>
       THEN queue' = [queue EXCEPT !["audio"] = Append(@, NextFrame)] /\ UNCHANGED lossless
       ELSE lossless' = FALSE /\ UNCHANGED queue
    /\ UNCHANGED <<cancelled, stage, stt, pump, net, worker, replies, route,
                   transcripts, losses, sttWedged>>

Cancel ==
    /\ ~cancelled /\ cancelled' = TRUE
    /\ UNCHANGED <<spoken, queue, stage, stt, pump, net, worker, replies,
                   route, transcripts, losses, sttWedged, lossless>>

Idle(st) == stage[st] = <<"select", 0>>
Ended(st) == stage[st] = <<"ended", 0>>
outside == <<spoken, cancelled, stt, pump, net, worker, replies, route,
             transcripts, losses, sttWedged>>

\* Faulty variant: a stage that forwards audio only, and swallows the markers.
TakeAudio(st) ==
    /\ Idle(st) /\ queue[Input(st)] # <<>>
    /\ queue' = [queue EXCEPT ![Input(st)] = Tail(@)]
    /\ stage' = [stage EXCEPT ![st] = IF Head(queue[Input(st)])[1] = "pcm"
                                      THEN Head(queue[Input(st)]) ELSE @]
    /\ UNCHANGED <<outside, lossless>>

\* spawn_ingest and spawn_vad take a frame and, markers included, send it on.
Take(st) ==
    /\ Idle(st) /\ queue[Input(st)] # <<>>
    /\ queue' = [queue EXCEPT ![Input(st)] = Tail(@)]
    /\ stage' = [stage EXCEPT ![st] = Head(queue[Input(st)])]
    /\ UNCHANGED <<outside, lossless>>

\* The send waits for room; it does not watch the token, but fails when the
\* next stage is gone.
Forward(st) ==
    /\ ~Idle(st) /\ ~Ended(st) /\ Len(queue[st]) < StageCap
    /\ IF st = "ingest" => ~Ended("vad")
       THEN /\ queue' = [queue EXCEPT ![st] = Append(@, stage[st])]
            /\ stage' = [stage EXCEPT ![st] = <<"select", 0>>]
       ELSE /\ queue' = [queue EXCEPT ![Input(st)] = <<>>]
            /\ stage' = [stage EXCEPT ![st] = <<"ended", 0>>]
    /\ UNCHANGED <<outside, lossless>>

\* The token, or the end of the input: the senders of the audio channel go
\* with the session's entry.
EndStage(st) ==
    /\ Idle(st)
    /\ \/ cancelled
       \/ st = "vad" /\ Ended("ingest") /\ queue["ingest"] = <<>>
    /\ stage' = [stage EXCEPT ![st] = <<"ended", 0>>]
    /\ queue' = [queue EXCEPT ![Input(st)] = <<>>]
    /\ UNCHANGED <<outside, lossless>>

-----------------------------------------------------------------------------
(* MqttStt and the STT stage *)

\* publish waits for room in the request channel, without a timeout: a wedged
\* client never has any.
NetRoom == ~sttWedged /\ Len(net) < NetCap

\* A ConnAck meets a request channel that the sessions have filled: the task
\* waits in subscribe, and neither sends a request nor routes a reply again.
\* What the channel held stays in net; only what has left it is handled.
SttClientWedges ==
    /\ ~sttWedged /\ sttWedged' = TRUE
    /\ UNCHANGED <<spoken, cancelled, queue, stage, stt, pump, net, worker,
                   replies, route, transcripts, losses, lossless>>

\* transcribe: install the route, publish the session start, start the pump.
Transcribe ==
    /\ stt.at = "call" /\ NetRoom
    /\ route' = [known |-> TRUE, open |-> TRUE, queue |-> <<>>]
    /\ net' = Append(net, <<"start", 0>>)
    /\ pump' = "run"
    /\ stt' = [stt EXCEPT !.at = "select"]
    /\ UNCHANGED <<spoken, cancelled, queue, stage, worker, replies,
                   transcripts, losses, sttWedged, lossless>>

beyondPump == <<spoken, cancelled, stage, stt, worker, replies, route,
                transcripts, losses, sttWedged, lossless>>

\* The pump publishes each frame, a marker as `done`; it neither watches the
\* token nor ends with the STT stage.
PumpFrame ==
    /\ pump = "run" /\ queue["vad"] # <<>> /\ NetRoom
    /\ LET frame == Head(queue["vad"])
       IN  net' = Append(net, IF frame[1] = "mark" THEN <<"done", 0>> ELSE frame)
    /\ queue' = [queue EXCEPT !["vad"] = Tail(@)]
    /\ UNCHANGED <<pump, beyondPump>>

\* Faulty variant: the pump waits for the token before it believes the end.
PumpNeverEnds ==
    /\ pump = "run" /\ Ended("vad") /\ queue["vad"] = <<>> /\ ~cancelled
    /\ pump' = "flush"
    /\ UNCHANGED <<queue, net, beyondPump>>

\* The input is closed: flush what the worker still has.
PumpEnds ==
    /\ pump = "run" /\ Ended("vad") /\ queue["vad"] = <<>>
    /\ pump' = "flush"
    /\ UNCHANGED <<queue, net, beyondPump>>

PumpFlush ==
    /\ pump = "flush" /\ NetRoom
    /\ net' = Append(net, <<"done", 0>>)
    /\ pump' = "ended"
    /\ UNCHANGED <<queue, beyondPump>>

beyondStt == <<spoken, cancelled, queue, stage, pump, net, worker, replies,
               losses, sttWedged>>

\* The next transcript of the stream, announced and then sent to the router.
SttTakes ==
    /\ stt.at = "select" /\ route.queue # <<>>
    /\ stt' = [at |-> "send", holds |-> Head(route.queue)]
    /\ route' = [route EXCEPT !.queue = Tail(@)]
    /\ UNCHANGED <<transcripts, lossless, beyondStt>>

SttSends ==
    /\ stt.at = "send" /\ ~cancelled
    /\ transcripts' = Append(transcripts, stt.holds)
    /\ stt' = [at |-> "select", holds |-> Nothing]
    /\ UNCHANGED <<route, lossless, beyondStt>>

\* The stage ends by the token, or because the router is gone, or because no
\* message came within the request timeout; its receiver goes with it.
SttEnds ==
    /\ \/ stt.at \in {"select", "send"} /\ cancelled /\ UNCHANGED lossless
       \/ stt.at = "select" /\ route.queue = <<>> /\ lossless' = FALSE
    /\ stt' = [at |-> "ended", holds |-> Nothing]
    /\ route' = [route EXCEPT !.open = FALSE, !.queue = <<>>]
    /\ UNCHANGED <<transcripts, beyondStt>>

\* spawn_pump of the provider client: a response goes to its session's route;
\* without room it is dropped, and a route without receiver is removed.
RouteReply ==
    /\ ~sttWedged /\ replies # <<>>
    /\ replies' = Tail(replies)
    /\ \/ /\ route.open /\ Len(route.queue) < RouteCap
          /\ route' = [route EXCEPT !.queue = Append(@, Head(replies))]
          /\ UNCHANGED lossless
       \/ /\ route.open /\ Len(route.queue) = RouteCap
          /\ lossless' = FALSE /\ UNCHANGED route
       \/ /\ ~route.open
          /\ route' = [route EXCEPT !.known = FALSE] /\ UNCHANGED lossless
    /\ UNCHANGED <<spoken, cancelled, queue, stage, stt, pump, net, worker,
                   transcripts, losses, sttWedged>>

-----------------------------------------------------------------------------
(* The STT worker *)

beyondWorker == <<spoken, cancelled, queue, stage, stt, pump, route,
                  transcripts, losses, sttWedged>>
Free == worker.busy = Nothing

\* Faulty variant: the buffer is transcribed but not taken.
TranscribeKeepsBuffer(buffer) ==
    worker' = [buffer |-> buffer, busy |-> [audio |-> buffer.pcm, locale |-> buffer.locale]]

\* handle_message at an utterance boundary: take the buffer, keep its entry.
TakeBuffer(buffer) ==
    worker' = [buffer |-> [buffer EXCEPT !.pcm = <<>>],
               busy |-> [audio |-> buffer.pcm, locale |-> buffer.locale]]

\* One message at a time; while whisper runs nothing else is handled.
HandleMessage ==
    /\ Free /\ net # <<>>
    /\ net' = Tail(net)
    /\ LET kind == Head(net)[1]  buffer == worker.buffer
       IN  \/ /\ kind = "start"
              /\ worker' = [worker EXCEPT !.buffer =
                              [known |-> TRUE, locale |-> "en", pcm |-> <<>>]]
           \/ /\ kind = "pcm"      \* an unknown session is given a French buffer
              /\ worker' = [worker EXCEPT !.buffer =
                              [buffer EXCEPT !.known = TRUE, !.pcm = Append(buffer.pcm, Head(net)[2])]]
           \/ kind = "done" /\ buffer.pcm = <<>> /\ UNCHANGED worker
           \/ kind = "done" /\ buffer.pcm # <<>> /\ TakeBuffer(buffer)
    /\ UNCHANGED <<replies, lossless, beyondWorker>>

\* whisper-cli comes back with a text, with none, or with an error.
WhisperDone ==
    /\ ~Free
    /\ worker' = [worker EXCEPT !.busy = Nothing]
    /\ \/ replies' = Append(replies, worker.busy) /\ UNCHANGED lossless
       \/ lossless' = FALSE /\ UNCHANGED replies
    /\ UNCHANGED <<net, beyondWorker>>

\* The broker or the worker restarts: what is on the way is lost, and with the
\* worker its buffers; SESSION_TTL without a message does the same to a buffer.
Lose ==
    /\ losses < MaxLosses /\ losses' = losses + 1
    /\ lossless' = FALSE
    /\ \/ net' = <<>> /\ replies' = <<>> /\ UNCHANGED worker
       \/ net' = <<>> /\ worker' = [buffer |-> NoBuffer, busy |-> Nothing] /\ UNCHANGED replies
       \/ Free /\ worker' = [worker EXCEPT !.buffer = NoBuffer] /\ UNCHANGED <<net, replies>>
    /\ UNCHANGED <<spoken, cancelled, queue, stage, stt, pump, route,
                   transcripts, sttWedged>>

SttNext ==
    \/ Ingress \/ Cancel
    \/ \E st \in Stages : Take(st) \/ Forward(st) \/ EndStage(st)
    \/ Transcribe \/ PumpFrame \/ PumpEnds \/ PumpFlush
    \/ SttTakes \/ SttSends \/ SttEnds \/ RouteReply
    \/ HandleMessage \/ WhisperDone \/ Lose \/ SttClientWedges

\* Tasks and the worker are scheduled fairly, and a channel that keeps being
\* emptied lets each of its senders in; nobody need speak or cancel.
SttFairness ==
    /\ \A st \in Stages : WF_sttVars(Take(st)) /\ WF_sttVars(Forward(st)) /\ WF_sttVars(EndStage(st))
    /\ SF_sttVars(Transcribe) /\ SF_sttVars(PumpFrame) /\ WF_sttVars(PumpEnds) /\ SF_sttVars(PumpFlush)
    /\ WF_sttVars(SttTakes) /\ WF_sttVars(SttSends) /\ WF_sttVars(SttEnds /\ cancelled)
    /\ WF_sttVars(RouteReply) /\ WF_sttVars(HandleMessage) /\ WF_sttVars(WhisperDone)

SttSpec == SttInit /\ [][SttNext]_sttVars /\ SttFairness

-----------------------------------------------------------------------------
(* Properties *)

\* Unless something was lost on the way, a transcript is of the audio of one
\* whole utterance, in the session's language, and the utterances come in the
\* order they were spoken, whatever is buffered between satellite and worker;
\* the pump's last `done` adds none (mqtt_stt.rs, handle_message).
OneTranscriptPerUtterance ==
    lossless =>
        /\ \A i \in DOMAIN transcripts :
              /\ transcripts[i].locale = "en"
              /\ Len(transcripts[i].audio) <= Frames
              /\ \A k, l \in DOMAIN transcripts[i].audio :
                    transcripts[i].audio[k] = transcripts[i].audio[l]
        /\ \A i, j \in DOMAIN transcripts :
              i < j => transcripts[i].audio[1] < transcripts[j].audio[1]

\* An utterance whose marker was accepted is heard by the router, through all
\* the stages and back, if nothing is lost, nobody ends the session and the
\* client is not wedged: the marker alone flushes it, the session stays open
\* (ingest.rs, mqtt_stt.rs).
UtterancesAreHeard ==
    \A u \in Utterances :
        spoken = u * (Frames + 1) ~>
            \/ \E i \in DOMAIN transcripts : transcripts[i].audio = [k \in 1..Frames |-> u]
            \/ cancelled \/ ~lossless \/ sttWedged

\* After a cancellation every task of the speech path ends, the detached pump
\* included, which nobody holds a handle of and no token reaches.  Only a wedged
\* client keeps the pump, or the stage in transcribe, waiting for ever.
CancelledTasksEnd ==
    cancelled ~> \/ /\ \A st \in Stages : Ended(st)
                    /\ stt.at = "ended" /\ pump = "ended"
                 \/ sttWedged
=============================================================================
