# TLA+ models of Athena Voice

Athena Voice is a voice assistant server: satellites (ESP32 boards, a desktop
client) stream speech over MQTT, the server recognises it, answers with a WASM
skill or an LLM, and streams synthesised speech back. A second entrance, the
*assist bridge*, answers typed questions of an app over MQTT.

This directory holds TLA+ specifications of the server, of the programs that talk
to it and of its skills, the TLC configurations that check them and TLAPS proofs
about them. Paths below are relative to the repository; `runtime/` abbreviates
`crates/athena-voice-runtime/src/` and `providers/` abbreviates
`crates/athena-voice-providers/src/`.

Contents: [1 Inventory](#1-inventory) · [2 Modules](#2-modules) ·
[3 How the modules correspond to the code](#3-how-the-modules-correspond-to-the-code) ·
[4 Fairness](#4-fairness) · [5 Runs and bounds](#5-runs-and-bounds) ·
[6 Where code and comments disagree](#6-where-code-and-comments-disagree) ·
[7 Proofs](#7-proofs) · [8 Not modelled](#8-not-modelled)

## 1 Inventory

### The parts of the server

**Runtime wiring** (`runtime/lib.rs`, `runtime/event_bus.rs`). `Runtime::spawn` builds
the broadcast event bus (1024 events, slow receivers lose the oldest), the
session manager, the satellite ingress and the assist bridge, and a task that
reaps idle sessions every 10 s. Correct if: shutdown stops every task; lost bus
events change no turn's outcome. `SchedulerTask` and the skill watcher exist but
are started only by tests.

**Satellite ingress and egress** (`runtime/satellite/`). State: the MQTT
connection and its subscriptions. Operations: resubscribe at every ConnAck;
`start`, `audio`, `text`, `end` topics of a satellite; `open_session`, which
creates the channels of a session (64 frames, 16 transcripts, 4 prompts, 64
tokens, 64 chunks ...) and spawns its stages; egress of transcripts, which looks
the satellite of a session up when the event arrives; a drain of at most 500 ms
at shutdown. Correct if: a message reaches the session that is open for its
satellite; the satellite is released at shutdown.

**Session manager** (`runtime/session/`). State: a concurrent map of sessions
with last-activity times and cancellation tokens. Operations: `open`, `touch`,
`close`, `reap_idle`, `cancel_all`, called from the ingress task and from the
reaper. Correct if: a session that stays silent is reaped, and
whatever is closed has its pipeline cancelled. (The two steps of `reap_idle` may close
a session that was touched, or closed and opened again, in between; section 6.)

**Voice pipeline** (`runtime/pipeline/`): one task per stage and session, joined
by bounded channels and by the event bus.
*ingest*, *VAD*, *STT* turn audio frames into partial and final transcripts.
The *router* keeps an epoch, one pending skill dispatch and a prior-work flag; a
final transcript supersedes whatever is under way (BargeIn) and goes to a skill
or to the LLM. The *LLM stage* streams tokens. The *TTS stage* gathers tokens
into sentences, synthesises them and obeys BargeIn. The *sink* publishes
`tts/meta`, audio and `done`. Correct if: every accepted utterance is answered or
superseded; a superseded skill is silent; `done` follows the last audio; meta
precedes audio; cancellation stops every stage and releases the satellite.

**Assist bridge** (`runtime/assist/`). State: a map from device to the actor
that serves it, each with a question channel, a private router and LLM stage, a
sentence buffer and an answer deadline. Operations: `handle`/`route` (look up,
else spawn), the arms of the actor's `select!`, and the end of an actor, which
leaves the map, closes its channel and re-routes what arrived too late. Correct
if: no question is lost or answered twice while actors reap themselves; one
actor per device; the app's loader is always released.

**Intent matching** (`runtime/intent/`). Pure: scores rules against a
text, threshold 0.8, ties within 0.05. Correct if: the best rule wins, ambiguity
is reported.

**Skills** (`runtime/wasm/`). Registry (plugins, rules, settings schemas and
intent index under separate locks), dispatcher (mailbox of 64, one call at a
time, no time limit on a guest call), scheduler (due events are deleted, then
published), directory watcher, host functions. Correct if: what matches an
intent exists and is enabled; install, remove and disable are atomic to
callers; a scheduled event fires once.

**Providers** (`providers/`). Circuit breaker and retry around STT, LLM and TTS
calls; an MQTT request/response client with one route per session; HTTP clients
with a 60 s timeout. Correct if: a circuit opens only for a streak of failures and
closes when the provider is back; a response reaches the call it answers; a
stream is decoded the same however the network cuts it.

**Workers** (`crates/athena-voice-stt-worker`, `-tts-worker`): the other side of
the MQTT providers; one keeps a buffer per session, the other a task per request. **Storage** (`crates/athena-voice-storage`): SQLite tables
and temporary keys. **Admin API** (`crates/athena-voice-admin`): enable, disable,
upload and configure skills while they run, and a test console that opens a text
session of its own. Correct if: registry, store and files agree after each
request; a secret survives a blank form field; the request of the console is
answered and its session closed.

**Desktop client** (`crates/athena-voice-client`): one session per call, with text
or with audio that a task of its own feeds into the MQTT client's bounded channel.
Correct if: it asks once and ends by its deadline. **Server binary**: start-up.

**ESP32 satellite** (`satellite-esp32/`). A session state machine (Idle,
Streaming, AwaitingReply, Playing; 10 s utterances, 30 s reply timeout) on the
main loop, with a microphone thread that shares an atomic `streaming` flag.
Correct if: it returns to Idle whatever is lost.

**Skill SDK and skills**: text matching, keys in the store and HTTP or MQTT
requests inside a sandboxed call. The Jeedom skill asks before it runs a gated
command and keeps the pending command for 30 s. Correct if: what is confirmed is
what was asked; what is promised (a timer, a light) happens.

### What is hard here

Nothing in this code shares memory unsafely; the difficulty is in *order*. Stages
run concurrently and hold no lock across a step, a BargeIn travels on another
channel than the text it is about, an epoch is read when a reply arrives and not
when it was asked for, map lookups and inserts are separate steps, stages do not
look at the cancellation token while they wait in a send, timers race answers.
`hazards` in `PROJECT.json` lists each such place with its line and the
properties that would catch it going wrong, or says why none does: mostly because it
*does* go wrong in the code and nothing in the repository promises otherwise.

One resource joins parts that look independent: every publish of the server goes
through the bounded request channel of an MQTT client and waits for room there with no
time limit. As long as the poll task of that client turns, the wait is short; when it
waits itself (section 6, `conn_ack_resubscribes`), every publisher waits for ever. Each
module that publishes has this as a step of its environment; see sections 3 and 4.

## 2 Modules

| Module | Part of the system | Checked in | Proved in |
|---|---|---|---|
| `VoicePipeline` | router, dispatch tasks, LLM stage, TTS stage, sink of one session | `MCSafety`, `MCVoicePipeline` | `VoicePipelineProofs` |
| `AssistBridge` | the device map, routing and the life of actors | `MCAnswers` | `AssistProofs` |
| `AssistActor` | one actor with its own router and LLM; EXTENDS `VoicePipeline` | `MCAnswers`, `MCAssistActor` | `AssistProofs` |
| `Sessions` | poll task, session manager, reaper, egress, shutdown | `MCSpeech`, `MCSessions` | `SessionsProofs` |
| `CircuitBreaker` | circuit, retrying decorators, concurrent callers | `MCSpeech` | `SpeechProofs` |
| `SpeechToText` | ingest, VAD, STT stage, `MqttStt`, MQTT client, STT worker | `MCSpeech` | `SpeechProofs` |
| `TextToSpeech` | `MqttTts`, MQTT client, TTS worker | `MCSpeech` | `SpeechProofs` |
| `LlmStream` | the HTTP LLM clients' decoders and the stage's reaction | `MCSpeech` | `SpeechProofs` |
| `SessionProtocol` | abstract: what a satellite promises the server | refined by the next three | |
| `Satellite` | ESP32 firmware: main loop and threads | `MCSatellite` | `SatelliteProofs` |
| `DesktopClient` | desktop client: main and its audio task | `MCSatellite` | `ClientsProofs` |
| `TestConsole` | the admin's test command | `MCSatellite` | `ClientsProofs` |
| `SkillRegistry` | registry, settings, disabled list, files; admin requests | `MCSafety` | `SkillRegistryProofs` |
| `SkillCalls` | dispatcher, timer, weather and home skill, keys, scheduler | `MCAnswers` | `SkillsProofs` |
| `JeedomSkill` | the Jeedom skill's intents and its pending confirmation | `MCAnswers` | `SkillsProofs` |
| `IntentMatching` | the walk of a phrase, the choice among candidates | `MCAnswers` | `SkillsProofs` |

Composition. `AssistActor` builds on `VoicePipeline`: the actor's router and LLM
stage are the same code as in a voice session. `Satellite`, `DesktopClient` and
`TestConsole` instantiate `SessionProtocol` with what they publish. `Sessions` sees
a pipeline from outside (it takes utterances, answers, and publishes `done` and
ends once cancelled, if it finds room to publish), which is what `ReleasedAtTeardown`
and `CancelStopsAll` of `VoicePipeline` say of it.

The MC modules `MCSafety`, `MCAnswers`, `MCSpeech` and `MCSatellite` hold parts that share no
state. A variable `part` picks one of them in the initial state and only that one
moves, so a run explores the sum of the parts' state spaces, not their product. A
liveness property of a part is stated under that part's fairness:
`part = "sessions" => (Fairness => ...)`.

## 3 How the modules correspond to the code

Everywhere: a task is a program counter that names the place where its code
waits, a channel a sequence with a capacity, and an action what a task does
between two waits. Text and audio are reduced to the utterance, request or line
they belong to; such tags, and the variables marked *history*, are read by
properties and by no guard.

### VoicePipeline

| Code | Model |
|---|---|
| `select!` of `router.rs` | `RouterFinal`, `RouterPartial`, `RouterInputClosed`, `RouterOutcome`, `RouterExit` |
| `handle_outcome`, sends to LLM and TTS | `Superseded`, `AfterOutcome`, `RouterSendPrompt`, `RouterSendSpeech`, `RouterSendEnd` |
| task spawned per dispatch | `calls`, `DispatchReturn` |
| `llm.rs` | `LlmTake`, `LlmProgress`, `LlmToken`, `LlmApologise`, `LlmEnd`, `LlmExit` |
| `tts.rs` loop | `TtsBargeIn`, `TtsIdleFlush`, `TtsToken`, `TtsAnswerEnd`, `TtsExit` |
| `tts.rs` `flush` | `TtsSynthesize`, `TtsAbort`, `TtsAudio`, `TtsSendChunk`, `TtsSendEnd` |
| `sink.rs` | `SinkFormat`, `SinkChunk`, `SinkAnswerEnd`, `SinkTeardown` |
| a publish that never finds room | `SinkSticks` (sink), `TtsHangs` (request of a synthesis) |
| session close, `cancel_all`, transcript senders | `Cancel`, `DropInputs`, `Hear` |
| `RecvError::Lagged` on the bus | `BusLag` |

A sentence buffer is the set of utterances whose text it holds, which keeps the
case of two answers ending up in one sentence. Whether a token completes a sentence
(punctuation or the length cap) is a choice, as is the route of an utterance; a
skill speaks, asks the LLM or says nothing; LLM and TTS may fail at any point.
`flush`'s `select!` is biased, so audio is taken only when no BargeIn is waiting.

The sink's four publishes, and the request `MqttTts` publishes before its first
timeout starts, wait for room in an MQTT request channel without looking at the token.
A wait that ends is part of the step (the next step is simply late); one that does not
is `SinkSticks`, at place "stuck" with the message taken, or `TtsHangs`. Both may
happen at any publish, under no fairness. Nothing of the sink's channels is read any
more then, the senders behind it wait, and no token reaches them.

* `DoneIsFinal`: once an answer's `done` is out, nothing of that answer is left
  in any task or channel.
* `SupersededSkillIsSilent`: nothing of a skill reply that was superseded while
  pending reaches the LLM, the TTS stage or the satellite.
* `MetaBeforeAudio`: no audio before `tts/meta`.
* `ReleasedAtTeardown`: the last message of a session is a `done`, however it
  ended.
* `TurnAnswered`: an accepted utterance gets its `done`, unless it is superseded,
  the session is cancelled, or a publish waits for ever (`HeldByMqtt`).
* `CancelStopsAll`: cancellation stops all four stages, although each may be
  waiting in a send that ignores the token, unless a publish waits for ever: the
  stages cannot wait for each other in a circle.

### AssistBridge

The entry of one device in the `DashMap` (devices share nothing else), the
generations of its actors and the callers of `route`: the poll task and every
ending actor that re-routes its leftovers.

`Lookup` is `devices.get` with `try_send`, one step because the map guard is held
across both; a miss and the `insert` (`Spawn`) are two steps, as in the code. An
ending actor goes through `Leave`, `RemoveEntry` (`remove_if` with `same_channel`),
`CloseAndDrain`, `Leftover` (dropped at shutdown, else re-routed), `Reroute`,
`Finish`. The branch of `route` for a closed channel is left out because
`EntryIsOpen`, proved, says that it cannot be taken, and `question_rx.recv()`
returning `None` because the actor itself holds a sender.

`EntryIsOpen`; `NoQuestionLost` (each question is on its way, was received, or was
dropped with a warning); `NoQuestionTwice`; `LiveEntryKept` (an ending actor never
removes a live actor's entry).

### AssistActor

`run_device_actor`. The actor stands where TTS, sink and STT stand in a session:
`heard` is its epoch, `ttsBuf` its sentence buffer, `ttsPc` the place where it waits.
`awaited` is the tag of `answer_deadline`, `status` the last status published. Each
arm of `select!` is an action: `ActorQuestion` followed by `ActorSend`, the wait in
`t_tx.send` in which no other arm runs; `ActorToken`; `ActorAnswerEnd`;
`ActorIdleFlush`; `ActorTimeout`; `ActorStops`; `ActorIdles`. An arm that publishes is
one step where room comes, since nothing else of the actor runs meanwhile; where it
never comes (`publisher.publish` has no time limit), `ActorSticks` leaves the actor in
the middle of the arm: what it assigned before stays assigned, the status is not
published, and no later arm, the deadline's included, runs.

`LoaderMatchesDeadline` (the loader is shown exactly while a deadline is running, on
every path, unless the actor is stuck) and `LoaderReleasedOrHeld` (a loader that is shown
goes away, or the actor is stuck). `SupersededTextReleasesNothing` is what the comments on
the epoch say, and is violated (section 6).

### Sessions

The poll task is `poll`: it takes a request for the broker, a message, an error, a
ConnAck or the shutdown. A ConnAck makes it `resubscribe`, which waits twice for
room in the request channel (`requests`). `HandleStart`, `HandleAudio`, `HandleText`,
`HandleEnd` are the topics. `open_session` inserts the entry (`HandleStart`) and then looks
it up again: `SpawnPipeline` if it is still there, `StartPanics` if the reaper's `close`
came between, after which poll task, event loop and subscriptions are gone. `ReapCollect` and `ReapClose` the two steps of
`reap_idle`; `EgressTakes`, `EgressPublishes` the egress; `Shutdown`, `PollShutdown`,
`DrainEnds` the end. An id that is used again is told apart by the number of its
opening.

* `EntriesOwnThePipelines`: no order of starts, ends and reapings leaves a pipeline
  nobody can close, or an entry whose pipeline is cancelled.
* `NothingRunsAfterShutdown`: a session started between `cancel_all` and the moment
  the poll task notices is cancelled too.
* `PollStopsOnlyTwoWays`: the poll task stops turning in two ways only, the wait of
  section 6, in which it then stays for ever, and the panic in `open_session`.
* `SilentOnesEnd`, `ShutdownEnds`: silent sessions are reaped; shutdown returns,
  unless the poll task is wedged. (After a panic it returns at once: sessions that were
  opened after `cancel_all` and before the panic are cancelled by nobody.)

### CircuitBreaker, SpeechToText, TextToSpeech, LlmStream

`CircuitBreaker` has `can_call`, `record_success`, `record_failure` under their
mutex, called by concurrent callers (`Ask`, `Succeed`, `Fail`, and `Drop` for a
call dropped by a barge-in, which reports nothing). `OpensOnlyForAStreak`: whatever
reports interleave, the circuit opens only for `failure_threshold` failures with no
success between them, however long ago the first of them was: the code has no window of
time (section 6). `CircuitRecovers`: it closes when the provider stays up.

`SpeechToText` follows a frame from the satellite to a transcript at the router:
the two stages (VAD passes frames on, as the code does), the detached task that
publishes the audio (`PumpFrame`, `PumpEnds`, `PumpFlush`), the worker's buffer
(`HandleMessage`, `WhisperDone`), the route back (`RouteReply`), and `Lose` for a
restart of broker or worker and for the expiry of a buffer. `SttClientWedges`: after a
ConnAck the client's task may wait in `subscribe` for room that only it makes; from then
on nothing is sent or routed, and the pump and `Transcribe` wait for ever.
`OneTranscriptPerUtterance`, `UtterancesAreHeard`, `CancelledTasksEnd` (the pump
included, which no token reaches; not once the client is wedged).

`TextToSpeech` has the client's call with its timeouts and abandonment, the route
with its removal in two steps, and the worker's task per request. Replies are
matched by session only: `StreamsAreWhole` says what that still guarantees (an
undisturbed sentence is whole and alone), `EveryCallEnds` that a call always ends, once
its request has found room (`TtsClientWedges`).

`LlmStream` has the two line decoders (`Chunk`, `Decode`, `CloseBody`) over bodies that
the network cuts anywhere, inside a line too: the tokens are those of the lines that arrived, once and in
order, and a failed backend is never silent (both in `StreamsAreWhole`).

### SessionProtocol, Satellite, DesktopClient, TestConsole

`SessionProtocol` states what a satellite does with the session topics, by session:
its stage (new, open, asked) and what reached the wire. A session begins with one
`start`, asks one question, by a text or by audio that an empty frame ends, and has
asked before the next begins. Where `Lossless` is false a message may fail to be
published while the session goes on, the `start` included; what is on the wire is then
incomplete, but never has two questions in a session (`OneQuestion`). Desktop client and
test console are shown to implement the lossless protocol (`ClientImplementsProtocol`),
the firmware the lossy one (`ImplementsProtocol`): `mqtt.publish` with QoS 0 fails while
it is offline, which `main.rs:289-291` only logs.

`Satellite` is `session.rs` with the main loop that owns it (`Handle`, then the two
flag stores `StoreStreaming` and `StoreArmed` as steps of their own), the
microphone thread in the places where it reads and writes those flags, ticker,
button, speaker and the MQTT callbacks. The server may publish anything in any
order. `Publish` records nothing while the link is down. `IdleMicIsArmed`: between two turns of the main loop flags, state and session
id agree. `SatelliteSessionsEnd`: a session ends without the server's help.

`DesktopClient` and `TestConsole` each have a select loop that also polls the MQTT
event loop; the client has a task feeding audio beside it. `ClientsEnd`: the
client ends at its deadline unless it publishes `end` while the audio task keeps
the channel full; the console's HTTP request is answered and its session closed.

### SkillRegistry, SkillCalls, JeedomSkill, IntentMatching

`SkillRegistry`: four structures with a lock each (`plugins`, `rules`, `schemas`,
`index`), the skill's file and its rows. A request of the admin API is a sequence
of steps that other requests, failures and a crash interleave; `Startup` is
`load_dir`. Whether a plugin gives a schema (`config_schema` is optional and may fail) is
chosen when it is built; without one `InstallSchema` drops the schema of the plugin before. `RegistryAgrees`: once a skill's requests are answered, the four
structures, the disabled list, the file and the allowlist agree; `SecretsKept`: a
stored secret survives blank submissions. Both hold for a skill whose requests did
not meet (`disturbed` records when they do; section 6).

`SkillCalls`: a call through the mailbox to the one worker, into the timer, weather
or home skill with their host calls one by one, and what they leave behind: keys
and their collection, timer events, MQTT commands, announcements. Panics, hangs,
store failures and crashes are counted by `MaxFaults`. `CallsAreAnswered`,
`PromisesAreKept`, `FiredAtMostOnce`, `KeptForRetention`.

`JeedomSkill`: one action per intent (`HandleIntent`), the pending action with its time to live,
reloads with another configuration, restarts. `OnlyFreshConsentRuns`: a gated
command runs only on a confirm in time, for that very command and value, once.

`IntentMatching`: `try_match_phrase` segment by segment and `find_match` candidate by
candidate. `MatchingIsSound`: what a match accounts for was said, in this order, and
a clear winner wins in whatever order the hash map lists the rules. Similarity
scores are inputs. Text is a sequence of words here and of characters in the code
(`intent/engine.rs:158-171`): there a literal is found as a substring, blanks around it
included, so it may start inside a word, it is tried without its trailing blank only at
the end of the text, and a literal of repeated words may be found at an overlapping
place. The model finds a literal at word boundaries only.

## 4 Fairness

| Module | Assumed | Because |
|---|---|---|
| `VoicePipeline` (`FairSpec`) | every task; the providers; `DispatchReturn` | Tokio polls a ready task; the HTTP clients have a 60 s timeout (`providers/remote/ollama.rs:22`, `openai.rs:51`) and the MQTT ones wait a bounded time per *reply* (`mqtt_tts.rs:97`, `mqtt_stt.rs:172`). Their *publishes*, and the sink's, are bounded by nothing: a publish either finds room in time (then fairness applies) or sticks (`SinkSticks`, `TtsHangs`: steps that may happen at any time, are not fair and are final). That a skill returns is an assumption about skills: a guest call has no time limit |
| `AssistActor` (`LoaderReleased` in `answers`) | only that the actor is polled and its timers fire | router, skills and LLM may hang, and a publish may stick. `FairActorSpec` adds their progress and that every publish finds room, so that the violation of section 6 is a matter of neither |
| `Sessions` | tasks, timers, and the broker being reachable again after each outage | the event loop reconnects every time it is polled. Strong fairness for serving a request and for noticing the shutdown, because the poll task alternates between its sources; messages and publishes owe nothing |
| `CircuitBreaker` | the clock, callers asking again, calls ending, not every call of a working provider dropped | an idle circuit stays as it is; the calls have the timeouts above |
| `SpeechToText`, `TextToSpeech` | tasks, timeouts, the worker | the workers are loops over one queue each; whoever loses messages makes the timeouts count. The clients' tasks are fair until they wedge, which may happen at any time |
| `Satellite` | main loop, clock, ticker | threads of FreeRTOS. Strong fairness for the ticker because the model bounds a queue that has no bound |
| `DesktopClient`, `TestConsole` | the deadline and the task's own steps | timers of the same `select!`; nothing is asked of the broker |
| `SkillCalls` | tasks, clock, the event loop being polled, and that `handle` returns unless it hangs by a fault | as above; the poll task is assumed not to be wedged, and a hung call is excused in the properties |

No fairness is assumed of users, cancellation, faults, message loss, bus lag, or of
publishes that stick and clients that wedge.
`SkillRegistry`, `IntentMatching`, `JeedomSkill`, `LlmStream` and `AssistBridge`
state safety only.

## 5 Runs and bounds

| Run | Config | Result | Distinct states |
|---|---|---|---|
| `safety` | `MCSafety.cfg` | holds | 4,027,120 |
| `pipeline_liveness` | `MCVoicePipelineLive.cfg` | holds | 474,244 |
| `answers` | `MCAnswers.cfg` | holds | 245,630 |
| `speech` | `MCSpeech.cfg` | holds | 122,833 |
| `satellite` | `MCSatellite.cfg` | holds | 757,745 |
| `superseded_audio` | `MCSupersededAudioIsDropped.cfg` | violated | |
| `bargein_hits_new_answer` | `MCBargeInSparesNewAnswer.cfg` | violated | |
| `assist_deadlock` | `MCAssistDeadlock.cfg` | violated | |
| `superseded_text` | `MCSupersededTextReleasesNothing.cfg` | violated | |
| `conn_ack_resubscribes` | `MCConnAckResubscribes.cfg` | violated | |
| `playback_retriggers` | `MCPlaybackRetriggers.cfg` | violated | |
| `unasked_confirm` | `MCUnaskedConfirm.cfg` | violated | |

Run one with, for example, `tlc -config MCSafety.cfg MCSafety`;
`PROJECT.json` names the module of each.

*Pipeline.* Two utterances are enough for one to supersede the other, in every
stage and by both routes; two tokens per answer give a fragment followed by a
sentence and a failure after the first token; two places in the token channel
let the router's and the LLM's tokens interleave there. The liveness run shrinks
every channel to one place, so that each stage also waits for room. In both runs one of
the two transcripts may be partial (`MaxTranscripts`): the router only takes it.

*Answers.* Map: four questions and three actors, so the first actor ends with two
leftovers while the poll task routes too, and a second generation does it again;
two-place channels overflow. Actor: two questions and room for both transcripts,
so that only a publish can hold it up (`ActorSticks`); short of that the loader is
released whatever the rest does (`PolledActorReleases`; `assist_deadlock` takes one
question more than the shrunken channels hold).
Calls: two, so that one waits behind the other in a mailbox of one place and both
may set the same key, with one fault anywhere. Jeedom: one configuration with
gated and plain devices of each kind, one in which a plain device became gated, one
never filled in. Matching: four phrase shapes (a slot last, first, in the middle,
two slots) over all texts of up to four words of a three-word vocabulary, and all
sequences of three candidates with scores around the threshold and the band.

*Speech.* Sessions: one id opened twice, which is what a mix-up of an opening with
its successor takes, a request channel of two places, one outage. Circuit: three
callers and a threshold of three, so that reports of calls admitted before the
opening arrive after it. Speech and synthesis: two utterances, two sentences, one
loss, so that a late answer can meet the next request. Bodies of up to three lines
cut at every place.

*Satellite.* Two sessions, one message from the server (which may be early, late, or of
the first session while the second runs), one outage of any length, queues of two
events; deadlines one tick away. A second message and more outages multiply the states
beyond what a run can hold and meet nothing new: each message is handled by the state it
meets, and `FlagsAgree` and `SatelliteImplements` hold for any number of both.
`playback_retriggers` takes two messages. A desktop client whose recording is longer
than its channel, with one lost connection.

*Registry.* Two skills and two requests, both in flight at once, with one crash or one
failed operation, and files that build, do not build, or build without rules; or three
requests for one skill, two at a time, so that a third finds what two that met have left.

`CHECK_DEADLOCK FALSE` in all configurations: a session, an actor and a bounded
number of requests come to an end. Safety properties that are proved (section 7)
hold for all bounds; for the others, and for liveness, the bounds above are the
evidence.

Every property has a mutant in `PROJECT.json`: a variant of a definition, with a
plausible fault in it, under which TLC finds the property violated (the `Faulty
variant` definitions in the modules).

## 6 Where code and comments disagree

Seven runs show that a comment says more than the code does.

* `superseded_audio`: `tts.rs` says superseded audio "must not reach the sink".
  BargeIn clears the sentence buffer and the running synthesis, but not the
  token channel nor the LLM stream, so text of the old answer is synthesised
  afterwards.
* `bargein_hits_new_answer`: BargeIn carries no epoch; when it is received late it
  aborts the synthesis of the very answer it made room for.
* `assist_deadlock`: the actor waits for room for a transcript, the router for
  room for a prompt, the LLM for room for a token, which only the actor takes.
  With the code's sizes (16 + 4 places and 64 tokens) this needs 23 questions
  during one answer with more than 64 tokens to come. Then no deadline fires,
  because the actor's own `select!` is not polled, so `ANSWER_TIMEOUT` does not
  help.
* `superseded_text`: `bridge.rs:219-222` and `:390-392` say that the epoch tag keeps text
  of a superseded question from taking the newer one's `done`. The tag compared is always
  the newest one (theorem `TagIsCurrent`), so a token the LLM streams after the drain at
  `:274` is published as the new question's answer and releases its loader.
* `conn_ack_resubscribes`: after a ConnAck the poll task waits for room in the
  request channel that only it empties. If the channel filled up during the outage,
  the wildcard subscriptions are never issued again and shutdown waits for ever.
* `playback_retriggers`: the firmware listens for the wake word as soon as `done`
  has arrived, while the speaker still plays what is queued.
* `unasked_confirm`: a barge-in drops the Jeedom skill's question but not the
  pending action, so a later "oui" runs a command nobody was asked about.

Comments that say more than the code does, where the properties of the runs are stated
as the code has them:

* `circuit.rs:6` says that a closed circuit counts failures "within a rolling window".
  There is no window: failures count until the next success, however far apart
  (`OpensOnlyForAStreak`).
* `api.rs:273` says "a disabled skill must stay unloaded", and `registry.rs:396-398` that the
  registry "is never in a half-loaded state". Both hold for a request that meets no other
  of its skill (`RegistryAgrees`, for any failure and any requests of other skills). When
  two meet, a reload that checked the disabled list before the disable puts the skill
  back, and two reloads can leave one's rules with the other's plugin, until the next
  undisturbed reload (`disturbed`).
* `registry.rs:257-261` says that a single skill "must not brick" the start. A file that does
  not build is skipped, but one whose `pattern_rules` fails aborts `load_dir` at `:274`.
* The desktop client's `--timeout-secs` bounds nothing while it waits to publish `end` in the
  task that polls (`Stuck` in `DesktopClient`; an audio session only).

Seen while modelling, and contradicted by no comment or test we found:

* `open_session` looks its new entry up again with `get(sid).unwrap()` (`ingress.rs:206`).
  A `reap_idle` that collected an earlier session of the same id may close the new one in
  between; the unwrap then panics the poll task, and the server hears no satellite any
  more (`StartPanics`).
* The same two steps of `reap_idle` close a session that was touched in between, or a
  successor with the same id.
* A publish waits for room in the MQTT request channel without a time limit and without a
  look at the session's token, in sink, actor, host functions and providers: once
  the channel stays full (`conn_ack_resubscribes`), turns are not answered, cancelled
  pipelines do not end, the actor's deadline does not fire.
* A firmware that is offline when it publishes `start` goes on with the session; when the
  link is back, its audio reaches a server that knows no such session.
* A leftover being re-routed and a new question may both miss in the map and both
  spawn an actor; the second insert replaces the first (`runtime/assist/bridge.rs:136`,
  `:162`). No question is lost by it (`NoQuestionLost`).
* A session cancelled before the first audio of its answer gets no `done` of its
  own: `answer_done` of the *previous* answer suppresses it (`runtime/pipeline/sink.rs:119`).
  The last message is still a `done`.
* An HTTP 200 whose body holds no token is an answer that says nothing.
* A host HTTP call that never returns holds the single dispatcher worker, and with
  it every skill.

## 7 Proofs

Run with `tlapm <Module>Proofs.tla`. The theorems hold for every value of the
constants that the named assumptions allow (`PipelineAssumption`,
`BridgeAssumption`, `SessionsAssumption`, `CircuitAssumption`, `SatelliteAssumption`,
`SttAssumption`, `TtsAssumption`, `StreamAssumption`, `RegistryAssumption`,
`CallsAssumption`, `ClientAssumption`, `JeedomAssumption`, `MatchingAssumption`): capacities are
naturals, positive where a proof needs it, since `tokio::mpsc::channel` panics on
zero; durations and counts are naturals; a version that builds and lists its rules is
not one that fails to; a phrase has a slot between any two literals, since its parser
joins adjacent words into one.
`MaxUtterances` and the like only bound when an action may happen, so "for every
value" means any finite behaviour.

**VoicePipeline.** `Inductive` proves `Spec => []IInv`. `DoneIsFinal` is not
inductive: it speaks about the `done` that is out, and to know that nothing
follows it one must know that nothing follows the end marker while it travels
through token channel, TTS stage and chunk channel. `IInv` therefore adds

* `Control`: a stage's locals are set exactly while it is working, and the router
  forwards only for its current epoch;
* `Arrivals`, `FutureBlank`: queued transcripts are newer than the epoch, and
  nothing is known of utterances not yet taken;
* `OneProducer`: at any time one place at most (dispatch task, outcome channel,
  router, prompt channel, LLM) can still produce text for an utterance;
* `PendingAwaited`: a pending dispatch is one whose reply is still to come, so
  what a newer utterance supersedes has said nothing yet;
* `EndIsLast`: behind an end marker, wherever it is, there is nothing of its
  utterance.

From it follow `TypeCorrect`, `AnswerEndsOnce` (`DoneIsFinal`) and
`SupersededIsSilent`. The output side has an invariant of its own, `OInv`: chunks in
the channel are preceded by a format or meta is out, a stream has declared its
format, and `answer_done` means that the last message was a `done`. From it follow
`MetaPrecedesAudio` and `SatelliteReleased`.

**AssistBridge.** `IInv` adds to the properties `Phases` (which of an actor's lists
may hold something in which phase of its life), `Received` (only questions that
were asked are anywhere) and `Distinct` (no question is in two places, or twice in
one): taking a question from one place must remove its only copy. From it follow
`TypeCorrect`, `RouteFindsOpenChannel`, `QuestionsKept`, `QuestionsOnce`;
`SuccessorKept` is the action property `LiveEntryKept`.

**AssistActor.** `ActorIInv` says that the epoch is a number, the deadline's tag is 0
or the current epoch, and the loader goes with the deadline unless a publish is stuck. Router and LLM stage
touch none of the three (`PipelineKeeps`). From it `LoaderFollowsDeadline` and
`TagIsCurrent`.

**Sessions.** `IInv` says that every running pipeline belongs to the entry of its id
and to its latest opening, that before a shutdown every entry has its pipeline, and
(`Quiescent`) that a poll task that drains or has ended has left nothing running.
The numbers of openings are what makes a close touch the right pipeline.
`WedgedForEver` is a statement about single steps: each action of the system leaves
the wedge in place. `SessionsAreTyped` needs an invariant of its own,
`SessionTypes`: a message goes to the pipeline of the entry it finds, and that is
one because an id with an entry has been opened.

**CircuitBreaker.** `OpensOnlyForAStreak` is inductive together with the types
(`CircuitIInv`). A report holds the mutex, so the cases are the reports: of a caller
admitted before the circuit opened, of a probe, of a retry.

**SpeechToText, TextToSpeech, LlmStream.** `SpeechProofs` treats the three streams
alike: what a stream carries is known by its place, so the invariant says which item
is at which place of every channel, buffer and hand between source and listener, and
a step that moves one moves it to the place it had (`Carries`, `Section`).

* A recording (`SttIInv`): while nothing is lost there are numbers that cut the
  sequence of all frames and markers ever spoken into what the microphone still has
  to say, the channels up to the pump (`Upstream`), the wire, the worker and the
  transcripts (`Downstream`). The place of a frame gives its utterance, by division
  with the utterance's length. `OneTranscriptPerUtterance` then follows from where
  the markers are; it is far from inductive, since a marker lost, doubled or
  overtaken at any place would give a transcript of two utterances later. Losses
  and restarts falsify `lossless`, and from then on only the types are claimed.
* A synthesis (`TtsIInv`): an undisturbed call has exactly one request, whose
  chunks the client has, the broker carries and the worker has still to send, one
  after the other (`InPlace`), and nothing of an earlier request is left (`Quiet`).
  Replies are matched by session, so this is all that keeps sentences apart.
* A body (`StreamIInv`): the decoder's buffer is the part of the body from the end of
  the last decoded line on, in steps of a line and its newline (`Buffered`); the
  tokens given out are those of the lines before it (`YieldedOf`), of which only the
  last may have ended the answer (`EndedAfter`).

`UtterancesAreKeptApart`, `StreamsArriveWhole` and `SpeechIsTyped` state the result
for the specification that the run checks, `MCSpec` of `MCSpeech`.

**SkillRegistry.** A request works through up to a dozen steps between which others
run. The invariant looks at one skill: a request that met no other of its skill is
alone with it until it is answered, so what it has read stays true (`Reloads`), and
at each step the registry is as at rest or a known part of the way through a reload
or a removal (`Progress`), with the schema of the plugin that was built if it gave one. A skill that nobody works on and that nothing disturbed is
`AtRest`. Requests of other skills touch a skill by rebuilding the index only. From it
`Agreement` (`RegistryAgrees`); `SecretsAreKept` is the action property
`SecretsKept`.

**SkillCalls.** `FiredAtMostOnce` needs to know where a call's publish is: in one of
the tables, the scheduler's hand, the wire, or delivered, once there, and nowhere
while the call may still promise it (`CallInv`, `NoneTwice`). `KeysAreKept` needs
`Thresholds`: a collector's threshold was taken from a clock that has only gone on.

**JeedomSkill.** `Consent`: what is pending is what was asked last, and it lives no
longer than the question's time to live. `ConsentIsAsked` has one case per intent.

**IntentMatching.** `WalkInv`: while no slot is null, what was filled is the piece of
the text that ends at the cursor, and a literal behind a slot stands right there.
`ChoiceInv`: the candidate held is the best of those seen, whatever their order.

**Refinement.** `TestConsole`, `DesktopClient` and `Satellite` implement
`SessionProtocol`: the initial state maps to its initial state, every publish to one
of its steps and everything else to a stutter. The stage of a session is read off
the program's state (`Stage`, `ClientStage`, `ConsoleStage`), its messages are the
wire. Each proof needs an invariant that relates the two: a session not yet begun
has said nothing and an open one has not asked, and the client's audio task feeds
only after `start` (`Log`, `ClientLog`, `ConsoleLog`). The clients implement it with
`Lossless`; for the firmware any publish may fail, `start` included, so what
arrives is a part, in order, of what was said, and `AsksOnce` adds that a session is
asked at most once. `Satellite` also has `FlagInv` (`IdleMicIsArmed`): its flags
are stored after the state, in two steps, while the microphone thread may clear one
of them.

**Only model-checked.** All liveness (`TurnAnswered`, `CancelStopsAll`,
`PollStopsOnlyTwoWays` and its neighbours, `CircuitRecovers`, `MarkedOnesAreHeard`,
`SpeechTasksEnd`, `SynthesesEnd`, `SatelliteSessionsEnd`, `ClientsEnd`,
`PolledActorReleases`, `CallsAreAnswered`, `PromisesAreMet`), since fairness and
ENABLED are out of the prover's reach, and the violations. Every other property of
the passing runs, invariants, action properties and refinements, is a theorem. No
module uses a RECURSIVE operator.

## 8 Not modelled

* The skill watcher: nothing in the repository starts it but its test.
* The server binary and its command line, listing, authentication, static pages and
  Jeedom import proposals of the admin API: sequential code or I/O.
* Drivers, audio devices and provisioning of the satellite; sound files and timing
  output of the client; the speech engines of the workers (a choice of outcome).
* Tables that are written and never read back (sessions, events, errors, satellites,
  tokens).
* The string similarity of intent matching, which a library computes, and the
  arithmetic of spoken durations.
* `Runtime::spawn` does not start the scheduler or the announcement forwarder; the
  model has them as the end-to-end test wires them (constant `SchedulerRuns`).
* Satellites and server are not composed over a network: `Satellite` faces a server
  that may say anything, `Sessions` satellites that may, which covers every loss and
  reordering between them but shows nothing of a conversation as a whole.
* The heartbeat of the assist bridge and the observability events on the bus change
  no state that anything here reads.
