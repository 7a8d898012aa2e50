---------------------------- MODULE VoicePipeline ----------------------------
(***************************************************************************)
(* One voice session of athena-voice-runtime after speech recognition:     *)
(* transcripts -> router -> (skill dispatch | LLM) -> TTS -> sink.         *)
(*                                                                         *)
(* Every stage is a tokio task of its own.  Stages are joined by bounded   *)
(* mpsc channels, whose send waits while the channel is full and fails     *)
(* once the receiver is gone, and by the broadcast event bus, of which     *)
(* only the BargeIn events of this session change any state.  A stage that *)
(* waits in a send, in a provider call or in a provider stream does not    *)
(* look at the session's cancellation token.                               *)
(*                                                                         *)
(* The sink publishes through the MQTT client's bounded request channel,   *)
(* and a TTS provider reached over MQTT through one of its own.  A full    *)
(* one that empties again only delays them; one that stays full, as the    *)
(* poll task of Sessions can leave its own, holds them for ever.           *)
(*                                                                         *)
(* Text and audio are abstracted to the utterance they answer.  The code   *)
(* carries no such tag on tokens and chunks: it is there for the           *)
(* properties, and no guard below reads it, except the router's own epoch  *)
(* comparison, which the code does make.                                   *)
(***************************************************************************)
EXTENDS Integers, Sequences, FiniteSets

CONSTANTS
    MaxUtterances,   \* bound: final transcripts in the session
    MaxPartials,     \* bound: partial transcripts in the session
    MaxTranscripts,  \* bound: transcripts of either kind in the session
    MaxTokens,       \* bound: tokens of one LLM answer
    MaxChunks,       \* bound: audio chunks of one synthesis
    TranscriptCap,   \* capacities of the channels open_session creates
    PromptCap,
    TokenCap,
    ChunkCap,
    OutcomeCap,      \* capacity of the router's own outcome channel
    HasDispatcher    \* is a SkillDispatcher wired (deps.dispatcher is Some)?

ASSUME PipelineAssumption ==
    /\ {MaxUtterances, MaxTokens, MaxChunks, TranscriptCap, PromptCap,
        TokenCap, ChunkCap, OutcomeCap} \subseteq Nat \ {0}
    /\ {MaxPartials, MaxTranscripts} \subseteq Nat
    /\ HasDispatcher \in BOOLEAN

VARIABLES
    cancelled,    \* the session's CancellationToken
    inputClosed,  \* every transcript sender is dropped
    heard,        \* bound: final transcripts sent so far
    partials,     \* bound: partial transcripts sent so far
    transcripts,  \* channel STT / text ingress -> router: the number of a
                  \* final transcript in order of arrival, or Partial
    routerPc,     \* where the router task waits
    rxClosed,     \* the router has seen the end of the transcripts
    epoch,        \* utterance_epoch; also names the utterance it stands for
    pending,      \* epoch of pending_dispatch, 0 for None
    priorWork,    \* prior_work_in_flight
    routerFor,    \* the utterance whose answer the router is forwarding
    calls,        \* the dispatch task spawned for each utterance
    outcomes,     \* channel dispatch tasks -> router
    prompts,      \* channel router -> LLM
    llmPc,
    llmFor,       \* the utterance whose prompt the LLM stage is answering
    llmTokens,    \* tokens of it sent so far (sent_any is llmTokens > 0)
    tok,          \* channel router, LLM -> TTS
    bus,          \* BargeIn events the TTS stage has not received yet
    ttsPc,
    ttsBuf,       \* SentenceBuffer: the utterances its text belongs to
    ttsSentence,  \* likewise for the sentence being synthesised
    ttsEnd,       \* AnswerEnd that triggered the flush, 0 for another cause
    ttsChunks,    \* chunks of the current synthesis so far
    chunks,       \* channel TTS -> sink
    sinkPc,
    metaSent,     \* the sink's `sent` is Some
    answerDone,   \* answer_done
    ended,        \* history: utterances whose AnswerEnd became a `done`
    lastOut,      \* history: last message published to the satellite
    barged,       \* history: newest BargeIn the TTS stage has received
    dropped       \* history: utterances superseded with their dispatch pending

input      == <<cancelled, inputClosed, heard, partials>>
router     == <<routerPc, rxClosed, epoch, pending, priorWork, routerFor,
                dropped>>
llm        == <<llmPc, llmFor, llmTokens>>
tts        == <<ttsPc, ttsBuf, ttsSentence, ttsEnd, ttsChunks, barged>>
sink       == <<sinkPc, metaSent, answerDone, ended, lastOut>>
vars       == <<input, transcripts, router, calls, outcomes, prompts, llm,
                tok, bus, tts, chunks, sink>>

-----------------------------------------------------------------------------
(* Messages *)

Utterances == 1..MaxUtterances

Partial == 0

\* What a skill may answer: SkillResponse::Speak, ::AskLlm, and everything
\* that says nothing (Empty, SampledPcm, SampledOpus, Volume, or an error).
Results == {"speak", "askLlm", "silent"}

\* A token completes the buffered sentence or leaves it open.
TokenKinds == {"sentence", "fragment"}

TtsMsg  == [kind : TokenKinds \cup {"end"}, of : Utterances]
SinkMsg == [kind : {"format", "chunk", "end"}, of : SUBSET Utterances]
Outcome == [result : Results, of : Utterances]

\* Sending on a channel that is full waits; a dropped receiver is an error.
Room(channel, cap) == Len(channel) < cap

-----------------------------------------------------------------------------
(* Transcripts and session lifetime *)

Init ==
    /\ cancelled = FALSE /\ inputClosed = FALSE
    /\ heard = 0 /\ partials = 0
    /\ transcripts = <<>>
    /\ routerPc = "select" /\ rxClosed = FALSE
    /\ epoch = 0 /\ pending = 0 /\ priorWork = FALSE /\ routerFor = 0
    /\ calls = [u \in Utterances |-> "none"]
    /\ outcomes = <<>>
    /\ prompts = <<>>
    /\ llmPc = "select" /\ llmFor = 0 /\ llmTokens = 0
    /\ tok = <<>> /\ bus = <<>>
    /\ ttsPc = "select" /\ ttsBuf = {} /\ ttsSentence = {}
    /\ ttsEnd = 0 /\ ttsChunks = 0
    /\ chunks = <<>>
    /\ sinkPc = "select" /\ metaSent = FALSE /\ answerDone = FALSE
    /\ ended = {} /\ lastOut = "none" /\ barged = 0 /\ dropped = {}

\* A transcript reaches the router's channel: from the STT stage, whose send
\* waits for room, or from the text topic, whose try_send drops it otherwise.
Hear ==
    /\ ~inputClosed
    /\ routerPc # "exited"
    /\ Room(transcripts, TranscriptCap)
    /\ heard + partials < MaxTranscripts
    /\ \/ /\ heard < MaxUtterances
          /\ heard' = heard + 1
          /\ transcripts' = Append(transcripts, heard + 1)
          /\ UNCHANGED partials
       \/ /\ partials < MaxPartials
          /\ partials' = partials + 1
          /\ transcripts' = Append(transcripts, Partial)
          /\ UNCHANGED heard
    /\ UNCHANGED <<cancelled, inputClosed, router, calls, outcomes, prompts,
                   llm, tok, bus, tts, chunks, sink>>

\* The session is closed (End topic, idle reaper) or cancel_all runs.
Cancel ==
    /\ ~cancelled
    /\ cancelled' = TRUE
    /\ UNCHANGED <<inputClosed, heard, partials, transcripts, router, calls,
                   outcomes, prompts, llm, tok, bus, tts, chunks, sink>>

\* After a close (not after cancel_all, which keeps the map entry) the session
\* state and the STT stage, the two holders of a transcript sender, are gone.
DropInputs ==
    /\ cancelled /\ ~inputClosed
    /\ inputClosed' = TRUE
    /\ UNCHANGED <<cancelled, heard, partials, transcripts, router, calls,
                   outcomes, prompts, llm, tok, bus, tts, chunks, sink>>

-----------------------------------------------------------------------------
(* Router *)

HasPriorWork == pending # 0 \/ priorWork

\* pending_dispatch.take() and cancel: the awaiting task gives up.
CancelPending ==
    IF pending # 0 /\ calls[pending] = "running"
    THEN [calls EXCEPT ![pending] = "cancelled"]
    ELSE calls

Routes == IF HasDispatcher THEN {"dispatch", "llm"} ELSE {"llm"}

RouterFinal(route) ==
    /\ routerPc = "select"
    /\ transcripts # <<>> /\ Head(transcripts) # Partial
    /\ transcripts' = Tail(transcripts)
    /\ epoch' = epoch + 1
    /\ bus' = IF HasPriorWork /\ ttsPc # "exited"
              THEN Append(bus, epoch + 1) ELSE bus
    /\ priorWork' = FALSE
    /\ dropped' = dropped \cup ({pending} \ {0})
    /\ IF route = "dispatch"
       THEN /\ pending' = epoch + 1
            /\ calls' = [CancelPending EXCEPT ![epoch + 1] = "running"]
            /\ UNCHANGED <<routerPc, routerFor>>
       ELSE /\ pending' = 0
            /\ calls' = CancelPending
            /\ routerPc' = "toLlm" /\ routerFor' = epoch + 1
    /\ UNCHANGED <<input, rxClosed, outcomes, prompts, llm, tok, tts, chunks,
                   sink>>

RouterPartial ==
    /\ routerPc = "select"
    /\ transcripts # <<>> /\ Head(transcripts) = Partial
    /\ transcripts' = Tail(transcripts)
    /\ UNCHANGED <<input, router, calls, outcomes, prompts, llm, tok, bus, tts,
                   chunks, sink>>

RouterInputClosed ==
    /\ routerPc = "select" /\ ~rxClosed
    /\ inputClosed /\ transcripts = <<>>
    /\ rxClosed' = TRUE
    /\ UNCHANGED <<input, transcripts, routerPc, epoch, pending, priorWork,
                   routerFor, dropped, calls, outcomes, prompts, llm, tok,
                   bus, tts, chunks, sink>>

\* Faulty variant: the epochs are not compared.
SupersededNever(outcome) == FALSE

\* handle_outcome: a reply of an older epoch is dropped (SkillCancelled).
Superseded(outcome) == outcome.of # epoch

\* Faulty variant: an answer without words ends without AnswerEnd.
AfterOutcomeUnended(outcome) ==
    IF Superseded(outcome) THEN "select"
    ELSE CASE outcome.result = "speak"  -> "toTts"
           [] outcome.result = "askLlm" -> "askLlm"
           [] OTHER                     -> "select"

AfterOutcome(outcome) ==
    IF Superseded(outcome) THEN "select"
    ELSE CASE outcome.result = "speak"  -> "toTts"
           [] outcome.result = "askLlm" -> "askLlm"
           [] OTHER                     -> "toEnd"

RouterOutcome ==
    /\ routerPc = "select"
    /\ outcomes # <<>>
    /\ outcomes' = Tail(outcomes)
    /\ pending' = IF pending = Head(outcomes).of THEN 0 ELSE pending
    /\ routerPc' = AfterOutcome(Head(outcomes))
    /\ routerFor' = IF Superseded(Head(outcomes)) THEN 0 ELSE Head(outcomes).of
    /\ UNCHANGED <<input, transcripts, rxClosed, epoch, priorWork, dropped,
                   calls, prompts, llm, tok, bus, tts, chunks, sink>>

\* llm_tx.send: a lost LLM stage ends the router, or only the outcome's turn.
RouterSendPrompt ==
    /\ routerPc \in {"toLlm", "askLlm"}
    /\ routerFor' = 0
    /\ \/ /\ llmPc # "exited" /\ Room(prompts, PromptCap)
          /\ prompts' = Append(prompts, routerFor)
          /\ priorWork' = TRUE
          /\ routerPc' = "select"
          /\ UNCHANGED <<transcripts, outcomes>>
       \/ /\ llmPc = "exited" /\ routerPc = "askLlm"
          /\ routerPc' = "select"
          /\ UNCHANGED <<transcripts, outcomes, prompts, priorWork>>
       \/ /\ llmPc = "exited" /\ routerPc = "toLlm"
          /\ routerPc' = "exited"
          /\ transcripts' = <<>> /\ outcomes' = <<>>
          /\ UNCHANGED <<prompts, priorWork>>
    /\ UNCHANGED <<input, rxClosed, epoch, pending, dropped, calls, llm, tok,
                   bus, tts, chunks, sink>>

\* tts_tok_tx.send(Token): ensure_sentence_boundary makes it a full sentence.
RouterSendSpeech ==
    /\ routerPc = "toTts"
    /\ \/ /\ ttsPc # "exited" /\ Room(tok, TokenCap)
          /\ tok' = Append(tok, [kind |-> "sentence", of |-> routerFor])
          /\ priorWork' = TRUE
          /\ routerPc' = "toEnd"
          /\ UNCHANGED routerFor
       \/ /\ ttsPc = "exited"
          /\ routerPc' = "select" /\ routerFor' = 0
          /\ UNCHANGED <<tok, priorWork>>
    /\ UNCHANGED <<input, transcripts, rxClosed, epoch, pending, dropped, calls,
                   outcomes, prompts, llm, bus, tts, chunks, sink>>

RouterSendEnd ==
    /\ routerPc = "toEnd"
    /\ \/ /\ ttsPc # "exited" /\ Room(tok, TokenCap)
          /\ tok' = Append(tok, [kind |-> "end", of |-> routerFor])
       \/ /\ ttsPc = "exited"
          /\ UNCHANGED tok
    /\ routerPc' = "select" /\ routerFor' = 0
    /\ UNCHANGED <<input, transcripts, rxClosed, epoch, pending, priorWork,
                   dropped, calls, outcomes, prompts, llm, bus, tts, chunks,
                   sink>>

RouterDrained == rxClosed /\ pending = 0

\* The loop ends: the token is cancelled, or drained and nothing pending.
RouterStops == cancelled \/ RouterDrained

RouterExit ==
    /\ routerPc = "select"
    /\ RouterStops
    /\ routerPc' = "exited"
    /\ transcripts' = <<>> /\ outcomes' = <<>>
    /\ UNCHANGED <<input, rxClosed, epoch, pending, priorWork, routerFor,
                   dropped, calls, prompts, llm, tok, bus, tts, chunks, sink>>

Router ==
    \/ \E route \in Routes : RouterFinal(route)
    \/ RouterPartial \/ RouterInputClosed \/ RouterOutcome
    \/ RouterSendPrompt \/ RouterSendSpeech \/ RouterSendEnd \/ RouterExit

\* The task spawned per dispatch: the skill's reply, or once cancelled also
\* the stub error, goes to the outcome channel; lost when the router is gone.
DispatchReturn(u) ==
    /\ calls[u] \in {"running", "cancelled"}
    /\ calls' = [calls EXCEPT ![u] = "returned"]
    /\ \/ /\ routerPc # "exited" /\ Room(outcomes, OutcomeCap)
          /\ \E r \in Results :
                outcomes' = Append(outcomes, [result |-> r, of |-> u])
       \/ /\ routerPc = "exited"
          /\ UNCHANGED outcomes
    /\ UNCHANGED <<input, transcripts, router, prompts, llm, tok, bus, tts,
                   chunks, sink>>

-----------------------------------------------------------------------------
(* LLM stage *)

LlmTake ==
    /\ llmPc = "select" /\ prompts # <<>>
    /\ prompts' = Tail(prompts)
    /\ llmFor' = Head(prompts) /\ llmTokens' = 0
    /\ llmPc' = "complete"
    /\ UNCHANGED <<input, transcripts, router, calls, outcomes, tok, bus, tts,
                   chunks, sink>>

\* Where the stage goes when the backend fails: it apologises unless it has
\* already said something.
AfterLlmError == IF llmTokens = 0 THEN "apologise" ELSE "end"

\* llm.complete returns a token stream or an error; a stream ends or fails.
LlmProgress ==
    /\ \/ llmPc = "complete" /\ llmPc' \in {"stream", AfterLlmError}
       \/ llmPc = "stream" /\ llmPc' \in {"end", AfterLlmError}
    /\ UNCHANGED <<input, transcripts, router, calls, outcomes, prompts,
                   llmFor, llmTokens, tok, bus, tts, chunks, sink>>

\* token_tx.send: the stage returns when the TTS stage is gone.
LlmSend(kind, next) ==
    /\ \/ /\ ttsPc # "exited" /\ Room(tok, TokenCap)
          /\ tok' = Append(tok, [kind |-> kind, of |-> llmFor])
          /\ llmPc' = next
          /\ UNCHANGED prompts
       \/ /\ ttsPc = "exited"
          /\ llmPc' = "exited" /\ prompts' = <<>>
          /\ UNCHANGED tok
    /\ llmFor' = IF llmPc' \in {"select", "exited"} THEN 0 ELSE llmFor
    /\ UNCHANGED <<input, transcripts, router, calls, outcomes, bus, tts,
                   chunks, sink>>

LlmToken ==
    /\ llmPc = "stream" /\ llmTokens < MaxTokens
    /\ llmTokens' = llmTokens + 1
    /\ \E kind \in TokenKinds : LlmSend(kind, "stream")

LlmApologise ==
    /\ llmPc = "apologise"
    /\ LlmSend("sentence", "end")
    /\ UNCHANGED llmTokens

LlmEnd ==
    /\ llmPc = "end"
    /\ LlmSend("end", "select")
    /\ llmTokens' = 0

LlmExit ==
    /\ llmPc = "select"
    /\ cancelled \/ (prompts = <<>> /\ routerPc = "exited")
    /\ llmPc' = "exited" /\ prompts' = <<>>
    /\ UNCHANGED <<input, transcripts, router, calls, outcomes, llmFor,
                   llmTokens, tok, bus, tts, chunks, sink>>

Llm == LlmTake \/ LlmProgress \/ LlmToken \/ LlmApologise \/ LlmEnd \/ LlmExit

-----------------------------------------------------------------------------
(* TTS stage *)

\* select! on the bus: a BargeIn drops the buffered text.
TtsBargeIn ==
    /\ ttsPc = "select" /\ bus # <<>>
    /\ barged' = Head(bus) /\ bus' = Tail(bus)
    /\ ttsBuf' = {}
    /\ UNCHANGED <<input, transcripts, router, calls, outcomes, prompts, llm,
                   tok, ttsPc, ttsSentence, ttsEnd, ttsChunks, chunks, sink>>

\* flush(sentence): on to tts.synthesize; what to do after it is in ttsEnd.
Flush(sentence, end) ==
    /\ ttsBuf' = {}
    /\ ttsSentence' = sentence /\ ttsEnd' = end /\ ttsChunks' = 0
    /\ ttsPc' = "synth"

\* flush_deadline is set exactly while the buffer holds text.
TtsIdleFlush ==
    /\ ttsPc = "select" /\ ttsBuf # {}
    /\ Flush(ttsBuf, 0)
    /\ UNCHANGED <<input, transcripts, router, calls, outcomes, prompts, llm,
                   tok, bus, barged, chunks, sink>>

TtsToken ==
    /\ ttsPc = "select" /\ tok # <<>> /\ Head(tok).kind \in TokenKinds
    /\ tok' = Tail(tok)
    /\ IF Head(tok).kind = "sentence"
       THEN Flush(ttsBuf \cup {Head(tok).of}, 0)
       ELSE /\ ttsBuf' = ttsBuf \cup {Head(tok).of}
            /\ UNCHANGED <<ttsPc, ttsSentence, ttsEnd, ttsChunks>>
    /\ UNCHANGED <<input, transcripts, router, calls, outcomes, prompts, llm,
                   bus, barged, chunks, sink>>

\* Faulty variant: AnswerEnd passes the buffered text.
TtsAnswerEndOvertakes ==
    /\ ttsPc = "select" /\ tok # <<>> /\ Head(tok).kind = "end"
    /\ tok' = Tail(tok)
    /\ ttsEnd' = Head(tok).of
    /\ ttsPc' = "end"
    /\ UNCHANGED <<ttsBuf, ttsSentence, ttsChunks>>
    /\ UNCHANGED <<input, transcripts, router, calls, outcomes, prompts, llm,
                   bus, barged, chunks, sink>>

\* AnswerEnd: speak what is still buffered, then tell the sink.
TtsAnswerEnd ==
    /\ ttsPc = "select" /\ tok # <<>> /\ Head(tok).kind = "end"
    /\ tok' = Tail(tok)
    /\ IF ttsBuf # {}
       THEN Flush(ttsBuf, Head(tok).of)
       ELSE /\ ttsEnd' = Head(tok).of
            /\ ttsPc' = "end"
            /\ UNCHANGED <<ttsBuf, ttsSentence, ttsChunks>>
    /\ UNCHANGED <<input, transcripts, router, calls, outcomes, prompts, llm,
                   bus, barged, chunks, sink>>

\* Faulty variant: every flush is taken for the last of its answer.
AfterFlushEnds == "end"

AfterFlush == IF ttsEnd # 0 THEN "end" ELSE "select"

\* flush returns to the branch of the loop that called it.
FlushReturns ==
    /\ ttsPc' = AfterFlush
    /\ ttsSentence' = {} /\ ttsChunks' = 0

\* Faulty variant: the audio is streamed without declaring its format.
TtsSynthesizeUndeclared ==
    /\ ttsPc = "synth"
    /\ \/ /\ ttsPc' = "stream"
          /\ UNCHANGED <<chunks, ttsSentence, ttsChunks>>
       \/ /\ FlushReturns
          /\ UNCHANGED chunks
    /\ UNCHANGED <<input, transcripts, router, calls, outcomes, prompts, llm,
                   tok, bus, ttsBuf, ttsEnd, barged, sink>>

\* synthesize fails, or the provider's format is declared to the sink.
TtsSynthesize ==
    /\ ttsPc = "synth"
    /\ \/ /\ sinkPc # "exited" /\ Room(chunks, ChunkCap)
          /\ chunks' = Append(chunks, [kind |-> "format", of |-> ttsSentence])
          /\ ttsPc' = "stream"
          /\ UNCHANGED <<ttsSentence, ttsChunks>>
       \/ /\ FlushReturns
          /\ UNCHANGED chunks
    /\ UNCHANGED <<input, transcripts, router, calls, outcomes, prompts, llm,
                   tok, bus, ttsBuf, ttsEnd, barged, sink>>

\* flush's biased select!: a BargeIn that is already there wins, ...
TtsAbort ==
    /\ ttsPc = "stream" /\ bus # <<>>
    /\ barged' = Head(bus) /\ bus' = Tail(bus)
    /\ FlushReturns
    /\ UNCHANGED <<input, transcripts, router, calls, outcomes, prompts, llm,
                   tok, ttsBuf, ttsEnd, chunks, sink>>

\* ... otherwise the audio stream yields a chunk, ends or fails.
TtsAudio ==
    /\ ttsPc = "stream" /\ bus = <<>>
    /\ \/ /\ ttsChunks < MaxChunks
          /\ ttsChunks' = ttsChunks + 1
          /\ ttsPc' = "chunk"
          /\ UNCHANGED ttsSentence
       \/ FlushReturns
    /\ UNCHANGED <<input, transcripts, router, calls, outcomes, prompts, llm,
                   tok, bus, ttsBuf, ttsEnd, barged, chunks, sink>>

TtsSendChunk ==
    /\ ttsPc = "chunk"
    /\ \/ /\ sinkPc # "exited" /\ Room(chunks, ChunkCap)
          /\ chunks' = Append(chunks, [kind |-> "chunk", of |-> ttsSentence])
          /\ ttsPc' = "stream"
          /\ UNCHANGED <<ttsSentence, ttsChunks>>
       \/ /\ sinkPc = "exited"
          /\ FlushReturns
          /\ UNCHANGED chunks
    /\ UNCHANGED <<input, transcripts, router, calls, outcomes, prompts, llm,
                   tok, bus, ttsBuf, ttsEnd, barged, sink>>

TtsLeave ==
    /\ ttsPc' = "exited" /\ tok' = <<>> /\ bus' = <<>> /\ ttsBuf' = {}

TtsSendEnd ==
    /\ ttsPc = "end"
    /\ \/ /\ sinkPc # "exited" /\ Room(chunks, ChunkCap)
          /\ chunks' = Append(chunks, [kind |-> "end", of |-> {ttsEnd}])
          /\ ttsPc' = "select"
          /\ UNCHANGED <<tok, bus, ttsBuf>>
       \/ /\ sinkPc = "exited"
          /\ TtsLeave
          /\ UNCHANGED chunks
    /\ ttsEnd' = 0
    /\ UNCHANGED <<input, transcripts, router, calls, outcomes, prompts, llm,
                   ttsSentence, ttsChunks, barged, sink>>

\* Cancelled, or both senders of tokens are gone and nothing is left to say
\* (with text left, TtsIdleFlush stands for the flush that comes first).
TtsExit ==
    /\ ttsPc = "select"
    /\ \/ cancelled
       \/ /\ tok = <<>> /\ ttsBuf = {}
          /\ routerPc = "exited" /\ llmPc = "exited"
    /\ TtsLeave
    /\ UNCHANGED <<input, transcripts, router, calls, outcomes, prompts, llm,
                   ttsSentence, ttsEnd, ttsChunks, barged, chunks, sink>>

Tts ==
    \/ TtsBargeIn \/ TtsIdleFlush \/ TtsToken \/ TtsAnswerEnd
    \/ TtsSynthesize \/ TtsAbort \/ TtsAudio \/ TtsSendChunk \/ TtsSendEnd
    \/ TtsExit

\* Other traffic on the bus may overrun the TTS stage's place in it: the
\* oldest events are lost (RecvError::Lagged, ignored by the code).
BusLag ==
    /\ bus # <<>>
    /\ bus' = Tail(bus)
    /\ UNCHANGED <<input, transcripts, router, calls, outcomes, prompts, llm,
                   tok, tts, chunks, sink>>

\* MqttTts publishes its request without a timeout: a request channel that
\* stays full holds the synthesis, and the stage with it, for ever.
TtsHangs ==
    /\ ttsPc = "synth" /\ ttsPc' = "hung"
    /\ UNCHANGED <<input, transcripts, router, calls, outcomes, prompts, llm,
                   tok, bus, ttsBuf, ttsSentence, ttsEnd, ttsChunks, barged,
                   chunks, sink>>

-----------------------------------------------------------------------------
(* Sink *)

\* Only the first Format of a session is published, as tts/meta.
Publishes(message) == message.kind = "format" => ~metaSent

SinkStops == cancelled \/ (chunks = <<>> /\ ttsPc = "exited")

\* mqtt.publish waits for room in the request channel, with no timeout and
\* without a look at the token; here it never gets any.  The message is out of
\* the sink's channel, whose receiver the sink keeps.
SinkSticks ==
    /\ sinkPc = "select" /\ sinkPc' = "stuck"
    /\ \/ /\ chunks # <<>> /\ Publishes(Head(chunks))
          /\ chunks' = Tail(chunks)
          /\ answerDone' = (answerDone /\ Head(chunks).kind = "end")
       \/ /\ SinkStops /\ ~answerDone
          /\ UNCHANGED <<chunks, answerDone>>
    /\ UNCHANGED <<input, transcripts, router, calls, outcomes, prompts, llm,
                   tok, bus, tts, metaSent, ended, lastOut>>

SinkFormat ==
    /\ sinkPc = "select" /\ chunks # <<>> /\ Head(chunks).kind = "format"
    /\ chunks' = Tail(chunks)
    /\ answerDone' = FALSE /\ metaSent' = TRUE
    /\ lastOut' = IF metaSent THEN lastOut ELSE "meta"
    /\ UNCHANGED <<input, transcripts, router, calls, outcomes, prompts, llm,
                   tok, bus, tts, sinkPc, ended>>

SinkChunk ==
    /\ sinkPc = "select" /\ chunks # <<>> /\ Head(chunks).kind = "chunk"
    /\ chunks' = Tail(chunks)
    /\ answerDone' = FALSE
    /\ lastOut' = "audio"
    /\ UNCHANGED <<input, transcripts, router, calls, outcomes, prompts, llm,
                   tok, bus, tts, sinkPc, metaSent, ended>>

SinkAnswerEnd ==
    /\ sinkPc = "select" /\ chunks # <<>> /\ Head(chunks).kind = "end"
    /\ chunks' = Tail(chunks)
    /\ answerDone' = TRUE
    /\ lastOut' = "done" /\ ended' = ended \cup Head(chunks).of
    /\ UNCHANGED <<input, transcripts, router, calls, outcomes, prompts, llm,
                   tok, bus, tts, sinkPc, metaSent>>

\* Faulty variant: teardown never publishes `done`.
TeardownOutSilent == lastOut

\* Teardown publishes the `done` that the last answer has not had.
TeardownOut == IF answerDone THEN lastOut ELSE "done"

\* The loop ends: cancelled, or the TTS stage is gone.
SinkTeardown ==
    /\ sinkPc = "select"
    /\ SinkStops
    /\ sinkPc' = "exited" /\ chunks' = <<>>
    /\ lastOut' = TeardownOut
    /\ UNCHANGED <<input, transcripts, router, calls, outcomes, prompts, llm,
                   tok, bus, tts, metaSent, answerDone, ended>>

Sink == SinkFormat \/ SinkChunk \/ SinkAnswerEnd \/ SinkTeardown

-----------------------------------------------------------------------------
Environment ==
    \/ Hear \/ Cancel \/ DropInputs \/ BusLag
    \/ TtsHangs \/ SinkSticks

Next ==
    \/ Environment \/ Router \/ Llm \/ Tts \/ Sink
    \/ \E u \in Utterances : DispatchReturn(u)

\* Tokio polls every ready task; providers and skills return or time out.
\* Nothing obliges users to speak, sessions to be closed, the bus to lag or
\* the MQTT client's channels to stay full.
Fairness ==
    /\ WF_vars(Router) /\ WF_vars(Llm) /\ WF_vars(Tts) /\ WF_vars(Sink)
    /\ \A u \in Utterances : WF_vars(DispatchReturn(u))

Spec     == Init /\ [][Next]_vars
FairSpec == Spec /\ Fairness

-----------------------------------------------------------------------------
(* Properties *)

\* Every variable has its type: a queued message names an utterance and every
\* stage of open_session's pipeline is at one of its places.
TypeOK ==
    /\ cancelled \in BOOLEAN /\ inputClosed \in BOOLEAN
    /\ heard \in 0..MaxUtterances /\ partials \in 0..MaxPartials
    /\ transcripts \in Seq(Utterances \cup {Partial})
    /\ routerPc \in {"select", "toLlm", "askLlm", "toTts", "toEnd", "exited"}
    /\ rxClosed \in BOOLEAN /\ priorWork \in BOOLEAN
    /\ epoch \in 0..MaxUtterances /\ pending \in 0..MaxUtterances
    /\ routerFor \in 0..MaxUtterances
    /\ calls \in [Utterances -> {"none", "running", "cancelled", "returned"}]
    /\ outcomes \in Seq(Outcome)
    /\ prompts \in Seq(Utterances)
    /\ llmPc \in {"select", "complete", "stream", "apologise", "end", "exited"}
    /\ llmFor \in 0..MaxUtterances /\ llmTokens \in 0..MaxTokens
    /\ tok \in Seq(TtsMsg) /\ bus \in Seq(Utterances)
    /\ ttsPc \in {"select", "synth", "hung", "stream", "chunk", "end",
                  "exited"}
    /\ ttsBuf \subseteq Utterances /\ ttsSentence \subseteq Utterances
    /\ ttsEnd \in 0..MaxUtterances /\ ttsChunks \in 0..MaxChunks
    /\ chunks \in Seq(SinkMsg)
    /\ sinkPc \in {"select", "stuck", "exited"}
    /\ metaSent \in BOOLEAN /\ answerDone \in BOOLEAN
    /\ ended \subseteq Utterances /\ dropped \subseteq Utterances
    /\ lastOut \in {"none", "meta", "audio", "done"}
    /\ barged \in 0..MaxUtterances

\* The messages in a channel.
Queued(channel) == {channel[i] : i \in DOMAIN channel}

\* Some part of the answer to u is still to be produced ...
Producing(u) ==
    \/ calls[u] \in {"running", "cancelled"}
    \/ \E o \in Queued(outcomes) : o.of = u
    \/ routerFor = u
    \/ u \in Queued(prompts)
    \/ llmFor = u

\* ... or has been produced and is on its way through TTS to the sink.
Speaking(u) ==
    \/ \E m \in Queued(tok) : m.of = u
    \/ u \in ttsBuf \/ u \in ttsSentence \/ ttsEnd = u
    \/ \E m \in Queued(chunks) : u \in m.of

\* TtsMsg::AnswerEnd "means everything before me is the whole answer": once
\* the `done` of an answer is published nothing of that answer is left in any
\* stage or channel, so no audio of it follows and no second `done` does.
DoneIsFinal == \A u \in ended : ~Producing(u) /\ ~Speaking(u)

\* A skill reply that was still pending when a newer utterance arrived is
\* never forwarded: nothing of it reaches the LLM, the TTS stage or the sink.
SupersededSkillIsSilent ==
    \A u \in dropped :
        /\ ~Speaking(u) /\ u \notin ended
        /\ routerFor # u /\ llmFor # u /\ u \notin Queued(prompts)

\* Satellites configure playback from tts/meta: the sink never has an audio
\* chunk to publish before meta was published.
MetaBeforeAudio ==
    sinkPc = "select" /\ chunks # <<>> /\ Head(chunks).kind = "chunk" => metaSent

\* However the session ends, the last thing its satellite hears is a `done`,
\* also when the sink was stopped in the middle of an answer.
ReleasedAtTeardown == sinkPc = "exited" => lastOut = "done"

\* A publish that waits for ever (mqtt.publish in sink.rs, call_streaming).
HeldByMqtt == sinkPc = "stuck" \/ ttsPc = "hung"

\* An accepted utterance is answered: a `done` for it is published unless a
\* newer utterance supersedes it or the session is cancelled, whatever a skill
\* that returns, the LLM and the TTS provider do wrong.  Only a request channel
\* that stays full can keep it back.
TurnAnswered ==
    \A u \in Utterances :
        epoch = u ~> (u \in ended \/ epoch > u \/ cancelled \/ HeldByMqtt)

\* Cancelling the session stops all four stages, although a stage waiting for
\* room in a channel or for a provider does not look at the token: the stages
\* cannot wait for each other for ever, only for a request channel of MQTT
\* that stays full.
CancelStopsAll ==
    cancelled ~> \/ /\ routerPc = "exited" /\ llmPc = "exited"
                    /\ ttsPc = "exited" /\ sinkPc = "exited"
                 \/ HeldByMqtt

\* tts.rs: "the previous response has been superseded, its audio must not
\* reach the sink": once the TTS stage has received the BargeIn of utterance
\* b, it sends no chunk of text that only older utterances produced.
SupersededAudioIsDropped ==
    [][ttsPc = "chunk" /\ Len(chunks') > Len(chunks)
        => \E u \in ttsSentence : u >= barged]_vars

\* tts.rs: a BargeIn aborts "the previous response", never the answer to the
\* utterance that caused it.
BargeInSparesNewAnswer ==
    [][ttsPc = "stream" /\ bus # <<>> /\ ttsPc' # "stream"
        => \A u \in ttsSentence : u < Head(bus)]_vars
=============================================================================
