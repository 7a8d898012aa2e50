------------------------------- MODULE MCSpeech ------------------------------
(***************************************************************************)
(* The parts between a satellite's audio and the providers, which share    *)
(* no state: the sessions and the MQTT task that feeds them, the circuit   *)
(* in front of a provider, the way of an utterance to the worker that      *)
(* transcribes it, the answer an LLM streams, and the way of a sentence to *)
(* the worker that speaks it.  A behaviour is one of theirs; part says     *)
(* which.                                                                  *)
(***************************************************************************)
EXTENDS Sessions, CircuitBreaker, SpeechToText, TextToSpeech, LlmStream

VARIABLE part

otherVars == <<sttVars, ttsVars, streamVars>>
allVars == <<part, vars, circuitVars, otherVars>>

\* Only the part that moves starts in more than one state.
MCInit ==
    /\ part \in {"sessions", "circuit", "speech to text", "llm", "text to speech"}
    /\ Init /\ CircuitInit /\ SttInit /\ TtsInit /\ StreamInit
    /\ part # "circuit" => provider = "up"
    /\ part # "llm" => server = "ollama" /\ body = <<>>

Provider ==
    /\ \/ part = "speech to text" /\ SttNext /\ UNCHANGED <<ttsVars, streamVars>>
       \/ part = "text to speech" /\ TtsNext /\ UNCHANGED <<sttVars, streamVars>>
       \/ part = "llm" /\ StreamNext /\ UNCHANGED <<sttVars, ttsVars>>
    /\ UNCHANGED <<part, vars, circuitVars>>

MCNext ==
    \/ part = "sessions" /\ Next /\ UNCHANGED <<part, circuitVars, otherVars>>
    \/ part = "circuit" /\ CircuitNext /\ UNCHANGED <<part, vars, otherVars>>
    \/ Provider

MCSpec == MCInit /\ [][MCNext]_allVars

\* The types of four of the parts, and the capacities of their channels.
SpeechTypes == TypeOK /\ CircuitTypeOK /\ SttTypeOK /\ TtsTypeOK

\* Sessions: a silent session is reaped and its pipeline ends (session_idle).
SilentOnesEnd == part = "sessions" => (Fairness => SilentSessionsEnd)

\* Sessions: the poll task stops turning only where its own resubscribe wedged
\* it or the reaper made its open_session panic (ingress.rs).
PollStopsOnlyTwoWays == part = "sessions" => (Fairness => PollStopsTwoWays)

\* Sessions: Runtime::shutdown returns, whatever its tasks are doing.
ShutdownEnds == part = "sessions" => (Fairness => ShutdownReturns)

\* TextToSpeech: an undisturbed sentence is heard whole and alone; LlmStream:
\* tokens survive every way to cut the body, and a failure is not silent.
StreamsAreWhole ==
    /\ UndisturbedSentenceIsWhole
    /\ TokensSurviveChunking /\ FailureIsNotSilent

\* CircuitBreaker: a circuit closes when its provider is back (can_call).
CircuitRecovers ==
    part = "circuit" => (CircuitFairness => RecoveredProviderIsUsedAgain)

\* SpeechToText: an utterance whose marker was accepted is heard (ingest.rs).
MarkedOnesAreHeard ==
    part = "speech to text" => (SttFairness => UtterancesAreHeard)

\* SpeechToText: the tasks of a cancelled session end, the pump too.
SpeechTasksEnd ==
    part = "speech to text" => (SttFairness => CancelledTasksEnd)

\* TextToSpeech: every synthesis ends, whatever fails (mqtt_tts.rs).
SynthesesEnd == part = "text to speech" => (TtsFairness => EveryCallEnds)
==============================================================================
