----------------------------- MODULE AssistActor -----------------------------
(***************************************************************************)
(* run_device_actor of the assist bridge: it answers the questions of one  *)
(* device as text and tells the app by a status when to show its loader.   *)
(*                                                                         *)
(* The actor owns a router and an LLM stage that are the same code as in a *)
(* voice session, so their actions come from VoicePipeline; the actor      *)
(* itself takes the place of the TTS stage, the sink and the transcript    *)
(* sources.  Of the variables of VoicePipeline, heard is the actor's       *)
(* epoch, ttsBuf its SentenceBuffer and ttsPc the place where it waits;    *)
(* the other variables of the TTS stage and the sink keep their initial    *)
(* values, and nobody subscribes to the BargeIn events.                    *)
(*                                                                         *)
(* Every publish of the actor waits for room in the request channel of the *)
(* MQTT client, without a limit.  Where the room comes, an arm is one step *)
(* (nothing else of the actor runs meanwhile); where it never comes, the   *)
(* actor stays in the middle of the arm, at place "stuck".                 *)
(***************************************************************************)
EXTENDS VoicePipeline

VARIABLES
    awaited,   \* epoch tag of answer_deadline, 0 for None
    status     \* the last status published to the device's status topic

actorVars == <<vars, awaited, status>>

\* What only the other users of VoicePipeline change.
unused == <<partials, ttsSentence, ttsEnd, ttsChunks, barged, chunks, sink>>

ActorInit == Init /\ awaited = 0 /\ status = "none"

-----------------------------------------------------------------------------
(* The arms of the actor's select! *)

\* A question: drop what is buffered or queued for the one before, start the
\* answer deadline, show the loader, then hand the transcript to the router.
ActorQuestion ==
    /\ ttsPc = "select" /\ heard < MaxUtterances
    /\ heard' = heard + 1
    /\ ttsBuf' = {} /\ tok' = <<>>
    /\ awaited' = heard + 1
    /\ status' = "in progress"
    /\ ttsPc' = "send"
    /\ UNCHANGED <<cancelled, inputClosed, transcripts, router, calls,
                   outcomes, prompts, llm, bus, unused>>

\* Faulty variant: an actor that ends leaves the loader as it is.
ActorEndsSilently ==
    /\ UNCHANGED status
    /\ awaited' = 0
    /\ cancelled' = TRUE /\ inputClosed' = TRUE
    /\ ttsPc' = "exited" /\ tok' = <<>> /\ ttsBuf' = {}

\* What the end of the loop does, whatever ended it: release a loader that is
\* still shown, cancel the mini-pipeline and drop both channel ends.
ActorEnds ==
    /\ status' = IF awaited # 0 THEN "done" ELSE status
    /\ awaited' = 0
    /\ cancelled' = TRUE /\ inputClosed' = TRUE
    /\ ttsPc' = "exited" /\ tok' = <<>> /\ ttsBuf' = {}

\* t_tx.send waits for room in the transcript channel; meanwhile no other arm
\* runs, no timer fires and the token channel is not read.
ActorSend ==
    /\ ttsPc = "send"
    /\ \/ /\ routerPc # "exited" /\ Room(transcripts, TranscriptCap)
          /\ transcripts' = Append(transcripts, heard)
          /\ ttsPc' = "select"
          /\ UNCHANGED <<cancelled, inputClosed, tok, ttsBuf, awaited, status>>
       \/ /\ routerPc = "exited"
          /\ ActorEnds
          /\ UNCHANGED transcripts
    /\ UNCHANGED <<heard, router, calls, outcomes, prompts, llm, bus, unused>>

\* publish_answer and the release of an answer without text: the loader goes
\* away once per question.
Release ==
    IF awaited # 0 /\ awaited = heard
    THEN awaited' = 0 /\ status' = "done"
    ELSE UNCHANGED <<awaited, status>>

ActorToken ==
    /\ ttsPc = "select" /\ tok # <<>> /\ Head(tok).kind \in TokenKinds
    /\ tok' = Tail(tok)
    /\ IF Head(tok).kind = "sentence"
       THEN ttsBuf' = {} /\ Release
       ELSE /\ ttsBuf' = ttsBuf \cup {Head(tok).of}
            /\ UNCHANGED <<awaited, status>>
    /\ UNCHANGED <<cancelled, inputClosed, heard, transcripts, router, calls,
                   outcomes, prompts, llm, bus, ttsPc, unused>>

\* AnswerEnd: publish what is buffered; an answer without text releases too.
ActorAnswerEnd ==
    /\ ttsPc = "select" /\ tok # <<>> /\ Head(tok).kind = "end"
    /\ tok' = Tail(tok)
    /\ ttsBuf' = {}
    /\ Release
    /\ UNCHANGED <<cancelled, inputClosed, heard, transcripts, router, calls,
                   outcomes, prompts, llm, bus, ttsPc, unused>>

\* flush_deadline: set exactly while the buffer holds text.
ActorIdleFlush ==
    /\ ttsPc = "select" /\ ttsBuf # {}
    /\ ttsBuf' = {}
    /\ Release
    /\ UNCHANGED <<cancelled, inputClosed, heard, transcripts, router, calls,
                   outcomes, prompts, llm, bus, tok, ttsPc, unused>>

\* Faulty variant: only the first question starts a deadline.
ActorTimeoutOnce ==
    /\ ttsPc = "select" /\ awaited = 1
    /\ awaited' = 0 /\ status' = "done"
    /\ UNCHANGED <<vars>>

\* ANSWER_TIMEOUT after the question.
ActorTimeout ==
    /\ ttsPc = "select" /\ awaited # 0
    /\ awaited' = 0 /\ status' = "done"
    /\ UNCHANGED <<vars>>

\* The token is cancelled, or both senders of tokens are gone.
ActorStops ==
    /\ ttsPc = "select"
    /\ cancelled \/ (tok = <<>> /\ routerPc = "exited" /\ llmPc = "exited")
    /\ ActorEnds
    /\ UNCHANGED <<heard, transcripts, router, calls, outcomes, prompts, llm,
                   bus, unused>>

\* session_idle has passed since the last question.
ActorIdles ==
    /\ ttsPc = "select" /\ ~cancelled
    /\ ActorEnds
    /\ UNCHANGED <<heard, transcripts, router, calls, outcomes, prompts, llm,
                   bus, unused>>

\* The arms that publish text: the flush of the buffer, by the timer or at the
\* end of the tokens, a complete sentence, and the end of a buffered answer.
TextComesUp ==
    /\ ttsBuf' = {}
    /\ \/ ttsBuf # {} /\ UNCHANGED tok
       \/ /\ tok # <<>> /\ tok' = Tail(tok)
          /\ Head(tok).kind = "sentence" \/ (Head(tok).kind = "end" /\ ttsBuf # {})

\* An answer that ends without a word publishes its status only.
BlankEnd ==
    /\ ttsBuf = {} /\ UNCHANGED ttsBuf
    /\ tok # <<>> /\ Head(tok).kind = "end" /\ tok' = Tail(tok)

\* A publish that never gets its room: of the status of a new question, of the
\* deadline's release, of text, of the release that follows it, or of the
\* release at the end of the loop.  The status stays unpublished and what the
\* arm assigned before stays assigned; both receivers stay open.
ActorSticks ==
    /\ ttsPc' = "stuck"
    /\ \/ /\ ttsPc = "select" /\ heard < MaxUtterances
          /\ heard' = heard + 1 /\ awaited' = heard + 1
          /\ ttsBuf' = {} /\ tok' = <<>>
       \/ /\ ttsPc = "select" /\ awaited # 0
          /\ UNCHANGED <<heard, awaited, ttsBuf, tok>>
       \/ /\ ttsPc = "select" /\ TextComesUp
          /\ UNCHANGED <<heard, awaited>>
       \/ /\ ttsPc = "select" /\ (TextComesUp \/ BlankEnd)
          /\ awaited # 0 /\ awaited = heard /\ awaited' = 0
          /\ UNCHANGED heard
       \/ /\ \/ ttsPc = "select"
             \/ ttsPc = "send" /\ routerPc = "exited"
          /\ awaited # 0 /\ awaited' = 0
          /\ UNCHANGED <<heard, ttsBuf, tok>>
    /\ UNCHANGED <<status, cancelled, inputClosed, transcripts, router, calls,
                   outcomes, prompts, llm, bus, unused>>

Actor ==
    \/ ActorSend \/ ActorToken \/ ActorAnswerEnd \/ ActorIdleFlush
    \/ ActorTimeout \/ ActorStops

-----------------------------------------------------------------------------
Pipeline ==
    /\ \/ Router \/ Llm \/ Cancel
       \/ \E u \in Utterances : DispatchReturn(u)
    /\ UNCHANGED <<awaited, status>>

ActorNext == ActorQuestion \/ ActorIdles \/ ActorSticks \/ Actor \/ Pipeline

\* The actor is polled and its timers fire; nothing is asked of the router,
\* the skills and the LLM, which may hang.
LoaderSpec ==
    /\ ActorInit /\ [][ActorNext]_actorVars
    /\ WF_actorVars(Actor)

\* The broker takes every message, and the router, the skills and the LLM make
\* progress too.
FairActorSpec ==
    /\ ActorInit /\ [][ActorNext /\ ttsPc' # "stuck"]_actorVars
    /\ WF_actorVars(Actor)
    /\ WF_actorVars(Router /\ UNCHANGED <<awaited, status>>)
    /\ WF_actorVars(Llm /\ UNCHANGED <<awaited, status>>)
    /\ \A u \in Utterances :
          WF_actorVars(DispatchReturn(u) /\ UNCHANGED <<awaited, status>>)

-----------------------------------------------------------------------------
(* Properties *)

\* The loader is shown exactly while an answer is owed: on every path that
\* gives a question up (text, empty answer, timeout, idle, shutdown, a lost
\* router) the app is told so, and the deadline never outlives the loader.
\* Only a publish that waits for ever leaves the two apart.
LoaderMatchesDeadline ==
    ttsPc # "stuck" => ((status = "in progress") <=> (awaited # 0))

\* bridge.rs on ANSWER_TIMEOUT: a `done` is force-published "so client loaders
\* can't get stuck", whatever the router, the skills and the LLM do.
LoaderReleased == status = "in progress" ~> status = "done"

\* The same, but for a publish that never finds room in the request channel of
\* the MQTT client: the deadline cannot fire while an arm waits there, and its
\* own `done` has to go through the same channel.
LoaderReleasedOrHeld ==
    status = "in progress" ~> status = "done" \/ ttsPc = "stuck"

\* bridge.rs on epoch: it tags the deadline "so a sentence flushed for a
\* superseded utterance can't consume a newer question's pending `done`": text
\* or an end from the token channel releases the loader only when it is of the
\* last question.
SupersededTextReleasesNothing ==
    [][/\ status = "in progress" /\ status' = "done" /\ ttsPc' = "select"
       /\ tok # <<>> /\ tok' = Tail(tok)
       => Head(tok).of = heard \/ heard \in ttsBuf]_actorVars
=============================================================================
