---------------------------- MODULE TextToSpeech -----------------------------
(***************************************************************************)
(* MqttTts: one session's sentences are synthesized one after the other by *)
(* the TTS worker, over the request/reply client that the session's route  *)
(* is kept in.  The worker answers each request from a task of its own;    *)
(* the client tells answers apart by their session only.                   *)
(*                                                                         *)
(* A reply <<r, k>> is the k-th chunk of request r, the first one with the *)
(* audio format, or for k = Chunks + 1 the marker `done`.                  *)
(***************************************************************************)
EXTENDS Naturals, Sequences

CONSTANTS
    Chunks,       \* chunks of a sentence's audio
    TtsRouteCap,  \* capacity of a route (32)
    MaxRequests,  \* bound: sentences synthesized
    MaxTtsLosses  \* bound: broker and worker failures

ASSUME TtsAssumption ==
    Chunks \in Nat /\ TtsRouteCap \in Nat /\ MaxRequests \in Nat /\ MaxTtsLosses \in Nat

VARIABLES
    call,       \* the synthesize call: where it is, its request, what it got
    ttsRoute,   \* the client's route of the session
    removing,   \* the client's pump is about to remove a stale route
    ttsRequests, \* on their way to the worker
    tasks,      \* request |-> the reply its task publishes next, 0 for none
    ttsReplies, \* on their way back
    ttsLosses,
    ttsWedged,  \* the client's task waits for room that only it can make
    disturbed   \* an answer was cut short, or replies lost, since all was quiet

ttsVars == <<call, ttsRoute, removing, ttsRequests, tasks, ttsReplies, ttsLosses,
             ttsWedged, disturbed>>

Requests == 1..MaxRequests
Reply == Requests \X (1..(Chunks + 1))
Done == Chunks + 1
\* The audio of request r.
Whole(r) == [k \in 1..Chunks |-> <<r, k>>]

TtsTypeOK ==
    /\ call \in [at : {"idle", "publish", "first", "stream"}, request : 0..MaxRequests,
                 got : Seq(Reply)]
    /\ ttsRoute \in [known : BOOLEAN, open : BOOLEAN, queue : Seq(Reply)]
    /\ Len(ttsRoute.queue) <= TtsRouteCap
    /\ {removing, ttsWedged, disturbed} \subseteq BOOLEAN
    /\ ttsRequests \in Seq(Requests) /\ ttsReplies \in Seq(Reply)
    /\ tasks \in [Requests -> 0..Done]
    /\ ttsLosses \in 0..MaxTtsLosses

TtsInit ==
    /\ call = [at |-> "idle", request |-> 0, got |-> <<>>]
    /\ ttsRoute = [known |-> FALSE, open |-> FALSE, queue |-> <<>>]
    /\ removing = FALSE /\ ttsRequests = <<>> /\ ttsReplies = <<>>
    /\ tasks = [r \in Requests |-> 0]
    /\ ttsLosses = 0 /\ ttsWedged = FALSE /\ disturbed = FALSE

\* Nothing of an earlier request is left anywhere.
Quiet == /\ ttsRequests = <<>> /\ ttsReplies = <<>> /\ ~removing
         /\ \A r \in Requests : tasks[r] = 0

-----------------------------------------------------------------------------
(* MqttProviderClient and MqttTts *)

\* call_streaming replaces the session's route, whoever still listens to it.
Call ==
    /\ call.at = "idle" /\ call.request < MaxRequests
    /\ call' = [at |-> "publish", request |-> call.request + 1, got |-> <<>>]
    /\ ttsRoute' = [known |-> TRUE, open |-> TRUE, queue |-> <<>>]
    /\ disturbed' = (disturbed /\ ~Quiet)
    /\ UNCHANGED <<removing, ttsRequests, tasks, ttsReplies, ttsLosses, ttsWedged>>

\* A ConnAck meets a request channel that the sessions have filled: the task
\* waits in subscribe, and neither sends a request nor routes a reply again.
TtsClientWedges ==
    /\ ~ttsWedged /\ ~removing /\ ttsWedged' = TRUE
    /\ UNCHANGED <<call, ttsRoute, removing, ttsRequests, tasks, ttsReplies,
                   ttsLosses, disturbed>>

\* The publish waits for room in that channel before any timeout runs, and the
\* TTS stage waits for it without a look at its token or at a barge-in.
PublishRequest ==
    /\ call.at = "publish" /\ ~ttsWedged
    /\ call' = [call EXCEPT !.at = "first"]
    /\ ttsRequests' = Append(ttsRequests, call.request)
    /\ UNCHANGED <<ttsRoute, removing, tasks, ttsReplies, ttsLosses, ttsWedged,
                   disturbed>>

beyondCall == <<removing, ttsRequests, tasks, ttsReplies, ttsLosses, ttsWedged>>
Hangup == ttsRoute' = [ttsRoute EXCEPT !.open = FALSE, !.queue = <<>>]
Finish == call' = [call EXCEPT !.at = "idle"] /\ Hangup

\* A message: synthesize returns with the first one, the stream goes on to the
\* marker.
Receive ==
    /\ call.at \in {"first", "stream"} /\ ttsRoute.queue # <<>>
    /\ IF Head(ttsRoute.queue)[2] = Done
       THEN Finish
       ELSE /\ call' = [call EXCEPT !.at = "stream", !.got = Append(@, Head(ttsRoute.queue))]
            /\ ttsRoute' = [ttsRoute EXCEPT !.queue = Tail(@)]
    /\ UNCHANGED <<disturbed, beyondCall>>

\* Faulty variant: only the first message is waited for with a timeout.
TimeoutFirstOnly ==
    /\ call.at = "first" /\ ttsRoute.queue = <<>>
    /\ call' = [call EXCEPT !.at = "stream"]
    /\ disturbed' = TRUE
    /\ UNCHANGED <<ttsRoute, beyondCall>>

\* No message within the timeout: the first time the call goes on as if there
\* were a stream, which then ends the same way.  Neither is an error.
Timeout ==
    /\ call.at \in {"first", "stream"} /\ ttsRoute.queue = <<>>
    /\ IF call.at = "first"
       THEN call' = [call EXCEPT !.at = "stream"] /\ UNCHANGED ttsRoute
       ELSE Finish
    /\ disturbed' = TRUE
    /\ UNCHANGED beyondCall

\* A barge-in, or a sink that is gone, drops the stream where it is; nothing
\* looks at either before synthesize has returned one.
Abandon ==
    /\ call.at = "stream"
    /\ Finish
    /\ disturbed' = TRUE
    /\ UNCHANGED beyondCall

\* The client's pump hands a reply to the session's route; it drops what finds
\* no room, and looks up again the route whose receiver is gone, to remove it.
RouteChunk ==
    /\ ~ttsWedged /\ ~removing /\ ttsReplies # <<>>
    /\ ttsReplies' = Tail(ttsReplies)
    /\ \/ /\ ttsRoute.known /\ ttsRoute.open /\ Len(ttsRoute.queue) < TtsRouteCap
          /\ ttsRoute' = [ttsRoute EXCEPT !.queue = Append(@, Head(ttsReplies))]
          /\ UNCHANGED <<removing, disturbed>>
       \/ /\ ttsRoute.known /\ ttsRoute.open /\ Len(ttsRoute.queue) = TtsRouteCap
          /\ disturbed' = TRUE /\ UNCHANGED <<ttsRoute, removing>>
       \/ /\ ~(ttsRoute.known /\ ttsRoute.open)
          /\ removing' = ttsRoute.known
          /\ UNCHANGED <<ttsRoute, disturbed>>
    /\ UNCHANGED <<call, ttsRequests, tasks, ttsLosses, ttsWedged>>

\* The removal takes whatever route is there by now; the sender goes with it,
\* and a call that just installed it gets nothing more.
RemoveRoute ==
    /\ removing /\ removing' = FALSE
    /\ ttsRoute' = [ttsRoute EXCEPT !.known = FALSE]
    /\ UNCHANGED <<call, ttsRequests, tasks, ttsReplies, ttsLosses, ttsWedged,
                   disturbed>>

\* ... it sees the end of its channel once the queue is empty.
ReceiveClosed ==
    /\ call.at \in {"first", "stream"} /\ ~ttsRoute.known /\ ttsRoute.queue = <<>>
    /\ Finish
    /\ disturbed' = TRUE
    /\ UNCHANGED beyondCall

-----------------------------------------------------------------------------
(* The TTS worker *)

\* synthesize, by piper or say: samples, or an error that is only logged.
Synthesize(r) ==
    \/ tasks' = [tasks EXCEPT ![r] = 1] /\ UNCHANGED disturbed
    \/ UNCHANGED tasks /\ disturbed' = TRUE

\* serve spawns a task for each request.
HandleRequest ==
    /\ ttsRequests # <<>>
    /\ ttsRequests' = Tail(ttsRequests)
    /\ Synthesize(Head(ttsRequests))
    /\ UNCHANGED <<call, ttsRoute, removing, ttsReplies, ttsLosses, ttsWedged>>

\* Faulty variant: the marker overtakes the last chunk.
PublishDoneEarly(r) ==
    /\ tasks[r] # 0
    /\ LET k == tasks[r]
       IN  ttsReplies' = Append(ttsReplies, <<r, IF k = Chunks THEN Done
                                           ELSE IF k = Done THEN Chunks ELSE k>>)
    /\ tasks' = [tasks EXCEPT ![r] = IF @ = Done THEN 0 ELSE @ + 1]
    /\ UNCHANGED <<call, ttsRoute, removing, ttsRequests, ttsLosses, ttsWedged,
                   disturbed>>

\* handle_request publishes the chunks in order and then the marker.
PublishReply(r) ==
    /\ tasks[r] # 0
    /\ ttsReplies' = Append(ttsReplies, <<r, tasks[r]>>)
    /\ tasks' = [tasks EXCEPT ![r] = IF @ = Done THEN 0 ELSE @ + 1]
    /\ UNCHANGED <<call, ttsRoute, removing, ttsRequests, ttsLosses, ttsWedged,
                   disturbed>>

\* The broker or the worker restarts.
LoseSpeech ==
    /\ ttsLosses < MaxTtsLosses /\ ttsLosses' = ttsLosses + 1
    /\ ttsRequests' = <<>> /\ ttsReplies' = <<>>
    /\ tasks' \in {tasks, [r \in Requests |-> 0]}
    /\ disturbed' = TRUE
    /\ UNCHANGED <<call, ttsRoute, removing, ttsWedged>>

TtsNext ==
    \/ Call \/ TtsClientWedges \/ PublishRequest \/ Receive \/ Timeout \/ Abandon
    \/ RouteChunk \/ RemoveRoute \/ ReceiveClosed
    \/ HandleRequest \/ (\E r \in Requests : PublishReply(r)) \/ LoseSpeech

TtsFairness ==
    /\ WF_ttsVars(PublishRequest) /\ WF_ttsVars(Receive) /\ WF_ttsVars(Timeout) /\ WF_ttsVars(ReceiveClosed)
    /\ WF_ttsVars(RouteChunk) /\ WF_ttsVars(RemoveRoute) /\ WF_ttsVars(HandleRequest)
    /\ \A r \in Requests : WF_ttsVars(PublishReply(r))

TtsSpec == TtsInit /\ [][TtsNext]_ttsVars /\ TtsFairness

-----------------------------------------------------------------------------
(* Properties *)

\* Once nothing is left of the requests before it, a sentence whose call runs
\* undisturbed is heard whole and in order, with its own format first and
\* nothing of another sentence in it.  After a barge-in this holds again only
\* when the worker has fallen silent (call_streaming, handle_request).
UndisturbedSentenceIsWhole ==
    ~disturbed =>
        /\ call.at = "idle" /\ call.request # 0 => call.got = Whole(call.request)
        /\ \E n \in 0..Chunks : call.got = SubSeq(Whole(call.request), 1, n)

\* A synthesis ends whatever becomes of the worker, the broker and the route,
\* so that the answer after it gets its turn (synthesize's timeouts).  Only a
\* wedged client holds one for ever: its publish has no timeout.
EveryCallEnds == call.at # "idle" ~> call.at = "idle" \/ ttsWedged
=============================================================================
