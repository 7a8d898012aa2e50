----------------------------- MODULE TestConsole -----------------------------
(***************************************************************************)
(* POST /api/test-command of the admin server: a text session of its own,  *)
(* over its own connection, for one HTTP request.  One task publishes and  *)
(* polls; what it publishes never fills the client's channel of 64.        *)
(***************************************************************************)
EXTENDS Naturals, Sequences

VARIABLES
    step,        \* "request", "loop", "text", "closing", "flush", "disconnect",
                 \*   "answered"
    status,      \* the HTTP status, once it is decided
    outbox,      \* requests no poll has taken yet
    connected,   \* the event loop is connected
    subscribed,  \* the broker knows the subscription
    begun,       \* `started`: the SubAck came
    segments,    \* segments are there
    unacked,     \* publishes the broker has and has not acknowledged
    told         \* what has been handed to the MQTT client, by session

consoleVars == <<step, status, outbox, connected, subscribed, begun, segments,
                 unacked, told>>

\* How far the session has come.
ConsoleStage ==
    IF ~begun THEN "new" ELSE IF step = "text" THEN "open" ELSE "asked"

ConsoleProtocol == INSTANCE SessionProtocol
    WITH Sessions <- {1}, Lossless <- TRUE,
         stage <- [s \in {1} |-> ConsoleStage], wire <- told

Statuses == {"none", "200", "400", "502", "503", "504"}
ConsoleTypeOK ==
    /\ step \in {"request", "loop", "text", "closing", "flush", "disconnect",
                 "answered"}
    /\ status \in Statuses
    /\ outbox \in Seq({"subscribe", "publish", "disconnect"}) /\ Len(outbox) <= 5
    /\ {connected, subscribed, begun, segments} \subseteq BOOLEAN
    /\ unacked \in 0..3

ConsoleInit ==
    /\ step = "request" /\ status = "none" /\ outbox = <<>>
    /\ connected = FALSE /\ subscribed = FALSE /\ begun = FALSE
    /\ segments = FALSE /\ unacked = 0
    /\ told = [s \in {1} |-> <<>>]

\* test_command: an empty text or a bad locale, no broker configured, or a
\* session that begins by subscribing.
Request ==
    /\ step = "request"
    /\ \/ status' \in {"400", "503"} /\ step' = "answered" /\ UNCHANGED outbox
       \/ step' = "loop" /\ outbox' = <<"subscribe">> /\ UNCHANGED status
    /\ UNCHANGED <<connected, subscribed, begun, segments, unacked, told>>

Polls == step \in {"loop", "flush"}

\* eventloop.poll(): connects, sends the next request, or hands on an answer
\* of the broker.
ConsoleConnects ==
    /\ Polls /\ ~connected
    /\ connected' = TRUE
    /\ UNCHANGED <<step, status, outbox, subscribed, begun, segments, unacked,
                   told>>

ConsoleSends ==
    /\ Polls /\ connected /\ outbox # <<>>
    /\ outbox' = Tail(outbox)
    /\ subscribed' = (subscribed \/ Head(outbox) = "subscribe")
    /\ unacked' = IF Head(outbox) = "publish" THEN unacked + 1 ELSE unacked
    /\ UNCHANGED <<step, status, connected, begun, segments, told>>

Enqueue(m) ==
    /\ outbox' = Append(outbox, "publish")
    /\ told' = [told EXCEPT ![1] = Append(@, m)]

\* The first SubAck: `start`, and the text right after it.
ConsoleSubAck ==
    /\ step = "loop" /\ subscribed /\ ~begun
    /\ begun' = TRUE
    /\ Enqueue("start")
    /\ step' = "text"
    /\ UNCHANGED <<status, connected, subscribed, segments, unacked>>

ConsoleText ==
    /\ step = "text"
    /\ Enqueue("question")
    /\ step' = "loop"
    /\ UNCHANGED <<status, connected, subscribed, begun, segments, unacked>>

Leave(result) == step' = "closing" /\ status' = result

\* tts/text is a segment of the answer; `done` ends it, even an empty one.
Incoming ==
    /\ step = "loop" /\ subscribed /\ begun
    /\ \/ segments' = TRUE /\ UNCHANGED <<step, status>>
       \/ Leave("200") /\ UNCHANGED segments
    /\ UNCHANGED <<outbox, connected, subscribed, begun, unacked, told>>

\* A PubAck: the flush ends with the first one, whichever publish it is for.
PubAck ==
    /\ Polls /\ connected /\ unacked > 0
    /\ unacked' = unacked - 1
    /\ step' = IF step = "flush" THEN "disconnect" ELSE step
    /\ UNCHANGED <<status, outbox, connected, subscribed, begun, segments,
                   told>>

\* An error of the event loop ends the session, or the flush.
ConsoleFails ==
    /\ Polls
    /\ IF step = "loop" THEN Leave("502")
                       ELSE step' = "disconnect" /\ UNCHANGED status
    /\ connected' = FALSE /\ subscribed' = FALSE /\ unacked' = 0
    /\ UNCHANGED <<outbox, begun, segments, told>>

\* Faulty variant: the deadline is that of the first segment.
DeadlineUntilHeard ==
    /\ step = "loop" /\ ~segments
    /\ Leave("504")
    /\ UNCHANGED <<outbox, connected, subscribed, begun, segments, unacked,
                   told>>

\* ANSWER_QUIET after a segment, or SESSION_TIMEOUT, segments or not.
ConsoleQuiet ==
    /\ step = "loop" /\ segments
    /\ Leave("200")
    /\ UNCHANGED <<outbox, connected, subscribed, begun, segments, unacked,
                   told>>

ConsoleDeadline ==
    /\ step = "loop"
    /\ Leave(IF segments THEN "200" ELSE "504")
    /\ UNCHANGED <<outbox, connected, subscribed, begun, segments, unacked,
                   told>>

\* `end` is published even when nothing was opened.
Close ==
    /\ step = "closing"
    /\ IF begun THEN Enqueue("end")
       ELSE outbox' = Append(outbox, "publish") /\ UNCHANGED told
    /\ step' = "flush"
    /\ UNCHANGED <<status, connected, subscribed, begun, segments, unacked>>

\* One second of flushing.
ConsoleFlushEnds ==
    /\ step = "flush"
    /\ step' = "disconnect"
    /\ UNCHANGED <<status, outbox, connected, subscribed, begun, segments,
                   unacked, told>>

\* disconnect() queues a request that nobody polls for any more.
DisconnectConsole ==
    /\ step = "disconnect"
    /\ outbox' = Append(outbox, "disconnect")
    /\ step' = "answered"
    /\ UNCHANGED <<status, connected, subscribed, begun, segments, unacked,
                   told>>

ConsoleNext ==
    \/ Request \/ ConsoleConnects \/ ConsoleSends \/ ConsoleSubAck \/ ConsoleText
    \/ Incoming \/ PubAck \/ ConsoleFails \/ ConsoleQuiet \/ ConsoleDeadline
    \/ Close \/ ConsoleFlushEnds \/ DisconnectConsole

\* The timers and the task's own steps; nothing is asked of the broker.
ConsoleFairness ==
    /\ WF_consoleVars(Request) /\ WF_consoleVars(ConsoleText)
    /\ SF_consoleVars(ConsoleDeadline) /\ WF_consoleVars(Close)
    /\ WF_consoleVars(ConsoleFlushEnds) /\ WF_consoleVars(DisconnectConsole)

-----------------------------------------------------------------------------
(* Properties *)

\* The HTTP request is answered whatever the broker does, and a session that
\* was opened has then been told to end (run_text_session).
RequestIsAnswered ==
    step # "answered" ~>
        /\ step = "answered" /\ status # "none"
        /\ ConsoleProtocol!Has(1, "start") => ConsoleProtocol!Has(1, "end")

ConsoleKeepsProtocol == ConsoleProtocol!Spec
=============================================================================
