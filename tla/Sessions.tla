------------------------------ MODULE Sessions -------------------------------
(***************************************************************************)
(* The server side of voice sessions: the task that polls the MQTT event   *)
(* loop and opens, feeds and closes sessions, the session manager it       *)
(* shares with the idle reaper, the event bus behind the transcript egress *)
(* and the mirror, and the shutdown of all of them.                        *)
(*                                                                         *)
(* A session's pipeline (VoicePipeline) is seen from outside: it takes     *)
(* utterances from its text channel, puts the answer's text on the bus     *)
(* and, once its token is cancelled, publishes `done` and ends.  A session *)
(* id that is used again is told apart by the number of its opening.       *)
(***************************************************************************)
EXTENDS Naturals, Sequences, FiniteSets

CONSTANTS
    Sids,         \* session ids
    RequestCap,   \* capacity of the MQTT client's request channel (128)
    TextCap,      \* capacity of a session's transcript channel (16)
    BusCap,       \* capacity of the event bus (1024)
    IdleTicks,    \* session_idle, in ticks of the clock
    MaxOpens,     \* bound: openings of one session id
    MaxInputs,    \* bound: messages from satellites handled in all
    MaxOutages    \* bound: connections lost

ASSUME SessionsAssumption ==
    /\ {RequestCap, TextCap, BusCap} \subseteq Nat \ {0}
    /\ {IdleTicks, MaxOpens, MaxInputs, MaxOutages} \subseteq Nat

VARIABLES
    entries,    \* keys of SessionManager.map
    opens,      \* session id |-> times it has been opened
    idle,       \* session id |-> ticks since last_activity_ms
    live,       \* pipelines, spawned or about to be, whose token is not cancelled
    starting,   \* the pipeline that open_session is about to spawn
    ending,     \* pipelines whose sink still has to publish `done`
    texts,      \* pipeline |-> number of utterances waiting for its router
    stale,      \* ids the reaper has collected and not closed yet
    poll,       \* where the poll task is
    conn,       \* connection to the broker
    subs,       \* the broker knows our subscriptions
    requests,   \* the MQTT client's request channel
    kept,       \* a subscribe taken over by the library at a disconnect
    bus,        \* the egress task's receiver on the event bus
    egress,     \* what the egress task is publishing
    shutdown,   \* the shutdown token is cancelled
    inputs, outages

manager == <<entries, opens, idle, live, starting>>
link    == <<conn, subs, requests, kept, outages>>
events  == <<bus, egress>>
vars    == <<manager, ending, texts, stale, poll, link, events,
             shutdown, inputs>>

Pipelines == Sids \X (1..MaxOpens)
Current(s) == <<s, opens[s]>>

PollStates == {"poll", "start", "subscribe sat", "subscribe assist", "sleep",
               "drain", "ended", "panicked"}

None == <<"none", 0>>

TypeOK ==
    /\ entries \subseteq Sids
    /\ opens \in [Sids -> 0..MaxOpens]
    /\ idle \in [Sids -> 0..(IdleTicks + 1)]
    /\ live \subseteq Pipelines /\ ending \subseteq Pipelines
    /\ starting \subseteq Pipelines
    /\ texts \in [Pipelines -> 0..TextCap]
    /\ stale \subseteq Sids
    /\ poll \in PollStates
    /\ conn \in {"up", "down"} /\ subs \in BOOLEAN /\ kept \in BOOLEAN
    /\ requests \in Seq({"publish", "subscribe"}) /\ Len(requests) <= RequestCap
    /\ bus \in Seq(Pipelines) /\ Len(bus) <= BusCap
    /\ egress \in Pipelines \cup {None}
    /\ shutdown \in BOOLEAN
    /\ inputs \in 0..MaxInputs /\ outages \in 0..MaxOutages

Init ==
    /\ entries = {} /\ stale = {} /\ live = {} /\ ending = {}
    /\ starting = {}
    /\ opens = [s \in Sids |-> 0]
    /\ idle = [s \in Sids |-> 0]
    /\ texts = [p \in Pipelines |-> 0]
    /\ poll = "poll"
    /\ conn = "down" /\ subs = FALSE /\ requests = <<>> /\ kept = FALSE
    /\ bus = <<>> /\ egress = None
    /\ shutdown = FALSE /\ inputs = 0 /\ outages = 0

-----------------------------------------------------------------------------
(* The session manager *)

\* open: a new entry, with a token of its own.
Open(s) ==
    /\ s \notin entries /\ opens[s] < MaxOpens
    /\ entries' = entries \cup {s}
    /\ opens' = [opens EXCEPT ![s] = @ + 1]
    /\ idle' = [idle EXCEPT ![s] = 0]
    /\ live' = live \cup {<<s, opens[s] + 1>>}
    /\ starting' = {<<s, opens[s] + 1>>}

\* Faulty variant: the entry goes, but nobody cancels its token.
CloseForgetsToken(s) ==
    /\ entries' = entries \ {s}
    /\ UNCHANGED <<opens, idle, live, starting, ending>>

\* A cancelled token ends the tasks under it, if there are any yet.
CancelTokens(P) ==
    /\ live' = live \ P
    /\ ending' = ending \cup ((P \cap live) \ starting)

\* close: remove the entry and cancel its token; unknown ids are ignored.
Close(s) ==
    /\ entries' = entries \ {s}
    /\ CancelTokens(IF s \in entries THEN {Current(s)} ELSE {})
    /\ UNCHANGED <<opens, idle, starting>>

\* touch: unknown ids are ignored.
Touched(s) == IF s \in entries THEN [idle EXCEPT ![s] = 0] ELSE idle

-----------------------------------------------------------------------------
(* The poll task of spawn_satellite *)

At(a) == poll = a
GoTo(a) == poll' = a

\* The outcomes of one EventLoop::poll.  Connecting answers with ConnAck, and
\* what the library took over at the last disconnect goes out first.
PollConnAck ==
    /\ At("poll") /\ conn = "down"
    /\ conn' = "up" /\ subs' = kept /\ kept' = FALSE
    /\ GoTo("subscribe sat")
    /\ UNCHANGED <<manager, ending, texts, stale, requests, outages, events,
                   shutdown, inputs>>

\* Only polling takes requests from the channel to the broker.
PollRequest ==
    /\ At("poll") \/ At("drain")
    /\ conn = "up" /\ requests # <<>>
    /\ requests' = Tail(requests)
    /\ subs' = (subs \/ Head(requests) = "subscribe")
    /\ UNCHANGED <<manager, ending, texts, stale, poll, conn, kept, outages,
                   events, shutdown, inputs>>

\* The connection is lost; the broker forgets a clean session's subscriptions.
PollError ==
    /\ At("poll") /\ conn = "up" /\ outages < MaxOutages
    /\ outages' = outages + 1
    /\ conn' = "down" /\ subs' = FALSE
    /\ kept' = (kept \/ \E i \in DOMAIN requests : requests[i] = "subscribe")
    /\ requests' = <<>>
    /\ GoTo("sleep")
    /\ UNCHANGED <<manager, ending, texts, stale, events, shutdown, inputs>>

\* Faulty variant: wait for the connection, which only polling brings back.
WaitForConnection ==
    /\ At("sleep") /\ conn = "up"
    /\ GoTo("poll")
    /\ UNCHANGED <<manager, ending, texts, stale, link, events, shutdown,
                   inputs>>

Wake ==
    /\ At("sleep")
    /\ GoTo("poll")
    /\ UNCHANGED <<manager, ending, texts, stale, link, events, shutdown,
                   inputs>>

Room == Len(requests) < RequestCap

\* resubscribe: both subscribes wait for room in the channel, inside the task
\* that is the only one to make room.
Resubscribe ==
    /\ At("subscribe sat") \/ At("subscribe assist")
    /\ Room
    /\ requests' = Append(requests, "subscribe")
    /\ GoTo(IF At("subscribe sat") THEN "subscribe assist" ELSE "poll")
    /\ UNCHANGED <<manager, ending, texts, stale, conn, subs, kept, outages,
                   events, shutdown, inputs>>

\* A message of a satellite, which only a subscribed server gets.
Incoming ==
    /\ At("poll") /\ conn = "up" /\ subs /\ inputs < MaxInputs
    /\ inputs' = inputs + 1
    /\ UNCHANGED <<stale, link, egress, shutdown>>

\* The first half of open_session: the entry, or a collision.
HandleStart(s) ==
    /\ Incoming
    /\ \/ Open(s) /\ GoTo("start")
       \/ s \in entries /\ UNCHANGED <<manager, poll>>
    /\ UNCHANGED <<ending, texts, bus>>

\* The second half looks the entry up again for its token and spawns the tasks
\* under it.  Meanwhile a shutdown may have cancelled the token, and the tasks
\* end at once ...
SpawnPipeline(s) ==
    /\ At("start") /\ Current(s) \in starting /\ s \in entries
    /\ starting' = {}
    /\ ending' = ending \cup (starting \ live)
    /\ GoTo("poll")
    /\ UNCHANGED <<entries, opens, idle, live, texts, stale, link, events,
                   shutdown, inputs>>

\* ... or the reaper may have closed the session: get(sid).unwrap() panics, and
\* the task, the event loop and the receiving end of the request channel are
\* gone.  The egress goes on, its handle is only dropped.
StartPanics(s) ==
    /\ At("start") /\ Current(s) \in starting /\ s \notin entries
    /\ starting' = {}
    /\ GoTo("panicked")
    /\ conn' = "down" /\ subs' = FALSE /\ kept' = FALSE /\ requests' = <<>>
    /\ UNCHANGED <<entries, opens, idle, live, ending, texts, stale, outages,
                   events, shutdown, inputs>>

\* An audio frame: its way through the pipeline is SpeechToText's.
HandleAudio(s) ==
    /\ Incoming
    /\ idle' = Touched(s)
    /\ UNCHANGED <<entries, opens, live, starting, ending, texts, poll, bus>>

Send(event) ==
    bus' = Append(IF Len(bus) = BusCap THEN Tail(bus) ELSE bus, event)

\* Faulty variant: a transcript channel without a bound.
OfferedUnbounded(p) == [texts EXCEPT ![p] = @ + 1]

\* try_send on the session's transcript channel.
Offered(p) == [texts EXCEPT ![p] = IF @ < TextCap THEN @ + 1 ELSE @]

\* A text message is announced as a transcript on the bus and offered to the
\* session's router, which loses it when its channel is full.
HandleText(s) ==
    /\ Incoming
    /\ idle' = Touched(s)
    /\ \/ /\ s \in entries
          /\ Send(Current(s))
          /\ texts' = Offered(Current(s))
       \/ UNCHANGED <<bus, texts>>     \* nothing but white space, or no session
    /\ UNCHANGED <<entries, opens, live, starting, ending, poll>>

HandleEnd(s) ==
    /\ Incoming
    /\ Close(s)
    /\ UNCHANGED <<texts, poll, bus>>

\* Faulty variant: relies on the cancel_all of Runtime::shutdown.
PollShutdownCancelsNothing ==
    /\ At("poll") /\ shutdown
    /\ GoTo("drain")
    /\ UNCHANGED <<manager, ending, texts, stale, link, events, shutdown,
                   inputs>>

\* The shutdown token wins the select: cancel every session, then poll on so
\* that the sinks' `done` messages can leave.
PollShutdown ==
    /\ At("poll") /\ shutdown
    /\ CancelTokens(live)
    /\ GoTo("drain")
    /\ UNCHANGED <<entries, opens, idle, starting, texts, stale, link, events, shutdown,
                   inputs>>

\* Faulty variant: a drain without deadline.
DrainUntilEmpty ==
    /\ At("drain") /\ requests = <<>>
    /\ GoTo("ended")
    /\ bus' = <<>> /\ egress' = None
    /\ UNCHANGED <<manager, ending, texts, stale, link, shutdown, inputs>>

\* After 500 ms, or 100 ms of quiet, the task stops the egress and returns;
\* the event loop and the receiving end of the request channel go with it.
DrainEnds ==
    /\ At("drain")
    /\ GoTo("ended")
    /\ requests' = <<>> /\ bus' = <<>> /\ egress' = None
    /\ UNCHANGED <<manager, ending, texts, stale, conn, subs, kept, outages,
                   shutdown, inputs>>

-----------------------------------------------------------------------------
(* The other tasks of the runtime *)

\* Somebody receives from the request channel.
Alive == ~At("ended") /\ ~At("panicked")

\* A publish waits for room, and fails at once when nobody receives any more.
RequestIfAlive(request) ==
    IF Alive THEN Room /\ requests' = Append(requests, request)
             ELSE UNCHANGED requests

\* The event mirror, the assist heartbeat and the sinks' audio: each waits for
\* room in the request channel.
Publish ==
    /\ Alive /\ Room
    /\ requests' = Append(requests, "publish")
    /\ UNCHANGED <<manager, ending, texts, stale, poll, conn, subs, kept,
                   outages, events, shutdown, inputs>>

\* The transcript egress looks the session's satellite up when it handles the
\* event: what a closed session said is not published.
EgressTakes ==
    /\ ~At("ended") /\ egress = None /\ bus # <<>>
    /\ bus' = Tail(bus)
    /\ egress' = IF Head(bus)[1] \in entries THEN Head(bus) ELSE None
    /\ UNCHANGED <<manager, ending, texts, stale, poll, link, shutdown, inputs>>

EgressPublishes ==
    /\ ~At("ended") /\ egress # None
    /\ RequestIfAlive("publish")
    /\ egress' = None
    /\ UNCHANGED <<manager, ending, texts, stale, poll, conn, subs, kept,
                   outages, bus, shutdown, inputs>>

\* A pipeline answers the next utterance; its text goes onto the bus.
Answer(p) ==
    /\ p \in live /\ texts[p] > 0
    /\ texts' = [texts EXCEPT ![p] = @ - 1]
    /\ IF At("ended") THEN UNCHANGED bus ELSE Send(p)
    /\ UNCHANGED <<manager, ending, stale, poll, link, egress, shutdown,
                   inputs>>

\* A cancelled pipeline ends when its sink has published `done`, or has seen
\* that the client is gone.
SinkDone(p) ==
    /\ p \in ending
    /\ RequestIfAlive("publish")
    /\ ending' = ending \ {p}
    /\ texts' = [texts EXCEPT ![p] = 0]
    /\ UNCHANGED <<manager, stale, poll, conn, subs, kept, outages, events,
                   shutdown, inputs>>

\* Faulty variant: the cutoff is max_idle - now, which saturates at the epoch.
ReapCollectsNothing ==
    /\ ~shutdown /\ stale = {}
    /\ stale' = {}
    /\ UNCHANGED <<manager, ending, texts, poll, link, events, shutdown,
                   inputs>>

\* reap_idle collects the ids of idle sessions ...
ReapCollect ==
    /\ ~shutdown /\ stale = {}
    /\ stale' = {s \in entries : idle[s] > IdleTicks}
    /\ stale' # {}
    /\ UNCHANGED <<manager, ending, texts, poll, link, events, shutdown,
                   inputs>>

\* ... and then closes whatever is found under each of them.
ReapClose(s) ==
    /\ s \in stale
    /\ stale' = stale \ {s}
    /\ Close(s)
    /\ UNCHANGED <<texts, poll, link, events, shutdown, inputs>>

\* Time passes; beyond IdleTicks + 1 it makes no difference.
Tick ==
    /\ \E s \in entries : idle[s] <= IdleTicks
    /\ idle' = [s \in Sids |-> IF s \in entries /\ idle[s] <= IdleTicks
                               THEN idle[s] + 1 ELSE idle[s]]
    /\ UNCHANGED <<entries, opens, live, starting, ending, texts, stale, poll,
                   link, events, shutdown, inputs>>

\* Runtime::shutdown: cancel the token and every session, then wait for the
\* poll task.
Shutdown ==
    /\ ~shutdown
    /\ shutdown' = TRUE
    /\ CancelTokens(live)
    /\ UNCHANGED <<entries, opens, idle, starting, texts, stale, poll, link, events,
                   inputs>>

Poll ==
    \/ PollConnAck \/ PollRequest \/ PollError \/ Wake \/ Resubscribe
    \/ PollShutdown \/ DrainEnds
    \/ \E s \in Sids : \/ HandleStart(s) \/ SpawnPipeline(s) \/ StartPanics(s)
                       \/ HandleAudio(s) \/ HandleText(s) \/ HandleEnd(s)

Next ==
    \/ Poll \/ Publish \/ EgressTakes \/ EgressPublishes
    \/ \E p \in Pipelines : Answer(p) \/ SinkDone(p)
    \/ ReapCollect \/ \E s \in Sids : ReapClose(s)
    \/ Tick \/ Shutdown

\* The tasks are scheduled fairly, the timers fire, and the broker can be
\* reached again after each outage.  Messages, outages and the publishes of
\* other tasks need not happen.  The poll task alternates between requests and
\* messages, so the requests are served however many messages arrive.
Fairness ==
    /\ WF_vars(PollConnAck) /\ WF_vars(Wake) /\ WF_vars(Resubscribe)
    /\ \A s \in Sids : WF_vars(SpawnPipeline(s)) /\ WF_vars(StartPanics(s))
    /\ SF_vars(PollRequest)
    /\ SF_vars(PollShutdown) /\ WF_vars(DrainEnds)
    /\ WF_vars(EgressTakes) /\ SF_vars(EgressPublishes)
    /\ \A p \in Pipelines : SF_vars(SinkDone(p))
    /\ WF_vars(ReapCollect) /\ \A s \in Sids : WF_vars(ReapClose(s))
    /\ WF_vars(Tick)

Spec == Init /\ [][Next]_vars /\ Fairness

-----------------------------------------------------------------------------
(* Properties *)

\* The pipelines that run, or are about to, are those of the open sessions
\* (open_session, close, reap_idle): no start, end or reaping in whatever order
\* leaves a pipeline that nobody can close any more, or an entry whose pipeline
\* is cancelled and that swallows audio until it is reaped.
EntriesOwnThePipelines ==
    /\ live \subseteq {Current(s) : s \in entries}
    /\ ~shutdown => live = {Current(s) : s \in entries}

\* A session started between Runtime::shutdown's cancel_all and the moment the
\* poll task notices is cancelled too, before the task drains its requests.
NothingRunsAfterShutdown ==
    At("drain") \/ At("ended") => live = {}

\* The poll task waits for room in the channel that only it empties.
Wedged == (At("subscribe sat") \/ At("subscribe assist")) /\ ~Room

\* Once wedged the poll task never moves again, not even for a shutdown.  This
\* and the panic of open_session are the only ways it can stop: otherwise it
\* gets back to polling (spawn_satellite, resubscribe).
PollStopsTwoWays ==
    /\ [](Wedged => []Wedged)
    /\ [](~At("poll") ~> At("poll") \/ At("ended") \/ Wedged \/ At("panicked"))

\* A satellite that goes silent without `end` leaves no session behind: the
\* reaper closes it, also when the poll task is stuck or gone (reap_idle).
SilentSessionsEnd ==
    \A s \in Sids : s \in entries ~> (s \notin entries \/ shutdown)

\* Runtime::shutdown, which waits for the poll task, returns, also after a
\* panic of the task.
ShutdownReturns == shutdown ~> (At("ended") \/ At("panicked") \/ Wedged)

\* spawn_satellite: the wildcards are (re)subscribed on every ConnAck, without
\* which a broker restart would silently and permanently drop them.
EveryConnAckResubscribes ==
    conn = "up" ~> (subs \/ conn = "down" \/ shutdown)
=============================================================================
