--------------------------- MODULE SatelliteProofs ---------------------------
(***************************************************************************)
(* The firmware, for any number of sessions, timings and queue lengths:    *)
(* its flags agree with its session, and what it publishes is what         *)
(* SessionProtocol promises the server.                                    *)
(***************************************************************************)
EXTENDS Satellite, TLAPS

\* What the main loop makes of the event at the head of its channel.
Trigger == OnTrigger /\ UNCHANGED <<streaming, speaker>>
Frame   == OnMicFrame /\ UNCHANGED <<streaming, speaker>>
Silence == EndUtterance /\ UNCHANGED <<streaming, speaker>>
Ticked  == OnTick /\ UNCHANGED speaker
Message == \E kind \in {"answer", "done"}, s \in Ids :
              OnInbound(kind, s) /\ UNCHANGED wire

\* What handling one event is: one of five cases, then the store of the flag.
LEMMA HandleCases ==
  ASSUME Handle
  PROVE  /\ Trigger \/ Frame \/ Silence \/ Ticked \/ Message
         /\ main' = "store streaming" /\ armed' = armed
  BY DEF Handle, Trigger, Frame, Silence, Ticked, Message, Inbound

-----------------------------------------------------------------------------
(* The flags *)

Counted == opened \in Nat /\ (state = "Idle" <=> sid = 0)
Quiet   == state = "Idle" => streaming = FALSE
Armed   == main = "receive" => (armed <=> state = "Idle")

FlagInv == Counted /\ Quiet /\ Armed

\* Steps of the other threads: none of them opens, closes or arms, and the
\* microphone can only stop streaming.
LEMMA ThreadKeepsFlags ==
  ASSUME FlagInv, UNCHANGED <<state, sid, opened, main, armed>>,
         streaming' = streaming \/ streaming' = FALSE
  PROVE  FlagInv'
  BY Zenon DEF FlagInv, Counted, Quiet, Armed

\* A turn of the main loop: the session that ends stops the microphone.
LEMMA HandleKeepsFlags ==
  ASSUME FlagInv, Handle
  PROVE  FlagInv'
<1>1. Armed'
  BY HandleCases DEF Armed
<1>2. ASSUME UNCHANGED <<state, sid, opened, streaming>> PROVE FlagInv'
  BY <1>1, <1>2 DEF FlagInv, Counted, Quiet
<1>3. ASSUME opened' = opened, state' \in {"AwaitingReply", "Playing"},
             sid' = sid, state # "Idle"
      PROVE  FlagInv'
  BY <1>1, <1>3 DEF FlagInv, Counted, Quiet
<1>4. ASSUME Finish PROVE FlagInv'
  BY <1>1, <1>4 DEF FlagInv, Counted, Quiet, Finish
<1>5. ASSUME EndUtterance, UNCHANGED streaming PROVE FlagInv'
  BY <1>2, <1>3, <1>5 DEF EndUtterance, session
<1>6. CASE Trigger
  <2>1. CASE state = "Idle" /\ opened < MaxSessions
    <3>1. state' = "Streaming" /\ sid' = opened + 1 /\ opened' = opened + 1
      BY <1>6, <2>1 DEF Trigger, OnTrigger
    <3>2. opened \in Nat
      BY DEF FlagInv, Counted
    <3>3. opened' \in Nat /\ sid' # 0
      BY <3>1, <3>2
    <3>4. QED
      BY <1>1, <3>1, <3>3 DEF FlagInv, Counted, Quiet
  <2>2. CASE ~(state = "Idle" /\ opened < MaxSessions)
    BY <1>2, <1>6, <2>2 DEF Trigger, OnTrigger, session
  <2>3. QED
    BY <2>1, <2>2
<1>7. CASE Frame
  BY <1>2, <1>7 DEF Frame, OnMicFrame, session
<1>8. CASE Silence
  BY <1>5, <1>8 DEF Silence
<1>9. CASE Ticked
  BY <1>2, <1>4, <1>5, <1>9 DEF Ticked, OnTick, session
<1>10. CASE Message
  BY <1>2, <1>3, <1>4, <1>10 DEF Message, OnInbound, session
<1>11. QED
  BY <1>6, <1>7, <1>8, <1>9, <1>10, HandleCases

\* The two stores, between which the microphone may run.
LEMMA StoreKeepsFlags ==
  ASSUME FlagInv, StoreStreaming \/ StoreArmed
  PROVE  FlagInv'
<1>1. CASE StoreStreaming
  <2>1. UNCHANGED <<state, sid, opened>> /\ main' = "store armed"
    BY <1>1 DEF StoreStreaming, session
  <2>2. state = "Idle" => streaming' = FALSE
    <3>1. ASSUME state = "Idle" PROVE streaming' = FALSE
      <4>1. streaming = FALSE
        BY <3>1 DEF FlagInv, Quiet
      <4>2. streaming' = (streaming \/ state = "Streaming")
        BY <1>1 DEF StoreStreaming
      <4>3. QED
        BY <3>1, <4>1, <4>2
    <3>2. QED
      BY <3>1
  <2>3. QED
    BY <2>1, <2>2 DEF FlagInv, Counted, Quiet, Armed
<1>2. CASE StoreArmed
  <2>1. UNCHANGED <<state, sid, opened, streaming>>
    BY <1>2 DEF StoreArmed, session
  <2>2. armed' = (state = "Idle")
    BY <1>2 DEF StoreArmed
  <2>3. Armed'
    BY <2>1, <2>2 DEF Armed
  <2>4. QED
    BY <2>1, <2>3 DEF FlagInv, Counted, Quiet
<1>3. QED
  BY <1>1, <1>2

\* The steps of the threads, by what they leave alone.
LEMMA ThreadStep ==
  ASSUME \/ Press \/ Clock \/ Tick \/ Receive \/ Play
         \/ MicReads \/ MicSends \/ MicStops \/ MicEnds \/ MicIdles \/ MicWakes
         \/ Disconnect \/ Reconnect \/ Resubscribe \/ UNCHANGED vars
  PROVE  /\ UNCHANGED <<state, sid, opened, main, armed, wire>>
         /\ streaming' = streaming \/ streaming' = FALSE
<1>1. CASE Press \/ Clock \/ Tick \/ Receive \/ Play
  BY <1>1 DEF Press, Clock, Tick, Receive, Play, session, flags
<1>2. CASE MicReads \/ MicSends \/ MicStops
  BY <1>2 DEF MicReads, MicSends, MicStops, micOnly, session, flags
<1>3. CASE MicEnds \/ MicIdles \/ MicWakes
  BY <1>3 DEF MicEnds, MicIdles, MicWakes, micOnly, session, flags
<1>4. CASE Disconnect \/ Reconnect \/ Resubscribe \/ UNCHANGED vars
  BY <1>4 DEF Disconnect, Reconnect, Resubscribe, vars, session, flags
<1>5. QED
  BY <1>1, <1>2, <1>3, <1>4

\* The flags agree with the session at the start.
LEMMA InitFlags == Init => FlagInv
  BY DEF Init, FlagInv, Counted, Quiet, Armed

\* The flags' invariant survives every step of main loop and threads.
THEOREM FlagsInductive == FlagInv /\ [Next]_vars => FlagInv'
<1> SUFFICES ASSUME FlagInv, [Next]_vars
             PROVE  FlagInv'
  OBVIOUS
<1>1. CASE Handle
  BY <1>1, HandleKeepsFlags
<1>2. CASE StoreStreaming \/ StoreArmed
  BY <1>2, StoreKeepsFlags
<1>3. CASE \/ Press \/ Clock \/ Tick \/ Receive \/ Play
           \/ MicReads \/ MicSends \/ MicStops \/ MicEnds \/ MicIdles \/ MicWakes
           \/ Disconnect \/ Reconnect \/ Resubscribe \/ UNCHANGED vars
  BY <1>3, ThreadStep, ThreadKeepsFlags
<1>4. QED
  BY <1>1, <1>2, <1>3 DEF Next

\* Between two turns of the main loop the wake word is listened for exactly
\* when no session is open, and the microphone streams for no session that is
\* over, whatever its thread stored in between (main.rs).
THEOREM FlagsAgree == Spec => []IdleMicIsArmed
<1>1. FlagInv => IdleMicIsArmed
  BY DEF FlagInv, Counted, Quiet, Armed, IdleMicIsArmed
<1>2. QED
  BY <1>1, InitFlags, FlagsInductive, PTL DEF Spec

-----------------------------------------------------------------------------
(* The protocol *)

Stages == [s \in Ids |-> Stage(s)]
Asked(s) == \E i \in DOMAIN wire[s] : wire[s][i] = "question"
OneQuestion == Protocol!OneQuestion

\* Which session is meant by the state, and what may be on the wire of each.
Current == opened \in Nat /\ opened <= MaxSessions
           /\ (state # "Idle" => sid = opened /\ sid \in Ids)
Log ==
    /\ Current
    /\ wire \in [Ids -> Seq(Protocol!Messages)]
    /\ \A s \in Ids : Stage(s) = "open" => ~Asked(s)
    /\ OneQuestion

\* What Publish does to the log of its session, whether or not it reaches the
\* broker, and to the logs of the others.
LEMMA Published ==
  ASSUME Log, NEW s \in Ids, NEW m \in Protocol!Messages, Publish(s, m),
         m = "question" => ~Asked(s)
  PROVE  /\ wire' \in [Ids -> Seq(Protocol!Messages)]
         /\ \A t \in Ids : t # s => wire'[t] = wire[t]
         /\ m # "question" /\ ~Asked(s) => ~Asked(s)'
         /\ \A i, j \in DOMAIN wire'[s] :
               wire'[s][i] = "question" /\ wire'[s][j] = "question" => i = j
         /\ Protocol!Publish(s, m)
<1> DEFINE w == wire[s]
           r == Protocol!Recorded(w, m)
<1>1. /\ w \in Seq(Protocol!Messages) /\ wire \in [Ids -> Seq(Protocol!Messages)]
      /\ \A i, j \in DOMAIN w : w[i] = "question" /\ w[j] = "question" => i = j
  BY DEF Log, OneQuestion, Protocol!OneQuestion
<1>2. CASE wire' = wire
  BY <1>1, <1>2 DEF Asked, Protocol!Publish
<1>3. CASE wire' = [wire EXCEPT ![s] = r]
  <2>1. (r = w /\ w # <<>> /\ m = "audio") \/ r = Append(w, m)
    BY DEF Protocol!Recorded
  <2>2. r \in Seq(Protocol!Messages)
    BY <1>1, <2>1
  <2>3. /\ wire' \in [Ids -> Seq(Protocol!Messages)] /\ wire'[s] = r
        /\ \A t \in Ids : t # s => wire'[t] = wire[t]
    BY <1>1, <1>3, <2>2
  <2>4. m # "question" => \A i \in DOMAIN r : r[i] = "question" => i \in DOMAIN w /\ w[i] = "question"
    BY <1>1, <2>1
  <2>5. m = "question" => \A i \in DOMAIN r : r[i] = "question" => i = Len(w) + 1
    <3>1. ASSUME m = "question" PROVE \A i \in DOMAIN w : w[i] # "question"
      BY <3>1 DEF Asked
    <3>2. QED
      BY <1>1, <2>1, <3>1
  <2>6. m # "question" /\ ~Asked(s) => ~Asked(s)'
    BY <2>3, <2>4 DEF Asked
  <2>7. \A i, j \in DOMAIN r : r[i] = "question" /\ r[j] = "question" => i = j
    <3>1. CASE m = "question"
      BY <2>5, <3>1
    <3>2. CASE m # "question"
      BY <1>1, <2>4, <3>2
    <3>3. QED
      BY <3>1, <3>2
  <2>8. Protocol!Publish(s, m)
    BY <1>3 DEF Protocol!Publish
  <2>9. QED
    BY <2>3, <2>6, <2>7, <2>8
<1>4. QED
  BY <1>2, <1>3 DEF Publish

\* A step that publishes m for session s, and moves no other session, keeps the
\* log when the session has begun afterwards, and is open only if it had no
\* question before and got none.
LEMMA PublishKeepsLog ==
  ASSUME Log, NEW s \in Ids, NEW m \in Protocol!Messages, Publish(s, m), Current',
         \A t \in Ids : t # s => Stage(t)' = Stage(t),
         Stage(s)' # "new", Stage(s)' = "open" => m # "question",
         m = "question" \/ Stage(s)' = "open" => ~Asked(s)
  PROVE  Log'
<1>1. /\ wire' \in [Ids -> Seq(Protocol!Messages)]
      /\ \A t \in Ids : t # s => wire'[t] = wire[t]
      /\ m # "question" /\ ~Asked(s) => ~Asked(s)'
      /\ \A i, j \in DOMAIN wire'[s] :
            wire'[s][i] = "question" /\ wire'[s][j] = "question" => i = j
  BY Published
<1>2. ASSUME NEW t \in Ids, Stage(t)' = "open" PROVE ~Asked(t)'
  <2>1. CASE t = s
    BY <1>1, <1>2, <2>1
  <2>2. CASE t # s
    <3>1. ~Asked(t) /\ wire'[t] = wire[t]
      BY <1>1, <1>2, <2>2 DEF Log
    <3>2. QED
      BY <3>1 DEF Asked
  <2>3. QED
    BY <2>1, <2>2
<1>3. Stages'[s] # "new" /\ \A t \in Ids : t # s => Stages'[t] = Stages[t]
  BY DEF Stages
<1>4. OneQuestion'
  <2>1. ASSUME NEW t \in Ids
        PROVE  /\ \A i, j \in DOMAIN wire'[t] :
                     wire'[t][i] = "question" /\ wire'[t][j] = "question" => i = j
               /\ Stages'[t] = "new" => wire'[t] = <<>>
    <3>1. CASE t = s
      BY <1>1, <1>3, <3>1
    <3>2. CASE t # s
      BY <1>1, <1>3, <3>2 DEF Log, OneQuestion, Protocol!OneQuestion, Stages
    <3>3. QED
      BY <3>1, <3>2
  <2>2. QED
    BY <2>1 DEF OneQuestion, Protocol!OneQuestion, Stages
<1>5. QED
  BY <1>1, <1>2, <1>4 DEF Log

\* A trigger opens the next session; every one before it has asked.
LEMMA TriggerStarts ==
  ASSUME Log, OnTrigger, state = "Idle", opened < MaxSessions
  PROVE  Log' /\ Protocol!Start(opened + 1)
<1>0. PICK n : n = opened + 1
  OBVIOUS
<1>1. opened \in Nat /\ MaxSessions \in Nat
  BY SatelliteAssumption DEF Log, Current
<1>2. n \in Ids /\ n \in Nat /\ n <= MaxSessions /\ n > opened
  BY <1>0, <1>1 DEF Ids
<1>3. /\ state' = "Streaming" /\ sid' = n /\ opened' = n /\ Publish(n, "start")
      /\ "start" \in Protocol!Messages
  BY <1>0 DEF OnTrigger, Protocol!Messages
<1>4. Stage(n) = "new" /\ Stage(n)' = "open" /\ ~Asked(n)
  <2>1. Stage(n) = "new" /\ Stage(n)' = "open"
    BY <1>2, <1>3 DEF Stage
  <2>2. wire[n] = <<>>
    BY <1>2, <2>1 DEF Log, OneQuestion, Protocol!OneQuestion
  <2>3. QED
    BY <2>1, <2>2 DEF Asked
<1>5. \A t \in Ids : t # n => Stage(t)' = Stage(t)
  BY <1>0, <1>1, <1>2, <1>3 DEF Stage, Ids
<1>6. \A t \in Ids : Stage(t) # "open"
  BY DEF Stage
<1>7. Current'
  BY <1>2, <1>3 DEF Current
<1>8. Log' /\ Protocol!Publish(n, "start")
  BY <1>2, <1>3, <1>4, <1>5, <1>7, PublishKeepsLog, Published
<1>9. Stages' = [Stages EXCEPT ![n] = "open"]
  BY <1>2, <1>4, <1>5 DEF Stages
<1>10. Protocol!Start(n)
  BY <1>2, <1>4, <1>6, <1>8, <1>9 DEF Protocol!Start, Stages
<1>11. QED
  BY <1>0, <1>8, <1>10

\* A frame of the microphone belongs to the session that streams.
LEMMA FrameSpeaks ==
  ASSUME Log, OnMicFrame, state = "Streaming"
  PROVE  Log' /\ Protocol!Speak(sid)
<1>1. /\ sid = opened /\ sid \in Ids /\ opened \in Nat /\ ~(sid > opened)
  BY DEF Log, Current, Ids
<1>2. /\ Publish(sid, "audio") /\ "audio" \in Protocol!Messages
      /\ UNCHANGED <<state, sid, opened>>
  BY DEF OnMicFrame, Protocol!Messages, session
<1>3. Stage(sid) = "open" /\ \A t \in Ids : Stage(t)' = Stage(t)
  BY <1>1, <1>2 DEF Stage
<1>4. ~Asked(sid)
  BY <1>1, <1>3 DEF Log
<1>5. Current'
  BY <1>2 DEF Current, Log
<1>6. PICK n \in Ids : n = sid
  BY <1>1
<1>7. Stage(n)' = "open"
  BY <1>3, <1>6
<1>8. Log' /\ Protocol!Publish(n, "audio")
  BY <1>2, <1>3, <1>4, <1>5, <1>6, <1>7, PublishKeepsLog, Published
<1>9. Stages' = Stages
  BY <1>3 DEF Stages
<1>10. Protocol!Speak(n)
  BY <1>3, <1>6, <1>8, <1>9 DEF Protocol!Speak, Stages
<1>11. QED
  BY <1>6, <1>8, <1>10

\* The marker is the session's question, and comes once.
LEMMA MarkerAsks ==
  ASSUME Log, EndUtterance, state = "Streaming"
  PROVE  Log' /\ Protocol!Ask(sid)
<1>1. /\ sid = opened /\ sid \in Ids /\ opened \in Nat /\ ~(sid > opened)
  BY DEF Log, Current, Ids
<1>2. /\ Publish(sid, "question") /\ "question" \in Protocol!Messages
      /\ state' = "AwaitingReply" /\ UNCHANGED <<sid, opened>>
  BY DEF EndUtterance, Protocol!Messages
<1>3. Stage(sid) = "open" /\ \A t \in Ids : t # sid => Stage(t)' = Stage(t)
  BY <1>1, <1>2 DEF Stage
<1>4. ~Asked(sid)
  BY <1>1, <1>3 DEF Log
<1>5. Current'
  BY <1>1, <1>2 DEF Current, Log
<1>6. PICK n \in Ids : n = sid
  BY <1>1
<1>7. Stage(n)' = "asked"
  BY <1>1, <1>2, <1>6 DEF Stage
<1>8. Log' /\ Protocol!Publish(n, "question")
  BY <1>2, <1>3, <1>4, <1>5, <1>6, <1>7, PublishKeepsLog, Published
<1>9. Stages' = [Stages EXCEPT ![n] = "asked"]
  BY <1>3, <1>6, <1>7 DEF Stages
<1>10. Protocol!Ask(n)
  BY <1>3, <1>6, <1>8, <1>9 DEF Protocol!Ask, Stages
<1>11. QED
  BY <1>6, <1>8, <1>10

\* What publishes nothing, opens nothing and does not begin to stream again.
LEMMA SilentStep ==
  ASSUME Log, wire' = wire, opened' = opened,
         \/ state' = state /\ sid' = sid
         \/ state' = "Idle" /\ state # "Streaming"
         \/ state' = "Playing" /\ sid' = sid /\ state \in {"AwaitingReply", "Playing"}
  PROVE  Log' /\ UNCHANGED Stages /\ UNCHANGED wire
<1>1. \A s \in Ids : Stage(s)' = Stage(s)
  BY DEF Stage
<1>2. Stages' = Stages
  BY <1>1 DEF Stages
<1>3. Current'
  BY DEF Log, Current
<1>4. OneQuestion'
  BY <1>1 DEF Log, OneQuestion, Protocol!OneQuestion
<1>5. \A s \in Ids : Asked(s)' <=> Asked(s)
  BY DEF Asked
<1>6. QED
  BY <1>1, <1>2, <1>3, <1>4, <1>5 DEF Log

Says == \E s \in Ids : Protocol!Start(s) \/ Protocol!Speak(s) \/ Protocol!Ask(s)
Silent == UNCHANGED Stages /\ UNCHANGED wire

\* A turn of the main loop.
LEMMA HandleSays ==
  ASSUME Log, Handle
  PROVE  Log' /\ (Says \/ Silent)
<1>1. ASSUME UNCHANGED <<state, sid, opened, wire>>
      PROVE  Log' /\ (Says \/ Silent)
  BY <1>1, SilentStep DEF Silent
<1>2. ASSUME Finish, UNCHANGED wire, state # "Streaming"
      PROVE  Log' /\ (Says \/ Silent)
  BY <1>2, SilentStep DEF Finish, Silent
<1>3. ASSUME EndUtterance PROVE Log' /\ (Says \/ Silent)
  <2>1. CASE state = "Streaming"
    BY <1>3, <2>1, MarkerAsks DEF Says, Log, Current
  <2>2. CASE state # "Streaming"
    BY <1>1, <1>3, <2>2 DEF EndUtterance, session
  <2>3. QED
    BY <2>1, <2>2
<1>4. CASE Trigger
  <2>1. CASE state = "Idle" /\ opened < MaxSessions
    <3>1. opened + 1 \in Ids
      BY <2>1, SatelliteAssumption DEF Ids, Log, Current
    <3>2. QED
      BY <1>4, <2>1, <3>1, TriggerStarts DEF Trigger, Says
  <2>2. CASE ~(state = "Idle" /\ opened < MaxSessions)
    BY <1>1, <1>4, <2>2 DEF Trigger, OnTrigger, session
  <2>3. QED
    BY <2>1, <2>2
<1>5. CASE Frame
  <2>1. CASE state = "Streaming"
    BY <1>5, <2>1, FrameSpeaks DEF Frame, Says, Log, Current
  <2>2. CASE state # "Streaming"
    BY <1>1, <1>5, <2>2 DEF Frame, OnMicFrame, session
  <2>3. QED
    BY <2>1, <2>2
<1>6. CASE Silence
  BY <1>3, <1>6 DEF Silence
<1>7. CASE Ticked
  BY <1>1, <1>2, <1>3, <1>7 DEF Ticked, OnTick, session
<1>8. CASE Message
  <2>1. PICK kind \in {"answer", "done"}, s \in Ids :
           OnInbound(kind, s) /\ UNCHANGED wire
    BY <1>8 DEF Message
  <2>2. CASE state \in {"AwaitingReply", "Playing"} /\ s = sid /\ state' = "Playing"
             /\ UNCHANGED <<sid, opened>>
    BY <2>1, <2>2, SilentStep DEF Silent
  <2>3. CASE state \in {"AwaitingReply", "Playing"} /\ Finish
    BY <1>2, <2>1, <2>3
  <2>4. CASE UNCHANGED session
    BY <1>1, <2>1, <2>4 DEF session
  <2>5. QED
    BY <2>1, <2>2, <2>3, <2>4 DEF OnInbound
<1>9. QED
  BY <1>4, <1>5, <1>6, <1>7, <1>8, HandleCases

\* At the start nothing was published, as SessionProtocol begins.
LEMMA InitLog == Init => Log /\ Protocol!Init
<1> SUFFICES ASSUME Init PROVE Log /\ Protocol!Init
  OBVIOUS
<1>1. Current
  BY SatelliteAssumption DEF Init, Current
<1>2. wire = [s \in Ids |-> <<>>] /\ \A s \in Ids : Stage(s) = "new"
  BY DEF Init, Stage, Ids
<1>3. OneQuestion /\ \A s \in Ids : ~Asked(s)
  BY <1>2 DEF OneQuestion, Protocol!OneQuestion, Asked
<1>4. wire \in [Ids -> Seq(Protocol!Messages)]
  BY <1>2
<1>5. QED
  BY <1>1, <1>2, <1>3, <1>4 DEF Log, Protocol!Init

\* Every step keeps the logs and is a step of the protocol, or says nothing.
LEMMA Step ==
  ASSUME Log, [Next]_vars
  PROVE  Log' /\ [Protocol!Next]_Protocol!protocolVars
<1>1. ASSUME Says \/ Silent PROVE [Protocol!Next]_Protocol!protocolVars
  <2>1. CASE Says
    BY <2>1 DEF Says, Protocol!Next
  <2>2. CASE Silent
    BY <2>2 DEF Silent, Stages, Protocol!protocolVars
  <2>3. QED
    BY <1>1, <2>1, <2>2
<1>2. CASE Handle
  BY <1>1, <1>2, HandleSays
<1>3. CASE StoreStreaming \/ StoreArmed
  <2>1. UNCHANGED <<state, sid, opened, wire>>
    BY <1>3 DEF StoreStreaming, StoreArmed, session
  <2>2. QED
    BY <1>1, <2>1, SilentStep DEF Silent
<1>4. CASE \/ Press \/ Clock \/ Tick \/ Receive \/ Play
           \/ MicReads \/ MicSends \/ MicStops \/ MicEnds \/ MicIdles \/ MicWakes
           \/ Disconnect \/ Reconnect \/ Resubscribe \/ UNCHANGED vars
  BY <1>1, <1>4, ThreadStep, SilentStep DEF Silent
<1>5. QED
  BY <1>2, <1>3, <1>4 DEF Next

\* For any number of sessions, whatever the threads queue, the server sends and
\* the connection loses, the sessions the firmware opens are those of a lossy
\* satellite of SessionProtocol (session.rs, and main.rs that goes on after a
\* publish that failed).
THEOREM SatelliteImplements == Spec => ImplementsProtocol
<1>1. Init => Log /\ Protocol!Init
  BY InitLog
<1>2. Log /\ [Next]_vars => Log' /\ [Protocol!Next]_Protocol!protocolVars
  BY Step
<1>3. QED
  BY <1>1, <1>2, PTL DEF Spec, ImplementsProtocol, Protocol!Spec

\* What the protocol is for: no session has two questions on the wire, however
\* often silence, timeout and stale events would end its utterance, and none
\* speaks before it was opened (Session::end_utterance).
THEOREM AsksOnce == Spec => []OneQuestion
<1>1. Init => Log
  BY InitLog
<1>2. Log /\ [Next]_vars => Log'
  BY Step
<1>3. Log => OneQuestion
  BY DEF Log
<1>4. QED
  BY <1>1, <1>2, <1>3, PTL DEF Spec
=============================================================================
