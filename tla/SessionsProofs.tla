---------------------------- MODULE SessionsProofs ---------------------------
(***************************************************************************)
(* For any number of session ids, channels of any capacity and any number  *)
(* of openings: entries and running pipelines belong together, nothing     *)
(* runs after the shutdown, and a wedged poll task stays wedged.           *)
(***************************************************************************)
EXTENDS Sessions, SequenceTheorems, TLAPS

Owned == {Current(s) : s \in entries}

Quiescent == At("drain") \/ At("ended") => shutdown /\ live = {}

IInv ==
    /\ entries \subseteq Sids
    /\ opens \in [Sids -> Nat]
    /\ live \subseteq Owned
    /\ ~shutdown => live = Owned
    /\ Quiescent

-----------------------------------------------------------------------------
(* The session manager *)

\* An opened session is the only one of its id, and its pipeline is new.
LEMMA OpenOwns ==
  ASSUME IInv, NEW s \in Sids, Open(s)
  PROVE  /\ entries' \subseteq Sids /\ opens' \in [Sids -> Nat]
         /\ live' \subseteq Owned' /\ (live = Owned => live' = Owned')
<1>1. /\ entries \subseteq Sids /\ opens \in [Sids -> Nat] /\ live \subseteq Owned
      /\ s \notin entries
  BY DEF IInv, Open
<1>2. /\ entries' = entries \cup {s}
      /\ opens' = [opens EXCEPT ![s] = opens[s] + 1]
      /\ live' = live \cup {<<s, opens[s] + 1>>}
  BY DEF Open
<1>3. opens' \in [Sids -> Nat]
  BY <1>1, <1>2
<1>4. \A t \in entries : Current(t)' = Current(t)
  BY <1>1, <1>2 DEF Current
<1>5. Current(s)' = <<s, opens[s] + 1>>
  BY <1>1, <1>2 DEF Current
<1>6. Owned' = Owned \cup {Current(s)'}
  BY <1>2, <1>4 DEF Owned
<1>7. live' = live \cup {Current(s)'}
  BY <1>2, <1>5
<1>8. QED
  BY <1>1, <1>2, <1>3, <1>6, <1>7

\* A closed session takes its own pipeline with it and no other, whoever
\* closes it and whatever was opened since it was collected.
LEMMA CloseOwns ==
  ASSUME IInv, NEW s \in Sids, Close(s)
  PROVE  /\ entries' \subseteq Sids /\ opens' \in [Sids -> Nat]
         /\ live' \subseteq live
         /\ live' \subseteq Owned' /\ (live = Owned => live' = Owned')
<1>1. entries \subseteq Sids /\ opens \in [Sids -> Nat] /\ live \subseteq Owned
  BY DEF IInv
<1>2. entries' = entries \ {s} /\ opens' = opens
  BY DEF Close
<1>3. Owned' = {Current(t) : t \in entries \ {s}}
  BY <1>2 DEF Owned, Current
<1>4. CASE s \in entries
  <2>1. live' = live \ {Current(s)}
    BY <1>4 DEF Close, CancelTokens
  <2>2. \A t \in entries \ {s} : Current(t) # Current(s)
    BY DEF Current
  <2>3. Owned' = Owned \ {Current(s)}
    BY <1>3, <2>2 DEF Owned
  <2>4. QED
    BY <1>1, <1>2, <2>1, <2>3
<1>5. CASE s \notin entries
  <2>1. live' = live
    BY <1>5 DEF Close, CancelTokens
  <2>2. Owned' = Owned
    BY <1>3, <1>5 DEF Owned
  <2>3. QED
    BY <1>1, <1>2, <2>1, <2>2
<1>6. QED
  BY <1>4, <1>5

-----------------------------------------------------------------------------
(* The tasks *)

\* A step that leaves manager and shutdown alone and does not drain.
LEMMA ManagerKept ==
  ASSUME IInv, UNCHANGED <<entries, opens, live, shutdown>>,
         poll' \in {"drain", "ended"} => poll \in {"drain", "ended"}
  PROVE  IInv'
<1>1. Owned' = Owned
  BY DEF Owned, Current
<1>2. QED
  BY <1>1 DEF IInv, Quiescent, At

\* `start`: only the poll task opens, so none is opened while it drains.
LEMMA StartKeeps ==
  ASSUME IInv, NEW s \in Sids, HandleStart(s)
  PROVE  IInv'
<1>1. poll = "poll" /\ poll' \in {"poll", "start"} /\ shutdown' = shutdown
  BY DEF HandleStart, Incoming, At, GoTo
<1>2. CASE Open(s)
  <2>1. /\ entries' \subseteq Sids /\ opens' \in [Sids -> Nat]
        /\ live' \subseteq Owned' /\ (live = Owned => live' = Owned')
    BY <1>2, OpenOwns
  <2>2. QED
    BY <1>1, <2>1 DEF IInv, Quiescent, At
<1>3. CASE UNCHANGED manager
  BY <1>1, <1>3, ManagerKept DEF manager
<1>4. QED
  BY <1>2, <1>3 DEF HandleStart

\* The lookup after it changes no entry and no token, also where it panics.
LEMMA LookupKeeps ==
  ASSUME IInv, NEW s \in Sids, SpawnPipeline(s) \/ StartPanics(s)
  PROVE  IInv'
<1>1. UNCHANGED <<entries, opens, live, shutdown>> /\ poll' \in {"poll", "panicked"}
  BY DEF SpawnPipeline, StartPanics, GoTo
<1>2. QED
  BY <1>1, ManagerKept

\* `end`, or the second half of reap_idle.
LEMMA CloseKeeps ==
  ASSUME IInv, NEW s \in Sids, Close(s), poll' = poll, shutdown' = shutdown
  PROVE  IInv'
<1>1. /\ entries' \subseteq Sids /\ opens' \in [Sids -> Nat]
      /\ live' \subseteq live
      /\ live' \subseteq Owned' /\ (live = Owned => live' = Owned')
  BY CloseOwns
<1>2. Quiescent'
  BY <1>1 DEF IInv, Quiescent, At
<1>3. QED
  BY <1>1, <1>2 DEF IInv

\* Both cancellations of the shutdown: no pipeline is left.
LEMMA AllCancelled ==
  ASSUME IInv, UNCHANGED <<entries, opens>>, live' = {}, shutdown'
  PROVE  IInv'
<1>1. Owned' = Owned
  BY DEF Owned, Current
<1>2. QED
  BY <1>1 DEF IInv, Quiescent

\* The strengthened invariant holds at the start.
LEMMA InitIInv == Init => IInv
  BY DEF Init, IInv, Quiescent, Owned, At

\* The strengthened invariant survives every step, of the poll task, the
\* reaper and the shutdown in any order.
THEOREM Inductive == IInv /\ [Next]_vars => IInv'
<1> SUFFICES ASSUME IInv, [Next]_vars
             PROVE  IInv'
  OBVIOUS
<1>1. CASE PollConnAck \/ PollRequest \/ PollError \/ Wake \/ Resubscribe
  BY <1>1, ManagerKept
  DEF PollConnAck, PollRequest, PollError, Wake, Resubscribe, GoTo, At, manager
<1>2. CASE PollShutdown
  BY <1>2, AllCancelled DEF PollShutdown, CancelTokens
<1>3. CASE DrainEnds
  BY <1>3, ManagerKept DEF DrainEnds, At, manager
<1>4. ASSUME NEW s \in Sids, HandleStart(s) PROVE IInv'
  BY <1>4, StartKeeps
<1>5. ASSUME NEW s \in Sids, HandleAudio(s) \/ HandleText(s) PROVE IInv'
  BY <1>5, ManagerKept DEF HandleAudio, HandleText, Incoming
<1>6. ASSUME NEW s \in Sids, HandleEnd(s) PROVE IInv'
  BY <1>6, CloseKeeps DEF HandleEnd, Incoming
<1>7. CASE Publish \/ EgressTakes \/ EgressPublishes
  BY <1>7, ManagerKept DEF Publish, EgressTakes, EgressPublishes, manager
<1>8. ASSUME NEW p \in Pipelines, Answer(p) \/ SinkDone(p) PROVE IInv'
  BY <1>8, ManagerKept DEF Answer, SinkDone, manager
<1>9. CASE ReapCollect \/ Tick
  BY <1>9, ManagerKept DEF ReapCollect, Tick, manager
<1>10. ASSUME NEW s \in Sids, ReapClose(s) PROVE IInv'
  BY <1>10, CloseKeeps DEF ReapClose
<1>11. CASE Shutdown
  BY <1>11, AllCancelled DEF Shutdown, CancelTokens
<1>12. CASE UNCHANGED vars
  BY <1>12, ManagerKept DEF vars, manager
<1>13. ASSUME NEW s \in Sids, SpawnPipeline(s) \/ StartPanics(s) PROVE IInv'
  BY <1>13, LookupKeeps
<1>14. QED
  BY <1>1, <1>2, <1>3, <1>4, <1>5, <1>6, <1>7, <1>8, <1>9, <1>10, <1>11, <1>12, <1>13
  DEF Next, Poll

\* The strengthened invariant holds in every reachable state.
LEMMA AlwaysIInv == Spec => []IInv
  BY InitIInv, Inductive, PTL DEF Spec

\* No order of start, end, audio, reaping and shutdown leaves a pipeline nobody
\* can close, or an entry that swallows audio (open_session, close, reap_idle).
THEOREM EntriesOwn == Spec => []EntriesOwnThePipelines
<1>1. IInv => EntriesOwnThePipelines
  BY DEF IInv, Owned, EntriesOwnThePipelines
<1>2. QED
  BY <1>1, AlwaysIInv, PTL

\* A session started after cancel_all is cancelled too before the poll task
\* drains (spawn_satellite, Runtime::shutdown).
THEOREM NothingLeftRunning == Spec => []NothingRunsAfterShutdown
<1>1. IInv => NothingRunsAfterShutdown
  BY DEF IInv, Quiescent, NothingRunsAfterShutdown
<1>2. QED
  BY <1>1, AlwaysIInv, PTL

-----------------------------------------------------------------------------
(* Types and capacities *)

\* A session that has an entry has been opened.
SessionTypes == TypeOK /\ \A s \in entries : opens[s] # 0

\* The capacities and bounds of the model are natural numbers.
LEMMA SessionsBounds ==
    /\ RequestCap \in Nat \ {0} /\ TextCap \in Nat \ {0} /\ BusCap \in Nat \ {0}
    /\ IdleTicks \in Nat /\ MaxOpens \in Nat /\ MaxInputs \in Nat /\ MaxOutages \in Nat
  BY SessionsAssumption

\* Every variable has its type at the start.
LEMMA SessionTypesStart == Init => SessionTypes
<1> SUFFICES ASSUME Init
             PROVE  SessionTypes
  OBVIOUS
<1>1. /\ entries = {} /\ stale = {} /\ live = {} /\ ending = {} /\ starting = {} /\ poll \in PollStates
      /\ conn \in {"up", "down"} /\ subs \in BOOLEAN /\ kept \in BOOLEAN /\ shutdown \in BOOLEAN
      /\ egress = None
  BY DEF Init, PollStates
<1>2. \A n \in Nat : 0 \in 0..n
  OBVIOUS
<1>3. /\ opens \in [Sids -> 0..MaxOpens] /\ idle \in [Sids -> 0..(IdleTicks + 1)]
      /\ texts \in [Pipelines -> 0..TextCap]
  <2>1. 0 \in 0..MaxOpens /\ 0 \in 0..(IdleTicks + 1) /\ 0 \in 0..TextCap
    BY <1>2, SessionsBounds
  <2>2. QED
    BY <2>1 DEF Init
<1>4. inputs \in 0..MaxInputs /\ outages \in 0..MaxOutages
  BY <1>2, SessionsBounds DEF Init
<1>5. /\ requests \in Seq({"publish", "subscribe"}) /\ Len(requests) <= RequestCap
      /\ bus \in Seq(Pipelines) /\ Len(bus) <= BusCap
  BY EmptySeq, SessionsBounds DEF Init
<1>6. QED
  BY <1>1, <1>3, <1>4, <1>5 DEF SessionTypes, TypeOK

\* The parts of the type.
LEMMA SessionFields ==
  ASSUME SessionTypes
  PROVE  /\ entries \subseteq Sids /\ opens \in [Sids -> 0..MaxOpens]
         /\ idle \in [Sids -> 0..(IdleTicks + 1)]
         /\ live \subseteq Pipelines /\ ending \subseteq Pipelines /\ starting \subseteq Pipelines
         /\ texts \in [Pipelines -> 0..TextCap]
         /\ stale \subseteq Sids /\ poll \in PollStates
         /\ conn \in {"up", "down"} /\ subs \in BOOLEAN /\ kept \in BOOLEAN
         /\ requests \in Seq({"publish", "subscribe"}) /\ Len(requests) <= RequestCap
         /\ bus \in Seq(Pipelines) /\ Len(bus) <= BusCap
         /\ egress \in Pipelines \cup {None} /\ shutdown \in BOOLEAN
         /\ inputs \in 0..MaxInputs /\ outages \in 0..MaxOutages
         /\ \A s \in entries : opens[s] # 0
  BY DEF SessionTypes, TypeOK

\* Each of the three groups of variables after a step.
ManagerTyped == /\ entries \subseteq Sids /\ opens \in [Sids -> 0..MaxOpens]
                /\ idle \in [Sids -> 0..(IdleTicks + 1)]
                /\ live \subseteq Pipelines /\ ending \subseteq Pipelines /\ starting \subseteq Pipelines
                /\ texts \in [Pipelines -> 0..TextCap]
                /\ stale \subseteq Sids /\ \A s \in entries : opens[s] # 0
LinkTyped == /\ poll \in PollStates
             /\ conn \in {"up", "down"} /\ subs \in BOOLEAN /\ kept \in BOOLEAN
             /\ requests \in Seq({"publish", "subscribe"}) /\ Len(requests) <= RequestCap
             /\ shutdown \in BOOLEAN /\ inputs \in 0..MaxInputs /\ outages \in 0..MaxOutages
EventsTyped == /\ bus \in Seq(Pipelines) /\ Len(bus) <= BusCap
               /\ egress \in Pipelines \cup {None}

\* The pipeline of an entry is one of the pipelines.
LEMMA CurrentIsPipeline ==
  ASSUME SessionTypes, NEW s \in entries
  PROVE  s \in Sids /\ Current(s) \in Pipelines
<1>1. s \in Sids /\ opens[s] \in 0..MaxOpens /\ opens[s] # 0
  BY SessionFields
<1>2. opens[s] \in 1..MaxOpens
  BY <1>1, SessionsBounds
<1>3. QED
  BY <1>1, <1>2 DEF Current, Pipelines

\* Opening and closing keep the manager's types.
LEMMA OpenTyped ==
  ASSUME SessionTypes, NEW s \in Sids, Open(s), UNCHANGED <<ending, texts, stale>>
  PROVE  ManagerTyped'
<1>1. opens[s] + 1 \in 1..MaxOpens /\ 0 \in 0..(IdleTicks + 1)
  BY SessionFields, SessionsBounds DEF Open
<1>2. <<s, opens[s] + 1>> \in Pipelines
  BY <1>1 DEF Pipelines
<1>3. /\ opens' \in [Sids -> 0..MaxOpens] /\ idle' \in [Sids -> 0..(IdleTicks + 1)]
      /\ \A t \in entries' : opens'[t] # 0
  <2>1. /\ opens' = [opens EXCEPT ![s] = opens[s] + 1] /\ idle' = [idle EXCEPT ![s] = 0]
        /\ entries' = entries \cup {s}
    BY DEF Open
  <2>2. opens[s] + 1 \in 0..MaxOpens /\ opens[s] + 1 # 0
    BY <1>1, SessionsBounds
  <2>3. QED
    BY <1>1, <2>1, <2>2, SessionFields
<1>4. QED
  BY <1>2, <1>3, SessionFields DEF ManagerTyped, Open

\* Closing an entry keeps the types of the manager (SessionManager::close).
LEMMA CloseTyped ==
  ASSUME SessionTypes, NEW s \in Sids, Close(s), UNCHANGED texts, stale' \subseteq stale
  PROVE  ManagerTyped'
<1>1. live' \subseteq live /\ ending' \subseteq ending \cup live
  BY DEF Close, CancelTokens
<1>2. QED
  BY <1>1, SessionFields DEF ManagerTyped, Close

\* Touching an entry restarts its idle time (SessionManager::touch).
LEMMA TouchTyped ==
  ASSUME SessionTypes, NEW s \in Sids
  PROVE  Touched(s) \in [Sids -> 0..(IdleTicks + 1)]
<1>1. 0 \in 0..(IdleTicks + 1)
  BY SessionsBounds
<1>2. QED
  BY <1>1, SessionFields DEF Touched

\* A pipeline's text is put on the bus, which drops its oldest when it is full.
LEMMA SendTyped ==
  ASSUME SessionTypes, NEW p \in Pipelines, Send(p), UNCHANGED egress
  PROVE  EventsTyped'
<1>1. bus \in Seq(Pipelines) /\ Len(bus) <= BusCap /\ BusCap \in Nat \ {0}
  BY SessionFields, SessionsBounds
<1>2. CASE Len(bus) = BusCap
  <2>1. bus # <<>> /\ bus' = Append(Tail(bus), p)
    BY <1>1, <1>2 DEF Send
  <2>2. Tail(bus) \in Seq(Pipelines) /\ Len(Tail(bus)) = Len(bus) - 1
    BY <1>1, <2>1
  <2>3. QED
    BY <1>1, <1>2, <2>1, <2>2, SessionFields DEF EventsTyped
<1>3. CASE Len(bus) # BusCap
  BY <1>1, <1>3, SessionFields DEF Send, EventsTyped
<1>4. QED
  BY <1>2, <1>3

\* What is offered to a pipeline's text channel stays within its capacity.
LEMMA OfferTyped ==
  ASSUME SessionTypes, NEW p \in Pipelines
  PROVE  Offered(p) \in [Pipelines -> 0..TextCap]
<1>1. (IF texts[p] < TextCap THEN texts[p] + 1 ELSE texts[p]) \in 0..TextCap
  BY SessionFields, SessionsBounds
<1>2. QED
  BY <1>1, SessionFields DEF Offered

\* A request waits for room in the channel.
LEMMA RequestTyped ==
  ASSUME SessionTypes, Room, NEW r \in {"publish", "subscribe"}
  PROVE  /\ Append(requests, r) \in Seq({"publish", "subscribe"})
         /\ Len(Append(requests, r)) <= RequestCap
  BY SessionFields, SessionsBounds DEF Room

\* A step of the poll task on its own events keeps the types.
LEMMA PollTyped ==
  ASSUME SessionTypes,
         PollConnAck \/ PollRequest \/ PollError \/ Wake \/ Resubscribe \/ PollShutdown \/ DrainEnds
  PROVE  SessionTypes'
<1>1. ManagerTyped'
  <2>1. UNCHANGED <<entries, opens, idle, starting, texts, stale>>
    BY DEF PollConnAck, PollRequest, PollError, Wake, Resubscribe, PollShutdown, DrainEnds, manager
  <2>2. live' \subseteq live /\ ending' \subseteq ending \cup live
    BY DEF PollConnAck, PollRequest, PollError, Wake, Resubscribe, PollShutdown, DrainEnds, manager,
           CancelTokens
  <2>3. QED
    BY <2>1, <2>2, SessionFields DEF ManagerTyped
<1>2. EventsTyped'
  <2>1. CASE UNCHANGED <<bus, egress>>
    BY <2>1, SessionFields DEF EventsTyped
  <2>2. CASE bus' = <<>> /\ egress' = None
    BY <2>2, SessionsBounds DEF EventsTyped
  <2>3. QED
    BY <2>1, <2>2 DEF PollConnAck, PollRequest, PollError, Wake, Resubscribe, PollShutdown,
                      DrainEnds, events
<1>3. requests' \in Seq({"publish", "subscribe"}) /\ Len(requests') <= RequestCap
  <2>1. CASE PollRequest
    BY <2>1, SessionFields, SessionsBounds DEF PollRequest
  <2>2. CASE UNCHANGED requests
    BY <2>2, SessionFields
  <2>3. CASE requests' = <<>>
    <3>1. Len(<<>>) = 0
      OBVIOUS
    <3>2. QED
      BY <2>3, <3>1, EmptySeq, SessionsBounds
  <2>4. CASE Resubscribe
    BY <2>4, RequestTyped DEF Resubscribe
  <2>5. QED
    BY <2>1, <2>2, <2>3, <2>4 DEF PollConnAck, PollError, Wake, PollShutdown, DrainEnds, link
<1>4. /\ poll' \in PollStates /\ conn' \in {"up", "down"} /\ subs' \in BOOLEAN /\ kept' \in BOOLEAN
      /\ shutdown' \in BOOLEAN
  BY SessionFields DEF PollConnAck, PollRequest, PollError, Wake, Resubscribe, PollShutdown,
                       DrainEnds, link, GoTo, PollStates
<1>5. inputs' \in 0..MaxInputs /\ outages' \in 0..MaxOutages
  <2>1. inputs' = inputs /\ (outages' = outages \/ (outages < MaxOutages /\ outages' = outages + 1))
    BY DEF PollConnAck, PollRequest, PollError, Wake, Resubscribe, PollShutdown, DrainEnds, link
  <2>2. QED
    BY <2>1, SessionFields, SessionsBounds
<1>6. QED
  BY <1>1, <1>2, <1>3, <1>4, <1>5
  DEF LinkTyped, ManagerTyped, EventsTyped, SessionTypes, TypeOK

\* So does the second half of open_session, also where it panics.
LEMMA LookupTyped ==
  ASSUME SessionTypes, NEW s \in Sids, SpawnPipeline(s) \/ StartPanics(s)
  PROVE  SessionTypes'
<1>1. /\ UNCHANGED <<entries, opens, idle, live, texts, stale, outages, events, shutdown, inputs>>
      /\ starting' = {} /\ ending' \subseteq ending \cup starting
      /\ poll' \in PollStates
  BY DEF SpawnPipeline, StartPanics, GoTo, PollStates, link
<1>2. ManagerTyped'
  BY <1>1, SessionFields DEF ManagerTyped
<1>3. /\ requests' \in Seq({"publish", "subscribe"}) /\ Len(requests') <= RequestCap
      /\ conn' \in {"up", "down"} /\ subs' \in BOOLEAN /\ kept' \in BOOLEAN
  <2>1. CASE UNCHANGED link
    BY <2>1, SessionFields DEF link
  <2>2. CASE conn' = "down" /\ subs' = FALSE /\ kept' = FALSE /\ requests' = <<>>
    <3>1. <<>> \in Seq({"publish", "subscribe"}) /\ Len(<<>>) <= RequestCap
      BY SessionsBounds
    <3>2. QED
      BY <2>2, <3>1
  <2>3. QED
    BY <2>1, <2>2 DEF SpawnPipeline, StartPanics
<1>4. QED
  BY <1>1, <1>2, <1>3, SessionFields
  DEF ManagerTyped, SessionTypes, TypeOK, events

\* Handling a message of a satellite keeps the types.
LEMMA IncomingTyped ==
  ASSUME SessionTypes, NEW s \in Sids,
         HandleStart(s) \/ HandleAudio(s) \/ HandleText(s) \/ HandleEnd(s)
  PROVE  SessionTypes'
<1>1. LinkTyped'
  <2>1. UNCHANGED <<conn, subs, requests, kept, outages, shutdown>> /\ inputs' = inputs + 1
        /\ inputs < MaxInputs /\ poll' \in {poll, "start"}
    BY DEF HandleStart, HandleAudio, HandleText, HandleEnd, Incoming, link, GoTo
  <2>2. inputs' \in 0..MaxInputs
    BY <2>1, SessionFields, SessionsBounds
  <2>3. QED
    BY <2>1, <2>2, SessionFields DEF LinkTyped, PollStates
<1>2. EventsTyped'
  <2>1. CASE UNCHANGED <<bus, egress>>
    BY <2>1, SessionFields DEF EventsTyped
  <2>2. CASE s \in entries /\ Send(Current(s)) /\ UNCHANGED egress
    BY <2>2, CurrentIsPipeline, SendTyped
  <2>3. QED
    BY <2>1, <2>2 DEF HandleStart, HandleAudio, HandleText, HandleEnd, Incoming
<1>3. UNCHANGED stale
  BY DEF HandleStart, HandleAudio, HandleText, HandleEnd, Incoming
<1>4. ManagerTyped'
  <2>1. CASE HandleStart(s)
    <3>1. CASE Open(s)
      BY <1>3, <2>1, <3>1, OpenTyped DEF HandleStart
    <3>2. CASE UNCHANGED manager
      BY <1>3, <2>1, <3>2, SessionFields DEF HandleStart, manager, ManagerTyped
    <3>3. QED
      BY <2>1, <3>1, <3>2 DEF HandleStart
  <2>2. CASE HandleAudio(s)
    BY <1>3, <2>2, SessionFields, TouchTyped DEF HandleAudio, ManagerTyped
  <2>3. CASE HandleText(s)
    <3>1. texts' \in [Pipelines -> 0..TextCap]
      BY <2>3, SessionFields, CurrentIsPipeline, OfferTyped DEF HandleText
    <3>2. QED
      BY <1>3, <2>3, <3>1, SessionFields, TouchTyped DEF HandleText, ManagerTyped
  <2>4. CASE HandleEnd(s)
    BY <1>3, <2>4, CloseTyped DEF HandleEnd
  <2>5. QED
    BY <2>1, <2>2, <2>3, <2>4
<1>5. QED
  BY <1>1, <1>2, <1>4 DEF LinkTyped, ManagerTyped, EventsTyped, SessionTypes, TypeOK

\* A step of pipelines, egress, reaper, clock or shutdown keeps the types.
LEMMA OthersTyped ==
  ASSUME SessionTypes,
         \/ Publish \/ EgressTakes \/ EgressPublishes \/ ReapCollect \/ Tick \/ Shutdown
         \/ \E p \in Pipelines : Answer(p) \/ SinkDone(p)
         \/ \E s \in Sids : ReapClose(s)
  PROVE  SessionTypes'
<1>1. CASE Publish \/ EgressPublishes
  <2>1. UNCHANGED <<manager, ending, texts, stale, poll, conn, subs, kept, outages, bus,
                    shutdown, inputs>>
    BY <1>1 DEF Publish, EgressPublishes, events
  <2>2. /\ egress' \in {egress, None}
        /\ \/ Room /\ requests' = Append(requests, "publish")
           \/ requests' = requests
    BY <1>1 DEF Publish, EgressPublishes, RequestIfAlive, events
  <2>3. requests' \in Seq({"publish", "subscribe"}) /\ Len(requests') <= RequestCap
    BY <2>2, RequestTyped, SessionFields
  <2>4. QED
    BY <2>1, <2>2, <2>3, SessionFields DEF SessionTypes, TypeOK, manager
<1>2. CASE EgressTakes
  <2>1. UNCHANGED <<manager, ending, texts, stale, poll, link, shutdown, inputs>>
    BY <1>2 DEF EgressTakes
  <2>2. bus # <<>> /\ bus' = Tail(bus) /\ egress' \in {Head(bus), None}
    BY <1>2 DEF EgressTakes
  <2>3. /\ bus' \in Seq(Pipelines) /\ Len(bus') <= BusCap /\ Head(bus) \in Pipelines
    BY <2>2, SessionFields, SessionsBounds
  <2>4. QED
    BY <2>1, <2>2, <2>3, SessionFields DEF SessionTypes, TypeOK, manager, link
<1>3. CASE ReapCollect \/ Shutdown
  <2>1. UNCHANGED <<entries, opens, idle, starting, texts, poll, link, events, inputs>>
    BY <1>3 DEF ReapCollect, Shutdown, manager
  <2>2. /\ live' \subseteq live /\ ending' \subseteq ending \cup live
        /\ stale' \subseteq stale \cup entries /\ shutdown' \in BOOLEAN
    BY <1>3, SessionFields DEF ReapCollect, Shutdown, manager, CancelTokens
  <2>3. QED
    BY <2>1, <2>2, SessionFields DEF SessionTypes, TypeOK, link, events
<1>4. CASE Tick
  <2>1. idle' \in [Sids -> 0..(IdleTicks + 1)]
    <3>1. \A s \in Sids : idle[s] <= IdleTicks => idle[s] + 1 \in 0..(IdleTicks + 1)
      BY SessionFields, SessionsBounds
    <3>2. QED
      BY <1>4, <3>1, SessionFields DEF Tick
  <2>2. UNCHANGED <<entries, opens, live, starting, ending, texts, stale, poll, link, events,
                    shutdown, inputs>>
    BY <1>4 DEF Tick
  <2>3. QED
    BY <2>1, <2>2, SessionFields DEF SessionTypes, TypeOK, link, events
<1>5. ASSUME NEW p \in Pipelines, Answer(p)
      PROVE  SessionTypes'
  <2>1. UNCHANGED <<manager, ending, stale, poll, link, egress, shutdown, inputs>>
    BY <1>5 DEF Answer
  <2>2. texts' \in [Pipelines -> 0..TextCap]
    <3>1. texts[p] - 1 \in 0..TextCap
      BY <1>5, SessionFields, SessionsBounds, SMTT(20) DEF Answer
    <3>2. QED
      BY <1>5, <3>1, SessionFields DEF Answer
  <2>3. EventsTyped'
    BY <1>5, <2>1, SessionFields, SendTyped DEF Answer, EventsTyped
  <2>4. QED
    BY <2>1, <2>2, <2>3, SessionFields DEF EventsTyped, SessionTypes, TypeOK, manager, link
<1>6. ASSUME NEW p \in Pipelines, SinkDone(p)
      PROVE  SessionTypes'
  <2>1. UNCHANGED <<manager, stale, poll, conn, subs, kept, outages, events, shutdown, inputs>>
    BY <1>6 DEF SinkDone
  <2>2. texts' \in [Pipelines -> 0..TextCap] /\ ending' \subseteq ending
    <3>1. 0 \in 0..TextCap
      BY SessionsBounds
    <3>2. QED
      BY <1>6, <3>1, SessionFields DEF SinkDone
  <2>3. requests' \in Seq({"publish", "subscribe"}) /\ Len(requests') <= RequestCap
    BY <1>6, SessionFields, RequestTyped DEF SinkDone, RequestIfAlive
  <2>4. QED
    BY <2>1, <2>2, <2>3, SessionFields DEF SessionTypes, TypeOK, manager, events
<1>7. ASSUME NEW s \in Sids, ReapClose(s)
      PROVE  SessionTypes'
  <2>1. UNCHANGED <<texts, poll, link, events, shutdown, inputs>> /\ stale' \subseteq stale /\ Close(s)
    BY <1>7 DEF ReapClose
  <2>2. ManagerTyped'
    BY <2>1, CloseTyped
  <2>3. QED
    BY <2>1, <2>2, SessionFields DEF ManagerTyped, SessionTypes, TypeOK, link, events
<1>8. QED
  BY <1>1, <1>2, <1>3, <1>4, <1>5, <1>6, <1>7

\* Every step keeps the type of every variable.
LEMMA SessionTypesKept == SessionTypes /\ [Next]_vars => SessionTypes'
<1>1. CASE UNCHANGED vars
  BY <1>1 DEF SessionTypes, TypeOK, vars, manager, link, events
<1>2. QED
  BY <1>1, PollTyped, LookupTyped, IncomingTyped, OthersTyped DEF Next, Poll

\* The manager's map, the channels and the clocks keep their types, and no
\* channel holds more than its capacity (SessionManager, spawn_satellite).
THEOREM SessionsAreTyped == Spec => []TypeOK
<1>1. SessionTypes => TypeOK
  BY DEF SessionTypes
<1>2. QED
  BY <1>1, SessionTypesStart, SessionTypesKept, PTL DEF Spec

-----------------------------------------------------------------------------
(* The wedged poll task *)

\* Whoever could make room is the task that waits for it, and everybody else
\* only adds (resubscribe, publish_request).
LEMMA WedgeStep == Wedged /\ [Next]_vars => Wedged'
<1> SUFFICES ASSUME Wedged, [Next]_vars
             PROVE  Wedged'
  OBVIOUS
<1>1. ASSUME UNCHANGED <<poll, requests>> PROVE Wedged'
  BY <1>1 DEF Wedged, At, Room
<1>2. poll \in {"subscribe sat", "subscribe assist"} /\ ~Room
  BY DEF Wedged, At
<1>3. ~PollConnAck /\ ~PollRequest /\ ~PollError /\ ~Wake /\ ~Resubscribe
      /\ ~PollShutdown /\ ~DrainEnds
  BY <1>2
  DEF PollConnAck, PollRequest, PollError, Wake, Resubscribe, PollShutdown, DrainEnds, At
<1>4. \A s \in Sids : /\ ~HandleStart(s) /\ ~HandleAudio(s) /\ ~HandleText(s) /\ ~HandleEnd(s)
                      /\ ~SpawnPipeline(s) /\ ~StartPanics(s)
  BY <1>2 DEF HandleStart, SpawnPipeline, StartPanics, HandleAudio, HandleText, HandleEnd,
              Incoming, At
<1>5. ~Publish /\ ~EgressPublishes /\ \A p \in Pipelines : ~SinkDone(p)
  BY <1>2 DEF Publish, EgressPublishes, SinkDone, RequestIfAlive, Alive, At
<1>6. CASE EgressTakes \/ ReapCollect \/ Tick \/ Shutdown
  BY <1>1, <1>6 DEF EgressTakes, ReapCollect, Tick, Shutdown, link
<1>7. ASSUME NEW p \in Pipelines, Answer(p) PROVE Wedged'
  BY <1>1, <1>7 DEF Answer, link
<1>8. ASSUME NEW s \in Sids, ReapClose(s) PROVE Wedged'
  BY <1>1, <1>8 DEF ReapClose, link
<1>9. CASE UNCHANGED vars
  BY <1>1, <1>9 DEF vars, link
<1>10. QED
  BY <1>3, <1>4, <1>5, <1>6, <1>7, <1>8, <1>9 DEF Next, Poll

\* A poll task that waits for room in the channel only it empties waits for
\* ever, also through a shutdown (resubscribe).
THEOREM WedgedForEver == Spec => [](Wedged => []Wedged)
  BY WedgeStep, PTL DEF Spec
=============================================================================
