---------------------------- MODULE SpeechProofs -----------------------------
(***************************************************************************)
(* The parts of MCSpeech, each for every value of its constants: the       *)
(* circuit leaves Closed only for a full streak; a sentence's audio, an    *)
(* LLM's tokens and a session's transcripts arrive whole, in order and     *)
(* alone, however the tasks, the network and the workers interleave.       *)
(*                                                                         *)
(* Each of the three streams is proved the same way.  What it carries is   *)
(* known by its place: the invariant says which item is at which place of  *)
(* every channel, buffer and hand between the source and the listener, so  *)
(* that a step which moves one moves it to the place it had.               *)
(***************************************************************************)
EXTENDS MCSpeech, SessionsProofs, SequenceTheorems, TLAPS

-----------------------------------------------------------------------------
(* The circuit: a report is atomic (it holds the mutex), so what has to be *)
(* shown is that every report, of a probe or of a call admitted long ago,  *)
(* keeps the count and the streak together.                                *)

CircuitIInv == CircuitTypeOK /\ OpensOnlyForAStreak

\* The clock never outlasts the longer of the two durations (can_call, Trip).
LEMMA TimerBound ==
    /\ TimerMax \in Nat /\ OpenTicks \in 0..TimerMax /\ ProbeTicks \in 0..TimerMax
    /\ Threshold \in Nat /\ Threshold > 0 /\ MaxAttempts \in Nat /\ MaxAttempts > 0
  BY CircuitAssumption DEF TimerMax

\* A new circuit is closed and has counted nothing (CircuitBreaker::new).
LEMMA CircuitStarts == CircuitInit => CircuitIInv
  BY TimerBound DEF CircuitInit, CircuitIInv, CircuitTypeOK, OpensOnlyForAStreak

\* What the invariant says of each field, and what it takes to have it again.
LEMMA CircuitFields ==
  ASSUME CircuitIInv
  PROVE  /\ state \in {"closed", "open", "half open"}
         /\ failures \in 0..(Threshold - 1) /\ timer \in 0..TimerMax
         /\ caller \in [Callers -> 0..MaxAttempts]
         /\ provider \in {"up", "down"} /\ streak \in 0..Threshold
         /\ state = "closed" => failures = streak /\ streak < Threshold
         /\ state # "closed" => streak = Threshold
  BY Zenon DEF CircuitIInv, CircuitTypeOK, OpensOnlyForAStreak

\* What the invariant of the circuit asks of the next state, field by field.
LEMMA CircuitFieldsAgain ==
  ASSUME state' \in {"closed", "open", "half open"},
         failures' \in 0..(Threshold - 1), timer' \in 0..TimerMax,
         caller' \in [Callers -> 0..MaxAttempts],
         provider' \in {"up", "down"}, streak' \in 0..Threshold,
         state' = "closed" => failures' = streak' /\ streak' < Threshold,
         state' # "closed" => streak' = Threshold
  PROVE  CircuitIInv'
  BY Zenon DEF CircuitIInv, CircuitTypeOK, OpensOnlyForAStreak, TimerMax

\* Whoever a report or an answer is for, the attempts of the calls stay
\* within the configuration (RetryConfig.max_attempts).
LEMMA CallersKept ==
  ASSUME CircuitIInv, NEW c \in Callers, NEW n \in 0..MaxAttempts,
         caller' = [caller EXCEPT ![c] = n]
  PROVE  caller' \in [Callers -> 0..MaxAttempts]
<1>1. caller \in [Callers -> 0..MaxAttempts]
  BY CircuitFields
<1>2. QED
  BY <1>1

\* A report of a success, of whatever call, empties count and streak
\* (record_success).
LEMMA SuccessKeeps ==
  ASSUME CircuitIInv, NEW c \in Callers, Succeed(c)
  PROVE  CircuitIInv'
<1>1. caller' = [caller EXCEPT ![c] = 0]
  BY DEF Succeed
<1>2. caller' \in [Callers -> 0..MaxAttempts]
  <2>1. 0 \in 0..MaxAttempts
    BY TimerBound
  <2>2. QED
    BY <1>1, <2>1, CallersKept
<1>3. /\ state' = "closed" /\ failures' = 0 /\ timer' = 0 /\ streak' = 0
      /\ provider' = provider
  BY DEF Succeed, RecordSuccess
<1>4. /\ failures' \in 0..(Threshold - 1) /\ timer' \in 0..TimerMax
      /\ streak' \in 0..Threshold /\ streak' < Threshold
  BY <1>3, TimerBound
<1>5. QED
  BY <1>2, <1>3, <1>4, CircuitFields, CircuitFieldsAgain

\* A report of a failure adds one to both, or trips the circuit with the
\* streak at the threshold, or finds it tripped (record_failure).
LEMMA FailureKeeps ==
  ASSUME CircuitIInv, NEW c \in Callers, Fail(c)
  PROVE  CircuitIInv'
<1>1. caller' \in [Callers -> 0..MaxAttempts]
  <2> DEFINE next == IF caller[c] < MaxAttempts THEN caller[c] + 1 ELSE 0
  <2>1. caller[c] \in 0..MaxAttempts
    BY CircuitFields
  <2>2. next \in 0..MaxAttempts
    BY <2>1, TimerBound
  <2>3. caller' = [caller EXCEPT ![c] = next]
    BY DEF Fail
  <2>4. QED
    BY <2>2, <2>3, CallersKept
<1>2. provider' \in {"up", "down"}
  BY CircuitFields DEF Fail
<1>3. RecordFailure
  BY DEF Fail
<1>4. streak' = IF streak < Threshold THEN streak + 1 ELSE streak
  BY <1>3 DEF RecordFailure
<1>5. CASE state = "closed" /\ failures + 1 >= Threshold
  <2>1. failures = streak /\ streak \in 0..Threshold /\ streak < Threshold
    BY <1>5, CircuitFields
  <2>2. streak' = Threshold
    BY <1>4, <1>5, <2>1, TimerBound
  <2>3. Trip
    BY <1>3, <1>5, <2>1, TimerBound DEF RecordFailure
  <2>4. QED
    BY <1>1, <1>2, <2>2, <2>3, TimerBound, CircuitFieldsAgain DEF Trip
<1>6. CASE state = "closed" /\ failures + 1 < Threshold
  <2>1. failures = streak /\ streak \in 0..Threshold /\ streak < Threshold
    BY <1>6, CircuitFields
  <2>2. failures' = failures + 1 /\ UNCHANGED <<state, timer>>
    BY <1>3, <1>6, <2>1, TimerBound DEF RecordFailure
  <2>3. streak' = failures' /\ failures' \in 0..(Threshold - 1) /\ streak' < Threshold
        /\ streak' \in 0..Threshold
    BY <1>4, <1>6, <2>1, <2>2, TimerBound
  <2>4. QED
    BY <1>1, <1>2, <1>6, <2>2, <2>3, CircuitFields, CircuitFieldsAgain
<1>7. CASE state # "closed"
  <2> streak = Threshold
    BY <1>7, CircuitFields
  <2>1. streak = Threshold /\ streak' = Threshold
    BY <1>4, TimerBound
  <2>2. streak' \in 0..Threshold
    BY <2>1, TimerBound
  <2>3. CASE Trip
    BY <1>1, <1>2, <2>1, <2>2, <2>3, TimerBound, CircuitFieldsAgain DEF Trip
  <2>4. CASE UNCHANGED <<state, failures, timer>>
    BY <1>1, <1>2, <1>7, <2>1, <2>2, <2>4, CircuitFields, CircuitFieldsAgain
  <2>5. QED
    BY <1>3, <1>7, <2>3, <2>4 DEF RecordFailure
<1>8. failures \in Nat /\ Threshold \in Nat
  <2>1. failures \in 0..(Threshold - 1)
    BY CircuitFields
  <2>2. QED
    BY <2>1, TimerBound
<1>9. QED
  BY <1>5, <1>6, <1>7, <1>8

\* Asking counts nothing and never closes the circuit (can_call).
LEMMA AskKeeps ==
  ASSUME CircuitIInv, NEW c \in Callers, Ask(c)
  PROVE  CircuitIInv'
<1>1. PICK admit \in BOOLEAN :
         CanCall(admit) /\ caller' = [caller EXCEPT ![c] = IF admit THEN 1 ELSE 0]
  BY DEF Ask
<1>2. caller' \in [Callers -> 0..MaxAttempts]
  <2> DEFINE n == IF admit THEN 1 ELSE 0
  <2>1. n \in 0..MaxAttempts
    BY TimerBound
  <2>2. QED
    BY <1>1, <2>1, CallersKept
<1>3. /\ state' \in {"closed", "open", "half open"} /\ timer' \in 0..TimerMax
      /\ (state' = "closed") <=> (state = "closed")
  BY <1>1, CircuitFields, TimerBound DEF CanCall
<1>4. failures' = failures /\ provider' = provider /\ streak' = streak
  BY DEF Ask
<1>5. QED
  BY <1>2, <1>3, <1>4, CircuitFields, CircuitFieldsAgain

\* A dropped call reports nothing, a tick counts nothing.
LEMMA DropKeeps ==
  ASSUME CircuitIInv, NEW c \in Callers, Drop(c)
  PROVE  CircuitIInv'
<1>1. caller' = [caller EXCEPT ![c] = 0]
  BY DEF Drop
<1>2. caller' \in [Callers -> 0..MaxAttempts]
  <2>1. 0 \in 0..MaxAttempts
    BY TimerBound
  <2>2. QED
    BY <1>1, <2>1, CallersKept
<1>3. QED
  BY <1>2, CircuitFields, CircuitFieldsAgain DEF Drop

\* A tick of the clock keeps the invariant of the circuit.
LEMMA TickKeeps ==
  ASSUME CircuitIInv, CircuitTick
  PROVE  CircuitIInv'
<1>1. timer' \in 0..TimerMax
  <2>1. timer \in 0..TimerMax
    BY CircuitFields
  <2>2. timer > 0 /\ timer' = timer - 1
    BY DEF CircuitTick
  <2>3. QED
    BY <2>1, <2>2, TimerBound
<1>2. QED
  BY <1>1, CircuitFields, CircuitFieldsAgain DEF CircuitTick

\* The strengthened invariant survives every step, of any caller in any order.
THEOREM CircuitInductive == CircuitIInv /\ [CircuitNext]_circuitVars => CircuitIInv'
<1> SUFFICES ASSUME CircuitIInv, [CircuitNext]_circuitVars
             PROVE  CircuitIInv'
  OBVIOUS
<1>1. ASSUME NEW c \in Callers, Ask(c) PROVE CircuitIInv'
  BY <1>1, AskKeeps
<1>2. ASSUME NEW c \in Callers, Succeed(c) PROVE CircuitIInv'
  BY <1>2, SuccessKeeps
<1>3. ASSUME NEW c \in Callers, Fail(c) PROVE CircuitIInv'
  BY <1>3, FailureKeeps
<1>4. ASSUME NEW c \in Callers, Drop(c) PROVE CircuitIInv'
  BY <1>4, DropKeeps
<1>5. CASE CircuitTick
  BY <1>5, TickKeeps
<1>6. CASE Change
  BY <1>6, CircuitFields, CircuitFieldsAgain DEF Change
<1>7. CASE UNCHANGED circuitVars
  BY <1>7 DEF CircuitIInv, CircuitTypeOK, OpensOnlyForAStreak, circuitVars
<1>8. QED
  BY <1>1, <1>2, <1>3, <1>4, <1>5, <1>6, <1>7 DEF CircuitNext

\* The invariant of the circuit holds in every reachable state.
LEMMA CircuitAlways == CircuitSpec => []CircuitIInv
  BY CircuitStarts, CircuitInductive, PTL DEF CircuitSpec

\* The circuit's fields keep their types (CircuitBreaker).
THEOREM CircuitTypes == CircuitSpec => []CircuitTypeOK
  BY CircuitAlways, PTL DEF CircuitIInv

\* However the reports of concurrent calls interleave, the circuit opens only
\* for a streak of failure_threshold failures, and counts every one of them
\* while it is closed (record_failure).
THEOREM OpensForStreaksOnly == CircuitSpec => []OpensOnlyForAStreak
  BY CircuitAlways, PTL DEF CircuitIInv

-----------------------------------------------------------------------------
(* The items of a stream f, f[k] being what may be its k-th: a channel s   *)
(* that carries those after the first k, as it loses its head to the next  *)
(* hand and gains a last one from the one before.                          *)

Carries(s, f, k) == \A i \in DOMAIN s : s[i] \in f[k + i]

\* A channel that loses its head carries the items after the next one.
LEMMA HeadTaken ==
  ASSUME NEW S, NEW s \in Seq(S), s # <<>>, NEW f, NEW k \in Nat, Carries(s, f, k)
  PROVE  /\ Head(s) \in f[k + 1] /\ Head(s) \in S
         /\ Carries(Tail(s), f, k + 1)
         /\ Tail(s) \in Seq(S) /\ Len(Tail(s)) = Len(s) - 1 /\ Len(s) \in Nat \ {0}
<1>1. /\ Tail(s) \in Seq(S) /\ Len(Tail(s)) = Len(s) - 1 /\ Len(s) \in Nat \ {0}
      /\ DOMAIN Tail(s) = 1..(Len(s) - 1) /\ DOMAIN s = 1..Len(s)
      /\ \A i \in 1..(Len(s) - 1) : Tail(s)[i] = s[i + 1]
      /\ Head(s) = s[1] /\ Head(s) \in S
  OBVIOUS
<1>2. \A i \in 1..(Len(s) - 1) : Tail(s)[i] \in f[(k + 1) + i]
  <2> TAKE i \in 1..(Len(s) - 1)
  <2>1. i + 1 \in DOMAIN s /\ k + (i + 1) = (k + 1) + i
    BY <1>1
  <2>2. s[i + 1] \in f[k + (i + 1)]
    BY <2>1 DEF Carries
  <2>3. QED
    BY <1>1, <2>1, <2>2
<1>3. QED
  BY <1>1, <1>2 DEF Carries

\* A channel that gains the item that is due carries one item more.
LEMMA LastAdded ==
  ASSUME NEW S, NEW s \in Seq(S), NEW x \in S, NEW f, NEW k \in Nat, NEW j \in Nat,
         NEW n \in Nat, n = Len(s), Carries(s, f, k), j = k + n + 1, x \in f[j]
  PROVE  /\ Carries(Append(s, x), f, k)
         /\ Append(s, x) \in Seq(S) /\ Len(Append(s, x)) = Len(s) + 1 /\ Len(s) \in Nat
<1>1. /\ Append(s, x) \in Seq(S) /\ Len(Append(s, x)) = Len(s) + 1 /\ Len(s) \in Nat
      /\ DOMAIN Append(s, x) = 1..(Len(s) + 1) /\ DOMAIN s = 1..Len(s)
      /\ \A i \in 1..Len(s) : Append(s, x)[i] = s[i]
      /\ Append(s, x)[Len(s) + 1] = x
  OBVIOUS
<1>2. j = k + (Len(s) + 1)
  BY <1>1
<1>3. QED
  BY <1>1, <1>2 DEF Carries

\* An empty channel carries the items after any one: there are none.
LEMMA EmptyCarries ==
  ASSUME NEW S, NEW s \in Seq(S)
  PROVE  /\ Len(s) \in Nat /\ DOMAIN s = 1..Len(s)
         /\ s = <<>> <=> Len(s) = 0
         /\ \A f, k : Carries(<<>>, f, k)
  BY DEF Carries

-----------------------------------------------------------------------------
(* Text to speech *)

\* The bounds of the synthesis are natural numbers.
LEMMA TtsBounds == Chunks \in Nat /\ Done \in Nat \ {0} /\ MaxRequests \in Nat
                   /\ TtsRouteCap \in Nat /\ MaxTtsLosses \in Nat
  BY TtsAssumption DEF Done

CallPlaces == {"idle", "publish", "first", "stream"}

\* What assigning to the fields of a call, and of a route, makes of them.
LEMMA CallAssigned ==
  ASSUME NEW R, NEW G, NEW c \in [at : CallPlaces, request : R, got : G],
         NEW a \in CallPlaces, NEW g \in G
  PROVE  /\ [c EXCEPT !.at = a] \in [at : CallPlaces, request : R, got : G]
         /\ [c EXCEPT !.at = a].at = a /\ [c EXCEPT !.at = a].request = c.request
         /\ [c EXCEPT !.at = a].got = c.got
         /\ [c EXCEPT !.at = a, !.got = g] \in [at : CallPlaces, request : R, got : G]
         /\ [c EXCEPT !.at = a, !.got = g].at = a
         /\ [c EXCEPT !.at = a, !.got = g].request = c.request
         /\ [c EXCEPT !.at = a, !.got = g].got = g
         /\ c.at \in CallPlaces /\ c.request \in R /\ c.got \in G
  OBVIOUS

\* What an assignment to a field of a client's route leaves and changes.
LEMMA RouteAssigned ==
  ASSUME NEW Q, NEW r \in [known : BOOLEAN, open : BOOLEAN, queue : Q], NEW q \in Q
  PROVE  /\ [r EXCEPT !.queue = q] \in [known : BOOLEAN, open : BOOLEAN, queue : Q]
         /\ [r EXCEPT !.queue = q].queue = q
         /\ [r EXCEPT !.queue = q].known = r.known /\ [r EXCEPT !.queue = q].open = r.open
         /\ [r EXCEPT !.open = FALSE, !.queue = q]
               \in [known : BOOLEAN, open : BOOLEAN, queue : Q]
         /\ [r EXCEPT !.open = FALSE, !.queue = q].queue = q
         /\ [r EXCEPT !.known = FALSE] \in [known : BOOLEAN, open : BOOLEAN, queue : Q]
         /\ [r EXCEPT !.known = FALSE].queue = r.queue
         /\ r.known \in BOOLEAN /\ r.open \in BOOLEAN /\ r.queue \in Q
  OBVIOUS

TtsTypes == TtsTypeOK /\ (call.at # "idle" => call.request # 0)

\* A call that hangs up is idle, and its route is empty.
LEMMA Finished ==
  ASSUME TtsTypeOK, Finish
  PROVE  /\ call' \in [at : {"idle", "publish", "first", "stream"}, request : 0..MaxRequests,
                       got : Seq(Reply)]
         /\ call'.at = "idle" /\ call'.request = call.request /\ call'.got = call.got
         /\ ttsRoute' \in [known : BOOLEAN, open : BOOLEAN, queue : Seq(Reply)]
         /\ ttsRoute'.queue = <<>> /\ Len(ttsRoute'.queue) <= TtsRouteCap
<1>1. <<>> \in Seq(Reply) /\ Len(<<>>) <= TtsRouteCap
  BY TtsBounds
<1>2. /\ call \in [at : CallPlaces, request : 0..MaxRequests, got : Seq(Reply)]
      /\ ttsRoute \in [known : BOOLEAN, open : BOOLEAN, queue : Seq(Reply)]
  BY DEF TtsTypeOK, CallPlaces
<1>3. "idle" \in CallPlaces
  BY DEF CallPlaces
<1>4. call' = [call EXCEPT !.at = "idle"]
      /\ ttsRoute' = [ttsRoute EXCEPT !.open = FALSE, !.queue = <<>>]
  BY DEF Finish, Hangup
<1>5. /\ call' \in [at : CallPlaces, request : 0..MaxRequests, got : Seq(Reply)]
      /\ call'.at = "idle" /\ call'.request = call.request /\ call'.got = call.got
  BY <1>2, <1>3, <1>4, CallAssigned
<1>6. /\ ttsRoute' \in [known : BOOLEAN, open : BOOLEAN, queue : Seq(Reply)]
      /\ ttsRoute'.queue = <<>>
  BY <1>1, <1>2, <1>4, RouteAssigned
<1>7. QED
  BY <1>1, <1>5, <1>6 DEF CallPlaces

\* The call, its route and the worker keep their types, and a route holds no
\* more than its channel (MqttTts, MqttProviderClient, handle_request).
LEMMA TtsTyped == TtsTypes /\ [TtsNext]_ttsVars => TtsTypes'
<1> SUFFICES ASSUME TtsTypes, [TtsNext]_ttsVars
             PROVE  TtsTypes'
  OBVIOUS
<1> USE TtsBounds
<1> USE DEF TtsTypeOK, TtsTypes
<1> DEFINE Calls == [at : CallPlaces, request : 0..MaxRequests, got : Seq(Reply)]
           Routes == [known : BOOLEAN, open : BOOLEAN, queue : Seq(Reply)]
<1>0. call \in Calls /\ ttsRoute \in Routes
  BY DEF CallPlaces
<1>1. CASE Call
  <2>1. call.request + 1 \in 0..MaxRequests
    BY <1>1 DEF Call
  <2>2. QED
    BY <1>1, <2>1 DEF Call
<1>2. CASE PublishRequest
  <2>1. call.at \in {"idle", "publish", "first", "stream"} /\ call.request \in Requests
    BY <1>2 DEF PublishRequest, Requests
  <2>2. call' \in Calls /\ call'.request = call.request
    BY <1>0, <1>2, CallAssigned DEF PublishRequest, CallPlaces
  <2>3. Append(ttsRequests, call.request) \in Seq(Requests)
    BY <2>1
  <2>4. QED
    BY <1>0, <1>2, <2>1, <2>2, <2>3 DEF PublishRequest, CallPlaces, Requests
<1>3. CASE Receive
  <2>1. /\ ttsRoute.queue \in Seq(Reply) /\ ttsRoute.queue # <<>>
        /\ call.got \in Seq(Reply)
    BY <1>3 DEF Receive
  <2>2. /\ Head(ttsRoute.queue) \in Reply /\ Tail(ttsRoute.queue) \in Seq(Reply)
        /\ Len(Tail(ttsRoute.queue)) = Len(ttsRoute.queue) - 1
    BY <2>1, HeadTailProperties
  <2>3. Append(call.got, Head(ttsRoute.queue)) \in Seq(Reply)
    BY <2>1, <2>2
  <2>4. CASE Head(ttsRoute.queue)[2] = Done
    BY <1>3, <2>4, Finished DEF Receive, beyondCall
  <2>5. CASE Head(ttsRoute.queue)[2] # Done
    <3>1. call' \in Calls /\ call'.request = call.request /\ call.at # "idle"
      <4>1. /\ call' = [call EXCEPT !.at = "stream", !.got = Append(call.got, Head(ttsRoute.queue))]
            /\ call.at # "idle"
        BY <1>3, <2>5 DEF Receive
      <4>2. "stream" \in CallPlaces
        BY DEF CallPlaces
      <4>3. QED
        BY <1>0, <2>3, <4>1, <4>2, CallAssigned
    <3>2. ttsRoute' \in Routes /\ ttsRoute'.queue = Tail(ttsRoute.queue)
      <4>1. ttsRoute' = [ttsRoute EXCEPT !.queue = Tail(ttsRoute.queue)]
        BY <1>3, <2>5 DEF Receive
      <4>2. QED
        BY <1>0, <2>2, <4>1, RouteAssigned
    <3>3. QED
      BY <1>3, <2>1, <2>2, <3>1, <3>2 DEF Receive, beyondCall, CallPlaces
  <2>6. QED
    BY <2>4, <2>5
<1>4. CASE Timeout
  BY <1>4, Finished DEF Timeout, beyondCall
<1>5. CASE Abandon
  BY <1>5, Finished DEF Abandon, beyondCall
<1>6. CASE RouteChunk
  <2>1. /\ ttsReplies \in Seq(Reply) /\ ttsReplies # <<>> /\ ttsRoute.queue \in Seq(Reply)
        /\ ttsReplies' = Tail(ttsReplies)
    BY <1>6 DEF RouteChunk
  <2>2. /\ Head(ttsReplies) \in Reply /\ Tail(ttsReplies) \in Seq(Reply)
    BY <2>1, HeadTailProperties
  <2>3. /\ Append(ttsRoute.queue, Head(ttsReplies)) \in Seq(Reply)
        /\ Len(Append(ttsRoute.queue, Head(ttsReplies))) = Len(ttsRoute.queue) + 1
    BY <2>1, <2>2, AppendProperties
  <2>4. /\ ttsRoute' \in [known : BOOLEAN, open : BOOLEAN, queue : Seq(Reply)]
        /\ Len(ttsRoute'.queue) <= TtsRouteCap
    <3>1. CASE UNCHANGED ttsRoute
      BY <3>1
    <3>2. CASE /\ Len(ttsRoute.queue) < TtsRouteCap
               /\ ttsRoute' = [ttsRoute EXCEPT !.queue = Append(@, Head(ttsReplies))]
      <4>1. ttsRoute' \in Routes /\ ttsRoute'.queue = Append(ttsRoute.queue, Head(ttsReplies))
        BY <1>0, <2>3, <3>2, RouteAssigned
      <4>2. QED
        BY <2>3, <3>2, <4>1
    <3>3. QED
      BY <1>6, <3>1, <3>2 DEF RouteChunk
  <2>5. removing' \in BOOLEAN /\ disturbed' \in BOOLEAN
    BY <1>6 DEF RouteChunk
  <2>6. QED
    BY <1>6, <2>1, <2>2, <2>4, <2>5 DEF RouteChunk
<1>7. CASE RemoveRoute
  BY <1>7 DEF RemoveRoute
<1>8. CASE ReceiveClosed
  BY <1>8, Finished DEF ReceiveClosed, beyondCall
<1>9. CASE HandleRequest
  <2>1. Tail(ttsRequests) \in Seq(Requests) /\ 1 \in 0..Done
    BY <1>9 DEF HandleRequest
  <2>2. QED
    BY <1>9, <2>1 DEF HandleRequest, Synthesize
<1>10. ASSUME NEW r \in Requests, PublishReply(r) PROVE TtsTypes'
  <2>1. tasks[r] \in 0..Done /\ tasks[r] # 0
    BY <1>10 DEF PublishReply
  <2>2. <<r, tasks[r]>> \in Reply
    BY <2>1 DEF Reply, Done
  <2>3. (IF tasks[r] = Done THEN 0 ELSE tasks[r] + 1) \in 0..Done
    BY <2>1
  <2>4. tasks' \in [Requests -> 0..Done]
    BY <1>10, <2>3 DEF PublishReply
  <2>5. QED
    BY <1>10, <2>2, <2>4 DEF PublishReply
<1>11. CASE LoseSpeech
  <2>1. ttsLosses' \in 0..MaxTtsLosses /\ tasks' \in [Requests -> 0..Done]
    BY <1>11 DEF LoseSpeech
  <2>2. QED
    BY <1>11, <2>1 DEF LoseSpeech
<1>12. CASE UNCHANGED ttsVars
  BY <1>12 DEF ttsVars
<1>13. CASE TtsClientWedges
  BY <1>13 DEF TtsClientWedges
<1>14. QED
  BY <1>1, <1>2, <1>3, <1>4, <1>5, <1>6, <1>7, <1>8, <1>9, <1>10, <1>11, <1>12, <1>13
     DEF TtsNext

\* What is on its way from the task of request r to the listener, in three
\* hands: got, in the route, and between worker and client.
RepliesTo(r) == [k \in Nat |-> {<<r, k>>}]
Sent == Len(call.got) + Len(ttsRoute.queue) + Len(ttsReplies)

InPlace(r) ==
    /\ Carries(call.got, RepliesTo(r), 0) /\ Len(call.got) <= Chunks
    /\ Carries(ttsRoute.queue, RepliesTo(r), Len(call.got))
    /\ Carries(ttsReplies, RepliesTo(r), Len(call.got) + Len(ttsRoute.queue))

\* Request r, and no other, is waiting, or has its task publish reply by reply.
Alone(r) ==
    /\ ~removing /\ ttsRoute.known /\ ttsRoute.open
    /\ \A s \in Requests : s # r => tasks[s] = 0
    /\ InPlace(r)
    /\ \/ ttsRequests = <<r>> /\ tasks[r] = 0 /\ Sent = 0
       \/ ttsRequests = <<>> /\ Sent = IF tasks[r] = 0 THEN Done ELSE tasks[r] - 1

Undisturbed ==
    /\ call.at = "idle" => /\ Quiet
                           /\ call.request # 0 => call.got = Whole(call.request)
                           /\ call.request = 0 => call.got = <<>>
    /\ call.at = "publish" => /\ Quiet /\ ttsRoute.known /\ ttsRoute.open
                              /\ ttsRoute.queue = <<>> /\ call.got = <<>>
    /\ call.at \in {"first", "stream"} => Alone(call.request)

TtsIInv == TtsTypes /\ (~disturbed => Undisturbed)

\* The channels as sequences, and the numbers the places are counted with.
LEMMA TtsFields ==
  ASSUME TtsTypes
  PROVE  /\ call.got \in Seq(Reply) /\ ttsRoute.queue \in Seq(Reply) /\ ttsReplies \in Seq(Reply)
         /\ ttsRequests \in Seq(Requests)
         /\ Len(call.got) \in Nat /\ Len(ttsRoute.queue) \in Nat /\ Len(ttsReplies) \in Nat
         /\ DOMAIN call.got = 1..Len(call.got)
         /\ DOMAIN ttsRoute.queue = 1..Len(ttsRoute.queue)
         /\ DOMAIN ttsReplies = 1..Len(ttsReplies)
         /\ call.at \in CallPlaces /\ call.request \in 0..MaxRequests
         /\ call.at # "idle" => call.request \in Requests
         /\ tasks \in [Requests -> 0..Done] /\ Done = Chunks + 1 /\ Chunks \in Nat
         /\ MaxRequests \in Nat
<1>1. /\ call.got \in Seq(Reply) /\ ttsRoute.queue \in Seq(Reply) /\ ttsReplies \in Seq(Reply)
      /\ ttsRequests \in Seq(Requests)
      /\ call.at \in CallPlaces /\ call.request \in 0..MaxRequests
      /\ call.at # "idle" => call.request # 0
      /\ tasks \in [Requests -> 0..Done]
  BY DEF TtsTypes, TtsTypeOK, CallPlaces
<1>2. call.at # "idle" => call.request \in Requests
  BY <1>1, TtsBounds DEF Requests
<1>3. QED
  BY <1>1, <1>2, TtsBounds DEF Done

\* The number of items in each hand, once for both sides of a step.
LEMMA TtsCounts ==
  ASSUME TtsTypes
  PROVE  \E g, q, p \in Nat :
            /\ g = Len(call.got) /\ q = Len(ttsRoute.queue) /\ p = Len(ttsReplies)
            /\ Sent = g + q + p
            /\ ttsReplies = <<>> <=> p = 0
            /\ ttsRoute.queue = <<>> <=> q = 0
            /\ call.got = <<>> <=> g = 0
<1>1. PICK g, q, p \in Nat :
         g = Len(call.got) /\ q = Len(ttsRoute.queue) /\ p = Len(ttsReplies)
  BY TtsFields
<1>2. Sent = g + q + p
  BY <1>1 DEF Sent
<1>3. /\ ttsReplies = <<>> <=> p = 0
      /\ ttsRoute.queue = <<>> <=> q = 0
      /\ call.got = <<>> <=> g = 0
  BY <1>1, TtsFields, EmptyCarries
<1>4. QED
  BY <1>1, <1>2, <1>3

\* A new call finds nothing of another one, or runs disturbed (call_streaming).
LEMMA CallStarts ==
  ASSUME TtsIInv, Call, ~disturbed'
  PROVE  Undisturbed'
<1>1. Quiet
  BY DEF Call, TtsIInv, Undisturbed
<1>2. Quiet'
  BY <1>1 DEF Quiet, Call
<1>3. /\ call'.at = "publish" /\ call'.got = <<>>
      /\ ttsRoute'.known /\ ttsRoute'.open /\ ttsRoute'.queue = <<>>
  BY DEF Call
<1>4. QED
  BY <1>2, <1>3 DEF Undisturbed

\* A request that is published starts its stream from the beginning.
LEMMA PublishStarts ==
  ASSUME TtsIInv, PublishRequest, ~disturbed'
  PROVE  Undisturbed'
<1>0. call.request \in Requests
  BY TtsFields DEF PublishRequest, TtsIInv
<1>r. PICK r \in Requests : r = call.request
  BY <1>0
<1>1. /\ Quiet /\ ttsRoute.known /\ ttsRoute.open /\ ttsRoute.queue = <<>> /\ call.got = <<>>
  BY DEF PublishRequest, TtsIInv, Undisturbed
<1>2. /\ call'.at = "first" /\ call'.request = r /\ call'.got = call.got
  <2>1. call \in [at : CallPlaces, request : 0..MaxRequests, got : Seq(Reply)]
    BY DEF TtsIInv, TtsTypes, TtsTypeOK, CallPlaces
  <2>2. QED
    BY <1>r, <2>1, CallAssigned DEF PublishRequest, CallPlaces
<1>3. /\ ttsRequests' = <<r>> /\ ttsRoute' = ttsRoute /\ removing' = removing
      /\ tasks' = tasks /\ ttsReplies' = ttsReplies
  BY <1>r, <1>1 DEF PublishRequest, Quiet
<1>4. call'.got = <<>> /\ ttsRoute'.queue = <<>> /\ ttsReplies' = <<>> /\ Len(<<>>) = 0
  BY <1>1, <1>2, <1>3 DEF Quiet
<1>5. InPlace(r)'
  BY <1>4, TtsBounds DEF InPlace, Carries
<1>6. Sent' = 0
  BY <1>4 DEF Sent
<1>7. Alone(r)'
  BY <1>1, <1>3, <1>5, <1>6 DEF Alone, Quiet
<1>8. QED
  BY <1>2, <1>7 DEF Undisturbed

\* The place of a message is the place it has in what was received
\* (synthesize, the stream's unfold).
LEMMA ReceiveInPlace ==
  ASSUME TtsIInv, Receive, ~disturbed'
  PROVE  Undisturbed'
<1>0. call.request \in Requests /\ TtsTypes
  BY TtsFields DEF Receive, TtsIInv
<1>r. PICK r \in Requests : r = call.request
  BY <1>0
<1>1. PICK g, q, p \in Nat :
            /\ g = Len(call.got) /\ q = Len(ttsRoute.queue) /\ p = Len(ttsReplies)
            /\ Sent = g + q + p
            /\ ttsReplies = <<>> <=> p = 0
            /\ ttsRoute.queue = <<>> <=> q = 0
            /\ call.got = <<>> <=> g = 0
  BY <1>0, TtsCounts
<1>2. /\ Alone(r) /\ q # 0 /\ ttsRoute.queue # <<>>
      /\ UNCHANGED <<removing, ttsRequests, tasks, ttsReplies>>
  BY <1>r, <1>1 DEF Receive, TtsIInv, Undisturbed, beyondCall
<1>3. PICK m \in Reply : m = Head(ttsRoute.queue) /\ m = <<r, g + 1>>
  <2>1. Head(ttsRoute.queue) \in RepliesTo(r)[g + 1] /\ Head(ttsRoute.queue) \in Reply
    BY <1>0, <1>1, <1>2, TtsFields, HeadTaken DEF Alone, InPlace
  <2>2. QED
    BY <2>1 DEF RepliesTo
<1>4. tasks[r] \in 0..Done /\ Done = Chunks + 1 /\ Chunks \in Nat
  BY <1>0, TtsFields
<1>5. ttsRequests = <<>> /\ g + q + p = IF tasks[r] = 0 THEN Done ELSE tasks[r] - 1
  <2>1. q # 0 => g + q + p # 0
    OBVIOUS
  <2>2. QED
    BY <1>1, <1>2, <2>1 DEF Alone
<1>6. CASE m[2] = Done
  <2>1. g = Chunks /\ q = 1 /\ p = 0 /\ tasks[r] = 0
    BY <1>2, <1>3, <1>4, <1>5, <1>6
  <2>2. call'.at = "idle" /\ call'.request = r /\ call'.got = call.got
    BY <1>0, <1>r, <1>3, <1>6, Finished DEF Receive, TtsTypes
  <2>3. call.got = Whole(r)
    <3>1. Whole(r) \in Seq(Reply) /\ Len(Whole(r)) = Chunks
      BY <1>4 DEF Whole, Reply
    <3>2. \A i \in 1..Chunks : call.got[i] = Whole(r)[i]
      <4> TAKE i \in 1..Chunks
      <4>1. i \in DOMAIN call.got /\ 0 + i = i /\ i \in Nat
        BY <1>0, <1>1, <1>4, <2>1, TtsFields
      <4>2. call.got[i] \in RepliesTo(r)[0 + i]
        BY <1>2, <4>1 DEF Alone, InPlace, Carries
      <4>3. QED
        BY <4>1, <4>2 DEF RepliesTo, Whole
    <3>3. QED
      BY <1>0, <1>1, <2>1, <3>1, <3>2, TtsFields, SeqEqual
  <2>4. Quiet'
    BY <1>1, <1>2, <1>5, <2>1 DEF Quiet, Alone
  <2>5. r # 0
    BY TtsBounds DEF Requests
  <2>6. QED
    BY <2>2, <2>3, <2>4, <2>5 DEF Undisturbed
<1>7. CASE m[2] # Done
  <2>1. g + 1 <= Chunks
    BY <1>2, <1>3, <1>4, <1>5, <1>7
  <2>2. /\ call'.at = "stream" /\ call'.request = r /\ call'.got = Append(call.got, m)
        /\ ttsRoute'.queue = Tail(ttsRoute.queue)
        /\ ttsRoute'.known = ttsRoute.known /\ ttsRoute'.open = ttsRoute.open
    <3>1. /\ call \in [at : CallPlaces, request : 0..MaxRequests, got : Seq(Reply)]
          /\ ttsRoute \in [known : BOOLEAN, open : BOOLEAN, queue : Seq(Reply)]
      BY <1>0 DEF TtsTypes, TtsTypeOK, CallPlaces
    <3>2. "stream" \in CallPlaces /\ Append(call.got, m) \in Seq(Reply)
      BY <1>0, TtsFields, AppendProperties DEF CallPlaces
    <3>3. Tail(ttsRoute.queue) \in Seq(Reply)
      BY <1>0, <1>2, TtsFields, HeadTailProperties
    <3>4. /\ call' = [call EXCEPT !.at = "stream", !.got = Append(call.got, m)]
          /\ ttsRoute' = [ttsRoute EXCEPT !.queue = Tail(ttsRoute.queue)]
      BY <1>3, <1>7 DEF Receive
    <3>5. /\ call'.at = "stream" /\ call'.request = r /\ call'.got = Append(call.got, m)
      BY <1>r, <3>1, <3>2, <3>4, CallAssigned
    <3>6. QED
      BY <3>1, <3>3, <3>4, <3>5, RouteAssigned
  <2>3. Carries(call'.got, RepliesTo(r), 0) /\ Len(call'.got) = g + 1
    <3>1. m \in RepliesTo(r)[g + 1] /\ g + 1 = 0 + g + 1
      BY <1>1, <1>3 DEF RepliesTo
    <3>2. QED
      BY <1>0, <1>1, <1>2, <2>2, <3>1, TtsFields, LastAdded DEF Alone, InPlace
  <2>4. Carries(ttsRoute'.queue, RepliesTo(r), g + 1) /\ Len(ttsRoute'.queue) = q - 1
    BY <1>0, <1>1, <1>2, <2>2, TtsFields, HeadTaken DEF Alone, InPlace
  <2>5. Len(call'.got) + Len(ttsRoute'.queue) = g + q
    BY <2>3, <2>4
  <2>6. InPlace(r)'
    BY <1>1, <1>2, <2>1, <2>3, <2>4, <2>5 DEF Alone, InPlace
  <2>7. Sent' = Sent
    <3>1. Sent' = (g + 1) + (q - 1) + p
      BY <1>1, <1>2, <2>3, <2>4 DEF Sent
    <3>2. (g + 1) + (q - 1) + p = g + q + p
      OBVIOUS
    <3>3. QED
      BY <1>1, <3>1, <3>2
  <2>8. Alone(r)'
    BY <1>2, <2>2, <2>6, <2>7 DEF Alone
  <2>9. QED
    BY <2>2, <2>8 DEF Undisturbed
<1>8. QED
  BY <1>6, <1>7

\* Only the route of the request takes its replies, and it has room for them
\* (spawn_pump).
LEMMA RouteInPlace ==
  ASSUME TtsIInv, RouteChunk, ~disturbed'
  PROVE  Undisturbed'
<1>0. TtsTypes /\ ~disturbed /\ call' = call /\ ttsReplies # <<>>
  BY DEF RouteChunk, TtsIInv
<1>1. call.at \notin {"idle", "publish"}
  BY <1>0 DEF TtsIInv, Undisturbed, Quiet
<1>2. Alone(call.request) /\ call.request \in Requests
  BY <1>0, <1>1, TtsFields DEF TtsIInv, Undisturbed, CallPlaces
<1>r. PICK r \in Requests : r = call.request
  BY <1>2
<1>3. PICK g, q, p \in Nat :
            /\ g = Len(call.got) /\ q = Len(ttsRoute.queue) /\ p = Len(ttsReplies)
            /\ Sent = g + q + p
            /\ ttsReplies = <<>> <=> p = 0
            /\ ttsRoute.queue = <<>> <=> q = 0
            /\ call.got = <<>> <=> g = 0
  BY <1>0, TtsCounts
<1>4. /\ Alone(r) /\ UNCHANGED <<removing, ttsRequests, tasks>>
      /\ ttsReplies' = Tail(ttsReplies)
      /\ ttsRoute' = [ttsRoute EXCEPT !.queue = Append(@, Head(ttsReplies))]
  BY <1>0, <1>2, <1>r DEF RouteChunk, Alone
<1>h. PICK h \in Nat : h = g + q
  OBVIOUS
<1>5. /\ Head(ttsReplies) \in RepliesTo(r)[h + 1] /\ Head(ttsReplies) \in Reply
      /\ Carries(ttsReplies', RepliesTo(r), h + 1) /\ Len(ttsReplies') = p - 1
  <2>1. Carries(ttsReplies, RepliesTo(r), h) /\ ttsReplies \in Seq(Reply)
    BY <1>0, <1>3, <1>4, <1>h, TtsFields DEF Alone, InPlace
  <2>2. QED
    BY <1>0, <1>3, <1>4, <2>1, HeadTaken
<1>6. /\ ttsRoute'.queue = Append(ttsRoute.queue, Head(ttsReplies))
      /\ ttsRoute'.known = ttsRoute.known /\ ttsRoute'.open = ttsRoute.open
  <2>1. ttsRoute \in [known : BOOLEAN, open : BOOLEAN, queue : Seq(Reply)]
    BY <1>0 DEF TtsTypes, TtsTypeOK
  <2>2. Append(ttsRoute.queue, Head(ttsReplies)) \in Seq(Reply)
    BY <1>0, <1>5, TtsFields, AppendProperties
  <2>3. QED
    BY <1>4, <2>1, <2>2, RouteAssigned
<1>7. Carries(ttsRoute'.queue, RepliesTo(r), g) /\ Len(ttsRoute'.queue) = q + 1
  <2>1. Carries(ttsRoute.queue, RepliesTo(r), g) /\ ttsRoute.queue \in Seq(Reply)
    BY <1>0, <1>3, <1>4, TtsFields DEF Alone, InPlace
  <2>2. PICK j \in Nat : j = h + 1 /\ j = g + q + 1
    BY <1>h
  <2>n. q = Len(ttsRoute.queue)
    BY <1>3
  <2>3. PICK x \in Reply : x = Head(ttsReplies) /\ x \in RepliesTo(r)[j]
    BY <1>5, <2>2
  <2>4. /\ Carries(Append(ttsRoute.queue, x), RepliesTo(r), g)
        /\ Len(Append(ttsRoute.queue, x)) = Len(ttsRoute.queue) + 1
    BY <2>1, <2>2, <2>3, <2>n, LastAdded
  <2>5. QED
    BY <1>3, <1>6, <2>3, <2>4
<1>8. InPlace(r)'
  <2>1. Len(call'.got) + Len(ttsRoute'.queue) = h + 1
    <3>1. Len(call'.got) = g
      BY <1>0, <1>3
    <3>2. g + (q + 1) = h + 1
      BY <1>h
    <3>3. QED
      BY <1>7, <3>1, <3>2
  <2>2. QED
    BY <1>0, <1>3, <1>4, <1>5, <1>7, <2>1 DEF Alone, InPlace
<1>9. Sent' = Sent
  <2>1. Sent' = g + (q + 1) + (p - 1)
    BY <1>0, <1>3, <1>5, <1>7 DEF Sent
  <2>2. g + (q + 1) + (p - 1) = g + q + p
    OBVIOUS
  <2>3. QED
    BY <1>3, <2>1, <2>2
<1>10. Alone(r)'
  BY <1>4, <1>6, <1>8, <1>9 DEF Alone
<1>11. QED
  BY <1>0, <1>1, <1>r, <1>10 DEF Undisturbed

\* The worker takes the one request there is, and its task starts at the first
\* chunk (serve).
LEMMA RequestInPlace ==
  ASSUME TtsIInv, HandleRequest, ~disturbed'
  PROVE  Undisturbed'
<1>0. TtsTypes /\ ~disturbed /\ call' = call /\ ttsRequests # <<>>
  BY DEF HandleRequest, Synthesize, TtsIInv
<1>1. call.at \notin {"idle", "publish"}
  BY <1>0 DEF TtsIInv, Undisturbed, Quiet
<1>2. Alone(call.request) /\ call.request \in Requests
  BY <1>0, <1>1, TtsFields DEF TtsIInv, Undisturbed, CallPlaces
<1>r. PICK r \in Requests : r = call.request
  BY <1>2
<1>3. /\ Alone(r) /\ ttsRequests = <<r>> /\ tasks[r] = 0 /\ Sent = 0
      /\ UNCHANGED <<removing, ttsRoute, ttsReplies>>
      /\ ttsRequests' = <<>> /\ tasks' = [tasks EXCEPT ![r] = 1]
  BY <1>0, <1>2, <1>r DEF HandleRequest, Synthesize, Alone
<1>4. InPlace(r)' /\ Sent' = 0
  BY <1>0, <1>3 DEF InPlace, Sent, Alone
<1>5. /\ tasks'[r] = 1 /\ \A s \in Requests : s # r => tasks'[s] = 0
  BY <1>0, <1>3, TtsFields DEF Alone
<1>6. Alone(r)'
  BY <1>3, <1>4, <1>5 DEF Alone
<1>7. QED
  BY <1>0, <1>1, <1>r, <1>6 DEF Undisturbed

\* A reply is published behind the ones before it (handle_request).
LEMMA ReplyInPlace ==
  ASSUME TtsIInv, NEW s \in Requests, PublishReply(s), ~disturbed'
  PROVE  Undisturbed'
<1>0. /\ TtsTypes /\ ~disturbed /\ tasks[s] # 0
      /\ UNCHANGED <<call, ttsRoute, removing, ttsRequests>>
  BY DEF PublishReply, TtsIInv
<1>1. call.at \notin {"idle", "publish"}
  BY <1>0 DEF TtsIInv, Undisturbed, Quiet
<1>2. Alone(call.request) /\ s = call.request
  BY <1>0, <1>1, TtsFields DEF TtsIInv, Undisturbed, CallPlaces, Alone
<1>3. PICK g, q, p \in Nat :
            /\ g = Len(call.got) /\ q = Len(ttsRoute.queue) /\ p = Len(ttsReplies)
            /\ Sent = g + q + p
            /\ ttsReplies = <<>> <=> p = 0
            /\ ttsRoute.queue = <<>> <=> q = 0
            /\ call.got = <<>> <=> g = 0
  BY <1>0, TtsCounts
<1>4. PICK k \in 1..Done : /\ k = tasks[s] /\ <<s, k>> \in Reply
                           /\ g + q + p = k - 1
  <2>1. tasks[s] \in 1..Done /\ <<s, tasks[s]>> \in Reply
    BY <1>0, TtsFields DEF Reply
  <2>2. ttsRequests = <<>> /\ Sent = tasks[s] - 1
    BY <1>0, <1>2 DEF Alone
  <2>3. QED
    BY <1>3, <2>1, <2>2
<1>5. /\ ttsReplies' = Append(ttsReplies, <<s, k>>)
      /\ tasks' = [tasks EXCEPT ![s] = IF k = Done THEN 0 ELSE k + 1]
      /\ ttsRequests = <<>> /\ Alone(s)
  BY <1>0, <1>2, <1>4 DEF PublishReply, Alone
<1>6. Carries(ttsReplies', RepliesTo(s), g + q) /\ Len(ttsReplies') = p + 1
  <2>h. PICK h \in Nat : h = g + q
    OBVIOUS
  <2>1. k = h + p + 1 /\ k \in Nat
    BY <1>4, <2>h, TtsBounds
  <2>2. <<s, k>> \in RepliesTo(s)[k] /\ k = h + p + 1
    BY <1>3, <2>1 DEF RepliesTo
  <2>3. Carries(ttsReplies, RepliesTo(s), h) /\ ttsReplies \in Seq(Reply)
    BY <1>0, <1>3, <1>5, <2>h, TtsFields DEF Alone, InPlace
  <2>4. PICK x \in Reply : x = <<s, k>> /\ x \in RepliesTo(s)[k]
    BY <1>4, <2>2
  <2>n. p = Len(ttsReplies) /\ k \in Nat
    BY <1>3, <2>1
  <2>5. /\ Carries(Append(ttsReplies, x), RepliesTo(s), h)
        /\ Len(Append(ttsReplies, x)) = Len(ttsReplies) + 1
    BY <2>2, <2>3, <2>4, <2>n, LastAdded
  <2>6. QED
    BY <1>3, <1>5, <2>h, <2>4, <2>5
<1>7. InPlace(s)'
  BY <1>0, <1>3, <1>5, <1>6 DEF Alone, InPlace
<1>8. Sent' = k
  <2>1. Sent' = g + q + (p + 1)
    BY <1>0, <1>3, <1>6 DEF Sent
  <2>2. g + q + (p + 1) = k
    BY <1>4, TtsBounds
  <2>3. QED
    BY <2>1, <2>2
<1>9. Sent' = IF tasks'[s] = 0 THEN Done ELSE tasks'[s] - 1
  <2>1. tasks'[s] = IF k = Done THEN 0 ELSE k + 1
    BY <1>0, <1>5, TtsFields
  <2>2. QED
    BY <1>8, <2>1, TtsBounds
<1>10. \A t \in Requests : t # s => tasks'[t] = 0
  BY <1>0, <1>5, TtsFields DEF Alone
<1>11. Alone(s)'
  BY <1>0, <1>5, <1>7, <1>9, <1>10 DEF Alone
<1>12. QED
  BY <1>0, <1>1, <1>2, <1>11 DEF Undisturbed

\* The invariant of the synthesis holds at the start.
LEMMA TtsStarts == TtsInit => TtsIInv
<1> SUFFICES ASSUME TtsInit
             PROVE  TtsIInv
  OBVIOUS
<1>1. TtsTypes
  <2>1. /\ call \in [at : {"idle", "publish", "first", "stream"}, request : 0..MaxRequests,
                     got : Seq(Reply)]
        /\ call.at = "idle"
    BY TtsBounds DEF TtsInit
  <2>2. /\ ttsRoute \in [known : BOOLEAN, open : BOOLEAN, queue : Seq(Reply)]
        /\ ttsRoute.queue = <<>> /\ Len(<<>>) = 0
    BY DEF TtsInit
  <2>3. {removing, ttsWedged, disturbed} \subseteq BOOLEAN
    BY DEF TtsInit
  <2>e. ttsRequests \in Seq(Requests) /\ ttsReplies \in Seq(Reply)
    BY DEF TtsInit
  <2>4. tasks \in [Requests -> 0..Done] /\ ttsLosses \in 0..MaxTtsLosses
    BY TtsBounds DEF TtsInit
  <2>5. QED
    BY <2>1, <2>2, <2>3, <2>e, <2>4, TtsBounds DEF TtsTypes, TtsTypeOK
<1>2. Undisturbed
  BY DEF TtsInit, Undisturbed, Quiet
<1>3. QED
  BY <1>1, <1>2 DEF TtsIInv

\* Whatever the client, the worker and the broker do, what an undisturbed
\* request has sent stays in its place.
THEOREM TtsInductive == TtsIInv /\ [TtsNext]_ttsVars => TtsIInv'
<1> SUFFICES ASSUME TtsIInv, [TtsNext]_ttsVars
             PROVE  TtsIInv'
  OBVIOUS
<1>1. TtsTypes'
  BY TtsTyped DEF TtsIInv
<1> SUFFICES ASSUME ~disturbed'
             PROVE  Undisturbed'
  BY <1>1 DEF TtsIInv
<1>2. CASE Call
  BY <1>2, CallStarts
<1>3. CASE PublishRequest
  BY <1>3, PublishStarts
<1>4. CASE Receive
  BY <1>4, ReceiveInPlace
<1>5. CASE RouteChunk
  BY <1>5, RouteInPlace
<1>6. CASE RemoveRoute
  BY <1>6, TtsFields DEF RemoveRoute, TtsIInv, Undisturbed, Quiet, Alone, CallPlaces
<1>7. CASE HandleRequest
  BY <1>7, RequestInPlace
<1>8. ASSUME NEW r \in Requests, PublishReply(r) PROVE Undisturbed'
  BY <1>8, ReplyInPlace
<1>9. CASE Timeout \/ Abandon \/ ReceiveClosed \/ LoseSpeech
  BY <1>9 DEF Timeout, Abandon, ReceiveClosed, LoseSpeech
<1>10. CASE TtsClientWedges \/ UNCHANGED ttsVars
  <2>1. UNCHANGED <<call, ttsRoute, removing, ttsRequests, tasks, ttsReplies, disturbed>>
    BY <1>10 DEF TtsClientWedges, ttsVars
  <2>2. QED
    BY <2>1 DEF TtsIInv, Undisturbed, Quiet, Alone, InPlace, Sent
<1>11. QED
  BY <1>2, <1>3, <1>4, <1>5, <1>6, <1>7, <1>8, <1>9, <1>10 DEF TtsNext

\* What an undisturbed call has got is the beginning of its sentence's audio.
LEMMA GotIsBeginning == TtsIInv => UndisturbedSentenceIsWhole
<1> SUFFICES ASSUME TtsIInv, ~disturbed
             PROVE  /\ call.at = "idle" /\ call.request # 0 => call.got = Whole(call.request)
                    /\ \E n \in 0..Chunks : call.got = SubSeq(Whole(call.request), 1, n)
  BY DEF UndisturbedSentenceIsWhole
<1>0. TtsTypes /\ Undisturbed
  BY DEF TtsIInv
<1>1. call.at = "idle" /\ call.request # 0 => call.got = Whole(call.request)
  BY <1>0 DEF Undisturbed
<1>2. PICK r \in 0..MaxRequests, g \in Nat : r = call.request /\ g = Len(call.got)
  BY <1>0, TtsFields
<1>3. /\ Len(Whole(r)) = Chunks /\ Chunks \in Nat /\ Whole(r) \in Seq({r} \X (1..Chunks))
      /\ \A i \in 1..Chunks : Whole(r)[i] = <<r, i>>
  BY TtsBounds DEF Whole
<1>4. g <= Chunks /\ \A i \in 1..g : call.got[i] = <<r, i>>
  <2>1. CASE call.got = <<>>
    BY <1>2, <1>3, <2>1
  <2>2. CASE call.got = Whole(r)
    BY <1>2, <1>3, <2>2
  <2>3. CASE Alone(r)
    <3>1. \A i \in 1..g : i \in DOMAIN call.got /\ 0 + i = i /\ i \in Nat
      BY <1>0, <1>2, TtsFields
    <3>2. \A i \in 1..g : call.got[i] \in RepliesTo(r)[0 + i]
      BY <2>3, <3>1 DEF Alone, InPlace, Carries
    <3>3. QED
      BY <1>2, <2>3, <3>1, <3>2 DEF Alone, InPlace, RepliesTo
  <2>4. QED
    BY <1>0, <1>1, <1>2, <2>1, <2>2, <2>3, TtsFields DEF Undisturbed, CallPlaces
<1>5. call.got = SubSeq(Whole(r), 1, g)
  <2>1. /\ SubSeq(Whole(r), 1, g) \in Seq({r} \X (1..Chunks)) /\ Len(SubSeq(Whole(r), 1, g)) = g
        /\ \A i \in 1..g : SubSeq(Whole(r), 1, g)[i] = <<r, i>>
    BY <1>3, <1>4
  <2>2. call.got \in Seq(Reply) /\ DOMAIN call.got = 1..g
    BY <1>0, <1>2, TtsFields
  <2>3. call.got = [i \in 1..g |-> call.got[i]] /\ SubSeq(Whole(r), 1, g) = [i \in 1..g |-> SubSeq(Whole(r), 1, g)[i]]
    BY <2>1, <2>2
  <2>4. QED
    BY <1>4, <2>1, <2>3
<1>6. QED
  BY <1>1, <1>2, <1>4, <1>5

-----------------------------------------------------------------------------
(* The streamed answer: e lines are decoded, and the buffer is what has    *)
(* arrived since; it starts a line, so that its first newline ends that.   *)

Piece == [token : BOOLEAN, ends : BOOLEAN, at : Nat]
Positive == Nat \ {0}

\* Line p of a body stands at place 2p - 1, its newline behind it.
BodyShape ==
    /\ body \in Seq(Piece)
    /\ \A p \in Positive : /\ 2 * p <= Len(body) => body[2 * p] = Newline
                           /\ 2 * p - 1 <= Len(body) => body[2 * p - 1].at = p

Buffered(e) ==
    /\ buf \in Seq(Piece) /\ arrived \in 0..Len(body) /\ arrived = Len(buf) + 2 * e
    /\ \A i \in 1..Len(buf) : buf[i] = body[2 * e + i]

Yields(p) == \E k \in DOMAIN yielded : yielded[k] = p

YieldedOf(e) ==
    /\ yielded \in Seq(Positive)
    /\ \A k, l \in DOMAIN yielded : k < l => yielded[k] < yielded[l]
    /\ \A p \in Positive : Yields(p) <=> p <= e /\ body[2 * p - 1].token

\* Only the last decoded line may have ended the answer.
EndedAfter(e) ==
    /\ stream \in {"request", "open", "over", "failed"}
    /\ \A p \in Positive : p < e => ~body[2 * p - 1].ends
    /\ stream # "over" => \A p \in Positive : p <= e => ~body[2 * p - 1].ends
    /\ stream = "over" => Len(buf) <= 1 \/ (e > 0 /\ body[2 * e - 1].ends)

\* Nothing is said after the end, and no failure ends without a word before.
SaidSoFar ==
    /\ said \in Seq({"token", "apology", "end"})
    /\ "end" \in Range(said) => /\ stream \in {"over", "failed"}
                                /\ stream = "failed" => Len(said) > 1

StreamIInv ==
    /\ BodyShape /\ SaidSoFar
    /\ \E e \in Nat : Buffered(e) /\ YieldedOf(e) /\ EndedAfter(e)

\* A body is lines and newlines in turn (the servers' formats).
LEMMA BodiesAreShaped ==
  ASSUME StreamInit
  PROVE  BodyShape
<1>1. PICK ls \in BoundedSeq(Lines(server), MaxLines), t \in BOOLEAN : body = Body(ls, t)
  BY DEF StreamInit
<1>2. /\ ls \in Seq(Piece) /\ Len(ls) \in Nat
      /\ \A i \in 1..Len(ls) : ls[i] \in Piece
  <2>1. \A token, ends \in BOOLEAN : Line(token, ends) \in Piece
    BY DEF Line, Piece
  <2>2. Lines(server) \subseteq Piece
    BY <2>1 DEF Lines
  <2>3. PICK m \in 0..MaxLines : ls \in [1..m -> Lines(server)]
    BY DEF BoundedSeq, SeqOf
  <2>4. m \in Nat /\ ls \in [1..m -> Piece]
    BY <2>2, <2>3, StreamAssumption
  <2>5. QED
    BY <2>4
<1>n. PICK c \in Nat : c = Len(ls)
  BY <1>2
<1>3. PICK n \in Nat : /\ n = c + (IF t \/ ls = <<>> THEN c ELSE c - 1)
                       /\ n <= 2 * c
  <2>1. ls # <<>> => c > 0
    BY <1>2, <1>n
  <2>2. CASE t \/ ls = <<>>
    BY <2>2
  <2>3. CASE ~(t \/ ls = <<>>)
    BY <2>1, <2>3
  <2>4. QED
    BY <2>2, <2>3
<1>4. body = [i \in 1..n |-> IF i % 2 = 0 THEN Newline
                             ELSE [ls[(i + 1) \div 2] EXCEPT !.at = (i + 1) \div 2]]
  BY <1>1, <1>n, <1>3 DEF Body
<1>5. ASSUME NEW i \in 1..n
      PROVE  body[i] \in Piece
  <2>1. CASE i % 2 = 0
    BY <1>4, <2>1 DEF Newline, Piece
  <2>2. CASE i % 2 # 0
    <3>1. (i + 1) \div 2 \in 1..c /\ (i + 1) \div 2 \in Nat
      BY <1>3, <2>2
    <3>2. ls[(i + 1) \div 2] \in Piece
      BY <1>2, <1>n, <3>1
    <3>3. QED
      BY <1>4, <2>2, <3>1, <3>2 DEF Piece
  <2>3. QED
    BY <2>1, <2>2
<1>6. body \in Seq(Piece) /\ Len(body) = n
  <2>1. body \in [1..n -> Piece]
    BY <1>4, <1>5
  <2>2. QED
    BY <2>1
<1>7. ASSUME NEW p \in Positive, 2 * p <= n
      PROVE  body[2 * p] = Newline
  <2>1. 2 * p \in 1..n /\ (2 * p) % 2 = 0
    BY <1>7 DEF Positive
  <2>2. QED
    BY <1>4, <2>1
<1>8. ASSUME NEW p \in Positive, 2 * p - 1 <= n
      PROVE  body[2 * p - 1].at = p
  <2>1. /\ 2 * p - 1 \in 1..n /\ (2 * p - 1) % 2 # 0 /\ (2 * p - 1 + 1) \div 2 = p
        /\ p \in 1..c
    BY <1>3, <1>8 DEF Positive
  <2>2. body[2 * p - 1] = [ls[p] EXCEPT !.at = p] /\ ls[p] \in Piece
    BY <1>2, <1>n, <1>4, <2>1
  <2>3. QED
    BY <2>2 DEF Piece
<1>9. QED
  BY <1>6, <1>7, <1>8 DEF BodyShape

\* The invariant of the decoder holds at the start.
LEMMA StreamStarts == StreamInit => StreamIInv
<1> SUFFICES ASSUME StreamInit
             PROVE  StreamIInv
  OBVIOUS
<1>1. BodyShape
  BY BodiesAreShaped
<1>2. /\ buf = <<>> /\ arrived = 0 /\ yielded = <<>> /\ said = <<>> /\ stream = "request"
      /\ Len(body) \in Nat
  BY <1>1 DEF StreamInit, BodyShape
<1>3. Buffered(0) /\ YieldedOf(0) /\ EndedAfter(0)
  BY <1>2 DEF Buffered, YieldedOf, EndedAfter, Yields, Positive
<1>4. SaidSoFar
  BY <1>2 DEF SaidSoFar, Range
<1>5. QED
  BY <1>1, <1>3, <1>4 DEF StreamIInv

\* A newline of the buffer is its second item, behind the line that started it.
LEMMA FirstNewline ==
  ASSUME BodyShape, NEW e \in Nat, Buffered(e)
  PROVE  /\ Len(buf) \in Nat /\ Len(body) \in Nat /\ arrived \in Nat
         /\ Newlines = {} <=> Len(buf) <= 1
         /\ Newlines # {} => /\ 2 \in Newlines /\ 1 \notin Newlines
                             /\ 2 * (e + 1) <= arrived
         /\ Newlines \subseteq 1..Len(buf)
<1>1. /\ Len(buf) \in Nat /\ Len(body) \in Nat /\ arrived \in Nat /\ arrived <= Len(body)
      /\ DOMAIN buf = 1..Len(buf) /\ arrived = Len(buf) + 2 * e
      /\ \A i \in 1..Len(buf) : buf[i] = body[2 * e + i]
  BY DEF BodyShape, Buffered
<1>2. Newlines \subseteq 1..Len(buf)
  BY <1>1 DEF Newlines
<1>3. 1 \notin Newlines
  <2> SUFFICES ASSUME 1 \in 1..Len(buf)
               PROVE  buf[1] # Newline
    BY <1>1 DEF Newlines
  <2>1. e + 1 \in Positive /\ 2 * (e + 1) - 1 <= Len(body) /\ 2 * (e + 1) - 1 = 2 * e + 1
    BY <1>1 DEF Positive
  <2>2. body[2 * e + 1].at = e + 1
    BY <2>1 DEF BodyShape
  <2>3. Newline.at = 0
    BY DEF Newline
  <2>4. QED
    BY <1>1, <2>2, <2>3
<1>4. Len(buf) >= 2 => 2 \in Newlines
  <2> SUFFICES ASSUME Len(buf) >= 2
               PROVE  2 \in Newlines
    OBVIOUS
  <2>1. e + 1 \in Positive /\ 2 * (e + 1) <= Len(body) /\ 2 * (e + 1) = 2 * e + 2 /\ 2 \in 1..Len(buf)
    BY <1>1 DEF Positive
  <2>2. body[2 * e + 2] = Newline
    BY <2>1 DEF BodyShape
  <2>3. QED
    BY <1>1, <2>1, <2>2 DEF Newlines
<1>5. Newlines # {} => Len(buf) >= 2
  <2> SUFFICES ASSUME NEW n \in Newlines
               PROVE  Len(buf) >= 2
    OBVIOUS
  <2>1. n \in 1..Len(buf) /\ n # 1
    BY <1>2, <1>3
  <2>2. QED
    BY <1>1, <2>1
<1>6. QED
  BY <1>1, <1>2, <1>3, <1>4, <1>5

\* What arrives goes behind what is buffered (push_str, extend_from_slice).
LEMMA ChunkKeeps ==
  ASSUME BodyShape, NEW e \in Nat, Buffered(e), Chunk
  PROVE  Buffered(e)'
<1>1. PICK n \in arrived + 1 .. Len(body) :
         buf' = buf \o SubSeq(body, arrived + 1, n) /\ arrived' = n
  BY DEF Chunk
<1>2. /\ Len(buf) \in Nat /\ Len(body) \in Nat /\ arrived \in Nat /\ body' = body
      /\ buf \in Seq(Piece) /\ body \in Seq(Piece) /\ arrived = Len(buf) + 2 * e
      /\ \A i \in 1..Len(buf) : buf[i] = body[2 * e + i]
  BY FirstNewline DEF Chunk, BodyShape, Buffered
<1>3. PICK b \in Nat, a \in Nat : b = Len(buf) /\ a = arrived /\ a = b + 2 * e
  BY <1>2
<1>4. /\ SubSeq(body, a + 1, n) \in Seq(Piece) /\ Len(SubSeq(body, a + 1, n)) = n - a
      /\ \A i \in 1..(n - a) : SubSeq(body, a + 1, n)[i] = body[a + i]
  BY <1>2, <1>3
<1>5. /\ buf' \in Seq(Piece) /\ Len(buf') = b + (n - a)
      /\ \A i \in 1..(b + (n - a)) :
            buf'[i] = IF i <= b THEN buf[i] ELSE SubSeq(body, a + 1, n)[i - b]
  BY <1>1, <1>2, <1>3, <1>4, ConcatProperties
<1>6. n \in Nat /\ a < n /\ b + (n - a) = n - 2 * e
  BY <1>1, <1>2, <1>3
<1>7. ASSUME NEW i \in 1..(b + (n - a))
      PROVE  buf'[i] = body[2 * e + i]
  <2>1. CASE i <= b
    BY <1>2, <1>3, <1>5, <2>1
  <2>2. CASE i > b
    <3>1. i - b \in 1..(n - a) /\ a + (i - b) = 2 * e + i
      BY <1>3, <1>6, <2>2
    <3>2. QED
      BY <1>4, <1>5, <2>2, <3>1
  <2>3. QED
    BY <1>3, <2>1, <2>2
<1>8. arrived' \in 0..Len(body) /\ arrived' = Len(buf') + 2 * e
  BY <1>1, <1>2, <1>3, <1>5, <1>6
<1>9. QED
  BY <1>2, <1>5, <1>7, <1>8 DEF Buffered

\* A whole line is taken with its newline, and its token is the next one
\* (decode_ndjson_tokens, decode_sse_tokens).
LEMMA DecodeKeeps ==
  ASSUME BodyShape, NEW e \in Nat, Buffered(e), YieldedOf(e), EndedAfter(e), Decode
  PROVE  Buffered(e + 1)' /\ YieldedOf(e + 1)' /\ EndedAfter(e + 1)'
<1>1. PICK n \in Newlines : (\A m \in Newlines : n <= m) /\ buf' = SubSeq(buf, n + 1, Len(buf))
  BY DEF Decode
<1>2. /\ Len(buf) \in Nat /\ Len(body) \in Nat /\ arrived \in Nat
      /\ body' = body /\ arrived' = arrived /\ said' = said /\ stream = "open"
      /\ buf \in Seq(Piece) /\ body \in Seq(Piece) /\ arrived = Len(buf) + 2 * e
      /\ \A i \in 1..Len(buf) : buf[i] = body[2 * e + i]
  BY FirstNewline DEF Decode, BodyShape, Buffered
<1>3. n = 2 /\ 2 * (e + 1) <= arrived /\ Len(buf) >= 2
  <2>1. 2 \in Newlines /\ 1 \notin Newlines /\ Newlines \subseteq 1..Len(buf) /\ 2 * (e + 1) <= arrived
    BY FirstNewline
  <2>2. n <= 2 /\ n # 1 /\ n \in 1..Len(buf)
    BY <1>1, <2>1
  <2>3. QED
    BY <1>2, <2>1, <2>2
<1>4. PICK b \in Nat : b = Len(buf) /\ b >= 2 /\ arrived = b + 2 * e
  BY <1>2, <1>3
<1>5. /\ buf' \in Seq(Piece) /\ Len(buf') = b - 2
      /\ \A i \in 1..(b - 2) : buf'[i] = buf[i + 2]
  BY <1>1, <1>2, <1>3, <1>4
<1>6. Buffered(e + 1)'
  <2>1. \A i \in 1..(b - 2) : buf'[i] = body[2 * (e + 1) + i]
    <3> TAKE i \in 1..(b - 2)
    <3>1. i + 2 \in 1..b /\ 2 * e + (i + 2) = 2 * (e + 1) + i
      BY <1>4
    <3>2. QED
      BY <1>2, <1>4, <1>5, <3>1
  <2>2. arrived = (b - 2) + 2 * (e + 1)
    BY <1>4
  <2>3. QED
    BY <1>2, <1>5, <2>1, <2>2 DEF Buffered
<1>7. PICK line \in Piece : /\ line = buf[1] /\ line = body[2 * (e + 1) - 1] /\ line.at = e + 1
  <2>1. 1 \in 1..b /\ 2 * e + 1 = 2 * (e + 1) - 1 /\ 2 * (e + 1) - 1 <= Len(body) /\ e + 1 \in Positive
    BY <1>2, <1>3, <1>4 DEF Positive, Buffered
  <2>2. buf[1] = body[2 * (e + 1) - 1] /\ buf[1] \in Piece
    BY <1>2, <1>4, <2>1
  <2>3. body[2 * (e + 1) - 1].at = e + 1
    BY <2>1 DEF BodyShape
  <2>4. QED
    BY <2>2, <2>3
<1>8. /\ yielded' = IF line.token THEN Append(yielded, e + 1) ELSE yielded
      /\ stream' = IF line.ends THEN "over" ELSE stream
  BY <1>7 DEF Decode
<1>9. YieldedOf(e + 1)'
  <2>0. /\ yielded \in Seq(Positive) /\ DOMAIN yielded = 1..Len(yielded) /\ Len(yielded) \in Nat
        /\ e + 1 \in Positive
        /\ \A k \in DOMAIN yielded : yielded[k] \in Positive /\ yielded[k] <= e
    <3>1. yielded \in Seq(Positive) /\ e + 1 \in Positive
      BY DEF YieldedOf, Positive
    <3>2. QED
      BY <3>1 DEF YieldedOf, Yields
  <2>s. \A p \in Positive : p <= e + 1 /\ body[2 * p - 1].token
                               <=> Yields(p) \/ (p = e + 1 /\ line.token)
    <3> TAKE p \in Positive
    <3>1. p <= e + 1 <=> p <= e \/ p = e + 1
      BY DEF Positive
    <3>2. p = e + 1 => ~(p <= e) /\ body[2 * p - 1] = line
      BY <1>7
    <3>3. Yields(p) <=> p <= e /\ body[2 * p - 1].token
      BY DEF YieldedOf
    <3>4. CASE p = e + 1
      <4>1. body[2 * p - 1].token <=> line.token
        BY <3>2, <3>4
      <4>2. QED
        BY <3>1, <3>2, <3>3, <3>4, <4>1
    <3>5. CASE p # e + 1
      BY <3>1, <3>3, <3>5
    <3>6. QED
      BY <3>4, <3>5
  <2>1. CASE line.token
    <3>1. /\ yielded' \in Seq(Positive) /\ DOMAIN yielded' = 1..(Len(yielded) + 1)
          /\ \A k \in 1..Len(yielded) : yielded'[k] = yielded[k]
          /\ yielded'[Len(yielded) + 1] = e + 1
      BY <1>8, <2>0, <2>1
    <3>2. \A k, l \in DOMAIN yielded' : k < l => yielded'[k] < yielded'[l]
      <4> TAKE k, l \in DOMAIN yielded'
      <4> HAVE k < l
      <4>1. k \in DOMAIN yielded /\ yielded'[k] = yielded[k] /\ yielded[k] <= e /\ yielded[k] \in Nat
        BY <2>0, <3>1 DEF Positive
      <4>2. CASE l = Len(yielded) + 1
        BY <3>1, <4>1, <4>2
      <4>3. CASE l # Len(yielded) + 1
        BY <2>0, <3>1, <4>3 DEF YieldedOf
      <4>4. QED
        BY <4>2, <4>3
    <3>3. \A p \in Positive : Yields(p)' <=> Yields(p) \/ p = e + 1
      BY <2>0, <3>1 DEF Yields
    <3>4. \A p \in Positive : Yields(p)' <=> p <= e + 1 /\ body[2 * p - 1].token
      BY <2>1, <2>s, <3>3
    <3>5. QED
      BY <1>2, <3>1, <3>2, <3>4 DEF YieldedOf
  <2>2. CASE ~line.token
    <3>1. yielded' = yielded
      BY <1>8, <2>2
    <3>2. \A p \in Positive : Yields(p)' <=> p <= e + 1 /\ body[2 * p - 1].token
      <4>1. \A p \in Positive : Yields(p)' <=> Yields(p)
        BY <3>1 DEF Yields
      <4>2. QED
        BY <2>2, <2>s, <4>1
    <3>3. QED
      BY <1>2, <3>1, <3>2 DEF YieldedOf
  <2>3. QED
    BY <2>1, <2>2
<1>10. EndedAfter(e + 1)'
  <2>1. \A p \in Positive : p < e + 1 => ~body[2 * p - 1].ends
    BY <1>2 DEF EndedAfter, Positive
  <2>2. ~line.ends => \A p \in Positive : p <= e + 1 => ~body[2 * p - 1].ends
    BY <1>7, <2>1 DEF Positive
  <2>3. QED
    BY <1>2, <1>7, <1>8, <2>1, <2>2 DEF EndedAfter
<1>11. QED
  BY <1>6, <1>9, <1>10

\* The stage ends a failed answer with an apology before the end (spawn_llm).
LEMMA SpeakKeeps ==
  ASSUME SaidSoFar, Speak
  PROVE  SaidSoFar'
<1> DEFINE Word == {"token", "apology", "end"}
<1>1. said \in Seq(Word) /\ "end" \notin Range(said) /\ stream' = stream /\ Len(said) \in Nat
      /\ DOMAIN said = 1..Len(said)
  BY DEF SaidSoFar, Speak
<1>2. CASE said' = Append(said, "token")
  <2>1. /\ said' \in Seq(Word) /\ DOMAIN said' = 1..(Len(said) + 1)
        /\ \A i \in 1..Len(said) : said'[i] = said[i]
        /\ said'[Len(said) + 1] = "token"
    BY <1>1, <1>2
  <2>2. "end" \notin Range(said')
    BY <1>1, <2>1 DEF Range
  <2>3. QED
    BY <2>1, <2>2 DEF SaidSoFar
<1>3. CASE /\ stream \in {"over", "failed"}
           /\ said' = said \o (IF stream = "failed" /\ said = <<>>
                               THEN <<"apology">> ELSE <<>>) \o <<"end">>
  <2>1. CASE stream = "failed" /\ said = <<>>
    <3>1. said' = (<<>> \o <<"apology">>) \o <<"end">>
      BY <1>3, <2>1
    <3>2. said' \in Seq(Word) /\ Len(said') = 2
      BY <3>1
    <3>3. QED
      BY <1>1, <1>3, <3>2 DEF SaidSoFar
  <2>2. CASE ~(stream = "failed" /\ said = <<>>)
    <3>1. said' = said \o <<"end">>
      <4>1. said' = (said \o <<>>) \o <<"end">>
        BY <1>3, <2>2
      <4>2. QED
        BY <1>1, <4>1, ConcatEmptySeq
    <3>2. said' \in Seq(Word) /\ Len(said') = Len(said) + 1
      BY <1>1, <3>1
    <3>3. stream = "failed" => Len(said) > 0
      BY <1>1, <2>2
    <3>4. QED
      BY <1>1, <1>3, <3>2, <3>3 DEF SaidSoFar
  <2>3. QED
    BY <2>1, <2>2
<1>4. QED
  BY <1>2, <1>3 DEF Speak

\* Every step of server, decoder and LLM stage keeps the stream one body.
THEOREM StreamInductive == StreamIInv /\ [StreamNext]_streamVars => StreamIInv'
<1> SUFFICES ASSUME StreamIInv, [StreamNext]_streamVars
             PROVE  StreamIInv'
  OBVIOUS
<1>1. PICK e \in Nat : Buffered(e) /\ YieldedOf(e) /\ EndedAfter(e)
  BY DEF StreamIInv
<1>2. BodyShape /\ SaidSoFar
  BY DEF StreamIInv
<1>3. BodyShape'
  BY <1>2 DEF StreamNext, Connect, Chunk, Decode, CloseBody, Speak, streamVars, BodyShape
<1>4. CASE Connect
  <2>1. Buffered(e)' /\ YieldedOf(e)' /\ SaidSoFar'
    BY <1>1, <1>2, <1>4 DEF Connect, Buffered, YieldedOf, Yields, SaidSoFar
  <2>2. EndedAfter(e)'
    BY <1>1, <1>4 DEF Connect, EndedAfter
  <2>3. QED
    BY <1>3, <2>1, <2>2 DEF StreamIInv
<1>5. CASE Chunk
  <2>1. Buffered(e)'
    BY <1>1, <1>2, <1>5, ChunkKeeps
  <2>2. YieldedOf(e)' /\ SaidSoFar'
    BY <1>1, <1>2, <1>5 DEF Chunk, YieldedOf, Yields, SaidSoFar
  <2>3. EndedAfter(e)'
    BY <1>1, <1>5 DEF Chunk, EndedAfter
  <2>4. QED
    BY <1>3, <2>1, <2>2, <2>3 DEF StreamIInv
<1>6. CASE Decode
  <2>1. Buffered(e + 1)' /\ YieldedOf(e + 1)' /\ EndedAfter(e + 1)'
    BY <1>1, <1>2, <1>6, DecodeKeeps
  <2>2. SaidSoFar'
    BY <1>2, <1>6 DEF Decode, SaidSoFar
  <2>3. e + 1 \in Nat
    OBVIOUS
  <2>4. QED
    BY <1>3, <2>1, <2>2, <2>3 DEF StreamIInv
<1>7. CASE CloseBody
  <2>1. Buffered(e)' /\ YieldedOf(e)' /\ SaidSoFar'
    BY <1>1, <1>2, <1>7 DEF CloseBody, Buffered, YieldedOf, Yields, SaidSoFar
  <2>2. Len(buf) <= 1
    BY <1>1, <1>2, <1>7, FirstNewline DEF CloseBody
  <2>3. EndedAfter(e)'
    <3>1. stream = "open" /\ stream' \in {"over", "failed"} /\ buf' = buf /\ body' = body
      BY <1>7 DEF CloseBody
    <3>2. \A p \in Positive : p <= e => ~body[2 * p - 1].ends
      BY <1>1, <3>1 DEF EndedAfter
    <3>3. \A p \in Positive : p < e => p <= e
      BY DEF Positive
    <3>4. QED
      <4>1. \A p \in Positive : p <= e => ~body'[2 * p - 1].ends
        BY <3>1, <3>2
      <4>2. \A p \in Positive : p < e => ~body'[2 * p - 1].ends
        BY <3>3, <4>1
      <4>3. Len(buf') <= 1 /\ stream' \in {"request", "open", "over", "failed"}
        BY <2>2, <3>1
      <4>4. QED
        BY <4>1, <4>2, <4>3 DEF EndedAfter
  <2>4. QED
    BY <1>3, <2>1, <2>3 DEF StreamIInv
<1>8. CASE Speak
  <2>1. Buffered(e)' /\ YieldedOf(e)' /\ EndedAfter(e)'
    BY <1>1, <1>8 DEF Speak, Buffered, YieldedOf, Yields, EndedAfter
  <2>2. SaidSoFar'
    BY <1>2, <1>8, SpeakKeeps
  <2>3. QED
    BY <1>3, <2>1, <2>2 DEF StreamIInv
<1>9. CASE UNCHANGED streamVars
  <2>1. Buffered(e)' /\ YieldedOf(e)' /\ EndedAfter(e)' /\ SaidSoFar'
    BY <1>1, <1>2, <1>9 DEF streamVars, Buffered, YieldedOf, Yields, EndedAfter, SaidSoFar
  <2>2. QED
    BY <1>3, <2>1 DEF StreamIInv
<1>10. QED
  BY <1>4, <1>5, <1>6, <1>7, <1>8, <1>9 DEF StreamNext

\* The tokens due are those of the lines that are whole, up to the one that
\* ends the answer.
LEMMA DueLines ==
  ASSUME BodyShape, NEW e \in Nat, Buffered(e)
  PROVE  \A p : p \in Due <=> /\ p \in Positive /\ 2 * p <= arrived /\ body[2 * p - 1].token
                              /\ \A j \in Positive : j < p => ~body[2 * j - 1].ends
<1>0. Len(body) \in Nat /\ arrived \in Nat /\ arrived <= Len(body)
  BY FirstNewline DEF Buffered
<1>1. ASSUME NEW i \in 1..arrived
      PROVE  \E p \in Positive : i = 2 * p \/ i = 2 * p - 1
  <2>1. (i + 1) \div 2 \in Positive /\ (i = 2 * ((i + 1) \div 2) \/ i = 2 * ((i + 1) \div 2) - 1)
    BY <1>0 DEF Positive
  <2>2. QED
    BY <2>1
<1>2. \A i : i \in Terminated <=> \E p \in Positive : i = 2 * p - 1 /\ 2 * p <= arrived
  <2>1. ASSUME NEW i \in Terminated
        PROVE  \E p \in Positive : i = 2 * p - 1 /\ 2 * p <= arrived
    <3>1. i \in 1..arrived /\ body[i] # Newline /\ i < arrived
      BY DEF Terminated
    <3>2. PICK p \in Positive : i = 2 * p \/ i = 2 * p - 1
      BY <1>1, <3>1
    <3>3. i # 2 * p
      <4>1. 2 * p <= arrived => body[2 * p] = Newline
        <5>1. PICK l \in Nat, a \in Nat : l = Len(body) /\ a = arrived /\ a <= l
          BY <1>0
        <5>2. 2 * p <= a => 2 * p <= l
          BY <5>1 DEF Positive
        <5>3. 2 * p <= Len(body) => body[2 * p] = Newline
          BY DEF BodyShape
        <5>4. QED
          BY <5>1, <5>2, <5>3
      <4>2. i <= arrived
        BY <1>0, <3>1
      <4>3. QED
        BY <3>1, <4>1, <4>2
    <3>4. 2 * p <= arrived
      BY <1>0, <3>1, <3>2, <3>3 DEF Positive
    <3>5. QED
      BY <3>2, <3>3, <3>4
  <2>2. ASSUME NEW p \in Positive, 2 * p <= arrived
        PROVE  2 * p - 1 \in Terminated
    <3>1. 2 * p <= Len(body) /\ 2 * p - 1 <= Len(body) /\ (2 * p - 1) + 1 = 2 * p
          /\ 2 * p - 1 \in 1..arrived /\ 2 * p - 1 < arrived
      BY <1>0, <2>2 DEF Positive
    <3>2. body[2 * p] = Newline /\ body[2 * p - 1].at = p
      BY <3>1 DEF BodyShape
    <3>3. body[2 * p - 1] # Newline
      BY <3>2 DEF Newline, Positive
    <3>4. QED
      BY <3>1, <3>2, <3>3 DEF Terminated
  <2>3. QED
    BY <2>1, <2>2
<1>3. ASSUME NEW p \in Due
      PROVE  /\ p \in Positive /\ 2 * p <= arrived /\ body[2 * p - 1].token
             /\ \A j \in Positive : j < p => ~body[2 * j - 1].ends
  <2>1. PICK i \in Terminated : /\ body[i].token /\ p = body[i].at
                                /\ \A j \in Terminated : j < i => ~body[j].ends
    BY DEF Due
  <2>2. PICK q \in Positive : i = 2 * q - 1 /\ 2 * q <= arrived
    BY <1>2, <2>1
  <2>3. p = q
    <3>1. 2 * q - 1 <= Len(body)
      BY <1>0, <2>2 DEF Positive
    <3>2. QED
      BY <2>1, <2>2, <3>1 DEF BodyShape
  <2>4. ASSUME NEW j \in Positive, j < p
        PROVE  ~body[2 * j - 1].ends
    <3>1. 2 * j <= arrived /\ 2 * j - 1 < i
      BY <1>0, <2>2, <2>3, <2>4 DEF Positive
    <3>2. 2 * j - 1 \in Terminated
      BY <1>2, <3>1
    <3>3. QED
      BY <2>1, <3>1, <3>2
  <2>5. QED
    BY <2>1, <2>2, <2>3, <2>4
<1>4. ASSUME NEW p \in Positive, 2 * p <= arrived, body[2 * p - 1].token,
             \A j \in Positive : j < p => ~body[2 * j - 1].ends
      PROVE  p \in Due
  <2>1. 2 * p - 1 \in Terminated
    BY <1>2, <1>4
  <2>2. ASSUME NEW i \in Terminated, i < 2 * p - 1
        PROVE  ~body[i].ends
    <3>1. PICK q \in Positive : i = 2 * q - 1
      BY <1>2, <2>2
    <3>2. q < p
      BY <2>2, <3>1 DEF Positive
    <3>3. QED
      BY <1>4, <3>1, <3>2
  <2>3. body[2 * p - 1].at = p
    <3>1. 2 * p - 1 <= Len(body)
      BY <1>0, <1>4 DEF Positive
    <3>2. QED
      BY <3>1 DEF BodyShape
  <2>4. QED
    BY <1>4, <2>1, <2>2, <2>3 DEF Due
<1>5. QED
  BY <1>3, <1>4

\* What the LLM stage has spoken at the end is all that the body holds.
LEMMA TokensAreDue == StreamIInv => TokensSurviveChunking /\ FailureIsNotSilent
<1> SUFFICES ASSUME StreamIInv
             PROVE  TokensSurviveChunking /\ FailureIsNotSilent
  OBVIOUS
<1>1. PICK e \in Nat : Buffered(e) /\ YieldedOf(e) /\ EndedAfter(e)
  BY DEF StreamIInv
<1>2. BodyShape /\ SaidSoFar
  BY DEF StreamIInv
<1>3. \A p : p \in Due <=> /\ p \in Positive /\ 2 * p <= arrived /\ body[2 * p - 1].token
                           /\ \A j \in Positive : j < p => ~body[2 * j - 1].ends
  BY <1>1, <1>2, DueLines
<1>4. \A p : p \in Range(yielded) <=> p \in Positive /\ p <= e /\ body[2 * p - 1].token
  <2>1. \A p : p \in Range(yielded) <=> Yields(p)
    BY DEF Range, Yields
  <2>2. \A k \in DOMAIN yielded : yielded[k] \in Positive
    BY <1>1 DEF YieldedOf
  <2>3. \A p : Yields(p) => p \in Positive
    BY <2>2 DEF Yields
  <2>4. QED
    BY <1>1, <2>1, <2>3 DEF YieldedOf
<1>5. PICK a \in Nat, b \in Nat : a = arrived /\ b = Len(buf) /\ a = b + 2 * e
  BY <1>1, <1>2, FirstNewline DEF Buffered
<1>6. Range(yielded) \subseteq Due
  <2> SUFFICES ASSUME NEW p \in Range(yielded)
               PROVE  p \in Due
    OBVIOUS
  <2>1. p \in Positive /\ p <= e /\ body[2 * p - 1].token /\ 2 * p <= arrived
    BY <1>4, <1>5 DEF Positive
  <2>2. \A j \in Positive : j < p => ~body[2 * j - 1].ends
    BY <1>1, <2>1 DEF EndedAfter, Positive
  <2>3. QED
    BY <1>3, <2>1, <2>2
<1>7. \A p \in Due, q \in Range(yielded) : p < q => p \in Range(yielded)
  BY <1>3, <1>4 DEF Positive
<1>8. stream = "over" => Due \subseteq Range(yielded)
  <2> SUFFICES ASSUME stream = "over", NEW p \in Due, ~(p <= e)
               PROVE  FALSE
    BY <1>3, <1>4
  <2>1. p \in Positive /\ 2 * p <= a
    BY <1>3, <1>5
  <2>2. b > 1 /\ e < p
    BY <1>5, <2>1 DEF Positive
  <2>3. e > 0 /\ body[2 * e - 1].ends
    BY <1>1, <1>5, <2>2 DEF EndedAfter
  <2>4. e \in Positive
    BY <2>3 DEF Positive
  <2>5. QED
    BY <1>3, <2>2, <2>3, <2>4
<1>9. \A k, l \in DOMAIN yielded : k < l => yielded[k] < yielded[l]
  BY <1>1 DEF YieldedOf
<1>10. FailureIsNotSilent
  BY <1>2 DEF SaidSoFar, FailureIsNotSilent
<1>11. QED
  BY <1>6, <1>7, <1>8, <1>9, <1>10 DEF TokensSurviveChunking

-----------------------------------------------------------------------------
(* Speech to text: the frames are counted from one, and an utterance is    *)
(* Frames of audio and its marker.                                         *)

\* Division with remainder.
LEMMA Euclid ==
  ASSUME NEW n \in Nat \ {0}, NEW k \in Nat
  PROVE  k \div n \in Nat /\ k % n \in 0..(n - 1) /\ k = n * (k \div n) + (k % n)
  OBVIOUS

\* Multiplication distributes over a difference.
LEMMA Distributes ==
  ASSUME NEW n \in Nat, NEW p \in Int, NEW q \in Int
  PROVE  n * p - n * q = n * (p - q)
  OBVIOUS

\* Quotient and remainder are unique.
LEMMA QuotientUnique ==
  ASSUME NEW n \in Nat \ {0}, NEW p \in Int, NEW q \in Int,
         NEW a \in 0..(n - 1), NEW b \in 0..(n - 1), n * p + a = n * q + b
  PROVE  p = q /\ a = b
<1>1. n * (p - q) = b - a
  BY Distributes
<1>2. \A d \in Int : (d >= 1 => n * d >= n) /\ (d <= 0 - 1 => n * d <= 0 - n)
  OBVIOUS
<1>3. p - q < 1 /\ p - q > 0 - 1
  BY <1>1, <1>2
<1>4. QED
  BY <1>1, <1>3

\* The next frame is one further within its utterance, or starts the next.
LEMMA NextIs ==
  ASSUME NEW n \in Nat \ {0}, NEW k \in Nat
  PROVE  /\ k % n = n - 1 => (k + 1) % n = 0 /\ (k + 1) \div n = k \div n + 1
         /\ k % n # n - 1 => (k + 1) % n = (k % n) + 1 /\ (k + 1) \div n = k \div n
<1>1. PICK q \in Nat, a \in 0..(n - 1) : q = k \div n /\ a = k % n /\ k = n * q + a
  BY Euclid
<1>2. PICK p \in Nat, b \in 0..(n - 1) :
         p = (k + 1) \div n /\ b = (k + 1) % n /\ k + 1 = n * p + b
  BY Euclid
<1>3. CASE a = n - 1
  <2>1. n * p + b = n * (q + 1) + 0
    BY <1>1, <1>2, <1>3
  <2>2. p = q + 1 /\ b = 0
    BY <2>1, QuotientUnique
  <2>3. QED
    BY <1>1, <1>2, <1>3, <2>2
<1>4. CASE a # n - 1
  <2>1. n * p + b = n * q + (a + 1) /\ a + 1 \in 0..(n - 1)
    BY <1>1, <1>2, <1>4
  <2>2. p = q /\ b = a + 1
    BY <2>1, QuotientUnique
  <2>3. QED
    BY <1>1, <1>2, <1>4, <2>2
<1>5. QED
  BY <1>1, <1>3, <1>4

\* A quotient is below the bound that its product with the divisor is below.
LEMMA QuotientBelow ==
  ASSUME NEW n \in Nat \ {0}, NEW k \in Nat, NEW m \in Nat, k < m * n
  PROVE  k \div n < m
<1>1. PICK q \in Nat, a \in 0..(n - 1) : q = k \div n /\ a = k % n /\ k = n * q + a
  BY Euclid
<1>2. CASE q >= m
  <2>1. n * (q - m) >= 0
    BY <1>2
  <2>2. n * q - n * m >= 0
    BY <2>1, Distributes
  <2>3. QED
    BY <1>1, <2>2
<1>3. QED
  BY <1>1, <1>2

PerUtterance == Frames + 1

\* The bounds of the recording are natural numbers.
LEMMA SttBounds ==
    /\ PerUtterance \in Nat \ {0} /\ Frames \in Nat \ {0} /\ Frames = PerUtterance - 1
    /\ AudioCap \in Nat /\ StageCap \in Nat /\ NetCap \in Nat /\ RouteCap \in Nat
    /\ MaxUtterances \in Nat /\ MaxLosses \in Nat
  BY SttAssumption DEF PerUtterance

\* The satellite's frames are of the utterances it speaks.
LEMMA NextFrameTyped ==
  ASSUME spoken \in Nat, spoken < MaxUtterances * (Frames + 1)
  PROVE  NextFrame \in Frame /\ spoken + 1 \in 0..(MaxUtterances * (Frames + 1))
<1>1. spoken \div PerUtterance \in Nat /\ spoken \div PerUtterance < MaxUtterances
  BY SttBounds, QuotientBelow, Euclid DEF PerUtterance
<1>2. spoken \div (Frames + 1) + 1 \in Utterances
  BY <1>1, SttBounds DEF Utterances, PerUtterance
<1>3. MaxUtterances * (Frames + 1) \in Nat
  BY SttBounds
<1>4. QED
  BY <1>2, <1>3 DEF NextFrame, Frame

\* What assigning to the fields of the worker and of its buffer makes of them.
LEMMA WorkerAssigned ==
  ASSUME NEW B, NEW T, NEW w \in [buffer : B, busy : T], NEW b \in B, NEW t \in T
  PROVE  /\ [w EXCEPT !.buffer = b] \in [buffer : B, busy : T]
         /\ [w EXCEPT !.buffer = b].buffer = b /\ [w EXCEPT !.buffer = b].busy = w.busy
         /\ [w EXCEPT !.busy = t] \in [buffer : B, busy : T]
         /\ [w EXCEPT !.busy = t].busy = t /\ [w EXCEPT !.busy = t].buffer = w.buffer
         /\ [buffer |-> b, busy |-> t] \in [buffer : B, busy : T]
         /\ w.buffer \in B /\ w.busy \in T
  OBVIOUS

\* What an assignment to a session's buffer at the worker changes.
LEMMA BufferAssigned ==
  ASSUME NEW L, NEW P, NEW b \in [known : BOOLEAN, locale : L, pcm : P], NEW p \in P
  PROVE  /\ [b EXCEPT !.pcm = p] \in [known : BOOLEAN, locale : L, pcm : P]
         /\ [b EXCEPT !.pcm = p].pcm = p /\ [b EXCEPT !.pcm = p].locale = b.locale
         /\ [b EXCEPT !.known = TRUE, !.pcm = p] \in [known : BOOLEAN, locale : L, pcm : P]
         /\ [b EXCEPT !.known = TRUE, !.pcm = p].pcm = p
         /\ [b EXCEPT !.known = TRUE, !.pcm = p].locale = b.locale
         /\ b.locale \in L /\ b.pcm \in P
  OBVIOUS

Buffers == [known : BOOLEAN, locale : {"fr", "en"}, pcm : Seq(Utterances)]

\* The fields of the speech-to-text state have their types.
LEMMA SttFields ==
  ASSUME SttTypeOK
  PROVE  /\ spoken \in Nat /\ queue["audio"] \in Seq(Frame) /\ queue["ingest"] \in Seq(Frame)
         /\ queue["vad"] \in Seq(Frame) /\ net \in Seq(Request) /\ replies \in Seq(Transcript)
         /\ transcripts \in Seq(Transcript) /\ route.queue \in Seq(Transcript)
         /\ route \in [known : BOOLEAN, open : BOOLEAN, queue : Seq(Transcript)]
         /\ worker \in [buffer : Buffers, busy : Transcript]
         /\ worker.buffer \in Buffers /\ worker.busy \in Transcript
         /\ worker.buffer.pcm \in Seq(Utterances) /\ worker.buffer.locale \in {"fr", "en"}
         /\ stt.at \in {"call", "select", "send", "ended"} /\ stt.holds \in Transcript
         /\ queue \in [{"audio", "ingest", "vad"} -> Seq(Frame)]
         /\ stage \in [Stages -> Frame \cup {<<"select", 0>>, <<"ended", 0>>}]
<1>1. MaxUtterances * (Frames + 1) \in Nat
  BY SttBounds
<1>2. spoken \in Nat
  BY <1>1 DEF SttTypeOK
<1>3. worker \in [buffer : Buffers, busy : Transcript]
  BY DEF SttTypeOK, Buffers
<1>4. worker.buffer \in Buffers /\ worker.busy \in Transcript
  BY <1>3
<1>5. worker.buffer.pcm \in Seq(Utterances) /\ worker.buffer.locale \in {"fr", "en"}
  BY <1>4 DEF Buffers
<1>6. route \in [known : BOOLEAN, open : BOOLEAN, queue : Seq(Transcript)]
  BY DEF SttTypeOK
<1>7. stt \in [at : {"call", "select", "send", "ended"}, holds : Transcript]
  BY DEF SttTypeOK
<1>8. stt.at \in {"call", "select", "send", "ended"} /\ stt.holds \in Transcript
  BY <1>7
<1>9. route.queue \in Seq(Transcript)
  BY <1>6
<1>10. QED
  BY <1>2, <1>3, <1>4, <1>5, <1>6, <1>8, <1>9 DEF SttTypeOK

\* The worker's empty buffer and no transcript have their types.
LEMMA NothingTyped == Nothing \in Transcript /\ NoBuffer \in Buffers
  BY DEF Nothing, Transcript, NoBuffer, Buffers

Channels == {"audio", "ingest", "vad"}
Held == Frame \cup {<<"select", 0>>, <<"ended", 0>>}

\* The parts of the type, and what it takes to have it again.
LEMMA SttTypeAgain ==
  ASSUME SttTypeOK,
         spoken' \in 0..(MaxUtterances * (Frames + 1)),
         cancelled' \in BOOLEAN, sttWedged' \in BOOLEAN, lossless' \in BOOLEAN,
         losses' \in 0..MaxLosses,
         queue' \in [Channels -> Seq(Frame)], Len(queue'["audio"]) <= AudioCap,
         \A st \in Stages : Len(queue'[st]) <= StageCap,
         stage' \in [Stages -> Held],
         stt' \in [at : {"call", "select", "send", "ended"}, holds : Transcript],
         pump' \in {"off", "run", "flush", "ended"},
         net' \in Seq(Request), Len(net') <= NetCap,
         worker' \in [buffer : Buffers, busy : Transcript],
         replies' \in Seq(Transcript), transcripts' \in Seq(Transcript),
         route' \in [known : BOOLEAN, open : BOOLEAN, queue : Seq(Transcript)],
         Len(route'.queue) <= RouteCap
  PROVE  SttTypeOK'
  BY DEF SttTypeOK, Channels, Held, Buffers, Stages

\* The type invariant of speech-to-text, variable by variable.
LEMMA SttTypeParts ==
  ASSUME SttTypeOK
  PROVE  /\ spoken \in 0..(MaxUtterances * (Frames + 1))
         /\ cancelled \in BOOLEAN /\ sttWedged \in BOOLEAN /\ lossless \in BOOLEAN
         /\ losses \in 0..MaxLosses
         /\ queue \in [Channels -> Seq(Frame)] /\ Len(queue["audio"]) <= AudioCap
         /\ \A st \in Stages : Len(queue[st]) <= StageCap
         /\ stage \in [Stages -> Held]
         /\ stt \in [at : {"call", "select", "send", "ended"}, holds : Transcript]
         /\ pump \in {"off", "run", "flush", "ended"}
         /\ net \in Seq(Request) /\ Len(net) <= NetCap
         /\ worker \in [buffer : Buffers, busy : Transcript]
         /\ replies \in Seq(Transcript) /\ transcripts \in Seq(Transcript)
         /\ route \in [known : BOOLEAN, open : BOOLEAN, queue : Seq(Transcript)]
         /\ Len(route.queue) <= RouteCap
  BY DEF SttTypeOK, Channels, Held, Buffers, Stages

\* A channel that lost its first item, or all, has room; one that had room has
\* it for one more.
LEMMA RoomKept ==
  ASSUME NEW S, NEW s \in Seq(S), NEW c \in Nat, Len(s) <= c
  PROVE  /\ s # <<>> => Tail(s) \in Seq(S) /\ Len(Tail(s)) <= c /\ Head(s) \in S
         /\ \A x \in S : Len(s) < c => Append(s, x) \in Seq(S) /\ Len(Append(s, x)) <= c
         /\ <<>> \in Seq(S) /\ Len(<<>>) <= c
  OBVIOUS

\* The next lemmas are the types after a step: of the ingress and the stages.
LEMMA QueueTyped ==
  ASSUME SttTypeOK, NEW q \in Channels, NEW s \in Seq(Frame),
         queue' = [queue EXCEPT ![q] = s],
         q = "audio" => Len(s) <= AudioCap, q # "audio" => Len(s) <= StageCap
  PROVE  /\ queue' \in [Channels -> Seq(Frame)] /\ Len(queue'["audio"]) <= AudioCap
         /\ \A st \in Stages : Len(queue'[st]) <= StageCap
<1>1. /\ queue \in [Channels -> Seq(Frame)] /\ Len(queue["audio"]) <= AudioCap
      /\ \A st \in Stages : Len(queue[st]) <= StageCap
  BY SttTypeParts
<1>2. queue' \in [Channels -> Seq(Frame)] /\ \A c \in Channels : queue'[c] = IF c = q THEN s ELSE queue[c]
  BY <1>1
<1>3. "audio" \in Channels /\ Stages \subseteq Channels /\ "audio" \notin Stages
  BY DEF Channels, Stages
<1>4. QED
  BY <1>1, <1>2, <1>3

\* Ingress keeps the types.
LEMMA IngressTyped ==
  ASSUME SttTypeOK, Ingress
  PROVE  SttTypeOK'
<1>1. NextFrame \in Frame /\ spoken + 1 \in 0..(MaxUtterances * (Frames + 1))
  BY NextFrameTyped, SttFields DEF Ingress
<1>2. /\ queue' \in [Channels -> Seq(Frame)] /\ Len(queue'["audio"]) <= AudioCap
      /\ \A st \in Stages : Len(queue'[st]) <= StageCap
  <2>1. CASE UNCHANGED queue
    BY <2>1, SttTypeParts
  <2>2. CASE /\ Len(queue["audio"]) < AudioCap
             /\ queue' = [queue EXCEPT !["audio"] = Append(@, NextFrame)]
    <3>1. "audio" \in Channels /\ queue["audio"] \in Seq(Frame)
      BY SttTypeParts DEF Channels
    <3>2. Append(queue["audio"], NextFrame) \in Seq(Frame) /\ Len(Append(queue["audio"], NextFrame)) <= AudioCap
      BY <1>1, <2>2, <3>1, SttTypeParts, SttBounds, RoomKept
    <3>3. QED
      BY <2>2, <3>1, <3>2, QueueTyped
  <2>3. QED
    BY <2>1, <2>2 DEF Ingress
<1>3. lossless' \in BOOLEAN
  BY SttTypeParts DEF Ingress
<1>4. QED
  BY <1>1, <1>2, <1>3, SttTypeParts, SttTypeAgain DEF Ingress

\* Ingest and VAD keep the types: they pass on what they take.
LEMMA StagesTyped ==
  ASSUME SttTypeOK, NEW st \in Stages, Take(st) \/ Forward(st) \/ EndStage(st)
  PROVE  SttTypeOK'
<1>0. /\ Input(st) \in Channels /\ st \in Channels /\ st # "audio"
      /\ queue[Input(st)] \in Seq(Frame) /\ queue[st] \in Seq(Frame)
      /\ stage[st] \in Held /\ Len(queue[st]) <= StageCap
      /\ Input(st) = "audio" => Len(queue[Input(st)]) <= AudioCap
      /\ Input(st) # "audio" => Len(queue[Input(st)]) <= StageCap
  <2>1. Input(st) \in Channels /\ st \in Channels /\ st # "audio" /\ (Input(st) # "audio" => Input(st) \in Stages)
    BY DEF Input, Channels, Stages
  <2>2. QED
    BY <2>1, SttTypeParts
<1>1. UNCHANGED <<spoken, cancelled, stt, pump, net, worker, replies, route, transcripts,
                  losses, sttWedged, lossless>>
  BY DEF Take, Forward, EndStage, outside
<1>2. /\ queue' \in [Channels -> Seq(Frame)] /\ Len(queue'["audio"]) <= AudioCap
      /\ \A c \in Stages : Len(queue'[c]) <= StageCap
  <2>1. CASE Take(st)
    <3>1. /\ Tail(queue[Input(st)]) \in Seq(Frame)
          /\ Input(st) = "audio" => Len(Tail(queue[Input(st)])) <= AudioCap
          /\ Input(st) # "audio" => Len(Tail(queue[Input(st)])) <= StageCap
      BY <1>0, <2>1, SttBounds, RoomKept DEF Take
    <3>2. QED
      BY <1>0, <2>1, <3>1, QueueTyped DEF Take
  <2>2. CASE queue' = [queue EXCEPT ![Input(st)] = <<>>]
    <3>1. <<>> \in Seq(Frame) /\ Len(<<>>) <= AudioCap /\ Len(<<>>) <= StageCap
      BY SttBounds
    <3>2. QED
      BY <1>0, <2>2, <3>1, QueueTyped
  <2>3. CASE /\ stage[st] \in Frame /\ Len(queue[st]) < StageCap
             /\ queue' = [queue EXCEPT ![st] = Append(@, stage[st])]
    <3>1. Append(queue[st], stage[st]) \in Seq(Frame) /\ Len(Append(queue[st], stage[st])) <= StageCap
      BY <1>0, <2>3, SttBounds, RoomKept
    <3>2. QED
      BY <1>0, <2>3, <3>1, QueueTyped
  <2>4. Forward(st) => stage[st] \in Frame
    BY <1>0 DEF Forward, Idle, Ended, Held
  <2>5. QED
    BY <2>1, <2>2, <2>3, <2>4 DEF Forward, EndStage
<1>3. stage' \in [Stages -> Held]
  <2>1. \E x \in Held : stage' = [stage EXCEPT ![st] = x]
    <3>1. CASE Take(st)
      <4>1. Head(queue[Input(st)]) \in Frame
        BY <1>0, <3>1 DEF Take
      <4>2. QED
        BY <3>1, <4>1 DEF Take, Held
    <3>2. CASE ~Take(st)
      BY <3>2 DEF Forward, EndStage, Held
    <3>3. QED
      BY <3>1, <3>2
  <2>2. QED
    BY <2>1, SttTypeParts
<1>4. QED
  BY <1>1, <1>2, <1>3, SttTypeParts, SttTypeAgain

\* Of the pump and of the STT stage.
LEMMA PumpTyped ==
  ASSUME SttTypeOK, Transcribe \/ PumpFrame \/ PumpEnds \/ PumpFlush
  PROVE  SttTypeOK'
<1>1. UNCHANGED net \/ \E x \in Request : net' = Append(net, x) /\ NetRoom
  <2>1. CASE PumpFrame
    <3>1. Head(queue["vad"]) \in Frame
      BY <2>1, SttFields DEF PumpFrame
    <3>2. (IF Head(queue["vad"])[1] = "mark" THEN <<"done", 0>> ELSE Head(queue["vad"])) \in Request
      BY <3>1 DEF Request
    <3>3. QED
      BY <2>1, <3>2 DEF PumpFrame
  <2>2. CASE ~PumpFrame
    BY <2>2 DEF Transcribe, PumpEnds, PumpFlush, Request, beyondPump
  <2>3. QED
    BY <2>1, <2>2
<1>2. net' \in Seq(Request) /\ Len(net') <= NetCap
  <2>1. net \in Seq(Request) /\ Len(net) <= NetCap /\ NetCap \in Nat
    BY SttTypeParts, SttBounds
  <2>2. ASSUME NEW x \in Request, Len(net) < NetCap
        PROVE  Append(net, x) \in Seq(Request) /\ Len(Append(net, x)) <= NetCap
    BY <2>1, <2>2, RoomKept
  <2>3. QED
    BY <1>1, <2>1, <2>2 DEF NetRoom
<1>3. /\ queue' \in [Channels -> Seq(Frame)] /\ Len(queue'["audio"]) <= AudioCap
      /\ \A st \in Stages : Len(queue'[st]) <= StageCap
  <2>1. CASE UNCHANGED queue
    BY <2>1, SttTypeParts
  <2>2. CASE queue["vad"] # <<>> /\ queue' = [queue EXCEPT !["vad"] = Tail(@)]
    <3>1. "vad" \in Channels /\ "vad" # "audio" /\ queue["vad"] \in Seq(Frame) /\ Len(queue["vad"]) <= StageCap
      BY SttTypeParts DEF Channels, Stages
    <3>2. Tail(queue["vad"]) \in Seq(Frame) /\ Len(Tail(queue["vad"])) <= StageCap
      BY <2>2, <3>1, SttBounds, RoomKept
    <3>3. QED
      BY <2>2, <3>1, <3>2, QueueTyped
  <2>3. QED
    BY <2>1, <2>2 DEF Transcribe, PumpFrame, PumpEnds, PumpFlush
<1>4. pump' \in {"off", "run", "flush", "ended"}
  BY SttTypeParts DEF Transcribe, PumpFrame, PumpEnds, PumpFlush
<1>5. stt' \in [at : {"call", "select", "send", "ended"}, holds : Transcript]
  BY SttTypeParts DEF Transcribe, PumpFrame, PumpEnds, PumpFlush, beyondPump
<1>6. /\ route' \in [known : BOOLEAN, open : BOOLEAN, queue : Seq(Transcript)]
      /\ Len(route'.queue) <= RouteCap
  <2>1. CASE Transcribe
    BY <2>1, SttBounds DEF Transcribe
  <2>2. CASE ~Transcribe
    BY <2>2, SttTypeParts DEF PumpFrame, PumpEnds, PumpFlush, beyondPump
  <2>3. QED
    BY <2>1, <2>2
<1>7. UNCHANGED <<spoken, cancelled, stage, worker, replies, transcripts, losses, sttWedged,
                  lossless>>
  BY DEF Transcribe, PumpFrame, PumpEnds, PumpFlush, beyondPump
<1>8. QED
  BY <1>2, <1>3, <1>4, <1>5, <1>6, <1>7, SttTypeParts, SttTypeAgain

\* The STT stage and the client's route keep the types.
LEMMA StageTyped ==
  ASSUME SttTypeOK, SttTakes \/ SttSends \/ SttEnds \/ RouteReply
  PROVE  SttTypeOK'
<1>1. UNCHANGED <<spoken, cancelled, queue, stage, pump, net, worker, losses, sttWedged>>
  BY DEF SttTakes, SttSends, SttEnds, RouteReply, beyondStt
<1>2. /\ replies \in Seq(Transcript) /\ transcripts \in Seq(Transcript)
      /\ route.queue \in Seq(Transcript) /\ Len(route.queue) <= RouteCap
      /\ stt.holds \in Transcript
  BY SttFields, SttTypeParts
<1>3. replies' \in Seq(Transcript) /\ (RouteReply => Head(replies) \in Transcript)
  <2>1. CASE RouteReply
    BY <1>2, <2>1 DEF RouteReply
  <2>2. CASE ~RouteReply
    BY <1>2, <2>2 DEF SttTakes, SttSends, SttEnds, beyondStt
  <2>3. QED
    BY <2>1, <2>2
<1>4. transcripts' \in Seq(Transcript)
  BY <1>2, AppendProperties DEF SttTakes, SttSends, SttEnds, RouteReply
<1>5. stt' \in [at : {"call", "select", "send", "ended"}, holds : Transcript]
  <2>1. SttTakes => Head(route.queue) \in Transcript
    BY <1>2, HeadTailProperties DEF SttTakes
  <2>2. QED
    BY <2>1, NothingTyped, SttTypeParts DEF SttTakes, SttSends, SttEnds, RouteReply
<1>6. \E q \in Seq(Transcript) : /\ Len(q) <= RouteCap
                                 /\ \/ route' = [route EXCEPT !.queue = q]
                                    \/ route' = [route EXCEPT !.open = FALSE, !.queue = q]
                                    \/ route' = [route EXCEPT !.known = FALSE] /\ q = route.queue
                                    \/ route' = route /\ q = route.queue
  <2>1. CASE SttTakes
    <3>1. Tail(route.queue) \in Seq(Transcript) /\ Len(Tail(route.queue)) <= RouteCap
      BY <1>2, <2>1, SttBounds, RoomKept DEF SttTakes
    <3>2. QED
      BY <2>1, <3>1 DEF SttTakes
  <2>2. CASE SttSends
    BY <1>2, <2>2 DEF SttSends
  <2>3. CASE SttEnds
    BY <1>2, <2>3, SttBounds, RoomKept DEF SttEnds
  <2>4. CASE RouteReply
    <3>1. CASE UNCHANGED route \/ route' = [route EXCEPT !.known = FALSE]
      BY <1>2, <3>1
    <3>2. CASE /\ Len(route.queue) < RouteCap
               /\ route' = [route EXCEPT !.queue = Append(@, Head(replies))]
      <4>1. /\ Append(route.queue, Head(replies)) \in Seq(Transcript)
            /\ Len(Append(route.queue, Head(replies))) <= RouteCap
        BY <1>2, <1>3, <2>4, <3>2, SttBounds, RoomKept
      <4>2. QED
        BY <3>2, <4>1
    <3>3. QED
      BY <2>4, <3>1, <3>2 DEF RouteReply
  <2>5. QED
    BY <2>1, <2>2, <2>3, <2>4
<1>7. /\ route' \in [known : BOOLEAN, open : BOOLEAN, queue : Seq(Transcript)]
      /\ Len(route'.queue) <= RouteCap
  <2>1. PICK q \in Seq(Transcript) : /\ Len(q) <= RouteCap
                                     /\ \/ route' = [route EXCEPT !.queue = q]
                                        \/ route' = [route EXCEPT !.open = FALSE, !.queue = q]
                                        \/ route' = [route EXCEPT !.known = FALSE] /\ q = route.queue
                                        \/ route' = route /\ q = route.queue
    BY <1>6
  <2>2. route \in [known : BOOLEAN, open : BOOLEAN, queue : Seq(Transcript)]
    BY SttTypeParts
  <2>3. CASE route' = [route EXCEPT !.queue = q]
    BY <2>1, <2>2, <2>3
  <2>4. CASE route' = [route EXCEPT !.open = FALSE, !.queue = q]
    BY <2>1, <2>2, <2>4
  <2>5. CASE route' = [route EXCEPT !.known = FALSE] /\ q = route.queue
    BY <2>1, <2>2, <2>5
  <2>6. QED
    BY <2>1, <2>2, <2>3, <2>4, <2>5
<1>8. lossless' \in BOOLEAN
  BY SttTypeParts DEF SttTakes, SttSends, SttEnds, RouteReply
<1>9. QED
  BY <1>1, <1>3, <1>4, <1>5, <1>7, <1>8, SttTypeParts, SttTypeAgain

\* Of the worker and of what befalls it.
LEMMA WorkerTyped ==
  ASSUME SttTypeOK, HandleMessage \/ WhisperDone \/ Lose
  PROVE  SttTypeOK'
<1>1. UNCHANGED <<spoken, cancelled, queue, stage, stt, pump, route, transcripts, sttWedged>>
  BY DEF HandleMessage, WhisperDone, Lose, beyondWorker
<1>2. /\ net \in Seq(Request) /\ worker \in [buffer : Buffers, busy : Transcript]
      /\ worker.buffer \in Buffers /\ worker.busy \in Transcript
      /\ worker.buffer.pcm \in Seq(Utterances) /\ worker.buffer.locale \in {"fr", "en"}
      /\ Len(net) <= NetCap /\ NetCap \in Nat
  BY SttFields, SttTypeParts, SttBounds
<1>3. net' \in Seq(Request) /\ Len(net') <= NetCap
  BY <1>2, RoomKept DEF HandleMessage, WhisperDone, Lose
<1>4. worker' \in [buffer : Buffers, busy : Transcript]
  <2>1. ASSUME NEW b \in Buffers, NEW t \in Transcript,
               worker' = [worker EXCEPT !.buffer = b] \/ worker' = [worker EXCEPT !.busy = t]
                  \/ worker' = [buffer |-> b, busy |-> t]
        PROVE  worker' \in [buffer : Buffers, busy : Transcript]
    BY <1>2, <2>1, WorkerAssigned
  <2>2. CASE HandleMessage
    <3>1. CASE worker' = [worker EXCEPT !.buffer = [known |-> TRUE, locale |-> "en", pcm |-> <<>>]]
      <4>1. [known |-> TRUE, locale |-> "en", pcm |-> <<>>] \in Buffers
        BY DEF Buffers
      <4>2. QED
        BY <1>2, <2>1, <3>1, <4>1
    <3>2. CASE /\ Head(net)[1] = "pcm"
               /\ worker' = [worker EXCEPT !.buffer =
                               [worker.buffer EXCEPT !.known = TRUE,
                                                     !.pcm = Append(worker.buffer.pcm, Head(net)[2])]]
      <4>1. Head(net)[2] \in Utterances
        <5>1. Head(net) \in Request
          BY <1>2, <2>2 DEF HandleMessage
        <5>2. Head(net) \in Frame
          BY <3>2, <5>1 DEF Request
        <5>3. QED
          BY <5>2 DEF Frame
      <4>2. Append(worker.buffer.pcm, Head(net)[2]) \in Seq(Utterances)
        BY <1>2, <4>1
      <4>3. [worker.buffer EXCEPT !.known = TRUE, !.pcm = Append(worker.buffer.pcm, Head(net)[2])] \in Buffers
        <5>1. PICK p \in Seq(Utterances) : p = Append(worker.buffer.pcm, Head(net)[2])
          BY <4>2
        <5>2. [worker.buffer EXCEPT !.known = TRUE, !.pcm = p] \in Buffers
          BY <1>2, BufferAssigned DEF Buffers
        <5>3. QED
          BY <5>1, <5>2
      <4>4. worker' = [worker EXCEPT !.buffer =
              [worker.buffer EXCEPT !.known = TRUE, !.pcm = Append(worker.buffer.pcm, Head(net)[2])]]
        BY <3>2
      <4>5. QED
        BY <1>2, <2>1, <4>3, <4>4
    <3>3. CASE TakeBuffer(worker.buffer)
      <4>1. [worker.buffer EXCEPT !.pcm = <<>>] \in Buffers
        <5>1. PICK p \in Seq(Utterances) : p = <<>>
          BY EmptySeq
        <5>2. [worker.buffer EXCEPT !.pcm = p] \in Buffers
          BY <1>2, BufferAssigned DEF Buffers
        <5>3. QED
          BY <5>1, <5>2
      <4>2. [audio |-> worker.buffer.pcm, locale |-> worker.buffer.locale] \in Transcript
        BY <1>2 DEF Transcript
      <4>3. QED
        BY <2>1, <3>3, <4>1, <4>2 DEF TakeBuffer
    <3>4. CASE UNCHANGED worker
      BY <1>2, <3>4
    <3>5. QED
      BY <2>2, <3>1, <3>2, <3>3, <3>4 DEF HandleMessage
  <2>3. CASE WhisperDone
    BY <1>2, <2>1, <2>3, NothingTyped DEF WhisperDone
  <2>4. CASE Lose
    BY <1>2, <2>1, <2>4, NothingTyped DEF Lose
  <2>5. QED
    BY <2>2, <2>3, <2>4
<1>5. replies' \in Seq(Transcript)
  <2>1. replies \in Seq(Transcript)
    BY SttFields
  <2>2. CASE replies' \in {replies, <<>>}
    BY <2>1, <2>2, EmptySeq
  <2>3. CASE replies' = Append(replies, worker.busy)
    BY <1>2, <2>1, <2>3
  <2>4. CASE HandleMessage
    BY <2>2, <2>4 DEF HandleMessage
  <2>5. CASE WhisperDone
    BY <2>2, <2>3, <2>5 DEF WhisperDone
  <2>6. CASE Lose
    BY <2>2, <2>6 DEF Lose
  <2>7. QED
    BY <2>4, <2>5, <2>6
<1>6. losses' \in 0..MaxLosses /\ lossless' \in BOOLEAN
  <2>1. losses \in 0..MaxLosses /\ lossless \in BOOLEAN /\ MaxLosses \in Nat
    BY SttTypeParts, SttBounds
  <2>2. losses' = losses \/ (losses < MaxLosses /\ losses' = losses + 1)
    BY DEF HandleMessage, WhisperDone, Lose, beyondWorker
  <2>3. lossless' = FALSE \/ lossless' = lossless
    BY DEF HandleMessage, WhisperDone, Lose
  <2>4. losses' \in 0..MaxLosses
    BY <2>1, <2>2
  <2>5. QED
    BY <2>1, <2>3, <2>4
<1>7. QED
  BY <1>1, <1>3, <1>4, <1>5, <1>6, SttTypeParts, SttTypeAgain

\* The speech path keeps its types, and no channel of it holds more than its
\* capacity (ingest.rs, mqtt_stt.rs, the provider client, the STT worker).
LEMMA SttTyped == SttTypeOK /\ [SttNext]_sttVars => SttTypeOK'
<1> SUFFICES ASSUME SttTypeOK, [SttNext]_sttVars
             PROVE  SttTypeOK'
  OBVIOUS
<1>1. CASE Cancel \/ SttClientWedges
  BY <1>1, SttTypeParts, SttTypeAgain DEF Cancel, SttClientWedges
<1>2. CASE UNCHANGED sttVars
  BY <1>2 DEF sttVars, SttTypeOK
<1>3. QED
  BY <1>1, <1>2, IngressTyped, StagesTyped, PumpTyped, StageTyped, WorkerTyped DEF SttNext

-----------------------------------------------------------------------------
(* Speech to text: the frames, the requests and the transcripts are        *)
(* counted, and each queue on the way carries the ones whose turn it is.   *)

\* The frames the satellite speaks; the requests that come of them, after the
\* session start and, when the last request z is known, before the flush; and
\* what an utterance may be heard as.
FrameOf == [j \in Nat |-> {<<IF (j - 1) % PerUtterance = Frames THEN "mark" ELSE "pcm",
                             (j - 1) \div PerUtterance + 1>>}]
RequestOf(z) == [k \in Nat |-> IF k = 1 THEN {<<"start", 0>>}
                               ELSE IF k = z THEN {<<"done", 0>>}
                               ELSE {IF f[1] = "mark" THEN <<"done", 0>> ELSE f : f \in FrameOf[k - 1]}]
HeardAs == [u \in Nat |-> {t \in Transcript : /\ t.locale = "en" /\ Len(t.audio) \in 1..Frames
                                              /\ \A k \in DOMAIN t.audio : t.audio[k] = u}]

\* A sequence with what is numbered from k + 1 to l; a channel of frames; and a
\* stage that may hold the frame after the kth.
Section(s, f, k, l) == l = k + Len(s) /\ Carries(s, f, k)
Holds(q, k, l) == Section(queue[q], FrameOf, k, l)
Onward(st, k, l) == IF Idle(st) THEN l = k ELSE l = k + 1 /\ stage[st] \in FrameOf[l]

\* The frames after the pth are still on their way, in order, as far as the
\* stages have not ended.
FromIngest(x) == \E y \in Nat : Onward("ingest", x, y) /\ Holds("audio", y, spoken)
FromVad(v) == \E w, x \in Nat : /\ Onward("vad", v, w) /\ Holds("ingest", w, x)
                                /\ ~Ended("ingest") => FromIngest(x)
Upstream(p) == \E v \in Nat : Holds("vad", p, v) /\ (~Ended("vad") => FromVad(v))

\* Of the requests for p frames the worker has had h; z is the flush, if any.
OnTheNet(h, p, z) ==
    /\ z = IF pump = "ended" THEN p + 2 ELSE 0
    /\ Section(net, RequestOf(z), h, IF pump = "ended" THEN p + 2 ELSE p + 1)

\* After n frames the worker has g whole utterances, and a part of the next.
HasPart(n, g) ==
    /\ Len(worker.buffer.pcm) = n % PerUtterance /\ g = n \div PerUtterance
    /\ \A k \in DOMAIN worker.buffer.pcm : worker.buffer.pcm[k] = n \div PerUtterance + 1
HadByWorker(h, z, g) ==
    /\ h = 0 => worker.buffer.pcm = <<>> /\ g = 0
    /\ h # 0 => worker.buffer.locale = "en"
    /\ h = z /\ z # 0 => worker.buffer.pcm = <<>>
    /\ h # z /\ h # 0 => HasPart(h - 1, g)

\* The first g utterances have been heard: by the router, the stage, on the
\* route, on the way back, or by whisper.
InTurn(g) ==
    \E a, b, c, d \in Nat :
        /\ Section(transcripts, HeardAs, 0, a)
        /\ IF stt.at = "send" THEN b = a + 1 /\ stt.holds \in HeardAs[b] ELSE b = a
        /\ Section(route.queue, HeardAs, b, c) /\ Section(replies, HeardAs, c, d)
        /\ IF Free THEN g = d ELSE g = d + 1 /\ worker.busy \in HeardAs[g]

Downstream(p) ==
    \E h, z, g \in Nat : OnTheNet(h, p, z) /\ HadByWorker(h, z, g) /\ InTurn(g)

NotCalled == /\ pump = "off" /\ net = <<>> /\ replies = <<>> /\ transcripts = <<>>
             /\ worker.buffer.pcm = <<>> /\ Free
InTime ==
    /\ Carries(transcripts, HeardAs, 0)
    /\ stt.at = "call" => NotCalled /\ Upstream(0)
    /\ stt.at \in {"select", "send"} =>
          pump # "off" /\ route.open /\ \E p \in Nat : Upstream(p) /\ Downstream(p)

SttIInv == SttTypeOK /\ (lossless => InTime)

\* A section that loses its head begins one item later.
LEMMA SectionTail ==
  ASSUME NEW S, NEW s \in Seq(S), s # <<>>, NEW f, NEW k \in Nat, NEW l \in Nat,
         Section(s, f, k, l)
  PROVE  /\ Section(Tail(s), f, k + 1, l) /\ k + 1 <= l
         /\ Head(s) \in f[k + 1] /\ Head(s) \in S /\ Tail(s) \in Seq(S)
  BY HeadTaken DEF Section

\* A section that gains the item that is due ends one item later.
LEMMA SectionAppend ==
  ASSUME NEW S, NEW s \in Seq(S), NEW x \in S, NEW f, NEW k \in Nat, NEW l \in Nat,
         Section(s, f, k, l), x \in f[l + 1]
  PROVE  Section(Append(s, x), f, k, l + 1)
<1>1. PICK n \in Nat : n = Len(s)
  BY LenProperties
<1>2. l = k + n /\ Carries(s, f, k) /\ l + 1 = k + n + 1
  BY <1>1 DEF Section
<1>3. Carries(Append(s, x), f, k) /\ Len(Append(s, x)) = n + 1
  BY <1>1, <1>2, LastAdded
<1>4. QED
  BY <1>2, <1>3 DEF Section

\* An empty section ends where it begins.
LEMMA SectionEmpty ==
  ASSUME NEW f, NEW k \in Nat
  PROVE  Section(<<>>, f, k, k)
<1>1. Len(<<>>) = 0 /\ DOMAIN <<>> = {}
  OBVIOUS
<1>2. QED
  BY <1>1 DEF Section, Carries

\* A section is empty just when it ends where it begins.
LEMMA SectionLength ==
  ASSUME NEW S, NEW s \in Seq(S), NEW f, NEW k \in Nat, NEW l \in Nat, Section(s, f, k, l)
  PROVE  k <= l /\ (s = <<>> <=> k = l)
<1>1. PICK n \in Nat : n = Len(s) /\ (s = <<>> <=> n = 0)
  BY EmptySeq, LenProperties
<1>2. QED
  BY <1>1 DEF Section

\* The frame after the nth, and the requests.
LEMMA FrameTurn ==
  ASSUME NEW n \in Nat
  PROVE  FrameOf[n + 1] = {<<IF n % PerUtterance = Frames THEN "mark" ELSE "pcm",
                             n \div PerUtterance + 1>>}
<1>1. n + 1 \in Nat /\ (n + 1) - 1 = n
  OBVIOUS
<1>2. QED
  BY <1>1 DEF FrameOf

\* The first request is the start; a marker or a frame follows in its turn.
LEMMA RequestTurn ==
  ASSUME NEW z \in Nat, z # 1
  PROVE  /\ RequestOf(z)[1] = {<<"start", 0>>}
         /\ z # 0 => RequestOf(z)[z] = {<<"done", 0>>}
         /\ \A n \in Nat : n + 2 # z =>
               RequestOf(z)[n + 2] = {IF n % PerUtterance = Frames THEN <<"done", 0>>
                                      ELSE <<"pcm", n \div PerUtterance + 1>>}
<1>1. ASSUME NEW n \in Nat, n + 2 # z
      PROVE  RequestOf(z)[n + 2] = {IF n % PerUtterance = Frames THEN <<"done", 0>>
                                    ELSE <<"pcm", n \div PerUtterance + 1>>}
  <2>1. n + 2 \in Nat /\ n + 2 # 1 /\ (n + 2) - 1 = n + 1
    OBVIOUS
  <2>2. RequestOf(z)[n + 2] = {IF f[1] = "mark" THEN <<"done", 0>> ELSE f : f \in FrameOf[n + 1]}
    BY <1>1, <2>1 DEF RequestOf
  <2>3. PICK f : f = <<IF n % PerUtterance = Frames THEN "mark" ELSE "pcm", n \div PerUtterance + 1>>
    OBVIOUS
  <2>4. FrameOf[n + 1] = {f}
    BY <2>3, FrameTurn
  <2>5. RequestOf(z)[n + 2] = {IF f[1] = "mark" THEN <<"done", 0>> ELSE f}
    BY <2>2, <2>4
  <2>6. QED
    BY <2>3, <2>5
<1>2. RequestOf(z)[1] = {<<"start", 0>>} /\ (z # 0 => RequestOf(z)[z] = {<<"done", 0>>})
  BY DEF RequestOf
<1>3. QED
  BY <1>1, <1>2

\* What is on the net stays what it was when the flush gets its number.
LEMMA Renumbered ==
  ASSUME NEW s \in Seq(Request), NEW h \in Nat, NEW p \in Nat,
         Section(s, RequestOf(0), h, p + 1)
  PROVE  Section(s, RequestOf(p + 2), h, p + 1)
<1>1. PICK n \in Nat : n = Len(s) /\ p + 1 = h + n /\ DOMAIN s = 1..n
  BY LenProperties DEF Section
<1>2. ASSUME NEW i \in DOMAIN s
      PROVE  s[i] \in RequestOf(p + 2)[h + i]
  <2>1. h + i \in Nat /\ h + i # p + 2 /\ h + i # 0 /\ s[i] \in RequestOf(0)[h + i]
    BY <1>1 DEF Section, Carries
  <2>2. QED
    BY <2>1 DEF RequestOf
<1>3. QED
  BY <1>2 DEF Section, Carries

\* An upstream step moves frames on and loses none, unless it drops one or its
\* stage ends.
LEMMA UpstreamMoves ==
  ASSUME SttTypeOK, SttTypeOK', lossless',
         Ingress \/ \E st \in Stages : Take(st) \/ Forward(st) \/ EndStage(st),
         NEW p \in Nat, Upstream(p)
  PROVE  Upstream(p)'
<1>1. /\ queue \in [Channels -> Seq(Frame)] /\ {"audio", "ingest", "vad"} \subseteq Channels
      /\ queue["audio"] \in Seq(Frame) /\ queue["ingest"] \in Seq(Frame) /\ queue["vad"] \in Seq(Frame)
      /\ stage \in [Stages -> Held] /\ {"ingest", "vad"} \subseteq Stages /\ spoken \in Nat
  BY SttFields, SttTypeParts DEF Channels, Stages
<1>2. PICK v \in Nat : Holds("vad", p, v) /\ (~Ended("vad") => FromVad(v))
  BY DEF Upstream
<1>3. ASSUME queue'["vad"] = queue["vad"], ~Ended("vad")' => ~Ended("vad") /\ FromVad(v)'
      PROVE  Upstream(p)'
  BY <1>2, <1>3 DEF Upstream, Holds
<1>4. ASSUME NEW w \in Nat, NEW x \in Nat, queue'["ingest"] = queue["ingest"],
             queue'["vad"] = queue["vad"], stage'["vad"] = stage["vad"],
             ~Ended("vad"), Onward("vad", v, w), Holds("ingest", w, x),
             ~Ended("ingest")' => FromIngest(x)'
      PROVE  Upstream(p)'
  <2>1. Onward("vad", v, w)' /\ Holds("ingest", w, x)'
    BY <1>4 DEF Onward, Idle, Holds
  <2>2. FromVad(v)'
    BY <1>4, <2>1 DEF FromVad
  <2>3. QED
    BY <1>3, <1>4, <2>2
<1>5. CASE Ended("vad") /\ Ended("vad")' /\ queue'["vad"] = queue["vad"]
  BY <1>3, <1>5
<1>6. CASE ~Ended("vad")
  <2>1. PICK w \in Nat, x \in Nat : /\ Onward("vad", v, w) /\ Holds("ingest", w, x)
                                    /\ ~Ended("ingest") => FromIngest(x)
    BY <1>2, <1>6 DEF FromVad
  <2>2. CASE Ingress
    <3>1. /\ queue' = [queue EXCEPT !["audio"] = Append(@, NextFrame)] /\ UNCHANGED stage
          /\ spoken' = spoken + 1 /\ ~Ended("ingest")
      BY <2>2 DEF Ingress, Ended
    <3>2. /\ queue'["audio"] = Append(queue["audio"], NextFrame)
          /\ queue'["ingest"] = queue["ingest"] /\ queue'["vad"] = queue["vad"]
      BY <1>1, <3>1
    <3>3. PICK y \in Nat : Onward("ingest", x, y) /\ Holds("audio", y, spoken)
      BY <2>1, <3>1 DEF FromIngest
    <3>4. NextFrame \in FrameOf[spoken + 1] /\ NextFrame \in Frame
      <4>1. NextFrame \in FrameOf[spoken + 1]
        BY <1>1, FrameTurn DEF NextFrame, PerUtterance
      <4>2. QED
        BY <2>2, <4>1, <1>1, NextFrameTyped DEF Ingress
    <3>5. Section(Append(queue["audio"], NextFrame), FrameOf, y, spoken + 1)
      BY <1>1, <3>3, <3>4, SectionAppend DEF Holds
    <3>6. Holds("audio", y, spoken)' /\ Onward("ingest", x, y)'
      BY <3>1, <3>2, <3>3, <3>5 DEF Holds, Onward, Idle
    <3>7. FromIngest(x)'
      BY <3>6 DEF FromIngest
    <3>8. QED
      BY <1>4, <1>6, <2>1, <3>1, <3>2, <3>7
  <2>3. CASE Take("vad")
    <3>1. /\ queue' = [queue EXCEPT !["ingest"] = Tail(@)] /\ queue["ingest"] # <<>> /\ UNCHANGED spoken
          /\ stage' = [stage EXCEPT !["vad"] = Head(queue["ingest"])] /\ Idle("vad")
      BY <2>3 DEF Take, Input, outside
    <3>2. /\ queue'["ingest"] = Tail(queue["ingest"]) /\ queue'["vad"] = queue["vad"]
          /\ queue'["audio"] = queue["audio"] /\ stage'["vad"] = Head(queue["ingest"])
          /\ stage'["ingest"] = stage["ingest"]
      BY <1>1, <3>1
    <3>3. w = v
      BY <2>1, <3>1 DEF Onward
    <3>4. /\ Section(Tail(queue["ingest"]), FrameOf, w + 1, x)
          /\ Head(queue["ingest"]) \in FrameOf[w + 1] /\ Head(queue["ingest"]) \in Frame
      BY <1>1, <2>1, <3>1, SectionTail DEF Holds
    <3>5. ~Idle("vad")' /\ ~Ended("vad")'
      BY <3>2, <3>4 DEF Idle, Ended, Frame
    <3>6. Onward("vad", v, w + 1)' /\ Holds("ingest", w + 1, x)'
      BY <3>2, <3>3, <3>4, <3>5 DEF Onward, Holds
    <3>7. ~Ended("ingest")' => FromIngest(x)'
      BY <2>1, <3>1, <3>2 DEF FromIngest, Onward, Idle, Ended, Holds
    <3>8. FromVad(v)'
      BY <3>6, <3>7 DEF FromVad
    <3>9. QED
      BY <1>3, <1>6, <3>2, <3>8
  <2>4. CASE Forward("vad")
    <3>1. /\ queue' = [queue EXCEPT !["vad"] = Append(@, stage["vad"])] /\ UNCHANGED spoken
          /\ stage' = [stage EXCEPT !["vad"] = <<"select", 0>>] /\ ~Idle("vad")
      BY <2>4 DEF Forward, outside
    <3>2. /\ queue'["vad"] = Append(queue["vad"], stage["vad"])
          /\ queue'["ingest"] = queue["ingest"] /\ queue'["audio"] = queue["audio"]
          /\ stage'["vad"] = <<"select", 0>> /\ stage'["ingest"] = stage["ingest"]
      BY <1>1, <3>1
    <3>3. w = v + 1 /\ stage["vad"] \in FrameOf[w] /\ stage["vad"] \in Frame
      BY <1>1, <1>6, <2>1, <3>1 DEF Onward, Held, Idle, Ended
    <3>4. Holds("vad", p, w)'
      BY <1>1, <1>2, <3>2, <3>3, SectionAppend DEF Holds
    <3>5. Onward("vad", w, w)' /\ Holds("ingest", w, x)'
      BY <2>1, <3>2 DEF Onward, Idle, Holds
    <3>6. ~Ended("ingest")' => FromIngest(x)'
      BY <2>1, <3>1, <3>2 DEF FromIngest, Onward, Idle, Ended, Holds
    <3>7. FromVad(w)'
      BY <3>5, <3>6 DEF FromVad
    <3>8. QED
      BY <3>4, <3>7 DEF Upstream
  <2>5. CASE EndStage("vad")
    <3>1. queue'["vad"] = queue["vad"] /\ Ended("vad")'
      BY <1>1, <2>5 DEF EndStage, Input, Ended
    <3>2. QED
      BY <1>3, <3>1
  <2>6. CASE Take("ingest")
    <3>1. /\ queue' = [queue EXCEPT !["audio"] = Tail(@)] /\ queue["audio"] # <<>> /\ UNCHANGED spoken
          /\ stage' = [stage EXCEPT !["ingest"] = Head(queue["audio"])] /\ Idle("ingest")
          /\ ~Ended("ingest")
      BY <2>6 DEF Take, Input, outside, Idle, Ended
    <3>2. /\ queue'["audio"] = Tail(queue["audio"]) /\ queue'["vad"] = queue["vad"]
          /\ queue'["ingest"] = queue["ingest"] /\ stage'["ingest"] = Head(queue["audio"])
          /\ stage'["vad"] = stage["vad"]
      BY <1>1, <3>1
    <3>3. PICK y \in Nat : Onward("ingest", x, y) /\ Holds("audio", y, spoken)
      BY <2>1, <3>1 DEF FromIngest
    <3>4. y = x
      BY <3>1, <3>3 DEF Onward
    <3>5. /\ Section(Tail(queue["audio"]), FrameOf, y + 1, spoken)
          /\ Head(queue["audio"]) \in FrameOf[y + 1] /\ Head(queue["audio"]) \in Frame
      BY <1>1, <3>1, <3>3, SectionTail DEF Holds
    <3>6. ~Idle("ingest")'
      BY <3>2, <3>5 DEF Idle, Frame
    <3>7. Onward("ingest", x, y + 1)' /\ Holds("audio", y + 1, spoken)'
      BY <3>1, <3>2, <3>4, <3>5, <3>6 DEF Onward, Holds
    <3>8. FromIngest(x)'
      BY <3>7 DEF FromIngest
    <3>9. QED
      BY <1>4, <1>6, <2>1, <3>2, <3>8
  <2>7. CASE Forward("ingest")
    <3>1. /\ queue' = [queue EXCEPT !["ingest"] = Append(@, stage["ingest"])] /\ UNCHANGED spoken
          /\ stage' = [stage EXCEPT !["ingest"] = <<"select", 0>>] /\ ~Idle("ingest") /\ ~Ended("ingest")
      BY <1>6, <2>7 DEF Forward, outside
    <3>2. /\ queue'["ingest"] = Append(queue["ingest"], stage["ingest"])
          /\ queue'["vad"] = queue["vad"] /\ queue'["audio"] = queue["audio"]
          /\ stage'["ingest"] = <<"select", 0>> /\ stage'["vad"] = stage["vad"]
      BY <1>1, <3>1
    <3>3. PICK y \in Nat : Onward("ingest", x, y) /\ Holds("audio", y, spoken)
      BY <2>1, <3>1 DEF FromIngest
    <3>4. y = x + 1 /\ stage["ingest"] \in FrameOf[y] /\ stage["ingest"] \in Frame
      BY <1>1, <3>1, <3>3 DEF Onward, Held, Idle, Ended
    <3>5. Holds("ingest", w, y)'
      BY <1>1, <2>1, <3>2, <3>4, SectionAppend DEF Holds
    <3>6. Onward("ingest", y, y)' /\ Holds("audio", y, spoken)'
      BY <3>1, <3>2, <3>3 DEF Onward, Idle, Holds
    <3>7. FromIngest(y)' /\ Onward("vad", v, w)'
      BY <2>1, <3>2, <3>6 DEF FromIngest, Onward, Idle
    <3>8. FromVad(v)'
      BY <3>5, <3>7 DEF FromVad
    <3>9. QED
      BY <1>3, <1>6, <3>2, <3>8
  <2>8. CASE EndStage("ingest")
    <3>1. /\ queue'["vad"] = queue["vad"] /\ queue'["ingest"] = queue["ingest"]
          /\ stage'["vad"] = stage["vad"] /\ Ended("ingest")'
      BY <1>1, <2>8 DEF EndStage, Input, Ended
    <3>2. QED
      BY <1>4, <1>6, <2>1, <3>1
  <2>9. QED
    BY <2>2, <2>3, <2>4, <2>5, <2>6, <2>7, <2>8 DEF Stages
<1>7. Ended("vad") => Ended("vad")' /\ queue'["vad"] = queue["vad"]
  <2>1. CASE Ingress
    BY <1>1, <2>1 DEF Ingress, Ended
  <2>2. ASSUME NEW st \in Stages, Take(st) \/ Forward(st) \/ EndStage(st), Ended("vad")
        PROVE  Ended("vad")' /\ queue'["vad"] = queue["vad"]
    <3>1. st = "ingest"
      <4>1. Idle(st) \/ ~Ended(st)
        BY <2>2 DEF Take, Forward, EndStage
      <4>2. ~Ended(st)
        BY <4>1 DEF Idle, Ended
      <4>3. QED
        BY <2>2, <4>2 DEF Stages
    <3>2. QED
      BY <1>1, <2>2, <3>1 DEF Take, Forward, EndStage, Input, Ended
  <2>3. QED
    BY <2>1, <2>2
<1>8. QED
  BY <1>5, <1>6, <1>7

\* The pump takes the next frame of what comes from upstream.
LEMMA PumpTakes ==
  ASSUME SttTypeOK, PumpFrame, NEW p \in Nat, Upstream(p)
  PROVE  /\ Upstream(p + 1)'
         /\ \E x \in Request : net' = Append(net, x) /\ x \in RequestOf(0)[p + 2]
<1>1. queue["vad"] \in Seq(Frame) /\ queue \in [Channels -> Seq(Frame)] /\ "vad" \in Channels
  BY SttFields, SttTypeParts DEF Channels
<1>2. PICK v \in Nat : Holds("vad", p, v) /\ (~Ended("vad") => FromVad(v))
  BY DEF Upstream
<1>3. /\ Section(Tail(queue["vad"]), FrameOf, p + 1, v)
      /\ Head(queue["vad"]) \in FrameOf[p + 1] /\ Head(queue["vad"]) \in Frame
  BY <1>1, <1>2, SectionTail DEF PumpFrame, Holds
<1>4. /\ queue' = [queue EXCEPT !["vad"] = Tail(@)] /\ UNCHANGED <<stage, spoken>>
      /\ net' = Append(net, IF Head(queue["vad"])[1] = "mark" THEN <<"done", 0>> ELSE Head(queue["vad"]))
  BY DEF PumpFrame, beyondPump
<1>5. /\ queue'["vad"] = Tail(queue["vad"]) /\ queue'["ingest"] = queue["ingest"]
      /\ queue'["audio"] = queue["audio"]
  BY <1>1, <1>4 DEF Channels
<1>6. Holds("vad", p + 1, v)'
  BY <1>3, <1>5 DEF Holds
<1>7. ~Ended("vad")' => FromVad(v)'
  BY <1>2, <1>4, <1>5 DEF FromVad, FromIngest, Onward, Idle, Ended, Holds
<1>8. Upstream(p + 1)'
  BY <1>6, <1>7 DEF Upstream
<1>9. PICK f : f = Head(queue["vad"])
  OBVIOUS
<1>10. f = <<IF p % PerUtterance = Frames THEN "mark" ELSE "pcm", p \div PerUtterance + 1>>
  BY <1>3, <1>9, FrameTurn
<1>11. (IF f[1] = "mark" THEN <<"done", 0>> ELSE f) \in RequestOf(0)[p + 2]
  BY <1>10, RequestTurn
<1>12. (IF f[1] = "mark" THEN <<"done", 0>> ELSE f) \in Request
  BY <1>3, <1>9 DEF Request
<1>13. QED
  BY <1>4, <1>8, <1>9, <1>11, <1>12

\* What the steps of others leave of both sides.
LEMMA UpstreamRests ==
  ASSUME UNCHANGED <<queue, stage, spoken>>, NEW p \in Nat, Upstream(p)
  PROVE  Upstream(p)'
  BY DEF Upstream, FromVad, FromIngest, Onward, Idle, Ended, Holds

\* A step that leaves the transcripts and the worker alone keeps their turn.
LEMMA InTurnRests ==
  ASSUME UNCHANGED <<stt, transcripts, route, replies, worker>>, NEW g \in Nat, InTurn(g)
  PROVE  InTurn(g)'
  BY DEF InTurn, Free

\* A step that leaves the worker alone keeps what it has had.
LEMMA HadRests ==
  ASSUME UNCHANGED worker, NEW h \in Nat, NEW z \in Nat, NEW g \in Nat, HadByWorker(h, z, g)
  PROVE  HadByWorker(h, z, g)'
  BY DEF HadByWorker, HasPart

\* A step that leaves everything from the pump on alone keeps its turn.
LEMMA DownstreamRests ==
  ASSUME UNCHANGED <<pump, net, stt, transcripts, route, replies, worker>>,
         NEW p \in Nat, Downstream(p)
  PROVE  Downstream(p)'
<1>1. PICK h \in Nat, z \in Nat, g \in Nat : OnTheNet(h, p, z) /\ HadByWorker(h, z, g) /\ InTurn(g)
  BY DEF Downstream
<1>2. OnTheNet(h, p, z)'
  BY <1>1 DEF OnTheNet
<1>3. QED
  BY <1>1, <1>2, HadRests, InTurnRests DEF Downstream

\* A buffer with a part or the whole of the next utterance is taken to whisper.
LEMMA BufferTaken ==
  ASSUME SttTypeOK, Free, TakeBuffer(worker.buffer),
         UNCHANGED <<stt, transcripts, route, replies>>,
         NEW g \in Nat, InTurn(g), worker.buffer.locale = "en",
         Len(worker.buffer.pcm) \in 1..Frames,
         \A k \in DOMAIN worker.buffer.pcm : worker.buffer.pcm[k] = g + 1
  PROVE  InTurn(g + 1)' /\ worker'.buffer.pcm = <<>> /\ worker'.buffer.locale = "en"
<1>1. /\ worker.buffer \in Buffers /\ worker.buffer.pcm \in Seq(Utterances)
      /\ worker.buffer.locale \in {"fr", "en"}
  BY SttFields
<1>2. worker'.buffer.pcm = <<>> /\ worker'.buffer.locale = "en"
  <2>1. PICK q \in Seq(Utterances) : q = <<>>
    BY EmptySeq
  <2>2. worker'.buffer = [worker.buffer EXCEPT !.pcm = q]
    BY <2>1 DEF TakeBuffer
  <2>3. QED
    BY <1>1, <2>1, <2>2, BufferAssigned DEF Buffers
<1>3. PICK t : t = [audio |-> worker.buffer.pcm, locale |-> worker.buffer.locale]
  OBVIOUS
<1>4. t \in Transcript /\ t.audio = worker.buffer.pcm /\ t.locale = "en"
  BY <1>1, <1>3 DEF Transcript
<1>5. t \in HeardAs[g + 1]
  BY <1>4 DEF HeardAs
<1>6. worker'.busy = t /\ t # Nothing
  <2>1. worker'.busy = t
    BY <1>3 DEF TakeBuffer
  <2>2. t.audio # <<>>
    <3>1. PICK n : n = Len(worker.buffer.pcm)
      OBVIOUS
    <3>2. n # 0
      BY <3>1, SttBounds
    <3>3. QED
      BY <1>1, <1>4, <3>1, <3>2, EmptySeq
  <2>3. QED
    BY <2>1, <2>2 DEF Nothing
<1>7. PICK a \in Nat, b \in Nat, c \in Nat, d \in Nat :
         /\ Section(transcripts, HeardAs, 0, a)
         /\ IF stt.at = "send" THEN b = a + 1 /\ stt.holds \in HeardAs[b] ELSE b = a
         /\ Section(route.queue, HeardAs, b, c) /\ Section(replies, HeardAs, c, d)
         /\ g = d
  BY DEF InTurn
<1>8. InTurn(g + 1)'
  BY <1>5, <1>6, <1>7 DEF InTurn, Free
<1>9. QED
  BY <1>2, <1>8

\* The worker's handling of one message keeps everything in its turn.
LEMMA MessageHandled ==
  ASSUME SttTypeOK, HandleMessage, NEW p \in Nat, Downstream(p)
  PROVE  Downstream(p)'
<1>1. PICK h \in Nat, z \in Nat, g \in Nat : OnTheNet(h, p, z) /\ HadByWorker(h, z, g) /\ InTurn(g)
  BY DEF Downstream
<1>2. PICK e \in Nat : /\ e = IF pump = "ended" THEN p + 2 ELSE p + 1
                       /\ z = IF pump = "ended" THEN p + 2 ELSE 0
  BY <1>1 DEF OnTheNet
<1>3. PICK m : m = Head(net)
  OBVIOUS
<1>4. /\ Section(Tail(net), RequestOf(z), h + 1, e) /\ h + 1 <= e /\ m \in RequestOf(z)[h + 1]
      /\ net' = Tail(net) /\ Free
      /\ UNCHANGED <<spoken, cancelled, queue, stage, stt, pump, route, transcripts, replies>>
  BY <1>1, <1>2, <1>3, SttFields, SectionTail DEF OnTheNet, HandleMessage, beyondWorker
<1>5. OnTheNet(h + 1, p, z)'
  BY <1>2, <1>4 DEF OnTheNet
<1>6. z # 1 /\ (z # 0 => z = e)
  BY <1>2
<1>7. /\ worker \in [buffer : Buffers, busy : Transcript] /\ worker.buffer \in Buffers
      /\ worker.buffer.pcm \in Seq(Utterances) /\ worker.buffer.locale \in {"fr", "en"}
  BY SttFields
<1>8. SUFFICES \E f \in Nat : HadByWorker(h + 1, z, f)' /\ InTurn(f)'
  BY <1>5 DEF Downstream
<1>9. /\ m[1] = "start" => worker' = [worker EXCEPT !.buffer =
                                         [known |-> TRUE, locale |-> "en", pcm |-> <<>>]]
      /\ m[1] = "pcm" => worker' = [worker EXCEPT !.buffer =
                           [worker.buffer EXCEPT !.known = TRUE,
                                                 !.pcm = Append(worker.buffer.pcm, m[2])]]
      /\ m[1] = "done" => \/ worker.buffer.pcm = <<>> /\ UNCHANGED worker
                          \/ worker.buffer.pcm # <<>> /\ TakeBuffer(worker.buffer)
  BY <1>3 DEF HandleMessage
<1>10. CASE h = 0
  <2>1. m[1] = "start" /\ g = 0 /\ 1 # z
    BY <1>1, <1>4, <1>6, <1>10, RequestTurn DEF HadByWorker
  <2>2. PICK b \in Buffers : b = [known |-> TRUE, locale |-> "en", pcm |-> <<>>]
    BY EmptySeq DEF Buffers
  <2>3. worker' = [worker EXCEPT !.buffer = b]
    BY <1>9, <2>1, <2>2
  <2>4. worker'.buffer = b /\ worker'.busy = worker.busy
    BY <1>7, <2>3
  <2>5. b.pcm = <<>> /\ b.locale = "en" /\ Len(<<>>) = 0 /\ DOMAIN <<>> = {}
    BY <2>2
  <2>6. 0 % PerUtterance = 0 /\ 0 \div PerUtterance = 0
    BY SttBounds
  <2>7. HadByWorker(1, z, 0)'
    BY <2>1, <2>4, <2>5, <2>6 DEF HadByWorker, HasPart
  <2>8. InTurn(0)'
    BY <1>1, <1>4, <2>1, <2>4 DEF InTurn, Free
  <2>9. QED
    BY <1>10, <2>7, <2>8
<1>11. CASE h # 0
  <2>1. PICK n \in Nat : h = n + 1 /\ h # z /\ HasPart(n, g) /\ worker.buffer.locale = "en"
    <3>1. h # z
      BY <1>4, <1>6, <1>11
    <3>2. h - 1 \in Nat /\ h = (h - 1) + 1
      BY <1>11
    <3>3. QED
      BY <1>1, <1>11, <3>1, <3>2 DEF HadByWorker
  <2>2. PICK q \in Seq(Utterances), l \in Nat :
           /\ q = worker.buffer.pcm /\ l = Len(q) /\ l = n % PerUtterance
           /\ g = n \div PerUtterance /\ \A k \in DOMAIN q : q[k] = g + 1
           /\ (q = <<>> <=> l = 0) /\ l \in 0..Frames
    <3>1. n % PerUtterance \in 0..Frames
      BY Euclid, SttBounds
    <3>2. QED
      BY <1>7, <2>1, <3>1, EmptySeq, LenProperties DEF HasPart
  <2>3. CASE h + 1 = z
    <3>1. m[1] = "done" /\ z # 0
      BY <1>4, <1>6, <2>3, RequestTurn
    <3>2. CASE q = <<>> /\ UNCHANGED worker
      <4>1. HadByWorker(z, z, g)'
        BY <2>1, <2>2, <3>1, <3>2 DEF HadByWorker
      <4>2. QED
        BY <1>1, <1>4, <2>3, <3>2, <4>1, InTurnRests
    <3>3. CASE q # <<>> /\ TakeBuffer(worker.buffer)
      <4>1. InTurn(g + 1)' /\ worker'.buffer.pcm = <<>> /\ worker'.buffer.locale = "en"
        BY <1>1, <1>4, <2>1, <2>2, <3>3, BufferTaken
      <4>2. worker'.buffer.pcm = <<>> /\ worker'.buffer.locale = "en"
        BY <4>1
      <4>3. HadByWorker(z, z, g + 1)'
        BY <3>1, <4>2 DEF HadByWorker
      <4>4. QED
        BY <2>3, <4>1, <4>3
    <3>4. QED
      BY <1>9, <2>2, <3>1, <3>2, <3>3
  <2>4. CASE h + 1 # z /\ n % PerUtterance = Frames
    <3>1. m[1] = "done"
      BY <1>4, <1>6, <2>1, <2>4, RequestTurn
    <3>2. TakeBuffer(worker.buffer)
      BY <1>9, <2>2, <2>4, <3>1, SttBounds
    <3>3. InTurn(g + 1)' /\ worker'.buffer.pcm = <<>> /\ worker'.buffer.locale = "en"
      BY <1>1, <1>4, <2>1, <2>2, <2>4, <3>2, SttBounds, BufferTaken
    <3>4. (n + 1) % PerUtterance = 0 /\ (n + 1) \div PerUtterance = g + 1
      BY <2>2, <2>4, NextIs, SttBounds
    <3>5. Len(<<>>) = 0 /\ DOMAIN <<>> = {}
      OBVIOUS
    <3>6. HasPart(n + 1, g + 1)'
      BY <3>3, <3>4, <3>5 DEF HasPart
    <3>7. (h + 1) - 1 = n + 1 /\ h + 1 # 0
      BY <2>1
    <3>8. HadByWorker(h + 1, z, g + 1)'
      BY <2>4, <3>3, <3>6, <3>7 DEF HadByWorker
    <3>9. QED
      BY <3>3, <3>8
  <2>5. CASE h + 1 # z /\ n % PerUtterance # Frames
    <3>1. m = <<"pcm", g + 1>>
      <4>1. m \in RequestOf(z)[n + 2] /\ n + 2 # z
        BY <1>4, <2>1, <2>5
      <4>2. PICK f : f = <<"pcm", n \div PerUtterance + 1>>
        OBVIOUS
      <4>3. RequestOf(z)[n + 2] = {f}
        BY <1>6, <2>5, <4>1, <4>2, RequestTurn
      <4>4. QED
        BY <2>2, <4>1, <4>2, <4>3
    <3>2. g + 1 \in Utterances
      <4>1. m \in Request
        BY <1>3, <1>4, SttFields DEF HandleMessage
      <4>2. QED
        BY <3>1, <4>1 DEF Request, Frame
    <3>3. PICK r \in Seq(Utterances) :
             /\ r = Append(q, g + 1) /\ Len(r) = l + 1
             /\ \A k \in DOMAIN r : r[k] = g + 1
      <4>1. PICK x \in Utterances : x = g + 1
        BY <3>2
      <4>2. /\ Append(q, x) \in Seq(Utterances) /\ Len(Append(q, x)) = Len(q) + 1
            /\ DOMAIN Append(q, x) = 1..(Len(q) + 1) /\ DOMAIN q = 1..Len(q)
            /\ \A k \in 1..Len(q) : Append(q, x)[k] = q[k]
            /\ Append(q, x)[Len(q) + 1] = x
        OBVIOUS
      <4>3. \A k \in DOMAIN Append(q, x) : Append(q, x)[k] = x
        BY <2>2, <4>1, <4>2
      <4>4. QED
        BY <2>2, <4>1, <4>2, <4>3
    <3>4. worker' = [worker EXCEPT !.buffer = [worker.buffer EXCEPT !.known = TRUE, !.pcm = r]]
      BY <1>9, <2>2, <3>1, <3>3
    <3>5. PICK b \in Buffers : b = [worker.buffer EXCEPT !.known = TRUE, !.pcm = r]
      BY <1>7, BufferAssigned DEF Buffers
    <3>6. b.pcm = r /\ b.locale = "en"
      BY <1>7, <2>1, <3>5, BufferAssigned DEF Buffers
    <3>7. worker'.buffer = b /\ worker'.busy = worker.busy
      BY <1>7, <3>4, <3>5
    <3>8. (n + 1) % PerUtterance = l + 1 /\ (n + 1) \div PerUtterance = g
      <4>1. PerUtterance \in Nat \ {0} /\ n % PerUtterance # PerUtterance - 1
        BY <2>5, SttBounds
      <4>2. (n + 1) % PerUtterance = (n % PerUtterance) + 1 /\ (n + 1) \div PerUtterance = n \div PerUtterance
        BY <4>1, NextIs
      <4>3. QED
        BY <2>2, <4>2
    <3>9. HasPart(n + 1, g)'
      BY <3>3, <3>6, <3>7, <3>8 DEF HasPart
    <3>10. (h + 1) - 1 = n + 1 /\ h + 1 # 0
      BY <2>1
    <3>11. HadByWorker(h + 1, z, g)'
      BY <2>5, <3>6, <3>7, <3>9, <3>10 DEF HadByWorker
    <3>12. InTurn(g)'
      BY <1>1, <1>4, <3>7 DEF InTurn, Free
    <3>13. QED
      BY <3>11, <3>12
  <2>6. QED
    BY <2>3, <2>4, <2>5
<1>12. QED
  BY <1>10, <1>11

\* What the pump sends is on the net behind what it has sent.
LEMMA PumpMoves ==
  ASSUME SttTypeOK, PumpFrame \/ PumpEnds \/ PumpFlush,
         NEW p \in Nat, Upstream(p), Downstream(p)
  PROVE  \E q \in Nat : Upstream(q)' /\ Downstream(q)'
<1>1. PICK h \in Nat, z \in Nat, g \in Nat : OnTheNet(h, p, z) /\ HadByWorker(h, z, g) /\ InTurn(g)
  BY DEF Downstream
<1>2. UNCHANGED <<spoken, stage, stt, worker, replies, route, transcripts>> /\ net \in Seq(Request)
  BY SttFields DEF PumpFrame, PumpEnds, PumpFlush, beyondPump
<1>3. \A y \in Nat : HadByWorker(h, y, g) => HadByWorker(h, y, g)'
  BY <1>2, HadRests
<1>4. InTurn(g)'
  BY <1>1, <1>2, InTurnRests
<1>5. ASSUME pump # "ended"
      PROVE  z = 0 /\ Section(net, RequestOf(0), h, p + 1)
  BY <1>1, <1>5 DEF OnTheNet
<1>6. CASE PumpFrame
  <2>1. PICK x \in Request : net' = Append(net, x) /\ x \in RequestOf(0)[p + 2]
    BY <1>6, PumpTakes
  <2>2. pump # "ended" /\ pump' = pump
    BY <1>6 DEF PumpFrame
  <2>3. (p + 1) + 1 = p + 2 /\ p + 1 \in Nat
    OBVIOUS
  <2>4. Section(Append(net, x), RequestOf(0), h, (p + 1) + 1)
    BY <1>2, <1>5, <2>1, <2>2, <2>3, SectionAppend
  <2>5. OnTheNet(h, p + 1, 0)'
    BY <2>1, <2>2, <2>4 DEF OnTheNet
  <2>6. Downstream(p + 1)'
    BY <1>1, <1>3, <1>4, <1>5, <2>2, <2>5 DEF Downstream
  <2>7. QED
    BY <1>6, <2>3, <2>6, PumpTakes
<1>7. CASE PumpEnds
  <2>1. UNCHANGED <<net, queue>> /\ pump # "ended" /\ pump' # "ended"
    BY <1>7 DEF PumpEnds
  <2>2. OnTheNet(h, p, 0)'
    BY <1>5, <2>1 DEF OnTheNet
  <2>3. Downstream(p)'
    BY <1>1, <1>3, <1>4, <1>5, <2>1, <2>2 DEF Downstream
  <2>4. QED
    BY <1>2, <2>1, <2>3, UpstreamRests
<1>8. CASE PumpFlush
  <2>1. UNCHANGED queue /\ pump # "ended" /\ pump' = "ended" /\ net' = Append(net, <<"done", 0>>)
    BY <1>8 DEF PumpFlush, beyondPump
  <2>2. Section(net, RequestOf(p + 2), h, p + 1)
    BY <1>2, <1>5, <2>1, Renumbered
  <2>3. <<"done", 0>> \in Request /\ p + 2 \in Nat /\ p + 1 \in Nat /\ (p + 1) + 1 = p + 2
    BY DEF Request
  <2>4. <<"done", 0>> \in RequestOf(p + 2)[p + 2]
    BY <2>3, RequestTurn
  <2>5. Section(Append(net, <<"done", 0>>), RequestOf(p + 2), h, p + 2)
    BY <1>2, <2>2, <2>3, <2>4, SectionAppend
  <2>6. OnTheNet(h, p, p + 2)'
    BY <2>1, <2>5 DEF OnTheNet
  <2>7. h # p + 2
    BY <1>2, <1>5, <2>1, SectionLength
  <2>8. HadByWorker(h, p + 2, g)
    BY <1>1, <1>5, <2>1, <2>7 DEF HadByWorker
  <2>9. Downstream(p)'
    BY <1>3, <1>4, <2>3, <2>6, <2>8 DEF Downstream
  <2>10. QED
    BY <1>2, <2>1, <2>9, UpstreamRests
<1>9. QED
  BY <1>6, <1>7, <1>8

\* A transcript moves on towards the router.
LEMMA TranscriptMoves ==
  ASSUME SttTypeOK, SttTakes \/ SttSends \/ (RouteReply /\ route.open) \/ WhisperDone, lossless',
         NEW g \in Nat, InTurn(g)
  PROVE  InTurn(g)'
<1>1. PICK a \in Nat, b \in Nat, c \in Nat, d \in Nat :
         /\ Section(transcripts, HeardAs, 0, a)
         /\ IF stt.at = "send" THEN b = a + 1 /\ stt.holds \in HeardAs[b] ELSE b = a
         /\ Section(route.queue, HeardAs, b, c) /\ Section(replies, HeardAs, c, d)
         /\ IF Free THEN g = d ELSE g = d + 1 /\ worker.busy \in HeardAs[g]
  BY DEF InTurn
<1>2. /\ replies \in Seq(Transcript) /\ transcripts \in Seq(Transcript)
      /\ route \in [known : BOOLEAN, open : BOOLEAN, queue : Seq(Transcript)]
      /\ route.queue \in Seq(Transcript) /\ stt.holds \in Transcript
      /\ worker \in [buffer : Buffers, busy : Transcript] /\ worker.busy \in Transcript
  BY SttFields
<1>3. CASE SttTakes
  <2>1. /\ Section(Tail(route.queue), HeardAs, b + 1, c) /\ Head(route.queue) \in HeardAs[b + 1]
        /\ Tail(route.queue) \in Seq(Transcript) /\ b = a
    BY <1>1, <1>2, <1>3, SectionTail DEF SttTakes
  <2>2. /\ route' = [route EXCEPT !.queue = Tail(route.queue)]
        /\ stt' = [at |-> "send", holds |-> Head(route.queue)]
        /\ UNCHANGED <<transcripts, replies, worker>>
    BY <1>3 DEF SttTakes, beyondStt
  <2>3. route'.queue = Tail(route.queue) /\ stt'.at = "send" /\ stt'.holds = Head(route.queue)
    BY <1>2, <2>1, <2>2, RouteAssigned
  <2>4. QED
    BY <1>1, <2>1, <2>2, <2>3, SMTT(20) DEF InTurn, Free
<1>4. CASE SttSends
  <2>1. b = a + 1 /\ stt.holds \in HeardAs[a + 1]
    BY <1>1, <1>4 DEF SttSends
  <2>2. Section(Append(transcripts, stt.holds), HeardAs, 0, a + 1)
    BY <1>1, <1>2, <2>1, SectionAppend
  <2>3. /\ transcripts' = Append(transcripts, stt.holds) /\ stt'.at = "select"
        /\ UNCHANGED <<route, replies, worker>>
    BY <1>4 DEF SttSends, beyondStt
  <2>4. QED
    BY <1>1, <2>1, <2>2, <2>3 DEF InTurn, Free
<1>5. CASE RouteReply /\ route.open
  <2>1. /\ replies # <<>> /\ replies' = Tail(replies)
        /\ route' = [route EXCEPT !.queue = Append(route.queue, Head(replies))]
        /\ UNCHANGED <<stt, transcripts, worker>>
    BY <1>5 DEF RouteReply
  <2>2. /\ Section(Tail(replies), HeardAs, c + 1, d) /\ Head(replies) \in HeardAs[c + 1]
        /\ Head(replies) \in Transcript
    BY <1>1, <1>2, <2>1, SectionTail
  <2>3. Section(Append(route.queue, Head(replies)), HeardAs, b, c + 1)
    BY <1>1, <1>2, <2>2, SectionAppend
  <2>4. route'.queue = Append(route.queue, Head(replies))
    <3>1. Append(route.queue, Head(replies)) \in Seq(Transcript)
      BY <1>2, <2>2, AppendProperties
    <3>2. QED
      BY <1>2, <2>1, <3>1, RouteAssigned
  <2>5. Section(route'.queue, HeardAs, b, c + 1) /\ Section(replies', HeardAs, c + 1, d)
    BY <2>1, <2>2, <2>3, <2>4
  <2>6. PICK e \in Nat : Section(route'.queue, HeardAs, b, e) /\ Section(replies', HeardAs, e, d)
    BY <2>5
  <2>7. /\ Section(transcripts', HeardAs, 0, a)
        /\ IF stt'.at = "send" THEN b = a + 1 /\ stt'.holds \in HeardAs[b] ELSE b = a
        /\ IF Free' THEN g = d ELSE g = d + 1 /\ worker'.busy \in HeardAs[g]
    BY <1>1, <2>1 DEF Free
  <2>8. QED
    BY <2>6, <2>7 DEF InTurn
<1>6. CASE WhisperDone
  <2>1. /\ ~Free /\ worker' = [worker EXCEPT !.busy = Nothing]
        /\ replies' = Append(replies, worker.busy) /\ UNCHANGED <<stt, transcripts, route>>
    BY <1>6 DEF WhisperDone, beyondWorker
  <2>2. Section(Append(replies, worker.busy), HeardAs, c, g)
    BY <1>1, <1>2, <2>1, SectionAppend
  <2>3. worker'.busy = Nothing
    BY <1>2, <2>1
  <2>4. QED
    BY <1>1, <2>1, <2>2, <2>3 DEF InTurn, Free
<1>7. QED
  BY <1>3, <1>4, <1>5, <1>6

\* The call of transcribe: nothing has been sent, and nothing heard.
LEMMA CallMade ==
  ASSUME SttTypeOK, Transcribe, InTime
  PROVE  Upstream(0)' /\ Downstream(0)' /\ pump' # "off" /\ route'.open
<1>1. NotCalled /\ Upstream(0)
  BY DEF Transcribe, InTime
<1>2. /\ UNCHANGED <<spoken, queue, stage, worker, replies, transcripts>>
      /\ net' = Append(net, <<"start", 0>>) /\ pump' = "run"
      /\ route'.queue = <<>> /\ route'.open /\ stt'.at = "select"
  <2>1. stt' = [stt EXCEPT !.at = "select"] /\ stt \in [at : {"call", "select", "send", "ended"}, holds : Transcript]
    BY SttTypeParts DEF Transcribe
  <2>2. stt'.at = "select"
    BY <2>1
  <2>3. QED
    BY <2>2 DEF Transcribe
<1>3. Upstream(0)'
  BY <1>1, <1>2, UpstreamRests
<1>4. <<"start", 0>> \in Request /\ <<>> \in Seq(Request)
  BY EmptySeq DEF Request
<1>5. Section(Append(<<>>, <<"start", 0>>), RequestOf(0), 0, 0 + 1)
  <2>1. <<"start", 0>> \in RequestOf(0)[0 + 1]
    BY RequestTurn
  <2>2. Section(<<>>, RequestOf(0), 0, 0)
    BY SectionEmpty
  <2>3. QED
    BY <1>4, <2>1, <2>2, SectionAppend
<1>6. OnTheNet(0, 0, 0)'
  BY <1>1, <1>2, <1>5 DEF OnTheNet, NotCalled
<1>7. HadByWorker(0, 0, 0)'
  BY <1>1, <1>2 DEF HadByWorker, NotCalled
<1>8. InTurn(0)'
  BY <1>1, <1>2, SectionEmpty DEF InTurn, NotCalled, Free
<1>9. QED
  BY <1>2, <1>3, <1>6, <1>7, <1>8 DEF Downstream

\* The invariant of speech-to-text holds at the start.
LEMMA SttStarts == SttInit => SttIInv
<1> SUFFICES ASSUME SttInit
             PROVE  SttIInv
  OBVIOUS
<1>1. SttTypeOK
  <2>1. MaxUtterances * (Frames + 1) \in Nat
    BY SttBounds
  <2>2. /\ queue \in [Channels -> Seq(Frame)] /\ Len(queue["audio"]) = 0
        /\ \A st \in Stages : Len(queue[st]) = 0
    BY EmptySeq DEF SttInit, Channels, Stages
  <2>3. worker \in [buffer : Buffers, busy : Transcript]
    BY NothingTyped DEF SttInit
  <2>4. route \in [known : BOOLEAN, open : BOOLEAN, queue : Seq(Transcript)] /\ Len(route.queue) = 0
    BY EmptySeq DEF SttInit
  <2>5. stt \in [at : {"call", "select", "send", "ended"}, holds : Transcript]
    BY NothingTyped DEF SttInit
  <2>6. /\ net \in Seq(Request) /\ Len(net) = 0 /\ replies \in Seq(Transcript)
        /\ transcripts \in Seq(Transcript)
    BY EmptySeq DEF SttInit
  <2>7. /\ spoken \in 0..(MaxUtterances * (Frames + 1)) /\ losses \in 0..MaxLosses
        /\ {cancelled, sttWedged, lossless} \subseteq BOOLEAN
        /\ pump \in {"off", "run", "flush", "ended"}
    <3>1. \A m \in Nat : 0 \in 0..m
      OBVIOUS
    <3>2. 0 \in 0..(MaxUtterances * (Frames + 1)) /\ 0 \in 0..MaxLosses
      BY <2>1, <3>1, SttBounds
    <3>3. QED
      BY <3>2 DEF SttInit
  <2>8. stage \in [Stages -> Frame \cup {<<"select", 0>>, <<"ended", 0>>}]
    BY DEF SttInit
  <2>9. QED
    BY <2>2, <2>3, <2>4, <2>5, <2>6, <2>7, <2>8, SttBounds DEF SttTypeOK, Channels, Buffers
<1>2. NotCalled /\ stt.at = "call" /\ transcripts = <<>>
  BY DEF SttInit, NotCalled, Nothing, NoBuffer, Free
<1>3. Upstream(0)
  <2>1. queue["audio"] = <<>> /\ queue["ingest"] = <<>> /\ queue["vad"] = <<>> /\ spoken = 0
    BY DEF SttInit
  <2>2. Idle("ingest") /\ Idle("vad")
    BY DEF SttInit, Idle, Stages
  <2>3. Holds("vad", 0, 0) /\ Holds("ingest", 0, 0) /\ Holds("audio", 0, spoken)
    BY <2>1, SectionEmpty DEF Holds
  <2>4. Onward("ingest", 0, 0) /\ Onward("vad", 0, 0)
    BY <2>2 DEF Onward
  <2>5. QED
    BY <2>3, <2>4 DEF Upstream, FromVad, FromIngest
<1>4. QED
  BY <1>1, <1>2, <1>3, SectionEmpty DEF SttIInv, InTime, Section

\* Until something is lost, every step keeps what is on its way in turn.
LEMMA InTimeKept ==
  ASSUME SttTypeOK, SttTypeOK', InTime, lossless, lossless', SttNext
  PROVE  InTime'
<1>1. CASE Ingress \/ \E st \in Stages : Take(st) \/ Forward(st) \/ EndStage(st)
  <2>1. UNCHANGED <<stt, pump, net, worker, replies, route, transcripts>>
    BY <1>1 DEF Ingress, Take, Forward, EndStage, outside
  <2>2. \A p \in Nat : Upstream(p) => Upstream(p)'
    BY <1>1, UpstreamMoves
  <2>3. \A p \in Nat : Downstream(p) => Downstream(p)'
    BY <2>1, DownstreamRests
  <2>4. QED
    BY <2>1, <2>2, <2>3 DEF InTime, NotCalled, Free
<1>2. CASE Cancel \/ SttClientWedges
  <2>1. UNCHANGED <<spoken, queue, stage, stt, pump, net, worker, replies, route, transcripts>>
    BY <1>2 DEF Cancel, SttClientWedges
  <2>2. \A p \in Nat : (Upstream(p) => Upstream(p)') /\ (Downstream(p) => Downstream(p)')
    BY <2>1, UpstreamRests, DownstreamRests
  <2>3. QED
    BY <2>1, <2>2 DEF InTime, NotCalled, Free
<1>3. CASE Transcribe
  <2>1. UNCHANGED transcripts /\ stt'.at = "select"
    <3>1. stt' = [stt EXCEPT !.at = "select"] /\ stt \in [at : {"call", "select", "send", "ended"}, holds : Transcript]
      BY <1>3, SttTypeParts DEF Transcribe
    <3>2. QED
      BY <1>3, <3>1 DEF Transcribe
  <2>2. QED
    BY <1>3, <2>1, CallMade DEF InTime
<1>4. CASE PumpFrame \/ PumpEnds \/ PumpFlush
  <2>1. UNCHANGED <<stt, route, transcripts>> /\ pump # "off" /\ pump' # "off"
    BY <1>4 DEF PumpFrame, PumpEnds, PumpFlush, beyondPump
  <2>2. \A p \in Nat : Upstream(p) /\ Downstream(p) => \E q \in Nat : Upstream(q)' /\ Downstream(q)'
    BY <1>4, PumpMoves
  <2>3. QED
    BY <2>1, <2>2 DEF InTime, NotCalled
<1>5. CASE SttEnds
  BY <1>5 DEF SttEnds, InTime
<1>6. CASE SttTakes \/ SttSends \/ RouteReply \/ WhisperDone
  <2>1. /\ UNCHANGED <<spoken, queue, stage, pump, net>> /\ worker'.buffer = worker.buffer
        /\ ~(stt.at = "call" /\ NotCalled)
    <3>1. worker \in [buffer : Buffers, busy : Transcript]
      BY SttFields
    <3>2. worker'.buffer = worker.buffer
      BY <1>6, <3>1 DEF SttTakes, SttSends, RouteReply, WhisperDone, beyondStt
    <3>3. QED
      BY <1>6, <3>2 DEF SttTakes, SttSends, RouteReply, WhisperDone, beyondStt, beyondWorker,
                        NotCalled
  <2>2. stt.at \in {"call", "select", "send", "ended"}
    BY SttFields
  <2>3. CASE stt.at = "ended"
    BY <1>6, <2>3 DEF InTime, SttTakes, SttSends, RouteReply, WhisperDone, beyondWorker
  <2>4. CASE stt.at \in {"select", "send"}
    <3>1. pump # "off" /\ route.open
      BY <2>4 DEF InTime
    <3>2. PICK p \in Nat : Upstream(p) /\ Downstream(p)
      BY <2>4 DEF InTime
    <3>3. PICK h \in Nat, z \in Nat, g \in Nat : OnTheNet(h, p, z) /\ HadByWorker(h, z, g) /\ InTurn(g)
      BY <3>2 DEF Downstream
    <3>4. InTurn(g)'
      BY <1>6, <3>1, <3>3, TranscriptMoves
    <3>5. HadByWorker(h, z, g)' /\ OnTheNet(h, p, z)'
      BY <2>1, <3>3 DEF HadByWorker, HasPart, OnTheNet
    <3>6. Upstream(p)' /\ Downstream(p)'
      BY <2>1, <3>2, <3>4, <3>5, UpstreamRests DEF Downstream
    <3>7. Carries(transcripts', HeardAs, 0)
      BY <3>4 DEF InTurn, Section
    <3>8. stt'.at # "call" /\ pump' # "off" /\ route'.open
      <4>1. route \in [known : BOOLEAN, open : BOOLEAN, queue : Seq(Transcript)]
        BY SttFields
      <4>2. stt'.at # "call"
        BY <1>6, <2>4 DEF SttTakes, SttSends, RouteReply, WhisperDone, beyondWorker
      <4>3. route'.open
        BY <1>6, <3>1, <4>1 DEF SttTakes, SttSends, RouteReply, WhisperDone, beyondWorker
      <4>4. QED
        BY <2>1, <3>1, <4>2, <4>3
    <3>9. QED
      BY <3>6, <3>7, <3>8 DEF InTime
  <2>5. QED
    BY <2>1, <2>2, <2>3, <2>4 DEF InTime
<1>7. CASE HandleMessage
  <2>1. /\ UNCHANGED <<spoken, queue, stage, stt, pump, route, transcripts>> /\ net # <<>>
    BY <1>7 DEF HandleMessage, beyondWorker
  <2>2. \A p \in Nat : (Upstream(p) => Upstream(p)') /\ (Downstream(p) => Downstream(p)')
    BY <1>7, <2>1, UpstreamRests, MessageHandled
  <2>3. QED
    BY <2>1, <2>2 DEF InTime, NotCalled
<1>8. CASE Lose
  BY <1>8 DEF Lose
<1>9. QED
  BY <1>1, <1>2, <1>3, <1>4, <1>5, <1>6, <1>7, <1>8 DEF SttNext

\* Every step from microphone to router, losses and restarts included, keeps
\* it.
THEOREM SttInductive == SttIInv /\ [SttNext]_sttVars => SttIInv'
<1> SUFFICES ASSUME SttIInv, [SttNext]_sttVars
             PROVE  SttIInv'
  OBVIOUS
<1>1. SttTypeOK /\ SttTypeOK' /\ (lossless => InTime)
  BY SttTyped DEF SttIInv
<1>2. CASE UNCHANGED sttVars
  <2>1. lossless' = lossless
    BY <1>2 DEF sttVars
  <2>2. \A p \in Nat : (Upstream(p) => Upstream(p)') /\ (Downstream(p) => Downstream(p)')
    BY <1>2, UpstreamRests, DownstreamRests DEF sttVars
  <2>3. InTime => InTime'
    BY <1>2, <2>2 DEF sttVars, InTime, NotCalled, Free
  <2>4. QED
    BY <1>1, <2>1, <2>3 DEF SttIInv
<1>3. CASE SttNext
  <2>1. lossless' => lossless
    BY <1>3 DEF SttNext, Ingress, Cancel, Take, Forward, EndStage, Transcribe, PumpFrame,
                PumpEnds, PumpFlush, SttTakes, SttSends, SttEnds, RouteReply, HandleMessage,
                WhisperDone, Lose, SttClientWedges, beyondPump
  <2>2. QED
    BY <1>1, <1>3, <2>1, InTimeKept DEF SttIInv
<1>4. QED
  BY <1>2, <1>3

\* What the router has is in turn: one transcript of each utterance, in its
\* language, of the whole of it and nothing else.
THEOREM TranscriptsAreInTurn == SttIInv => OneTranscriptPerUtterance
<1> SUFFICES ASSUME SttIInv, lossless
             PROVE  /\ \A i \in DOMAIN transcripts :
                          /\ transcripts[i].locale = "en"
                          /\ Len(transcripts[i].audio) <= Frames
                          /\ \A k, l \in DOMAIN transcripts[i].audio :
                                transcripts[i].audio[k] = transcripts[i].audio[l]
                    /\ \A i, j \in DOMAIN transcripts :
                          i < j => transcripts[i].audio[1] < transcripts[j].audio[1]
  BY DEF OneTranscriptPerUtterance
<1>1. DOMAIN transcripts \subseteq Nat
  BY SttFields DEF SttIInv
<1>2. ASSUME NEW i \in DOMAIN transcripts
      PROVE  /\ transcripts[i].locale = "en" /\ Len(transcripts[i].audio) \in 1..Frames
             /\ \A k \in DOMAIN transcripts[i].audio : transcripts[i].audio[k] = i
             /\ transcripts[i].audio \in Seq(Utterances)
  <2>1. transcripts[i] \in HeardAs[0 + i] /\ 0 + i = i /\ i \in Nat
    BY <1>1, <1>2 DEF SttIInv, InTime, Carries
  <2>2. QED
    BY <2>1 DEF HeardAs, Transcript
<1>3. ASSUME NEW i \in DOMAIN transcripts
      PROVE  transcripts[i].audio[1] = i
  <2>1. PICK s \in Seq(Utterances), n \in Nat : s = transcripts[i].audio /\ n = Len(s) /\ n >= 1
    BY <1>2, <1>3, LenProperties, SttBounds
  <2>2. 1 \in DOMAIN s
    BY <2>1, LenProperties
  <2>3. QED
    BY <1>2, <2>1, <2>2
<1>4. QED
  BY <1>1, <1>2, <1>3, SttBounds

-----------------------------------------------------------------------------
(* The parts together *)

\* A step of the whole is a step of each part, or leaves it alone.
LEMMA PartsMove ==
  ASSUME [MCNext]_allVars
  PROVE  /\ [Next]_vars /\ [CircuitNext]_circuitVars /\ [SttNext]_sttVars
         /\ [TtsNext]_ttsVars /\ [StreamNext]_streamVars
  BY DEF MCNext, Provider, allVars, otherVars

SpeechIInv == CircuitIInv /\ SttIInv /\ TtsIInv /\ StreamIInv

\* The three invariants hold together at the start.
LEMMA SpeechStarts == MCInit => SpeechIInv
  BY CircuitStarts, SttStarts, TtsStarts, StreamStarts DEF MCInit, SpeechIInv

\* The three invariants hold together in every state the run can reach.
LEMMA SpeechAlways == MCSpec => []SpeechIInv
<1>1. SpeechIInv /\ [MCNext]_allVars => SpeechIInv'
  BY PartsMove, CircuitInductive, SttInductive, TtsInductive, StreamInductive DEF SpeechIInv
<1>2. QED
  BY <1>1, SpeechStarts, PTL DEF MCSpec

\* Whatever is buffered between satellite and worker, and in whatever order the
\* stages, the pump, the worker and the client's route run: unless something was
\* lost, the router gets one transcript of each utterance, in the session's
\* language and in the order they were spoken (mqtt_stt.rs, handle_message).
THEOREM UtterancesAreKeptApart == MCSpec => []OneTranscriptPerUtterance
<1>1. SpeechIInv => OneTranscriptPerUtterance
  BY TranscriptsAreInTurn DEF SpeechIInv
<1>2. QED
  BY <1>1, SpeechAlways, PTL

\* A synthesis nothing disturbed is heard whole and alone, whatever requests ran
\* before it; the tokens of an answer survive every way to cut the body into
\* chunks, and a failure is not silent (MqttTts, the two decoders, spawn_llm).
THEOREM StreamsArriveWhole == MCSpec => []StreamsAreWhole
<1>1. SpeechIInv => StreamsAreWhole
  BY GotIsBeginning, TokensAreDue DEF SpeechIInv, StreamsAreWhole
<1>2. QED
  BY <1>1, SpeechAlways, PTL

\* The four parts keep their types, and no channel holds more than its capacity
\* (the channels of session, pipeline stages, client routes and circuit).
THEOREM SpeechIsTyped == MCSpec => []SpeechTypes
<1>1. MCInit => SessionTypes
  BY SessionTypesStart DEF MCInit
<1>2. SessionTypes /\ [MCNext]_allVars => SessionTypes'
  BY PartsMove, SessionTypesKept
<1>3. SpeechIInv /\ SessionTypes => SpeechTypes
  BY DEF SpeechIInv, SessionTypes, SpeechTypes, CircuitIInv, SttIInv, TtsIInv, TtsTypes
<1>4. QED
  BY <1>1, <1>2, <1>3, SpeechAlways, PTL DEF MCSpec
=============================================================================
