------------------------------ MODULE SkillsProofs -----------------------------
(***************************************************************************)
(* What answers an utterance, for any number of calls, faults and rules:   *)
(* what the skills publish is published once, their keys are kept for      *)
(* their retention, the Jeedom skill does what it asked about, and the     *)
(* matcher takes the winner and the words that were said.                  *)
(***************************************************************************)
EXTENDS SkillCalls, JeedomSkill, IntentMatching, FiniteSetTheorems, TLAPS

(***************************************************************************)
(* Sequences that hold nothing twice.                                      *)
(***************************************************************************)
Has(s, x) == \E n \in DOMAIN s : s[n] = x
Distinct(s) == \A m, n \in DOMAIN s : s[m] = s[n] => m = n

\* What a sequence holds once an element is appended to it.
LEMMA AppendHas ==
  ASSUME NEW S, NEW s \in Seq(S), NEW x \in S
  PROVE  /\ Append(s, x) \in Seq(S)
         /\ \A y : Has(Append(s, x), y) <=> Has(s, y) \/ y = x
         /\ Distinct(s) /\ ~Has(s, x) => Distinct(Append(s, x))
<1>1. /\ Append(s, x) \in Seq(S) /\ Len(s) \in Nat
      /\ DOMAIN s = 1..Len(s) /\ DOMAIN Append(s, x) = 1..Len(s) + 1
      /\ \A n \in 1..Len(s) : Append(s, x)[n] = s[n]
      /\ Append(s, x)[Len(s) + 1] = x
  OBVIOUS
<1>2. \A y : Has(Append(s, x), y) <=> Has(s, y) \/ y = x
  BY <1>1 DEF Has
<1>3. Distinct(s) /\ ~Has(s, x) => Distinct(Append(s, x))
  BY <1>1 DEF Has, Distinct
<1>4. QED
  BY <1>1, <1>2, <1>3

\* What a sequence holds once its head is taken.
LEMMA TailHas ==
  ASSUME NEW S, NEW s \in Seq(S), s # <<>>
  PROVE  /\ Tail(s) \in Seq(S) /\ Head(s) \in S /\ Has(s, Head(s))
         /\ \A y : Has(Tail(s), y) => Has(s, y)
         /\ Distinct(s) => Distinct(Tail(s)) /\ ~Has(Tail(s), Head(s))
<1>1. /\ Tail(s) \in Seq(S) /\ Len(s) \in Nat \ {0}
      /\ DOMAIN s = 1..Len(s) /\ DOMAIN Tail(s) = 1..Len(s) - 1
      /\ \A n \in 1..Len(s) - 1 : Tail(s)[n] = s[n + 1]
      /\ Head(s) = s[1] /\ s[1] \in S
  OBVIOUS
<1>2. Has(s, Head(s)) /\ \A y : Has(Tail(s), y) => Has(s, y)
  BY <1>1 DEF Has
<1>3. Distinct(s) => Distinct(Tail(s)) /\ ~Has(Tail(s), Head(s))
  BY <1>1 DEF Has, Distinct
<1>4. QED
  BY <1>1, <1>2, <1>3

\* The empty sequence holds nothing, and nothing twice.
LEMMA EmptyHas == ASSUME NEW S PROVE <<>> \in Seq(S) /\ Distinct(<<>>) /\ \A y : ~Has(<<>>, y)
  BY DEF Has, Distinct

(***************************************************************************)
(* The skill calls                                                         *)
(***************************************************************************)
Rows == [id : Calls, at : Int]
Places == {"recv", "stopped", "hung", "handle", "set", "forecast", "publish"}
Answers == {"new", "sending", "waiting", "error", "gone", "done", "sorry"}

CallTypes ==
    /\ skillCall \in [Calls -> Answers] /\ skill \in [Calls -> Skills]
    /\ mailbox \in Seq(Calls)
    /\ worker \in [at : Places, id : Calls \cup {0}]
    /\ worker.at \in {"recv", "stopped"} \/ worker.id \in Calls
    /\ events \subseteq Rows /\ IsFiniteSet(events)
    /\ hand \in Seq(Rows) /\ wire \in Seq(Calls)
    /\ fired \in [Calls -> Nat]
    /\ now \in Int

Stored(id) == \E e \in events : e.id = id
InHand(id) == \E n \in DOMAIN hand : hand[n].id = id
OnWire(id) == Has(wire, id)
Serves(id) == worker.id = id /\ worker.at \notin {"recv", "stopped"}

\* The skill may still schedule or publish for this call.
MayPromise(id) ==
    \/ skillCall[id] \in {"new", "sending"}
    \/ Has(mailbox, id)
    \/ Serves(id) /\ worker.at \in {"handle", "publish"}

\* Where a call's publish is: in one place, and nowhere while it may still be
\* promised.
CallInv(id) ==
    /\ Has(mailbox, id) => skillCall[id] = "waiting" /\ ~Serves(id)
    /\ Serves(id) => skillCall[id] = "waiting"
    /\ MayPromise(id) => ~Stored(id)
    /\ MayPromise(id) \/ Stored(id) => ~InHand(id)
    /\ MayPromise(id) \/ Stored(id) \/ InHand(id) => ~OnWire(id)
    /\ MayPromise(id) \/ Stored(id) \/ InHand(id) \/ OnWire(id) => fired[id] = 0
    /\ fired[id] <= 1

NoneTwice ==
    /\ Distinct(mailbox) /\ Distinct(wire)
    /\ \A d, e \in events : d.id = e.id => d = e
    /\ \A m, n \in DOMAIN hand : hand[m].id = hand[n].id => m = n

CallsIInv == CallTypes /\ NoneTwice /\ \A id \in Calls : CallInv(id)

\* Nothing moves but the clock, the plugins, the keys or the announcements.
LEMMA StillKeeps ==
  ASSUME CallsIInv, UNCHANGED <<way, events, hand, wire, fired>>, now' \in Int
  PROVE  CallsIInv'
<1>1. CallTypes'
  BY DEF CallsIInv, CallTypes, way
<1>2. NoneTwice'
  BY DEF CallsIInv, NoneTwice, way
<1>3. \A id \in Calls : CallInv(id)'
  BY DEF CallsIInv, CallInv, Stored, InHand, OnWire, Serves, MayPromise, way
<1>4. QED
  BY <1>1, <1>2, <1>3 DEF CallsIInv

\* The worker is done with its call, whatever it answers.
LEMMA ReplyKeeps ==
  ASSUME CallsIInv, worker.at \notin {"recv", "stopped"},
         NEW outcome \in {"error", "done", "sorry"}, Reply(outcome),
         UNCHANGED <<now, skill, mailbox, events, hand, wire, fired>>
  PROVE  CallsIInv'
<1>1. /\ worker' = Free /\ worker.id \in Calls
      /\ skillCall' = [skillCall EXCEPT ![worker.id] = outcome]
  BY DEF CallsIInv, CallTypes, Reply, Answer
<1>2. CallTypes'
  BY <1>1 DEF CallsIInv, CallTypes, Answers, Free, Places
<1>3. NoneTwice'
  BY DEF CallsIInv, NoneTwice
<1>4. ASSUME NEW id \in Calls PROVE CallInv(id)'
  <2>1. CallInv(id) /\ CallTypes
    BY DEF CallsIInv
  <2>2. CASE id = worker.id
    BY <1>1, <2>1, <2>2 DEF CallTypes, CallInv, Stored, InHand, OnWire, Serves, MayPromise, Free
  <2>3. CASE id # worker.id
    BY <1>1, <2>1, <2>3 DEF CallTypes, CallInv, Stored, InHand, OnWire, Serves, MayPromise, Free
  <2>4. QED
    BY <2>2, <2>3
<1>5. QED
  BY <1>2, <1>3, <1>4 DEF CallsIInv

\* The worker goes on with its call to where it can promise no more than before.
LEMMA GoKeeps ==
  ASSUME CallsIInv, worker.at \notin {"recv", "stopped"},
         NEW place \in {"forecast", "hung", "publish"}, Go(place),
         place = "publish" => worker.at = "handle",
         UNCHANGED <<now, skill, mailbox, events, hand, wire, fired>>
  PROVE  CallsIInv'
<1>1. /\ worker' = [worker EXCEPT !.at = place] /\ skillCall' = skillCall
      /\ worker' = [at |-> place, id |-> worker.id]
  BY DEF CallsIInv, CallTypes, Go
<1>2. CallTypes'
  BY <1>1 DEF CallsIInv, CallTypes, Places
<1>3. NoneTwice'
  BY DEF CallsIInv, NoneTwice
<1>4. ASSUME NEW id \in Calls PROVE CallInv(id)'
  BY <1>1 DEF CallsIInv, CallTypes, CallInv, Stored, InHand, OnWire, Serves, MayPromise
<1>5. QED
  BY <1>2, <1>3, <1>4 DEF CallsIInv

\* Starting a guest call keeps every id in at most one place.
LEMMA BeginCallKeeps ==
  ASSUME CallsIInv, NEW id \in Calls, BeginCall(id)
  PROVE  CallsIInv'
<1>1. CallTypes'
  BY DEF CallsIInv, CallTypes, BeginCall, Answers, timers, broker, store
<1>2. NoneTwice'
  BY DEF CallsIInv, NoneTwice, BeginCall, timers, broker
<1>3. ASSUME NEW i \in Calls PROVE CallInv(i)'
  BY DEF CallsIInv, CallTypes, CallInv, BeginCall, timers, broker, store,
         Stored, InHand, OnWire, Serves, MayPromise
<1>4. QED
  BY <1>1, <1>2, <1>3 DEF CallsIInv

\* Sending a call moves its id from nowhere into the mailbox.
LEMMA SendKeeps ==
  ASSUME CallsIInv, NEW id \in Calls, Send(id)
  PROVE  CallsIInv'
<1>1. /\ skillCall[id] = "sending"
      /\ UNCHANGED <<now, skill, worker, events, hand, wire, fired>>
      /\ \/ skillCall' = [skillCall EXCEPT ![id] = "error"] /\ mailbox' = mailbox
         \/ skillCall' = [skillCall EXCEPT ![id] = "waiting"] /\ mailbox' = Append(mailbox, id)
  BY DEF Send, timers, broker
<1>2. ~Has(mailbox, id) /\ ~Serves(id) /\ mailbox \in Seq(Calls)
  BY <1>1 DEF CallsIInv, CallTypes, CallInv
<1>3. /\ Append(mailbox, id) \in Seq(Calls) /\ Distinct(Append(mailbox, id))
      /\ \A y : Has(Append(mailbox, id), y) <=> Has(mailbox, y) \/ y = id
  BY <1>2, AppendHas DEF CallsIInv, NoneTwice
<1>4. CallTypes'
  BY <1>1, <1>3 DEF CallsIInv, CallTypes, Answers
<1>5. NoneTwice'
  BY <1>1, <1>3 DEF CallsIInv, NoneTwice
<1>6. ASSUME NEW i \in Calls PROVE CallInv(i)'
  BY <1>1, <1>2, <1>3, ZenonT(30)
    DEF CallsIInv, CallTypes, CallInv, Stored, InHand, OnWire, Serves, MayPromise
<1>7. QED
  BY <1>4, <1>5, <1>6 DEF CallsIInv

\* Shutdown keeps the places of the ids: what it drops is in no place.
LEMMA StopKeeps ==
  ASSUME CallsIInv, Stop
  PROVE  CallsIInv'
<1>1. /\ worker' = [at |-> "stopped", id |-> 0] /\ mailbox' = <<>>
      /\ skillCall' = [id \in Calls |-> IF id \in Range(mailbox) THEN "error" ELSE skillCall[id]]
      /\ UNCHANGED <<now, skill, events, hand, wire, fired>>
      /\ worker.at = "recv"
  BY DEF Stop, timers, broker
<1>2. CallTypes'
  BY <1>1 DEF CallsIInv, CallTypes, Answers, Places
<1>3. NoneTwice'
  BY <1>1 DEF CallsIInv, NoneTwice, Distinct
<1>4. ASSUME NEW i \in Calls PROVE CallInv(i)'
  <2>1. ~Has(mailbox', i) /\ ~Serves(i)'
    BY <1>1, EmptyHas DEF Serves
  <2>2. skillCall'[i] \in {"error", skillCall[i]}
    BY <1>1
  <2>3. QED
    BY <1>1, <2>1, <2>2 DEF CallsIInv, CallTypes, CallInv, Stored, InHand, OnWire, MayPromise
<1>5. QED
  BY <1>2, <1>3, <1>4 DEF CallsIInv

\* The dispatcher takes one call off the mailbox, serves it or answers it.
LEMMA DispatchKeeps ==
  ASSUME CallsIInv, Dispatch
  PROVE  CallsIInv'
<1> DEFINE id == Head(mailbox)
<1>1. /\ worker.at = "recv" /\ mailbox # <<>> /\ mailbox' = Tail(mailbox)
      /\ UNCHANGED <<now, skill, events, hand, wire, fired>>
      /\ \/ worker' = Free /\ skillCall' = [skillCall EXCEPT ![id] = "error"]
         \/ worker' = [at |-> "handle", id |-> id] /\ skillCall' = skillCall
  BY DEF Dispatch, Answer, Panicked, timers, broker
<1>2. /\ Tail(mailbox) \in Seq(Calls) /\ id \in Calls /\ Has(mailbox, id)
      /\ \A y : Has(Tail(mailbox), y) => Has(mailbox, y)
      /\ Distinct(Tail(mailbox)) /\ ~Has(Tail(mailbox), id)
  BY <1>1, TailHas DEF CallsIInv, CallTypes, NoneTwice
<1> HIDE DEF id
<1>3. CallTypes'
  <2>1. CASE worker' = Free /\ skillCall' = [skillCall EXCEPT ![id] = "error"]
    BY <1>1, <1>2, <2>1 DEF CallsIInv, CallTypes, Answers, Places, Free
  <2>2. CASE worker' = [at |-> "handle", id |-> id] /\ skillCall' = skillCall
    BY <1>1, <1>2, <2>2 DEF CallsIInv, CallTypes, Places
  <2>3. QED
    BY <1>1, <2>1, <2>2
<1>4. NoneTwice'
  BY <1>1, <1>2 DEF CallsIInv, NoneTwice
<1>5. ASSUME NEW i \in Calls PROVE CallInv(i)'
  <2>1. CASE i = id
    <3>1. MayPromise(i) /\ CallInv(i) /\ skillCall[i] = "waiting"
      BY <1>2, <2>1 DEF CallsIInv, CallInv, MayPromise
    <3>2. QED
      BY <1>1, <1>2, <2>1, <3>1
         DEF CallsIInv, CallTypes, CallInv, Stored, InHand, OnWire, Serves, MayPromise, Free
  <2>2. CASE i # id
    BY <1>1, <1>2, <2>2
       DEF CallsIInv, CallTypes, CallInv, Stored, InHand, OnWire, Serves, MayPromise, Free
  <2>3. QED
    BY <2>1, <2>2
<1>6. QED
  BY <1>3, <1>4, <1>5 DEF CallsIInv

\* A row more is stored, for the call the worker serves (host_schedule_mqtt).
LEMMA ScheduleKeeps ==
  ASSUME CallsIInv, worker.at = "handle", ScheduleMqtt(worker.id),
         UNCHANGED <<now, skill, mailbox, hand, wire, fired>>
  PROVE  CallsIInv'
<1> DEFINE row == [id |-> worker.id, at |-> now + Delay]
<1>1. /\ events' = events \cup {row} /\ skillCall' = skillCall
      /\ worker' = [at |-> "set", id |-> worker.id] /\ worker.id \in Calls
  BY DEF ScheduleMqtt, Go, CallsIInv, CallTypes
<1>2. MayPromise(worker.id) /\ ~Stored(worker.id)
  BY <1>1 DEF CallsIInv, CallInv, MayPromise, Serves
<1>3. row \in Rows /\ row.id = worker.id
  BY <1>1, CallsAssumption DEF CallsIInv, CallTypes, Rows
<1> HIDE DEF row
<1>4. IsFiniteSet(events')
  BY <1>1, FS_AddElement DEF CallsIInv, CallTypes
<1>5. CallTypes'
  BY <1>1, <1>3, <1>4 DEF CallsIInv, CallTypes, Places
<1>6. NoneTwice'
  BY <1>1, <1>2, <1>3 DEF CallsIInv, NoneTwice, Stored
<1>7. ASSUME NEW i \in Calls PROVE CallInv(i)'
  <2>1. Stored(i)' <=> Stored(i) \/ i = worker.id
    BY <1>1, <1>3 DEF Stored
  <2>2. CallInv(i) /\ CallInv(worker.id)
    BY <1>1 DEF CallsIInv
  <2>3. QED
    BY <1>1, <1>2, <2>1, <2>2 DEF CallInv, InHand, OnWire, Serves, MayPromise
<1>8. QED
  BY <1>5, <1>6, <1>7 DEF CallsIInv

\* The timer skill schedules the event of its call, once, or says sorry.
LEMMA TimerScheduleKeeps ==
  ASSUME CallsIInv, TimerSchedule
  PROVE  CallsIInv'
<1>1. worker.at = "handle" /\ UNCHANGED <<now, skill, mailbox, hand, wire, fired>>
  BY DEF TimerSchedule, At, broker
<1>2. \/ ScheduleMqtt(worker.id)
      \/ \E outcome \in {"error", "sorry"} : Reply(outcome) /\ events' = events
  BY DEF TimerSchedule, ScheduleFails
<1>3. QED
  BY <1>1, <1>2, ScheduleKeeps, ReplyKeeps

\* The light skill puts its command on the wire, once, or says sorry.
LEMMA LightPublishKeeps ==
  ASSUME CallsIInv, LightPublish
  PROVE  CallsIInv'
<1>1. worker.at = "publish" /\ UNCHANGED <<now, skill, mailbox, events, hand, fired>>
  BY DEF LightPublish, At, timers
<1>2. CASE Reply("sorry") /\ wire' = wire
  BY <1>1, <1>2, ReplyKeeps
<1>3. CASE Reply("done") /\ wire' = Append(wire, worker.id)
  <2>1. /\ worker' = Free /\ worker.id \in Calls
        /\ skillCall' = [skillCall EXCEPT ![worker.id] = "done"]
    BY <1>1, <1>3 DEF CallsIInv, CallTypes, Reply, Answer
  <2>2. MayPromise(worker.id) /\ ~OnWire(worker.id) /\ wire \in Seq(Calls) /\ ~Has(mailbox, worker.id)
    BY <1>1, <2>1 DEF CallsIInv, CallTypes, CallInv, MayPromise, Serves
  <2>3. /\ wire' \in Seq(Calls) /\ Distinct(wire')
        /\ \A y : Has(wire', y) <=> Has(wire, y) \/ y = worker.id
    BY <1>3, <2>1, <2>2, AppendHas DEF CallsIInv, NoneTwice, OnWire
  <2>4. CallTypes'
    BY <1>1, <2>1, <2>3 DEF CallsIInv, CallTypes, Answers, Places, Free
  <2>5. NoneTwice'
    BY <1>1, <2>3 DEF CallsIInv, NoneTwice
  <2>6. ASSUME NEW i \in Calls PROVE CallInv(i)'
    <3>1. OnWire(i)' <=> OnWire(i) \/ i = worker.id
      BY <2>3 DEF OnWire
    <3>2. CallInv(i) /\ CallInv(worker.id) /\ CallTypes
      BY <2>1 DEF CallsIInv
    <3>3. QED
      BY <1>1, <2>1, <2>2, <3>1, <3>2
         DEF CallTypes, CallInv, Stored, InHand, Serves, MayPromise, Free
  <2>7. QED
    BY <2>4, <2>5, <2>6 DEF CallsIInv
<1>4. QED
  BY <1>2, <1>3 DEF LightPublish, MqttPublish

\* A step of a guest, a panic included, keeps the invariant of the calls.
LEMMA GuestKeeps ==
  ASSUME CallsIInv, Guest \/ Panic
  PROVE  CallsIInv'
<1>1. CASE TimerSchedule \/ LightPublish
  BY <1>1, TimerScheduleKeeps, LightPublishKeeps
<1>2. CASE TimerSet
  BY <1>2, ReplyKeeps DEF TimerSet, At, timers, broker
<1>3. CASE WeatherGeocode
  <2>1. /\ worker.at = "handle" /\ UNCHANGED <<now, skill, mailbox, events, hand, wire, fired>>
        /\ Reply("sorry") \/ Go("forecast")
    BY <1>3 DEF WeatherGeocode, Geocoded, At, timers, broker
  <2>2. QED
    BY <2>1, ReplyKeeps, GoKeeps
<1>4. CASE WeatherForecast
  BY <1>4, ReplyKeeps DEF WeatherForecast, At, timers, broker
<1>5. CASE HttpHangs
  BY <1>5, GoKeeps DEF HttpHangs, At, timers, broker
<1>6. CASE LightFind
  BY <1>6, ReplyKeeps, GoKeeps DEF LightFind, At, timers, broker
<1>7. CASE Panic
  BY <1>7, ReplyKeeps DEF Panic, Panicked, Reply, timers, broker
<1>8. QED
  BY <1>1, <1>2, <1>3, <1>4, <1>5, <1>6, <1>7 DEF Guest

\* Every due row is handed on once, in one of the orders the query allows.
LEMMA PopKeeps ==
  ASSUME CallsIInv, SchedulerTick
  PROVE  CallsIInv'
<1>1. /\ hand = <<>> /\ hand' \in SetToSeqs(Due) /\ events' = events \ Due
      /\ UNCHANGED <<now, way, wire, fired>>
  BY DEF SchedulerTick, Pop, ByTime, broker
<1>2. IsFiniteSet(Due) /\ IsFiniteSet(events') /\ Due \subseteq events /\ Due \subseteq Rows
  BY <1>1, FS_Subset DEF CallsIInv, CallTypes, Due
<1>3. PICK n \in Nat : n = Cardinality(Due)
  BY <1>2, FS_CardinalityType
<1>4. hand' \in [1..n -> Due] /\ \A i, j \in 1..n : i # j => hand'[i] # hand'[j]
  BY <1>1, <1>3 DEF SetToSeqs
<1>5. DOMAIN hand' = 1..n /\ \A j \in 1..n : hand'[j] \in Due
  BY <1>4
<1>6. hand' \in Seq(Rows)
  <2>1. hand' \in [1..n -> Rows]
    BY <1>2, <1>4
  <2>2. QED
    BY <2>1
<1>7. CallTypes'
  BY <1>1, <1>2, <1>6 DEF CallsIInv, CallTypes, way
<1>8. NoneTwice'
  <2>1. \A j, k \in 1..n : hand'[j].id = hand'[k].id => j = k
    BY <1>2, <1>4, <1>5 DEF CallsIInv, NoneTwice
  <2>2. QED
    BY <1>1, <1>2, <1>5, <2>1 DEF CallsIInv, NoneTwice, way
<1>9. ASSUME NEW i \in Calls PROVE CallInv(i)'
  <2>1. (InHand(i)' => \E e \in Due : e.id = i) /\ (Stored(i)' => \E e \in events \ Due : e.id = i)
    BY <1>1, <1>5 DEF InHand, Stored
  <2>2. (InHand(i)' => Stored(i)) /\ (Stored(i)' => Stored(i)) /\ (InHand(i)' => ~Stored(i)')
    BY <1>2, <2>1 DEF Stored, CallsIInv, NoneTwice
  <2>3. QED
    BY <1>1, <2>2 DEF CallsIInv, CallInv, OnWire, Serves, MayPromise, way
<1>10. QED
  BY <1>7, <1>8, <1>9 DEF CallsIInv

\* The scheduler's publish takes an event to the broker, or loses it.
LEMMA PublishKeeps ==
  ASSUME CallsIInv, Publish
  PROVE  CallsIInv'
<1>1. PICK id : /\ id = Head(hand).id
                /\ hand # <<>> /\ hand' = Tail(hand) /\ wire' \in {wire, Append(wire, id)}
                /\ UNCHANGED <<now, way, events, fired>>
  BY DEF Publish
<1>2. /\ hand' \in Seq(Rows) /\ Len(hand) \in Nat \ {0} /\ DOMAIN hand = 1..Len(hand)
      /\ DOMAIN hand' = 1 .. Len(hand) - 1 /\ hand[1] \in Rows /\ id = hand[1].id
      /\ \A i \in 1 .. Len(hand) - 1 : hand'[i] = hand[i + 1]
  BY <1>1 DEF CallsIInv, CallTypes
<1>3. id \in Calls /\ InHand(id) /\ ~InHand(id)' /\ \A i \in Calls : InHand(i)' => InHand(i)
  <2>1. id \in Calls /\ InHand(id)
    BY <1>2 DEF InHand, Rows
  <2>4. ASSUME NEW i \in Calls, InHand(i)' PROVE InHand(i)
    <3>1. PICK n \in 1 .. Len(hand) - 1 : hand'[n].id = i
      BY <1>2, <2>4 DEF InHand
    <3>2. hand[n + 1].id = i /\ n + 1 \in 1 .. Len(hand)
      BY <1>2, <3>1
    <3>3. QED
      BY <1>2, <3>2 DEF InHand
  <2>2. \A m \in 1 .. Len(hand) : hand[m].id = hand[1].id => m = 1
    BY <1>2 DEF CallsIInv, NoneTwice
  <2>3. ~InHand(id)'
    BY <1>2, <2>2, SMTT(20) DEF InHand
  <2>5. QED
    BY <2>1, <2>3, <2>4
<1>4. ~Has(wire, id) /\ wire \in Seq(Calls) /\ Distinct(wire)
  BY <1>3 DEF CallsIInv, CallTypes, NoneTwice, CallInv, OnWire
<1>5. wire' \in Seq(Calls) /\ Distinct(wire') /\ \A i \in Calls : OnWire(i)' => OnWire(i) \/ i = id
  <2>1. /\ Append(wire, id) \in Seq(Calls) /\ Distinct(Append(wire, id))
        /\ \A y : Has(Append(wire, id), y) <=> Has(wire, y) \/ y = id
    BY <1>3, <1>4, AppendHas
  <2>2. CASE wire' = wire
    BY <1>4, <2>2 DEF OnWire
  <2>3. CASE wire' = Append(wire, id)
    BY <2>1, <2>3 DEF OnWire
  <2>4. QED
    BY <1>1, <2>2, <2>3
<1>6. CallTypes'
  BY <1>1, <1>2, <1>5 DEF CallsIInv, CallTypes, way
<1>7. NoneTwice'
  BY <1>1, <1>2, <1>5 DEF CallsIInv, NoneTwice, way
<1>8. ASSUME NEW i \in Calls PROVE CallInv(i)'
  <2>1. CallInv(i)
    BY DEF CallsIInv
  <2>2. CASE i = id
    BY <1>1, <1>3, <2>1, <2>2 DEF CallInv, Stored, Serves, MayPromise, way
  <2>3. CASE i # id
    BY <1>1, <1>3, <1>5, <2>1, <2>3 DEF CallInv, Stored, Serves, MayPromise, way
  <2>4. QED
    BY <2>2, <2>3
<1>9. QED
  BY <1>6, <1>7, <1>8 DEF CallsIInv

\* The broker delivers the first of what it carries, and carries it no more.
LEMMA DeliverKeeps ==
  ASSUME CallsIInv, Deliver
  PROVE  CallsIInv'
<1>1. PICK id : /\ id = Head(wire)
                /\ wire # <<>> /\ wire' = Tail(wire) /\ fired' = [fired EXCEPT ![id] = @ + 1]
                /\ UNCHANGED <<now, way, events, hand>>
  BY DEF Deliver
<1>2. wire \in Seq(Calls) /\ Distinct(wire)
  BY DEF CallsIInv, CallTypes, NoneTwice
<1>3. /\ wire' \in Seq(Calls) /\ id \in Calls /\ OnWire(id) /\ Distinct(wire')
      /\ ~OnWire(id)' /\ \A y \in Calls : OnWire(y)' => OnWire(y)
  BY <1>1, <1>2, TailHas DEF OnWire
<1>4. CallTypes'
  BY <1>1, <1>3 DEF CallsIInv, CallTypes, way
<1>5. NoneTwice'
  BY <1>1, <1>3 DEF CallsIInv, NoneTwice, way
<1>6. ASSUME NEW i \in Calls PROVE CallInv(i)'
  <2>1. CallInv(i) /\ fired \in [Calls -> Nat]
    BY DEF CallsIInv, CallTypes
  <2>2. CASE i = id
    BY <1>1, <1>3, <2>1, <2>2 DEF CallInv, InHand, Stored, Serves, MayPromise, way
  <2>3. CASE i # id
    BY <1>1, <1>3, <2>1, <2>3 DEF CallInv, InHand, Stored, Serves, MayPromise, way
  <2>4. QED
    BY <2>2, <2>3
<1>7. QED
  BY <1>4, <1>5, <1>6 DEF CallsIInv

\* The event loop is gone, with what it had not sent.
LEMMA PollEndsKeeps ==
  ASSUME CallsIInv, PollEnds
  PROVE  CallsIInv'
<1>1. wire' = <<>> /\ UNCHANGED <<now, way, events, hand, fired>>
  BY DEF PollEnds, timers
<1>2. CallTypes'
  BY <1>1 DEF CallsIInv, CallTypes, way
<1>3. NoneTwice'
  BY <1>1 DEF CallsIInv, NoneTwice, Distinct, way
<1>4. ASSUME NEW i \in Calls PROVE CallInv(i)'
  BY <1>1, EmptyHas DEF CallsIInv, CallInv, OnWire, InHand, Stored, Serves, MayPromise, way
<1>5. QED
  BY <1>2, <1>3, <1>4 DEF CallsIInv

\* The rows survive; the calls under way, the popped events and the queued
\* publishes do not.
LEMMA CrashKeeps ==
  ASSUME CallsIInv, Crash
  PROVE  CallsIInv'
<1>1. /\ mailbox' = <<>> /\ worker' = Free /\ hand' = <<>> /\ wire' = <<>>
      /\ skillCall' = [id \in Calls |->
            IF skillCall[id] \in {"sending", "waiting"} THEN "gone" ELSE skillCall[id]]
      /\ UNCHANGED <<now, skill, events, fired>>
  BY DEF Crash
<1>2. CallTypes'
  BY <1>1 DEF CallsIInv, CallTypes, Free, Places, Answers
<1>3. NoneTwice'
  BY <1>1 DEF CallsIInv, NoneTwice, Distinct
<1>4. ASSUME NEW i \in Calls PROVE CallInv(i)'
  <2>1. ~Has(mailbox', i) /\ ~Serves(i)' /\ ~OnWire(i)' /\ ~InHand(i)'
    BY <1>1, EmptyHas DEF Serves, Free, OnWire, InHand
  <2>2. skillCall'[i] \in {"gone", skillCall[i]}
    BY <1>1
  <2>3. QED
    BY <1>1, <2>1, <2>2 DEF CallsIInv, CallTypes, CallInv, Stored, MayPromise
<1>5. QED
  BY <1>2, <1>3, <1>4 DEF CallsIInv

\* Every step of host, guests, scheduler and broker keeps the invariant.
LEMMA CallsStep ==
  ASSUME CallsIInv, [CallsNext]_callsVars
  PROVE  CallsIInv'
<1>1. CASE UNCHANGED callsVars
  BY <1>1, StillKeeps DEF callsVars, way, CallsIInv, CallTypes
<1>2. ASSUME NEW id \in Calls, BeginCall(id) \/ Send(id) PROVE CallsIInv'
  BY <1>2, BeginCallKeeps, SendKeeps
<1>3. CASE Dispatcher
  BY <1>3, StopKeeps, DispatchKeeps, GuestKeeps DEF Dispatcher
<1>4. ASSUME NEW s \in Skills, Reload(s) \/ Disable(s) PROVE CallsIInv'
  BY <1>4, StillKeeps DEF Reload, Disable, timers, broker, CallsIInv, CallTypes
<1>5. ASSUME NEW gc \in gcs, Collect(gc) PROVE CallsIInv'
  BY <1>5, StillKeeps DEF Collect, timers, broker, CallsIInv, CallTypes
<1>6. CASE Scheduler \/ Deliver \/ PollEnds \/ Crash
  BY <1>6, PopKeeps, PublishKeeps, DeliverKeeps, PollEndsKeeps, CrashKeeps DEF Scheduler
<1>7. CASE Forward \/ Tick \/ StopRuntime
  BY <1>7, StillKeeps DEF Forward, Tick, StopRuntime, timers, broker, CallsIInv, CallTypes
<1>8. QED
  BY <1>1, <1>2, <1>3, <1>4, <1>5, <1>6, <1>7 DEF CallsNext

\* The retention of one of the skills is the longest.
LEMMA StartClock == Max(Range(Retention)) \in Int
<1>1. PICK a, b, c \in Nat : Range(Retention) = {a, b, c}
  <2>1. Range(Retention) = {Retention["timer"], Retention["weather"], Retention["home"]}
    BY CallsAssumption DEF Range
  <2>2. Retention["timer"] \in Nat /\ Retention["weather"] \in Nat /\ Retention["home"] \in Nat
    BY CallsAssumption
  <2>3. QED
    BY <2>1, <2>2
<1>2. \E x \in {a, b, c} : \A y \in {a, b, c} : x >= y
  OBVIOUS
<1>3. QED
  BY <1>1, <1>2 DEF Max

\* The invariant of the calls holds at the start.
LEMMA CallsStart == CallsInit => CallsIInv
<1> SUFFICES ASSUME CallsInit PROVE CallsIInv
  OBVIOUS
<1>1. CallTypes
  <2>1. IsFiniteSet(events) /\ events = {}
    BY FS_EmptySet DEF CallsInit
  <2>2. skill \in [Calls -> Skills]
    <3>1. (CHOOSE s \in Skills : TRUE) \in Skills
      BY CallsAssumption DEF Skills
    <3>2. QED
      BY <3>1 DEF CallsInit
  <2>3. QED
    BY <2>1, <2>2, StartClock DEF CallsInit, CallTypes, Answers, Places, Free
<1>2. NoneTwice
  BY DEF CallsInit, NoneTwice, Distinct
<1>3. ASSUME NEW id \in Calls PROVE CallInv(id)
  BY EmptyHas DEF CallsInit, CallInv, Stored, InHand, OnWire, Serves, MayPromise, Free
<1>4. QED
  BY <1>1, <1>2, <1>3 DEF CallsIInv

\* A call's publish is in one place at a time, its row, the scheduler's hand
\* or the client's queue, and nowhere while the skill may still promise it:
\* so it reaches the broker once at most, for any number of calls and faults
\* (host_schedule_mqtt, pop_due_events, SchedulerTask, publish_command).
THEOREM PublishedOnce == CallsSpec => []FiredAtMostOnce
<1>1. CallsIInv => FiredAtMostOnce
  BY DEF CallsIInv, CallInv, FiredAtMostOnce
<1>2. QED
  BY <1>1, CallsStart, CallsStep, PTL DEF CallsSpec

\* The thresholds of the collectors not run yet have passed already.
Thresholds ==
    /\ \A k \in keys : k.at \in Int /\ k.skill \in Skills
    /\ \A gc \in gcs : /\ gc.skill \in Skills /\ gc.upto \in Int
                       /\ gc.upto <= now - Retention[gc.skill]

\* What one step may take from the store and leave to the collectors.
Collects ==
    /\ Thresholds'
    /\ \A k \in keys \ keys' :
          (\E n \in keys' : <<n.skill, n.name>> = <<k.skill, k.name>>)
             \/ now - k.at >= Retention[k.skill]

\* A step that leaves the rows alone deletes none too early.
LEMMA StoreStill ==
  ASSUME Thresholds, now \in Int, now' \in Int, now' >= now, keys' = keys, gcs' \subseteq gcs
  PROVE  Collects
<1>1. \A s \in Skills : Retention[s] \in Int
  BY CallsAssumption DEF Skills
<1>2. QED
  BY <1>1 DEF Thresholds, Collects

\* host_state_set replaces a key and collects the old ones of its skill.
LEMMA SetCollects ==
  ASSUME Thresholds, now \in Int, UNCHANGED <<now, gcs>>,
         NEW s \in Skills, NEW name, StateSet(s, name) \/ keys' \in {keys, Upsert(s, name)}
  PROVE  Collects
<1>1. \A t \in Skills : Retention[t] \in Nat
  BY CallsAssumption DEF Skills
<1>2. DEFINE new == [skill |-> s, name |-> name, at |-> now]
<1>3. Thresholds'
  BY DEF Thresholds, StateSet, Upsert
<1>4. new \notin Old(s)
  BY <1>1 DEF Old
<1>5. ASSUME NEW k \in keys, k \notin keys'
      PROVE  (\E n \in keys' : <<n.skill, n.name>> = <<k.skill, k.name>>)
             \/ now - k.at >= Retention[k.skill]
  <2>1. keys' # keys /\ new \in keys'
    BY <1>4, <1>5 DEF StateSet, Upsert
  <2>2. CASE <<k.skill, k.name>> = <<s, name>>
    BY <2>1, <2>2
  <2>3. CASE <<k.skill, k.name>> # <<s, name>>
    <3>1. k \in Upsert(s, name)
      BY <2>3 DEF Upsert
    <3>2. k \in Old(s)
      BY <1>5, <2>1, <3>1 DEF StateSet
    <3>3. QED
      BY <1>1, <3>2 DEF Old, Thresholds
  <2>4. QED
    BY <2>2, <2>3
<1>6. QED
  BY <1>3, <1>5 DEF Collects

\* A collector takes what had reached its retention when it was spawned, and is
\* older still when the collector runs.
LEMMA CollectorCollects ==
  ASSUME Thresholds, now \in Int, NEW gc \in gcs, Collect(gc)
  PROVE  Collects
<1>1. \A t \in Skills : Retention[t] \in Nat
  BY CallsAssumption DEF Skills
<1>2. /\ gcs' \subseteq gcs /\ now' = now
      /\ keys' = {k \in keys : k.skill = gc.skill => k.at > gc.upto}
  BY DEF Collect
<1>3. QED
  BY <1>1, <1>2 DEF Thresholds, Collects

\* Starting a collector deletes nothing.
LEMMA SpawnCollects ==
  ASSUME Thresholds, CallsIInv, NEW s \in Skills, SpawnGc(s), UNCHANGED <<now, keys>>
  PROVE  Collects
<1>1. /\ now \in Int /\ \A t \in Skills : Retention[t] \in Nat
      /\ gcs' \subseteq gcs \cup {[skill |-> s, upto |-> now - Retention[s]]}
  BY CallsAssumption DEF CallsIInv, CallTypes, SpawnGc, Collector, Skills
<1>2. QED
  BY <1>1 DEF Thresholds, Collects

\* Dispatching deletes nothing.
LEMMA DispatchCollects ==
  ASSUME Thresholds, CallsIInv, Dispatch
  PROVE  Collects
<1>1. /\ mailbox # <<>> /\ UNCHANGED <<now, keys>>
      /\ SpawnGc(skill[Head(mailbox)]) \/ gcs' = gcs
  BY DEF Dispatch
<1>2. skill[Head(mailbox)] \in Skills /\ now \in Int
  BY <1>1 DEF CallsIInv, CallTypes
<1>3. CASE gcs' = gcs
  BY <1>1, <1>2, <1>3, StoreStill
<1>4. CASE SpawnGc(skill[Head(mailbox)])
  BY <1>1, <1>2, <1>4, SpawnCollects
<1>5. QED
  BY <1>1, <1>3, <1>4

\* A step of a guest deletes nothing that is still in its retention.
LEMMA GuestCollects ==
  ASSUME Thresholds, CallsIInv, Guest \/ Panic \/ Stop
  PROVE  Collects
<1>1. now \in Int /\ "timer" \in Skills /\ "weather" \in Skills
  BY CallsAssumption DEF CallsIInv, CallTypes, Skills
<1>2. CASE UNCHANGED <<now, keys, gcs>>
  BY <1>1, <1>2, StoreStill
<1>3. CASE TimerSet
  BY <1>1, <1>3, SetCollects DEF TimerSet, StateSetFails
<1>4. CASE WeatherGeocode
  <2>1. /\ UNCHANGED <<now, gcs>>
        /\ \/ keys' = keys
           \/ StateSet("weather", "geo") \/ keys' \in {keys, Upsert("weather", "geo")}
    BY <1>4 DEF WeatherGeocode, Geocoded, StateSetFails
  <2>2. QED
    BY <1>1, <1>2, <2>1, SetCollects
<1>5. QED
  BY <1>2, <1>3, <1>4
     DEF Guest, TimerSchedule, LightFind, LightPublish, WeatherForecast, HttpHangs, Panic,
         Stop, store

\* No step deletes a key before its retention is over.
LEMMA StoreStep ==
  ASSUME Thresholds, CallsIInv, [CallsNext]_callsVars
  PROVE  Collects
<1>1. now \in Int
  BY DEF CallsIInv, CallTypes
<1>2. CASE UNCHANGED <<keys, gcs>> /\ now' \in {now, now + 1}
  BY <1>1, <1>2, StoreStill
<1>3. CASE Dispatcher
  BY <1>3, DispatchCollects, GuestCollects DEF Dispatcher
<1>4. ASSUME NEW gc \in gcs, Collect(gc) PROVE Collects
  BY <1>1, <1>4, CollectorCollects
<1>5. CASE Crash
  <2>1. keys' = keys /\ gcs' \subseteq gcs /\ now' = now
    BY <1>5 DEF Crash
  <2>2. QED
    BY <1>1, <2>1, StoreStill
<1>6. CASE Scheduler \/ Deliver \/ Forward \/ Tick \/ StopRuntime \/ PollEnds
  BY <1>2, <1>6
     DEF Scheduler, SchedulerTick, Publish, Deliver, Forward, Tick, StopRuntime, PollEnds, store
<1>7. ASSUME NEW id \in Calls, BeginCall(id) \/ Send(id) PROVE Collects
  BY <1>2, <1>7 DEF BeginCall, Send, store
<1>8. ASSUME NEW s \in Skills, Reload(s) \/ Disable(s) PROVE Collects
  BY <1>2, <1>8 DEF Reload, Disable, store
<1>9. QED
  BY <1>2, <1>3, <1>4, <1>5, <1>6, <1>7, <1>8 DEF CallsNext, callsVars

\* A key leaves the store for a newer one of its name or because it has reached
\* its retention, however late the collector runs that was spawned for it
\* (host_state_set, registry.dispatch, skill_kv_gc).
THEOREM KeysAreKept == CallsSpec => KeptForRetention
<1>1. CallsInit => Thresholds
  BY DEF CallsInit, Thresholds
<1>2. Thresholds /\ CallsIInv /\ [CallsNext]_callsVars => Collects
  BY StoreStep
<1>3. Collects => /\ Thresholds'
                  /\ [\A k \in keys \ keys' :
                       (\E n \in keys' : <<n.skill, n.name>> = <<k.skill, k.name>>)
                          \/ now - k.at >= Retention[k.skill]]_callsVars
  BY DEF Collects
<1>4. QED
  BY <1>1, <1>2, <1>3, CallsStart, CallsStep, PTL DEF CallsSpec, KeptForRetention

(***************************************************************************)
(* The Jeedom skill's questions                                            *)
(***************************************************************************)
\* What is pending is what was asked last, and lives no longer than Ttl after.
Consent ==
    /\ config \in Configs
    /\ pendingAction \in [id : Nat, value : Int, left : Int]
    /\ asked \in [id : Nat, value : Int, age : Int, heard : BOOLEAN]
    /\ pendingAction # Nothing =>
          /\ asked.id = pendingAction.id /\ asked.value = pendingAction.value
          /\ pendingAction.left >= 1 /\ asked.age + pendingAction.left <= Ttl

\* One step's runs, but those of a group, are of commands nobody gates, or of
\* the question asked last.
RunsAsked ==
    \A r \in last'.runs :
       last'.turn # last.turn /\ Gated(config, r.id)
                    /\ last'.intent.name \notin {"open_all", "close_all"}
         => /\ last'.intent.name = "confirm"
            /\ asked.age < Ttl /\ r.id = asked.id /\ r.value = asked.value

\* A command some device names without gating it.
LEMMA OpenIds ==
  ASSUME NEW c
  PROVE  /\ \A d \in Range(c.actions) : d.confirm = FALSE => ~Gated(c, d.on) /\ ~Gated(c, d.off)
         /\ \A d \in Range(c.shutters) :
               /\ ~Gated(c, d.stop)
               /\ d.confirm = FALSE => \A id \in {d.up, d.down, d.slider} : ~Gated(c, id)
  BY DEF Gated, NamedBy

\* A step that leaves question and answer alone keeps the consent.
LEMMA ConsentStill ==
  ASSUME Consent, config' \in Configs, UNCHANGED <<pendingAction, asked>>
  PROVE  Consent'
  BY DEF Consent

\* Dropping the pending action keeps the consent.
LEMMA ConsentForgets ==
  ASSUME Consent, config' = config, pendingAction' = Nothing, asked' \in {asked, NoQuestion}
  PROVE  Consent'
<1>1. Nothing \in [id : Nat, value : Int, left : Int]
  BY DEF Nothing, NoValue
<1>2. NoQuestion \in [id : Nat, value : Int, age : Int, heard : BOOLEAN]
  BY JeedomAssumption DEF NoQuestion, NoValue
<1>3. QED
  BY <1>1, <1>2 DEF Consent

\* Asking for a confirm runs nothing, and remembers what was asked.
LEMMA AskKeeps ==
  ASSUME Consent, config' = config, NEW i, NEW id \in Nat, NEW value \in Int, NEW h \in BOOLEAN,
         Ask(i, id, value, h)
  PROVE  Consent' /\ RunsAsked
<1>1. /\ pendingAction' = [id |-> id, value |-> value, left |-> Ttl]
      /\ asked' = [id |-> id, value |-> value, age |-> 0, heard |-> h]
      /\ last'.runs = {}
  BY DEF Ask, EndHandle
<1>2. Ttl \in Int /\ Ttl >= 1
  BY JeedomAssumption
<1>3. QED
  BY <1>1, <1>2 DEF Consent, RunsAsked

\* What a slot holds is a number or nothing.
LEMMA SlotValues == \A i \in Intents : i.value \in Int
<1>1. ASSUME NEW c, NEW i \in Rules(c) PROVE i.value \in Int
  <2>1. CASE i.value = NoValue
    BY <2>1 DEF NoValue
  <2>2. CASE i \in ShutterRules(c)
    <3>1. CASE \E n, k : i = Keyed(n, k)
      BY <2>1, <3>1 DEF Keyed
    <3>2. CASE \E n, k : \E p \in Positions \cup {NoValue} : i = [Keyed(n, k) EXCEPT !.value = p]
      BY <3>2, JeedomAssumption DEF Keyed, NoValue
    <3>3. CASE \E n : i = Named(n)
      BY <2>1, <3>3 DEF Named
    <3>4. \/ \E n \in {"open", "close"}, d \in Range(c.shutters) : i = Keyed(n, d.up)
          \/ \E d \in Range(c.shutters) : i = Keyed("stop", d.up)
          \/ \E d \in Range(c.shutters), p \in Positions \cup {NoValue} :
                i = [Keyed("pos", d.up) EXCEPT !.value = p]
          \/ i \in {Named("open_all"), Named("close_all")}
      BY <2>2 DEF ShutterRules
    <3>5. QED
      BY <3>1, <3>2, <3>3, <3>4
  <2>3. CASE i \in SensorRules(c)
    BY <2>1, <2>3 DEF SensorRules, Named, Keyed
  <2>4. CASE i \in ActionRules(c)
    BY <2>1, <2>4 DEF ActionRules, Keyed
  <2>5. CASE i \in ConfirmRules(c)
    BY <2>1, <2>5 DEF ConfirmRules, Named
  <2>6. QED
    BY <2>2, <2>3, <2>4, <2>5 DEF Rules
<1>2. QED
  BY <1>1 DEF Intents

\* An answer that runs nothing keeps the consent.
LEMMA SayKeeps ==
  ASSUME Consent, config' = config, NEW i, NEW said, Say(i, said)
  PROVE  Consent' /\ RunsAsked
<1>1. last'.runs = {} /\ UNCHANGED <<pendingAction, asked>> /\ config \in Configs
  BY DEF Say, EndHandle, Consent
<1>2. QED
  BY <1>1, ConsentStill DEF RunsAsked

\* exec_cmd, exec_slider: what runs is the command the intent named.
LEMMA ExecRuns ==
  ASSUME NEW i, NEW id, NEW value, Exec(i, id, value)
  PROVE  last'.intent = i /\ \A r \in last'.runs : r.id = id /\ r.value = value
<1>1. PICK runs, said, turn :
         /\ last' = [intent |-> i, runs |-> runs, said |-> said, turn |-> turn]
         /\ runs \in {{}, {[id |-> id, value |-> value]}}
  BY DEF Exec, EndHandle
<1>2. QED
  BY <1>1

\* A command some device names without gating it, or as its stop.
LEMMA OpenKeeps ==
  ASSUME Consent, config' = config, NEW i, NEW id, NEW value, Exec(i, id, value),
         UNCHANGED <<pendingAction, asked>>, ~Gated(config, id)
  PROVE  Consent' /\ RunsAsked
<1>1. \A r \in last'.runs : r.id = id
  BY ExecRuns
<1>2. Consent'
  BY ConsentStill DEF Consent
<1>3. QED
  BY <1>1, <1>2 DEF RunsAsked

\* Turning a device on or off runs no gated command; it asks.
LEMMA TurnKeeps ==
  ASSUME Consent, config' = config, NEW i, NEW h \in BOOLEAN, Turn(i, h)
  PROVE  Consent' /\ RunsAsked
<1>1. CASE \E said : Say(i, said)
  BY <1>1, SayKeeps
<1>2. ASSUME NEW n \in DOMAIN config.actions, NEW id,
             id \in {config.actions[n].on, config.actions[n].off},
             IF config.actions[n].confirm THEN Ask(i, id, NoValue, h)
             ELSE Exec(i, id, NoValue) /\ UNCHANGED <<pendingAction, asked>>
      PROVE  Consent' /\ RunsAsked
  <2>1. config.actions[n] \in ActionDevices /\ config.actions[n] \in Range(config.actions)
    BY JeedomAssumption DEF Consent, Range
  <2>2. id \in Nat /\ NoValue \in Int
    BY <1>2, <2>1 DEF ActionDevices, NoValue
  <2>3. CASE config.actions[n].confirm
    BY <1>2, <2>2, <2>3, AskKeeps
  <2>4. CASE ~config.actions[n].confirm
    <3>1. config.actions[n].confirm = FALSE
      BY <2>1, <2>4 DEF ActionDevices
    <3>2. ~Gated(config, id)
      BY <1>2, <2>1, <3>1, OpenIds
    <3>3. QED
      BY <1>2, <2>4, <3>2, OpenKeeps
  <2>5. QED
    BY <2>3, <2>4
<1>3. QED
  BY <1>1, <1>2 DEF Turn, First

\* Moving a shutter runs no gated command, but for the stop; it asks.
LEMMA MoveKeeps ==
  ASSUME Consent, config' = config, NEW i, i.value \in Int, NEW h \in BOOLEAN, MoveShutter(i, h)
  PROVE  Consent' /\ RunsAsked
<1>1. CASE \E said : Say(i, said)
  BY <1>1, SayKeeps
<1>2. ASSUME NEW n \in DOMAIN config.shutters, MoveFound(config.shutters[n], i, h)
      PROVE  Consent' /\ RunsAsked
  <2> DEFINE d == config.shutters[n]
             id == CmdId(d, i.name)
  <2>1. d \in Shutters /\ d \in Range(config.shutters)
    BY JeedomAssumption DEF Consent, Range
  <2>2. i.name \in {"open", "close", "stop", "pos"}
    BY DEF MoveShutter
  <2>3. id \in Nat
    BY <2>1, <2>2 DEF CmdId, Shutters
  <2>4. PICK value \in Int :
           \/ \E said : Say(i, said)
           \/ Ask(i, id, value, h)
           \/ /\ ~Gates(d, i) /\ Exec(i, id, value)
              /\ UNCHANGED <<pendingAction, asked>>
    <3>1. (IF i.name = "pos" THEN Clamp(i.value) ELSE NoValue) \in Int
      BY DEF Clamp, NoValue
    <3>2. QED
      BY <1>2, <3>1 DEF MoveFound
  <2>5. CASE \E said : Say(i, said)
    BY <2>5, SayKeeps
  <2>6. CASE Ask(i, id, value, h)
    BY <2>3, <2>6, AskKeeps
  <2>7. CASE ~Gates(d, i) /\ Exec(i, id, value) /\ UNCHANGED <<pendingAction, asked>>
    <3>1. ~Gated(config, id)
      <4>1. CASE i.name = "stop"
        BY <2>1, <4>1, OpenIds DEF CmdId
      <4>2. CASE i.name # "stop"
        <5>1. d.confirm = FALSE
          BY <2>1, <2>7, <4>2 DEF Gates, Shutters
        <5>2. id \in {d.up, d.down, d.slider}
          BY <2>2, <4>2 DEF CmdId
        <5>3. QED
          BY <2>1, <5>1, <5>2, OpenIds
      <4>3. QED
        BY <4>1, <4>2
    <3>2. QED
      BY <2>7, <3>1, OpenKeeps
  <2>8. QED
    BY <2>4, <2>5, <2>6, <2>7
<1>3. QED
  BY <1>1, <1>2 DEF MoveShutter, First

\* A group names its full scope and asks nothing; what was pending stays.
LEMMA GroupKeeps ==
  ASSUME Consent, config' = config, NEW i, Group(i)
  PROVE  Consent' /\ RunsAsked
<1>1. CASE \E said : Say(i, said)
  BY <1>1, SayKeeps
<1>2. ASSUME NEW runs, NEW said, EndHandle(i, runs, said), UNCHANGED <<pendingAction, asked>>
      PROVE  Consent' /\ RunsAsked
  <2>1. last'.intent = i /\ i.name \in {"open_all", "close_all"}
    BY <1>2 DEF EndHandle, Group
  <2>2. Consent'
    BY <1>2, ConsentStill DEF Consent
  <2>3. QED
    BY <2>1, <2>2 DEF RunsAsked
<1>3. QED
  BY <1>1, <1>2 DEF Group

\* The answer finds the question it is about, and takes it away.
LEMMA ConfirmKeeps ==
  ASSUME Consent, config' = config, NEW i, Confirm(i) \/ ForgetPending(i)
  PROVE  Consent' /\ RunsAsked
<1>1. CASE \E said : Say(i, said)
  BY <1>1, SayKeeps
<1>2. CASE /\ pendingAction # Nothing /\ pendingAction' = Nothing /\ asked' = NoQuestion
           /\ i.name = "confirm" /\ Exec(i, pendingAction.id, pendingAction.value)
  <2>1. /\ asked.id = pendingAction.id /\ asked.value = pendingAction.value
        /\ asked.age < Ttl
    <3>1. pendingAction.left \in Int /\ asked.age \in Int /\ Ttl \in Int
      BY JeedomAssumption DEF Consent
    <3>2. QED
      BY <1>2, <3>1 DEF Consent
  <2>2. RunsAsked
    BY <1>2, <2>1, ExecRuns DEF RunsAsked
  <2>3. QED
    BY <1>2, <2>2, ConsentForgets
<1>3. CASE \E said : /\ EndHandle(i, {}, said)
                     /\ pendingAction' = Nothing /\ asked' = NoQuestion
  <2>1. last'.runs = {}
    BY <1>3 DEF EndHandle
  <2>2. QED
    BY <1>3, <2>1, ConsentForgets DEF RunsAsked
<1>4. QED
  BY <1>1, <1>2, <1>3 DEF Confirm, ForgetPending, ClearPending

\* The question ages as its pending action does.
LEMMA TickKeeps ==
  ASSUME Consent, ConsentTick
  PROVE  Consent'
<1>1. Ttl \in Int /\ config' \in Configs
  BY JeedomAssumption DEF Consent, ConsentTick
<1>2. /\ asked' \in [id : Nat, value : Int, age : Int, heard : BOOLEAN]
      /\ asked'.id = asked.id /\ asked'.value = asked.value
      /\ asked'.age <= asked.age + 1
  BY DEF Consent, ConsentTick
<1>3. CASE pendingAction' = Nothing
  BY <1>1, <1>2, <1>3 DEF Consent, Nothing, NoValue
<1>4. CASE /\ pendingAction' = [pendingAction EXCEPT !.left = @ - 1]
           /\ ~(pendingAction.left <= 1)
  <2>1. /\ pendingAction' \in [id : Nat, value : Int, left : Int]
        /\ pendingAction'.id = pendingAction.id /\ pendingAction'.value = pendingAction.value
        /\ pendingAction'.left = pendingAction.left - 1
        /\ pendingAction # Nothing /\ pendingAction.left \in Int /\ asked.age \in Int
    BY <1>4 DEF Consent, Nothing
  <2>2. QED
    BY <1>1, <1>2, <1>4, <2>1 DEF Consent
<1>5. QED
  BY <1>3, <1>4 DEF ConsentTick, Expire

\* For any configurations the admin installs, and any order of questions,
\* answers, reloads and restarts: a command that only gated devices name runs
\* on a fresh confirm of that very command and value, and no other way but a
\* group (Pending, load_pending, handle).
THEOREM ConsentIsAsked == JeedomInit /\ [][JeedomNext]_jeedomVars => OnlyFreshConsentRuns
<1>1. JeedomInit => Consent
  BY JeedomAssumption DEF JeedomInit, Consent, Nothing, NoQuestion, NoValue
<1>2. ASSUME Consent, [JeedomNext]_jeedomVars PROVE Consent' /\ [RunsAsked]_jeedomVars
  <2>1. CASE UNCHANGED jeedomVars
    BY <1>2, <2>1, ConsentStill DEF jeedomVars, Consent
  <2>2. ASSUME NEW i \in Intents, NEW h \in BOOLEAN, HandleIntent(i, h)
        PROVE  Consent' /\ RunsAsked
    <3>1. config' = config
      BY <2>2 DEF HandleIntent
    <3>2. CASE Read(i) \/ ReadSlot(i) \/ ReadAll(i)
      BY <1>2, <3>1, <3>2, SayKeeps DEF Read, ReadSlot, ReadAll, SpeakReading
    <3>3. QED
      BY <1>2, <2>2, <3>1, <3>2, SlotValues, TurnKeeps, GroupKeeps, MoveKeeps, ConfirmKeeps
         DEF HandleIntent
  <2>3. CASE ConsentTick
    <3>1. RunsAsked
      BY <2>3 DEF ConsentTick, RunsAsked
    <3>2. QED
      BY <1>2, <2>3, <3>1, TickKeeps
  <2>4. CASE Restart
    BY <1>2, <2>4, ConsentForgets DEF Restart, RunsAsked
  <2>5. ASSUME NEW c \in Configs, Reconfigure(c) PROVE Consent' /\ RunsAsked
    BY <1>2, <2>5, ConsentStill DEF Reconfigure, RunsAsked
  <2>6. QED
    BY <1>2, <2>1, <2>2, <2>3, <2>4, <2>5 DEF JeedomNext
<1>3. [RunsAsked]_jeedomVars =>
         [\A r \in last'.runs :
            last'.turn # last.turn /\ Gated(config, r.id)
                         /\ last'.intent.name \notin {"open_all", "close_all"}
              => /\ last'.intent.name = "confirm"
                 /\ asked.age < Ttl /\ r.id = asked.id /\ r.value = asked.value]_jeedomVars
  BY DEF RunsAsked
<1>4. QED
  BY <1>1, <1>2, <1>3, PTL DEF OnlyFreshConsentRuns

(***************************************************************************)
(* The matcher's choice                                                    *)
(***************************************************************************)
ChoiceInv ==
    /\ seen \in Seq(Candidates)
    /\ best = None \/ best \in Accepted
    /\ ClearWinnerWins

\* Appending an element adds it to the range, and nothing else.
LEMMA AppendRange ==
  ASSUME NEW S, NEW s \in Seq(S), NEW x \in S
  PROVE  Append(s, x) \in Seq(S) /\ Range(Append(s, x)) = Range(s) \cup {x}
<1>1. /\ Append(s, x) \in Seq(S) /\ Len(s) \in Nat
      /\ DOMAIN s = 1..Len(s) /\ DOMAIN Append(s, x) = 1..Len(s) + 1
      /\ \A n \in 1..Len(s) : Append(s, x)[n] = s[n]
      /\ Append(s, x)[Len(s) + 1] = x
  OBVIOUS
<1>2. \A y : y \in Range(Append(s, x)) <=> y \in Range(s) \cup {x}
  BY <1>1 DEF Range
<1>3. QED
  BY <1>1, <1>2

\* What beats all the others is taken when it comes and kept when they do: it
\* is never in the band of a candidate that beats it in turn.
LEMMA ConsiderKeeps ==
  ASSUME ChoiceInv, NEW c \in Candidates, Consider(c)
  PROVE  ChoiceInv'
<1>1. /\ seen' \in Seq(Candidates)
      /\ Accepted' = Accepted \cup (IF c.score >= Threshold THEN {c} ELSE {})
  <2>1. seen' \in Seq(Candidates) /\ Range(seen') = Range(seen) \cup {c}
    BY AppendRange DEF ChoiceInv, Consider
  <2>2. QED
    BY <2>1 DEF Accepted
<1>2. best' = IF c.score >= Threshold /\ Better(c, best) THEN c ELSE best
  BY DEF Consider
<1>3. \A d \in Accepted \cup {c} : d.score \in Int /\ d.weight \in Int
  <2>1. Accepted \subseteq Candidates
    BY DEF ChoiceInv, Accepted, Range
  <2>2. \A d \in Candidates : d.score \in Int /\ d.weight \in Int
    <3>1. Scores \subseteq Int /\ 1..MaxWeight \subseteq Int
      BY MatchingAssumption
    <3>2. QED
      BY <3>1 DEF Candidates
  <2>3. QED
    BY <2>1, <2>2
<1>4. None \notin Accepted'
  BY DEF Accepted, None, Threshold
<1>5. best' = None \/ best' \in Accepted'
  BY <1>1, <1>2 DEF ChoiceInv
<1>6. (best' = None) <=> (Accepted' = {})
  <2>1. CASE c.score >= Threshold
    BY <1>1, <1>2, <1>4, <1>5, <2>1 DEF ChoiceInv, ClearWinnerWins, Better
  <2>2. CASE ~(c.score >= Threshold)
    BY <1>1, <1>2, <2>2 DEF ChoiceInv, ClearWinnerWins
  <2>3. QED
    BY <2>1, <2>2
<1>7. ASSUME NEW d \in Accepted', \A e \in Accepted' \ {d} : Beats(d, e)
      PROVE  best' = d
  <2>1. CASE ~(c.score >= Threshold)
    BY <1>1, <1>2, <1>7, <2>1 DEF ChoiceInv, ClearWinnerWins
  <2>2. CASE c.score >= Threshold /\ d \in Accepted
    <3>1. best = d
      BY <1>1, <1>7, <2>2 DEF ChoiceInv, ClearWinnerWins
    <3>2. CASE c = d
      BY <1>2, <3>1, <3>2
    <3>3. CASE c # d
      <4>1. Beats(d, c) /\ d # None
        BY <1>1, <1>4, <1>7, <2>2, <3>3
      <4>2. ~Better(c, d)
        BY <1>3, <2>2, <4>1 DEF Beats, Better, Near, Epsilon
      <4>3. QED
        BY <1>2, <3>1, <4>2
    <3>4. QED
      BY <3>2, <3>3
  <2>3. CASE c.score >= Threshold /\ d = c /\ c \notin Accepted
    <3>1. CASE best = None
      BY <1>2, <2>3, <3>1 DEF Better
    <3>2. CASE best \in Accepted
      <4>1. Beats(c, best)
        BY <1>1, <1>7, <2>3, <3>2
      <4>2. Better(c, best)
        BY <1>3, <3>2, <4>1 DEF Beats, Better, Near, Epsilon
      <4>3. QED
        BY <1>2, <2>3, <4>2
    <3>3. QED
      BY <3>1, <3>2 DEF ChoiceInv
  <2>4. QED
    BY <1>1, <1>7, <2>1, <2>2, <2>3
<1>8. QED
  BY <1>1, <1>5, <1>6, <1>7 DEF ChoiceInv, ClearWinnerWins

(***************************************************************************)
(* The matcher's walk                                                      *)
(***************************************************************************)
NoNull == \A n \in DOMAIN slots : slots[n] # <<>>

\* No occurrence of the literal that follows begins in the slot's value.
Stops(n) ==
    n < Len(phrase) /\ phrase[n + 1].slot = "no" =>
       \A i \in DOMAIN slots[n] :
          ~IsPrefix(phrase[n + 1].words, SubSeq(slots[n], i, Len(slots[n])))

\* While no slot is null, what is filled is the piece of the text that ends at
\* the cursor, and a literal after a slot stands right there.
WalkInv ==
    /\ text \in Seq(Words) /\ phrase \in Phrases
    /\ cursor \in 0 .. Len(text) /\ at \in 0 .. Len(phrase) + 1
    /\ filled \in Seq(Words)
    /\ at # 0 => /\ \A n \in DOMAIN slots : n < at /\ n \in Nat /\ Stops(n)
                 /\ at = 1 => filled = <<>>
                 /\ NoNull =>
                       /\ \E start \in 0 .. cursor : filled = SubSeq(text, start + 1, cursor)
                       /\ at \in 2 .. Len(phrase) /\ phrase[at].slot = "no" =>
                             cursor \in Hits(phrase[at].words, cursor)

\* Two adjoining pieces of a sequence, put together, are one piece of it.
LEMMA Pieces ==
  ASSUME NEW S, NEW s \in Seq(S), NEW a \in Nat, NEW b \in Nat, NEW c \in Nat,
         a <= b, b <= c, c <= Len(s)
  PROVE  /\ SubSeq(s, a + 1, b) \in Seq(S)
         /\ Len(SubSeq(s, a + 1, b)) = b - a
         /\ SubSeq(s, a + 1, b) \o SubSeq(s, b + 1, c) = SubSeq(s, a + 1, c)
<1>1. /\ Len(s) \in Nat
      /\ SubSeq(s, a + 1, b) \in Seq(S) /\ Len(SubSeq(s, a + 1, b)) = b - a
      /\ SubSeq(s, b + 1, c) \in Seq(S) /\ Len(SubSeq(s, b + 1, c)) = c - b
      /\ SubSeq(s, a + 1, c) \in Seq(S) /\ Len(SubSeq(s, a + 1, c)) = c - a
  OBVIOUS
<1>2. /\ \A i \in 1 .. b - a : SubSeq(s, a + 1, b)[i] = s[a + i]
      /\ \A i \in 1 .. c - b : SubSeq(s, b + 1, c)[i] = s[b + i]
      /\ \A i \in 1 .. c - a : SubSeq(s, a + 1, c)[i] = s[a + i]
  BY SMTT(20)
<1> DEFINE t == SubSeq(s, a + 1, b)
           u == SubSeq(s, b + 1, c)
           v == SubSeq(s, a + 1, c)
<1>3. /\ t \o u \in Seq(S) /\ Len(t \o u) = c - a
      /\ \A i \in 1 .. c - a : (t \o u)[i] = IF i <= b - a THEN t[i] ELSE u[i - (b - a)]
  BY <1>1
<1> HIDE DEF t, u, v
<1>4. \A i \in 1 .. c - a : (t \o u)[i] = v[i]
  <2> SUFFICES ASSUME NEW i \in 1 .. c - a PROVE (t \o u)[i] = v[i]
    OBVIOUS
  <2>1. CASE i <= b - a
    BY <1>2, <1>3, <2>1 DEF t, v
  <2>2. CASE ~(i <= b - a)
    <3>1. i - (b - a) \in 1 .. c - b
      BY <2>2
    <3>2. u[i - (b - a)] = s[a + i]
      BY <1>2, <3>1 DEF u
    <3>3. QED
      BY <1>2, <1>3, <2>2, <3>2 DEF v
  <2>3. QED
    BY <2>1, <2>2
<1>5. v \in Seq(S) /\ Len(v) = c - a
  BY <1>1 DEF v
<1>6. t \o u = v
  BY <1>3, <1>4, <1>5, SMTT(20)
<1>7. QED
  BY <1>1, <1>6 DEF t, u, v

\* A literal that was found stands at the cursor it leaves.
LEMMA LiteralKeeps ==
  ASSUME WalkInv, StepLiteral
  PROVE  WalkInv'
<1> DEFINE words == phrase[at].words
<1>1. /\ at \in 1 .. Len(phrase) /\ phrase[at].slot = "no" /\ words \in Seq(Words)
      /\ Len(phrase) \in Nat /\ Len(text) \in Nat
      /\ \A n \in 1 .. Len(phrase) - 1 : phrase[n].slot # "no" \/ phrase[n + 1].slot # "no"
      /\ UNCHANGED <<text, phrase, slots>>
  <2>1. phrase \in Seq([slot : {"no", "any", "number"}, words : Seq(Words)])
    BY MatchingAssumption DEF WalkInv
  <2>2. Len(phrase) \in Nat /\ DOMAIN phrase = 1 .. Len(phrase) /\ Len(text) \in Nat
    BY <2>1 DEF WalkInv
  <2>3. at \in 1 .. Len(phrase) /\ phrase[at] \in [slot : {"no", "any", "number"}, words : Seq(Words)]
    <3>1. at \in DOMAIN phrase
      BY DEF StepLiteral
    <3>2. at \in 1 .. Len(phrase)
      BY <2>2, <3>1
    <3> DEFINE Segments == [slot : {"no", "any", "number"}, words : Seq(Words)]
    <3>3. phrase \in Seq(Segments)
      BY <2>1
    <3> HIDE DEF Segments
    <3>4. phrase[at] \in Segments
      BY <3>2, <3>3
    <3>5. QED
      BY <3>2, <3>4 DEF Segments
  <2>4. \A n \in 1 .. Len(phrase) - 1 : phrase[n].slot # "no" \/ phrase[n + 1].slot # "no"
    BY MatchingAssumption DEF WalkInv
  <2>5. QED
    BY <2>2, <2>3, <2>4 DEF StepLiteral
<1>2. CASE at' = 0 /\ UNCHANGED <<cursor, filled>>
  BY <1>1, <1>2 DEF WalkInv
<1>3. CASE \E i \in Hits(words, cursor) :
              /\ IsLeast(i, Hits(words, cursor)) /\ cursor' = i + Len(words)
              /\ filled' = filled \o words /\ at' = at + 1
  <2>1. PICK i \in Hits(words, cursor) :
           /\ IsLeast(i, Hits(words, cursor)) /\ cursor' = i + Len(words)
           /\ filled' = filled \o words /\ at' = at + 1
    BY <1>3
  <2>2. /\ i \in Nat /\ Len(words) \in Nat /\ i >= cursor /\ i + Len(words) <= Len(text)
        /\ words = SubSeq(text, i + 1, i + Len(words)) /\ cursor \in Nat
    BY <1>1, <2>1, SMTT(20) DEF Hits, WalkInv
  <2>3. cursor' \in 0 .. Len(text) /\ at' \in 0 .. Len(phrase) + 1 /\ filled' \in Seq(Words)
    BY <1>1, <2>1, <2>2 DEF WalkInv
  <2>4. \A n \in DOMAIN slots : n < at' /\ n \in Nat /\ Stops(n)'
    BY <1>1, <2>1 DEF WalkInv, Stops
  <2>5. ~(at' \in 2 .. Len(phrase) /\ phrase[at'].slot = "no")
    BY <1>1, <2>1
  <2>6. ASSUME NoNull
        PROVE  \E start \in 0 .. cursor' : filled' = SubSeq(text, start + 1, cursor')
    <3>1. CASE at = 1
      <4>1. filled' = words
        BY <1>1, <2>1, <3>1 DEF WalkInv
      <4>2. QED
        BY <2>1, <2>2, <4>1
    <3>2. CASE at # 1
      <4>1. PICK start \in 0 .. cursor : filled = SubSeq(text, start + 1, cursor)
        BY <1>1, <2>6 DEF WalkInv
      <4>2. i = cursor
        <5>1. cursor \in Hits(words, cursor)
          <6>1. at # 0 /\ at \in 2 .. Len(phrase)
            BY <1>1, <3>2
          <6>2. QED
            BY <1>1, <2>6, <6>1 DEF WalkInv
        <5>2. i <= cursor
          BY <2>1, <5>1 DEF IsLeast
        <5>3. QED
          BY <2>2, <5>2
      <4>3. filled' = SubSeq(text, start + 1, cursor) \o SubSeq(text, cursor + 1, cursor')
        BY <2>1, <2>2, <4>1, <4>2
      <4>4. start \in Nat /\ start <= cursor /\ cursor' \in Nat /\ cursor <= cursor' /\ cursor' <= Len(text)
        BY <2>1, <2>2, <4>1, <4>2
      <4>5. SubSeq(text, start + 1, cursor) \o SubSeq(text, cursor + 1, cursor')
              = SubSeq(text, start + 1, cursor')
        <5>1. text \in Seq(Words) /\ cursor \in Nat
          BY <2>2 DEF WalkInv
        <5>2. QED
          BY <4>4, <5>1, Pieces, ZenonT(30)
      <4>6. filled' = SubSeq(text, start + 1, cursor')
        BY <4>3, <4>5
      <4>7. start \in 0 .. cursor'
        BY <2>2, <4>4
      <4>8. QED
        BY <4>6, <4>7
    <3>3. QED
      BY <3>1, <3>2
  <2>7. NoNull' <=> NoNull
    BY <1>1 DEF NoNull
  <2>8. text' \in Seq(Words) /\ phrase' \in Phrases
    BY <1>1 DEF WalkInv
  <2>9. at' # 1 /\ at' = at + 1 /\ slots' = slots /\ text' = text /\ phrase' = phrase
    BY <1>1, <2>1
  <2>10. QED
    BY <2>3, <2>4, <2>5, <2>6, <2>7, <2>8, <2>9 DEF WalkInv
<1>4. QED
  BY <1>2, <1>3 DEF StepLiteral

\* A value that ends at the first place of a literal holds no other.
LEMMA ValueStops ==
  ASSUME text \in Seq(Words), NEW next \in Seq(Words), cursor \in Nat,
         NEW end \in 0 .. Len(text), IsLeast(end, Hits(next, cursor)),
         NEW i \in DOMAIN SubSeq(text, cursor + 1, end),
         cursor < end
  PROVE  ~IsPrefix(next, SubSeq(SubSeq(text, cursor + 1, end), i, end - cursor))
<1> DEFINE value == SubSeq(text, cursor + 1, end)
           rest == SubSeq(value, i, end - cursor)
<1> SUFFICES ASSUME IsPrefix(next, rest) PROVE FALSE
  OBVIOUS
<1>1. /\ value \in Seq(Words) /\ Len(value) = end - cursor /\ i \in 1 .. end - cursor
      /\ \A k \in 1 .. end - cursor : value[k] = text[cursor + k]
  OBVIOUS
<1> HIDE DEF value
<1>2. /\ rest \in Seq(Words) /\ Len(rest) = end - cursor - i + 1
      /\ \A k \in 1 .. end - cursor - i + 1 : rest[k] = value[i + k - 1]
  BY <1>1
<1> HIDE DEF rest
<1>3. /\ Len(next) \in Nat /\ Len(next) <= Len(rest)
      /\ SubSeq(next, 1, Len(next)) = SubSeq(rest, 1, Len(next))
  BY DEF IsPrefix
<1>4. \A k \in 1 .. Len(next) : next[k] = text[cursor + i - 1 + k]
  <2> SUFFICES ASSUME NEW k \in 1 .. Len(next) PROVE next[k] = text[cursor + i - 1 + k]
    OBVIOUS
  <2>1. next[k] = SubSeq(next, 1, Len(next))[k]
    BY <1>3
  <2>2. SubSeq(rest, 1, Len(next))[k] = rest[k]
    BY <1>2, <1>3
  <2>3. rest[k] = text[cursor + (i + k - 1)]
    BY <1>1, <1>2, <1>3
  <2>4. QED
    BY <1>1, <1>3, <2>1, <2>2, <2>3
<1>5. /\ cursor + i - 1 \in cursor .. Len(text) - Len(next)
      /\ cursor + i - 1 < end
  BY <1>1, <1>2, <1>3
<1>6. SubSeq(text, cursor + i - 1 + 1, cursor + i - 1 + Len(next)) = next
  <2> DEFINE h == cursor + i - 1
             t == SubSeq(text, h + 1, h + Len(next))
  <2>1. h \in Nat /\ h + Len(next) <= Len(text) /\ Len(text) \in Nat
    BY <1>1, <1>3, <1>5
  <2> HIDE DEF h
  <2>2. /\ t \in Seq(Words) /\ Len(t) = Len(next)
        /\ \A k \in 1 .. Len(next) : t[k] = text[h + k]
    BY <1>3, <2>1
  <2>3. \A k \in 1 .. Len(next) : next[k] = text[h + k]
    BY <1>4 DEF h
  <2> HIDE DEF t
  <2>4. t = next
    BY <1>3, <2>2, <2>3
  <2>5. QED
    BY <2>4 DEF h, t
<1>7. cursor + i - 1 \in Hits(next, cursor)
  BY <1>5, <1>6 DEF Hits
<1>8. QED
  BY <1>1, <1>5, <1>7 DEF IsLeast

\* What a slot keeps: null, or the words up to the end.
LEMMA SlotStep ==
  ASSUME WalkInv, StepSlot
  PROVE  /\ at \in 1 .. Len(phrase) /\ phrase[at].slot # "no" /\ Len(phrase) \in Nat
         /\ at' = at + 1 /\ UNCHANGED <<text, phrase>>
         /\ \A n \in 1 .. Len(phrase) : phrase[n].words \in Seq(Words)
         /\ \E end \in 0 .. Len(text) :
               LET value == SubSeq(text, cursor + 1, end)
               IN /\ EndsAt(end)
                  /\ \/ value # <<>> /\ Keep(value) /\ filled' = filled \o value /\ cursor' = end
                     \/ Keep(<<>>) /\ UNCHANGED <<filled, cursor>>
<1> DEFINE Segments == [slot : {"no", "any", "number"}, words : Seq(Words)]
<1>1. phrase \in Seq(Segments)
  BY MatchingAssumption DEF WalkInv
<1> HIDE DEF Segments
<1>2. \A n \in 1 .. Len(phrase) : phrase[n].words \in Seq(Words)
  <2>1. \A n \in 1 .. Len(phrase) : phrase[n] \in Segments
    BY <1>1
  <2>2. QED
    BY <2>1 DEF Segments
<1>3. Len(phrase) \in Nat /\ DOMAIN phrase = 1 .. Len(phrase)
  BY <1>1
<1>4. at \in DOMAIN phrase /\ phrase[at].slot # "no" /\ at' = at + 1 /\ UNCHANGED <<text, phrase>>
  BY DEF StepSlot
<1>5. \E end \in 0 .. Len(text) :
         LET value == SubSeq(text, cursor + 1, end)
         IN /\ EndsAt(end)
            /\ \/ value # <<>> /\ Keep(value) /\ filled' = filled \o value /\ cursor' = end
               \/ Keep(<<>>) /\ UNCHANGED <<filled, cursor>>
  BY DEF StepSlot
<1>6. QED
  BY <1>2, <1>3, <1>4, <1>5

\* A slot does not touch the others.
LEMMA KeepKeeps ==
  ASSUME WalkInv, NEW value, Keep(value), at \in 1 .. Len(phrase), Len(phrase) \in Nat,
         at' = at + 1, UNCHANGED <<text, phrase>>,
         at < Len(phrase) /\ phrase[at + 1].slot = "no" =>
            \A i \in DOMAIN value : ~IsPrefix(phrase[at + 1].words, SubSeq(value, i, Len(value)))
  PROVE  /\ \A n \in DOMAIN slots' : n < at' /\ n \in Nat /\ Stops(n)'
         /\ NoNull' => NoNull /\ value # <<>>
<1>1. PICK here : /\ here = at /\ DOMAIN slots' = DOMAIN slots \cup {here} /\ slots'[here] = value
                  /\ \A n \in DOMAIN slots : n # here => slots'[n] = slots[n]
  BY DEF Keep
<1>2. \A n \in DOMAIN slots : n < at /\ n \in Nat /\ Stops(n)
  BY DEF WalkInv
<1>3. here \in Nat /\ Stops(here)'
  BY <1>1 DEF Stops
<1>4. \A n \in DOMAIN slots : n < here /\ Stops(n)'
  BY <1>1, <1>2 DEF Stops
<1>5. NoNull' => NoNull /\ value # <<>>
  BY <1>1, <1>2 DEF NoNull
<1>6. QED
  BY <1>1, <1>2, <1>3, <1>4, <1>5

\* Filling a slot keeps what was matched a piece of the text.
LEMMA SlotKeeps ==
  ASSUME WalkInv, StepSlot
  PROVE  WalkInv'
<1>1. /\ at \in 1 .. Len(phrase) /\ phrase[at].slot # "no" /\ Len(phrase) \in Nat
      /\ at' = at + 1 /\ UNCHANGED <<text, phrase>>
      /\ \A n \in 1 .. Len(phrase) : phrase[n].words \in Seq(Words)
  BY SlotStep
<1>2. PICK end \in 0 .. Len(text) :
         /\ EndsAt(end)
         /\ \/ /\ SubSeq(text, cursor + 1, end) # <<>> /\ Keep(SubSeq(text, cursor + 1, end))
               /\ filled' = filled \o SubSeq(text, cursor + 1, end) /\ cursor' = end
            \/ Keep(<<>>) /\ UNCHANGED <<filled, cursor>>
  BY SlotStep
<1>3. /\ text \in Seq(Words) /\ cursor \in Nat /\ cursor <= Len(text) /\ Len(text) \in Nat
      /\ filled \in Seq(Words) /\ phrase \in Phrases
  BY DEF WalkInv
<1>4. CASE Keep(<<>>) /\ UNCHANGED <<filled, cursor>>
  <2>1. /\ \A n \in DOMAIN slots' : n < at' /\ n \in Nat /\ Stops(n)'
        /\ ~NoNull'
    BY <1>1, <1>4, KeepKeeps
  <2>2. QED
    BY <1>1, <1>3, <1>4, <2>1 DEF WalkInv
<1>5. CASE /\ SubSeq(text, cursor + 1, end) # <<>> /\ Keep(SubSeq(text, cursor + 1, end))
           /\ filled' = filled \o SubSeq(text, cursor + 1, end) /\ cursor' = end
  <2> DEFINE value == SubSeq(text, cursor + 1, end)
  <2>1. cursor < end /\ Len(value) = end - cursor /\ value \in Seq(Words)
    BY <1>2, <1>3, <1>5
  <2>2. at < Len(phrase) /\ phrase[at + 1].slot = "no" =>
           IsLeast(end, Hits(phrase[at + 1].words, cursor))
    BY <1>2, <1>3, <2>1 DEF EndsAt, SlotEnd
  <2>3. at < Len(phrase) /\ phrase[at + 1].slot = "no" =>
            \A i \in DOMAIN value : ~IsPrefix(phrase[at + 1].words, SubSeq(value, i, Len(value)))
    <3>1. at < Len(phrase) => phrase[at + 1].words \in Seq(Words)
      BY <1>1
    <3>2. QED
      BY <1>2, <1>3, <2>1, <2>2, <3>1, ValueStops
  <2>4. /\ \A n \in DOMAIN slots' : n < at' /\ n \in Nat /\ Stops(n)'
        /\ NoNull' => NoNull
    BY <1>1, <1>5, <2>3, KeepKeeps
  <2>5. ASSUME NoNull'
        PROVE  \E start \in 0 .. cursor' : filled' = SubSeq(text, start + 1, cursor')
    <3>1. PICK start \in 0 .. cursor : filled = SubSeq(text, start + 1, cursor)
      BY <1>1, <2>4, <2>5 DEF WalkInv
    <3>2. start \in Nat /\ start <= cursor /\ cursor <= end /\ end <= Len(text) /\ end \in Nat
      BY <1>2, <1>3, <2>1, <3>1
    <3>3. SubSeq(text, start + 1, cursor) \o value = SubSeq(text, start + 1, end)
      BY <1>3, <3>2, Pieces
    <3>4. filled' = SubSeq(text, start + 1, cursor')
      BY <1>5, <3>1, <3>3
    <3>5. start \in 0 .. cursor'
      BY <1>3, <1>5, <3>2
    <3>6. QED
      BY <3>4, <3>5
  <2>6. (at \in 2 .. Len(phrase) /\ phrase[at].slot = "no" =>
            cursor \in Hits(phrase[at].words, cursor))'
    <3>1. CASE at + 1 \in 2 .. Len(phrase) /\ phrase[at + 1].slot = "no"
      <4>1. end \in Hits(phrase[at + 1].words, cursor)
        BY <1>1, <2>2, <3>1 DEF IsLeast
      <4>2. end \in Hits(phrase[at + 1].words, end)
        BY <1>3, <2>1, <4>1 DEF Hits
      <4>3. QED
        BY <1>1, <1>5, <4>2 DEF Hits
    <3>2. CASE ~(at + 1 \in 2 .. Len(phrase) /\ phrase[at + 1].slot = "no")
      BY <1>1, <3>2
    <3>3. QED
      BY <3>1, <3>2
  <2>7. /\ text' \in Seq(Words) /\ phrase' \in Phrases /\ filled' \in Seq(Words)
        /\ cursor' \in 0 .. Len(text') /\ at' \in 0 .. Len(phrase') + 1 /\ at' # 1
    BY <1>1, <1>2, <1>3, <1>5, <2>1
  <2>8. QED
    BY <1>1, <2>4, <2>5, <2>6, <2>7 DEF WalkInv
<1>6. QED
  BY <1>2, <1>4, <1>5

\* When the walk has ended without a null, the piece begins as many words
\* before the cursor as it has.
LEMMA WalkEnd ==
  ASSUME WalkInv
  PROVE  FilledWasSaid
<1> SUFFICES ASSUME at = Len(phrase) + 1, <<>> \notin Range(slots)
             PROVE  /\ filled = SubSeq(text, cursor - Len(filled) + 1, cursor)
                    /\ \A n \in DOMAIN slots : Stops(n)
  BY DEF FilledWasSaid, Stops
<1>1. Len(phrase) \in Nat /\ at # 0
  <2>1. \E S : phrase \in Seq(S)
    BY MatchingAssumption DEF WalkInv
  <2>2. QED
    BY <2>1
<1>2. NoNull
  BY DEF NoNull, Range
<1>3. PICK start \in 0 .. cursor : filled = SubSeq(text, start + 1, cursor)
  BY <1>1, <1>2 DEF WalkInv
<1>4. /\ start \in Nat /\ cursor \in Nat /\ start <= cursor /\ cursor <= Len(text)
      /\ text \in Seq(Words) /\ Len(text) \in Nat
  BY <1>3 DEF WalkInv
<1>5. Len(filled) = cursor - start
  BY <1>3, <1>4
<1>6. cursor - Len(filled) + 1 = start + 1
  BY <1>4, <1>5
<1>7. QED
  BY <1>1, <1>3, <1>6 DEF WalkInv

\* For any phrases, texts, scores and order of the candidates: the candidate
\* that beats the others is chosen, and what a match without nulls accounts for
\* was said in one piece (find_match, try_match_phrase).
THEOREM MatchesAreSound ==
  MatchingInit /\ [][WalkStep \/ ChoiceStep]_<<walkVars, chooseVars>> => []MatchingIsSound
<1>1. MatchingInit => WalkInv /\ ChoiceInv
  <2> SUFFICES ASSUME MatchingInit PROVE WalkInv /\ ChoiceInv
    OBVIOUS
  <2>1. ChoiceInv
    <3>1. Accepted = {}
      BY DEF MatchingInit, Accepted, Range
    <3>2. QED
      BY <3>1 DEF MatchingInit, ChoiceInv, ClearWinnerWins
  <2>2. text \in Seq(Words) /\ phrase \in Phrases
    <3>1. PICK m \in 0 .. MaxWords : text \in [1..m -> Words]
      BY DEF MatchingInit, BoundedSeq, SeqOf
    <3>2. QED
      BY <3>1, MatchingAssumption DEF MatchingInit
  <2>3. Len(phrase) \in Nat
    <3>1. \E S : phrase \in Seq(S)
      BY <2>2, MatchingAssumption
    <3>2. QED
      BY <3>1
  <2>4. filled = SubSeq(text, 1, cursor) /\ cursor = 0 /\ DOMAIN slots = {} /\ at = 1 /\ filled = <<>>
    BY <2>2 DEF MatchingInit
  <2>5. \E start \in 0 .. cursor : filled = SubSeq(text, start + 1, cursor)
    BY <2>4
  <2>6. QED
    BY <2>1, <2>2, <2>3, <2>4, <2>5 DEF WalkInv
<1>2. WalkInv /\ ChoiceInv /\ [WalkStep \/ ChoiceStep]_<<walkVars, chooseVars>>
         => WalkInv' /\ ChoiceInv'
  <2> SUFFICES ASSUME WalkInv, ChoiceInv, [WalkStep \/ ChoiceStep]_<<walkVars, chooseVars>>
               PROVE  WalkInv' /\ ChoiceInv'
    OBVIOUS
  <2>1. UNCHANGED walkVars => WalkInv'
    BY DEF walkVars, WalkInv, NoNull, Stops, Hits
  <2>2. UNCHANGED chooseVars => ChoiceInv'
    BY DEF chooseVars, ChoiceInv, Accepted, ClearWinnerWins
  <2>3. WalkStep => WalkInv'
    BY LiteralKeeps, SlotKeeps DEF WalkStep
  <2>4. ChoiceStep => ChoiceInv'
    BY ConsiderKeeps DEF ChoiceStep
  <2>5. QED
    BY <2>1, <2>2, <2>3, <2>4 DEF WalkStep, ChoiceStep
<1>3. WalkInv /\ ChoiceInv => MatchingIsSound
  BY WalkEnd DEF ChoiceInv, MatchingIsSound
<1>4. QED
  BY <1>1, <1>2, <1>3, PTL
=============================================================================
