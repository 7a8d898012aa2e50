------------------------------ MODULE SkillCalls -----------------------------
(***************************************************************************)
(* A matched intent on its way through a skill, and what the skill leaves  *)
(* behind: the dispatcher's mailbox and its single worker; three skills,   *)
(* the timer, the weather and the lights of the home skill, with their     *)
(* keys in the store and the HTTP and MQTT calls the worker waits in; and  *)
(* the scheduler that publishes and announces the timer's events.          *)
(*                                                                         *)
(* The scheduler and the forwarder are wired as timer_end_to_end.rs wires  *)
(* them when SchedulerRuns; Runtime::spawn starts neither.                 *)
(***************************************************************************)
EXTENDS FiniteSets, Integers, Sequences, SequencesExt

CONSTANTS
    MailboxCap,     \* the dispatcher's channel (64 in the code)
    WireCap,        \* the MQTT client's request channel
    BusCap,         \* the broadcast channel of events (1024 in the code)
    Retention,      \* retention_gc_after_sec of each skill, in ticks; 0: none
    Delay,          \* how far ahead a timer is set, in ticks
    SchedulerRuns,  \* whether SchedulerTask and the forwarder are spawned
    MaxCalls,       \* bound: calls in a behaviour
    MaxTime,        \* bound: no call begins later
    MaxFaults       \* bound: crashes, panics, hangs and store failures, together

ASSUME CallsAssumption ==
    /\ MaxCalls \in Nat /\ MaxTime \in Nat /\ MaxFaults \in Nat /\ Delay \in Nat
    /\ Retention \in [{"timer", "weather", "home"} -> Nat]

VARIABLES
    now,
    skillCall,  \* per call: "new", "sending", "waiting", "error", "gone", or
                \*   what the skill says: "done" or "sorry"
    skill,      \* the skill each call is for
    mailbox,    \* calls queued for the worker
    worker,     \* the dispatcher's loop: where it is, with which call
    stopping,   \* the runtime's cancellation token
    polling,    \* the task that polls the MQTT event loop is there
    plugin,     \* a skill is "loaded", "poisoned" (by a panic) or "absent"
    keys,       \* skill_kv: the keys the skills set and when
    gcs,        \* skills and thresholds of the skill_kv_gc tasks not run yet
    events,     \* scheduled_events: a row per timer, with the time it fires
    hand,       \* the events the scheduler has popped and not dealt with
    wire,       \* publishes queued in the MQTT client
    fired,      \* history: how often the event of a call was published
    notices,    \* SkillNotify events the forwarder has not received
    spoken,     \* announcements put into the TTS queue
    lost,       \* history: events a crash or a lagging receiver took away
    faults      \* faults left

callsVars == <<now, skillCall, skill, mailbox, worker, stopping, polling, plugin, keys,
               gcs, events, hand, wire, fired, notices, spoken, lost, faults>>

way == <<skillCall, skill, mailbox, worker>>
store == <<keys, gcs>>
timers == <<events, hand, fired, notices, spoken>>
broker == <<polling, wire, lost>>

Calls == 1..MaxCalls
Skills == DOMAIN Retention
Free == [at |-> "recv", id |-> 0]
Fault == faults > 0 /\ faults' = faults - 1

(***************************************************************************)
(* A pipeline's call, up to the mailbox.                                   *)
(***************************************************************************)
BeginCall(id) ==
    /\ skillCall[id] = "new" /\ now < MaxTime
    /\ \A other \in Calls : skillCall[other] = "new" => id <= other
    /\ skillCall' = [skillCall EXCEPT ![id] = "sending"]
    /\ \E s \in Skills : skill' = [skill EXCEPT ![id] = s]
    /\ UNCHANGED <<now, mailbox, worker, stopping, plugin, store, timers, broker, faults>>

\* tx.send: waits for room, fails once the dispatcher is gone.
Send(id) ==
    /\ skillCall[id] = "sending"
    /\ IF worker.at = "stopped"
       THEN skillCall' = [skillCall EXCEPT ![id] = "error"] /\ UNCHANGED mailbox
       ELSE /\ Len(mailbox) < MailboxCap
            /\ mailbox' = Append(mailbox, id)
            /\ skillCall' = [skillCall EXCEPT ![id] = "waiting"]
    /\ UNCHANGED <<now, skill, worker, stopping, plugin, store, timers, broker, faults>>

(***************************************************************************)
(* The dispatcher: one request at a time, its dispatch on a blocking       *)
(* thread it awaits.                                                       *)
(***************************************************************************)
\* The loop sees the cancelled token; what is queued goes with the receiver,
\* and each caller finds its reply dropped.
Stop ==
    /\ worker.at = "recv" /\ stopping
    /\ worker' = [at |-> "stopped", id |-> 0]
    /\ skillCall' =
          [id \in Calls |-> IF id \in Range(mailbox) THEN "error" ELSE skillCall[id]]
    /\ mailbox' = <<>>
    /\ UNCHANGED <<now, skill, stopping, plugin, store, timers, broker, faults>>

Answer(id, outcome) ==
    /\ skillCall' = [skillCall EXCEPT ![id] = outcome]
    /\ worker' = Free
Reply(outcome) == Answer(worker.id, outcome)

\* A task that will find nothing to collect is left out: what is set after its
\* threshold was taken is younger.
Collector(s, upto) ==
    IF Retention[s] > 0 /\ \E k \in keys : k.skill = s /\ k.at <= upto
    THEN {[skill |-> s, upto |-> upto]} ELSE {}

\* Faulty variant: the age of the keys to collect is forgotten.
SpawnFullGc(s) == gcs' = gcs \cup Collector(s, now)

\* registry.dispatch: keys past their retention are collected by a task apart.
SpawnGc(s) == gcs' = gcs \cup Collector(s, now - Retention[s])

\* Faulty variant: a join error is logged and nobody is answered.
PanicUnanswered(id) ==
    /\ worker' = Free
    /\ UNCHANGED skillCall

\* A panic reaches the worker as a join error: SkillPanicked, and an error.
Panicked(id) == Answer(id, "error")

\* The next request, and registry.dispatch up to the guest: an absent skill is
\* an error, and the lock().unwrap() of a poisoned one panics.
Dispatch ==
    /\ worker.at = "recv" /\ mailbox # <<>>
    /\ mailbox' = Tail(mailbox)
    /\ LET id == Head(mailbox)
           s == skill[id]
       IN \/ plugin[s] = "absent" /\ Answer(id, "error") /\ UNCHANGED gcs
          \/ plugin[s] = "poisoned" /\ Panicked(id) /\ UNCHANGED gcs
          \/ /\ plugin[s] = "loaded" /\ SpawnGc(s)
             /\ worker' = [at |-> "handle", id |-> id] /\ UNCHANGED skillCall
    /\ UNCHANGED <<now, skill, stopping, plugin, keys, timers, broker, faults>>

Go(at) == worker' = [worker EXCEPT !.at = at] /\ UNCHANGED skillCall
Serving == skill[worker.id]

\* A panic while the mutex is held poisons the plugin until it is reloaded.
Panic ==
    /\ worker.at \notin {"recv", "stopped", "hung"} /\ Fault
    /\ plugin' = [plugin EXCEPT ![Serving] = "poisoned"]
    /\ Panicked(worker.id)
    /\ UNCHANGED <<now, skill, mailbox, stopping, store, timers, broker>>

(***************************************************************************)
(* The guests' handle, with the host functions they call.                  *)
(***************************************************************************)
At(s, place) == worker.at = place /\ Serving = s

\* What the slot is parsed into: no duration, one over a day, or one to keep.
Parsed == {"none", "overADay", "kept"}

\* host_schedule_mqtt: the event is stored, or the store fails.
ScheduleMqtt(id) ==
    /\ events' = events \cup {[id |-> id, at |-> now + Delay]}
    /\ Go("set") /\ UNCHANGED faults
ScheduleFails == Fault /\ Reply("error") /\ UNCHANGED events

\* The timer's handle: a duration it cannot keep is refused, any other is
\* scheduled ...
TimerSchedule ==
    /\ At("timer", "handle")
    /\ \E duration \in Parsed :
          IF duration = "kept"
          THEN ScheduleMqtt(worker.id) \/ ScheduleFails
          ELSE Reply("sorry") /\ UNCHANGED <<events, faults>>
    /\ UNCHANGED <<now, skill, mailbox, stopping, plugin, store, hand, fired, notices,
                   spoken, broker>>

\* host_state_set: upsert, then collect what has had its time.
Old(s) == {k \in keys : k.skill = s /\ Retention[s] > 0 /\ k.at <= now - Retention[s]}
Upsert(s, name) ==
    {k \in keys : <<k.skill, k.name>> # <<s, name>>} \cup {[skill |-> s, name |-> name, at |-> now]}
StateSet(s, name) == keys' = Upsert(s, name) \ Old(s)
StateSetFails(s, name) == Fault /\ keys' \in {keys, Upsert(s, name)}

\* ... and a key is set.  When that fails, the call does, although the event
\* stays scheduled.
TimerSet ==
    /\ At("timer", "set")
    /\ \/ StateSet("timer", worker.id) /\ Reply("done") /\ UNCHANGED faults
       \/ StateSetFails("timer", worker.id) /\ Reply("error")
    /\ UNCHANGED <<now, skill, mailbox, stopping, plugin, gcs, timers, broker>>

\* The place is looked up in the store, or else asked for over HTTP: an answer
\* that has it, which is kept if the store lets it; or one without; or none.
Known(s, name) == \E k \in keys : k.skill = s /\ k.name = name
Geocoded ==
    \/ Known("weather", "geo") /\ Go("forecast") /\ UNCHANGED <<keys, faults>>
    \/ ~Known("weather", "geo") /\ Reply("sorry") /\ UNCHANGED <<keys, faults>>
    \/ ~Known("weather", "geo") /\ StateSet("weather", "geo") /\ Go("forecast")
          /\ UNCHANGED faults
    \/ ~Known("weather", "geo") /\ StateSetFails("weather", "geo") /\ Go("forecast")

WeatherGeocode ==
    /\ At("weather", "handle")
    /\ Geocoded
    /\ UNCHANGED <<now, skill, mailbox, stopping, plugin, gcs, timers, broker>>

WeatherForecast ==
    /\ At("weather", "forecast")
    /\ Reply("done") \/ Reply("sorry")
    /\ UNCHANGED <<now, skill, mailbox, stopping, plugin, store, timers, broker, faults>>

\* The server keeps the connection and never answers fetch_json: the client has
\* no timeout, nor has the plugin, nor the worker that awaits it.
HttpHangs ==
    /\ At("weather", "forecast") \/ (At("weather", "handle") /\ ~Known("weather", "geo"))
    /\ Fault /\ Go("hung")
    /\ UNCHANGED <<now, skill, mailbox, stopping, plugin, store, timers, broker>>

\* The home skill looks its device up, by room or by similar name, among the
\* configured ones; a topic outside the skill's namespace and its allowlist is
\* refused by host_mqtt_publish.
LightFind ==
    /\ At("home", "handle")
    /\ Reply("sorry") \/ Go("publish")
    /\ UNCHANGED <<now, skill, mailbox, stopping, plugin, store, timers, broker, faults>>

\* host_mqtt_publish waits for room in the client's channel, and the worker
\* with it; it fails once the event loop is gone.
MqttPublish(id, queued, failed) ==
    \/ polling /\ Len(wire) < WireCap /\ wire' = Append(wire, id) /\ queued
    \/ ~polling /\ UNCHANGED wire /\ failed

LightPublish ==
    /\ At("home", "publish")
    /\ MqttPublish(worker.id, Reply("done"), Reply("sorry"))
    /\ UNCHANGED <<now, skill, mailbox, stopping, plugin, store, timers, polling, lost, faults>>

Guest ==
    \/ TimerSchedule \/ TimerSet \/ LightFind \/ LightPublish
    \/ WeatherGeocode \/ WeatherForecast \/ HttpHangs

(***************************************************************************)
(* The admin and the store                                                 *)
(***************************************************************************)
\* The admin reloads or disables a skill; a call under way keeps its handle.
Reload(s) ==
    /\ plugin[s] # "loaded" /\ plugin' = [plugin EXCEPT ![s] = "loaded"]
    /\ UNCHANGED <<now, way, stopping, store, timers, broker, faults>>

Disable(s) ==
    /\ plugin[s] # "absent" /\ Fault
    /\ plugin' = [plugin EXCEPT ![s] = "absent"]
    /\ UNCHANGED <<now, way, stopping, store, timers, broker>>

\* skill_kv_gc, whenever its task gets to run.
Collect(gc) ==
    /\ gc \in gcs /\ gcs' = gcs \ {gc}
    /\ keys' = {k \in keys : k.skill = gc.skill => k.at > gc.upto}
    /\ UNCHANGED <<now, way, stopping, plugin, timers, broker, faults>>

(***************************************************************************)
(* The scheduler and the forwarder of its announcements.                   *)
(***************************************************************************)
Due == {e \in events : e.at <= now}
\* The orders ORDER BY fires_at_ms may give the rows: it says nothing of ties.
ByTime(rows) ==
    {q \in SetToSeqs(rows) : \A i, j \in DOMAIN q : i < j => q[i].at <= q[j].at}

\* Faulty variant: the rows are read, and nothing deletes them.
PopReadsOnly ==
    /\ hand' \in ByTime(Due)
    /\ UNCHANGED events

\* Faulty variant: every due row is deleted, and the first one handed on.
PopFirst ==
    /\ \E q \in ByTime(Due) : hand' = SubSeq(q, 1, 1)
    /\ events' = events \ Due

\* pop_due_events: rows are read and deleted in one transaction.
Pop ==
    /\ hand' \in ByTime(Due)
    /\ events' = events \ Due

SchedulerTick ==
    /\ SchedulerRuns /\ ~stopping /\ hand = <<>> /\ Due # {}
    /\ Pop
    /\ UNCHANGED <<now, way, stopping, plugin, store, fired, notices, spoken, broker, faults>>

\* For each event: publish (waits for room), then announce; a broadcast to a
\* receiver BusCap behind overwrites the oldest event.
Publish ==
    /\ hand # <<>> /\ hand' = Tail(hand)
    /\ LET id == Head(hand).id
           full == Len(notices) = BusCap
           missed == IF full THEN {Head(notices)} ELSE {}
       IN /\ \/ /\ polling /\ Len(wire) < WireCap
                /\ wire' = Append(wire, id) /\ lost' = lost \cup missed
             \/ ~polling /\ lost' = lost \cup missed \cup {id} /\ UNCHANGED wire
          /\ notices' = Append(IF full THEN Tail(notices) ELSE notices, id)
    /\ UNCHANGED <<now, way, stopping, polling, plugin, store, events, fired, spoken, faults>>

Forward ==
    /\ SchedulerRuns /\ ~stopping /\ notices # <<>>
    /\ spoken' = spoken \cup {Head(notices)}
    /\ notices' = Tail(notices)
    /\ UNCHANGED <<now, way, stopping, plugin, store, events, hand, fired, broker, faults>>

(***************************************************************************)
(* The environment                                                         *)
(***************************************************************************)
\* The MQTT event loop hands a publish to the broker.
Deliver ==
    /\ wire # <<>>
    /\ fired' = [fired EXCEPT ![Head(wire)] = @ + 1]
    /\ wire' = Tail(wire)
    /\ UNCHANGED <<now, way, stopping, polling, plugin, store, events, hand, notices,
                   spoken, lost, faults>>

\* The satellite task ends, with the event loop; its drain may leave a rest.
PollEnds ==
    /\ stopping /\ polling /\ polling' = FALSE
    /\ wire' = <<>> /\ lost' = lost \cup Range(wire)
    /\ UNCHANGED <<now, way, stopping, plugin, store, timers, faults>>

Tick ==
    /\ now < MaxTime \/ \E e \in events : e.at > now
    /\ now' = now + 1
    /\ UNCHANGED <<way, stopping, plugin, store, timers, broker, faults>>

StopRuntime ==
    /\ ~stopping /\ stopping' = TRUE
    /\ UNCHANGED <<now, way, plugin, store, timers, broker, faults>>

\* The process is killed and started again: rows survive, tasks and channels
\* do not, and the skills are loaded afresh.
Crash ==
    /\ ~stopping /\ Fault
    /\ skillCall' = [id \in Calls |->
          IF skillCall[id] \in {"sending", "waiting"} THEN "gone" ELSE skillCall[id]]
    /\ mailbox' = <<>> /\ worker' = Free /\ gcs' = {}
    /\ plugin' = [s \in Skills |-> "loaded"]
    /\ lost' = lost \cup {e.id : e \in Range(hand)} \cup Range(wire) \cup Range(notices)
    /\ hand' = <<>> /\ wire' = <<>> /\ notices' = <<>>
    /\ UNCHANGED <<now, skill, stopping, polling, keys, events, fired, spoken>>

CallsInit ==
    /\ now = Max(Range(Retention)) \* the age of a key never exceeds the clock
    /\ skillCall = [id \in Calls |-> "new"]
    /\ skill = [id \in Calls |-> CHOOSE s \in Skills : TRUE]
    /\ mailbox = <<>> /\ worker = Free /\ stopping = FALSE /\ polling = TRUE
    /\ plugin = [s \in Skills |-> "loaded"]
    /\ keys = {} /\ gcs = {} /\ events = {}
    /\ hand = <<>> /\ wire = <<>> /\ notices = <<>>
    /\ fired = [id \in Calls |-> 0] /\ spoken = {} /\ lost = {}
    /\ faults = MaxFaults

Dispatcher == Stop \/ Dispatch \/ Guest \/ Panic
Scheduler == SchedulerTick \/ Publish

CallsNext ==
    \/ \E id \in Calls : BeginCall(id) \/ Send(id)
    \/ Dispatcher
    \/ \E s \in Skills : Reload(s) \/ Disable(s)
    \/ \E gc \in gcs : Collect(gc)
    \/ Scheduler \/ Deliver \/ Forward
    \/ Tick \/ StopRuntime \/ PollEnds \/ Crash

\* The tasks are polled, the event loop is, the clock runs, and a skill's
\* handle returns; nobody has to call, reload, shut down or fail.
CallsFairness ==
    /\ \A id \in Calls : SF_callsVars(Send(id))
    /\ WF_callsVars(Dispatcher) /\ WF_callsVars(Scheduler)
    /\ WF_callsVars(Deliver) /\ WF_callsVars(Forward)
    /\ WF_callsVars(Tick) /\ WF_callsVars(PollEnds)

CallsSpec == CallsInit /\ [][CallsNext]_callsVars /\ CallsFairness
-----------------------------------------------------------------------------
\* A caller is always answered: by the skill, with an error when the skill is
\* absent, panicked or poisoned, or when the dispatcher stopped with the
\* request in its mailbox; unless the process dies, or an HTTP server never
\* answers one of the skills, which takes the one worker away from all of them
\* (SkillDispatcherHandle::call, SkillDispatcher::spawn).
EveryCallIsAnswered ==
    \A id \in Calls : skillCall[id] \in {"sending", "waiting"}
        ~> skillCall[id] \in {"done", "sorry", "error", "gone"} \/ worker.at = "hung"

\* What is published is published at most once, whatever crashes between the
\* delete of an event's row and its publish (pop_due_events before publish).
FiredAtMostOnce == \A id \in Calls : fired[id] <= 1

\* Every timer stored rings and is announced, also across a restart, unless a
\* crash caught it between the store and the broker, a lagging receiver missed
\* it, or the runtime shut down; and a light that was said to be switched gets
\* its command, with the same excuses (publish_command).
PromisesAreKept ==
    \A id \in Calls :
        /\ id \in {e.id : e \in events}
              ~> (fired[id] = 1 /\ id \in spoken) \/ id \in lost \/ stopping
        /\ skill[id] = "home" /\ skillCall[id] = "done"
              ~> fired[id] = 1 \/ id \in lost

\* A key is collected only once it has reached its skill's retention, by
\* whichever of the two collectors and however late its task runs.
KeptForRetention ==
    [][\A k \in keys \ keys' :
          (\E n \in keys' : <<n.skill, n.name>> = <<k.skill, k.name>>)
             \/ now - k.at >= Retention[k.skill]]_callsVars
=============================================================================
