----------------------------- MODULE JeedomSkill -----------------------------
(***************************************************************************)
(* The Jeedom skill: one Handle per intent the dispatcher's worker gives   *)
(* it, the question it may have to ask first, and the box that runs the    *)
(* commands.  Every speaker of the house shares the one pending question.  *)
(*                                                                         *)
(* A command is its id at the box; a run of it carries the slider's value, *)
(* or NoValue.  Ids of devices key their intents, as in the code.          *)
(***************************************************************************)
EXTENDS FiniteSets, Integers, Sequences, SequencesExt

CONSTANTS
    Configs,    \* the configurations the admin may install: whether the box's
                \*   address and key are set, sensors, actions and shutters
    Positions,  \* the numbers somebody may say
    Ttl         \* PENDING_TTL_SEC, in ticks

\* Jeedom's ids start at 1; 0 stands for a command a shutter does not have.
ActionDevices == [on : Nat, off : Nat, confirm : BOOLEAN]
Shutters == [up : Nat, down : Nat, stop : Nat, slider : Nat, confirm : BOOLEAN]

ASSUME JeedomAssumption ==
    /\ Ttl \in Nat \ {0} /\ Positions \subseteq Int
    /\ \A c \in Configs : c.actions \in Seq(ActionDevices) /\ c.shutters \in Seq(Shutters)

VARIABLES
    config,     \* the configuration of the loaded plugin
    pendingAction,    \* the tmp store's "pending_action", with the ticks it has left
    asked,      \* history: the last question, its age, and whether the
                \*   pipeline it was for still wanted to speak it
    last        \* history: the last handle's intent, runs and answer; turn flips

jeedomVars == <<config, pendingAction, asked, last>>

NoValue == -1
Nothing == [id |-> 0, value |-> NoValue, left |-> 0]
NoQuestion == [id |-> 0, value |-> NoValue, age |-> Ttl, heard |-> FALSE]

Named(name) == [name |-> name, key |-> 0, value |-> NoValue]
Keyed(name, key) == [name |-> name, key |-> key, value |-> NoValue]

(***************************************************************************)
(* The devices of a configuration.  What they are called is the matcher's  *)
(* business; a sensor's metric is the word left when its room is taken off *)
(* its name, and 0 stands for a command the configuration leaves out.      *)
(***************************************************************************)
Sensor(id, metric) == [id |-> id, metric |-> metric]
ActionDevice(on, off, confirm) == [on |-> on, off |-> off, confirm |-> confirm]
Shutter(up, down, stop, slider, confirm) ==
    [up |-> up, down |-> down, stop |-> stop, slider |-> slider, confirm |-> confirm]

\* Something is asked about before it is done.
AnyConfirms(c) == \E d \in Range(c.actions) \cup Range(c.shutters) : d.confirm
\* Some device that asks first, or one that does not, names the command.
NamedBy(c, id, gated) ==
    \/ \E d \in Range(c.actions) : d.confirm = gated /\ id \in {d.on, d.off}
    \/ \E d \in Range(c.shutters) : d.confirm = gated /\ id \in {d.up, d.down, d.slider}
\* Only such devices do, and none as its stop.
Gated(c, id) ==
    /\ NamedBy(c, id, TRUE) /\ ~NamedBy(c, id, FALSE)
    /\ \A d \in Range(c.shutters) : d.stop # id

(***************************************************************************)
(* The intents the plugin registers rules for, with what a slot may hold.  *)
(***************************************************************************)
SensorRules(c) ==
    IF c.sensors = <<>> THEN {}
    ELSE {Named("read")} \cup {Keyed("read", s.id) : s \in Range(c.sensors)}
         \cup {Keyed("read_all", s.metric) : s \in Range(c.sensors)}

ActionRules(c) ==
    {Keyed(n, d.on) : n \in {"turn_on", "turn_off"}, d \in Range(c.actions)}

ShutterRules(c) ==
    {Keyed(n, d.up) : n \in {"open", "close"}, d \in Range(c.shutters)}
    \cup {Keyed("stop", d.up) : d \in {s \in Range(c.shutters) : s.stop # 0}}
    \cup {[Keyed("pos", d.up) EXCEPT !.value = p] :
             d \in {s \in Range(c.shutters) : s.slider # 0}, p \in Positions \cup {NoValue}}
    \cup (IF c.shutters = <<>> THEN {} ELSE {Named("open_all"), Named("close_all")})

ConfirmRules(c) ==
    IF AnyConfirms(c) THEN {Named("confirm"), Named("cancel")} ELSE {}

Rules(c) == SensorRules(c) \cup ActionRules(c) \cup ShutterRules(c) \cup ConfirmRules(c)

(***************************************************************************)
(* One HTTP GET: without an address or a key, or at a host that is not     *)
(* allowed, nothing is sent; otherwise the box may run the command and     *)
(* its answer get lost.                                                    *)
(***************************************************************************)
Outcomes == IF config.reach THEN {"ok", "failed", "answer lost"} ELSE {"failed"}
Ran(outcome) == outcome # "failed"
DoneOrError(outcome) == IF outcome = "ok" THEN "done" ELSE "unreachable"

EndHandle(i, runs, said) ==
    last' = [intent |-> i, runs |-> runs, said |-> said, turn |-> ~last.turn]
Say(i, said) == EndHandle(i, {}, said) /\ UNCHANGED <<pendingAction, asked>>

\* exec_cmd, exec_slider
Exec(i, id, value) ==
    \E o \in Outcomes :
        EndHandle(i, IF Ran(o) THEN {[id |-> id, value |-> value]} ELSE {}, DoneOrError(o))

\* tmp_set of the pending action, whatever was pending before.
Ask(i, id, value, heard) ==
    /\ pendingAction' = [id |-> id, value |-> value, left |-> Ttl]
    /\ asked' = [id |-> id, value |-> value, age |-> 0, heard |-> heard]
    /\ EndHandle(i, {}, "confirm?")

\* Faulty variant: the pending action survives its execution.
ClearPendingNever == UNCHANGED pendingAction

\* clear_pending: an empty payload, which every reader takes for none.
ClearPending == pendingAction' = Nothing

(***************************************************************************)
(* The intents, in the order handle tries them.                            *)
(***************************************************************************)
ReadValue(outcome) == IF outcome = "ok" THEN "value" ELSE "unreachable"
SpeakReading(i, sensor) == \E o \in Outcomes : Say(i, ReadValue(o))

\* A sensor by its id; an id that is gone falls through to the slot, which a
\* literal rule does not have.
Read(i) ==
    /\ i.name = "read" /\ i.key # 0
    /\ LET found == {s \in Range(config.sensors) : s.id = i.key}
       IN IF found = {} THEN Say(i, "which sensor?")
          ELSE \E s \in found : SpeakReading(i, s)

\* By a slot: nothing heard, nothing close enough, or some sensor.
ReadSlot(i) ==
    /\ i.name = "read" /\ i.key = 0
    /\ \/ Say(i, "which sensor?")
       \/ Say(i, "unknown")
       \/ \E s \in Range(config.sensors) : SpeakReading(i, s)

ReadAll(i) ==
    /\ i.name = "read_all"
    /\ IF \E s \in Range(config.sensors) : s.metric = i.key
       THEN Say(i, "clauses")
       ELSE Say(i, "unknown")

\* Where the first device of that key is, if there is one.
First(keys, k) ==
    {n \in DOMAIN keys : keys[n] = k /\ \A m \in 1 .. n - 1 : keys[m] # k}

Turn(i, heard) ==
    /\ i.name \in {"turn_on", "turn_off"}
    /\ LET found == First([n \in DOMAIN config.actions |-> config.actions[n].on], i.key)
       IN IF found = {} THEN Say(i, "unknown")
          ELSE \E at \in found :
                  LET d == config.actions[at]
                      id == IF i.name = "turn_on" THEN d.on ELSE d.off
                  IN IF d.confirm THEN Ask(i, id, NoValue, heard)
                     ELSE Exec(i, id, NoValue) /\ UNCHANGED <<pendingAction, asked>>

GroupAnswer(total, failed) ==
    CASE failed = {} -> "done"
      [] failed = total -> "unreachable"
      [] OTHER -> "partly done"

\* Every shutter, asked about or not: the command names its full scope.
Group(i) ==
    /\ i.name \in {"open_all", "close_all"}
    /\ IF config.shutters = <<>> THEN Say(i, "unknown")
       ELSE \E o \in [DOMAIN config.shutters -> Outcomes] :
               LET Cmd(n) == IF i.name = "open_all" THEN config.shutters[n].up
                             ELSE config.shutters[n].down
                   failed == {n \in DOMAIN o : o[n] # "ok"}
               IN /\ EndHandle(i, {[id |-> Cmd(n), value |-> NoValue] :
                                   n \in {m \in DOMAIN o : Ran(o[m])}},
                            GroupAnswer(DOMAIN o, failed))
                  /\ UNCHANGED <<pendingAction, asked>>

\* Stop is never gated.
Gates(d, i) == d.confirm /\ i.name # "stop"

\* The command a shutter intent asks for; 0 when the shutter lacks it.
CmdId(d, name) ==
    CASE name = "open" -> d.up
      [] name = "close" -> d.down
      [] name = "stop" -> d.stop
      [] name = "pos" -> d.slider

Clamp(p) == IF p < 0 THEN 0 ELSE IF p > 100 THEN 100 ELSE p

MoveFound(d, i, heard) ==
    LET id == CmdId(d, i.name)
        value == IF i.name = "pos" THEN Clamp(i.value) ELSE NoValue
    IN IF i.name = "pos" /\ i.value = NoValue THEN Say(i, "which position?")
       ELSE IF id = 0 THEN Say(i, "unknown")
       ELSE IF Gates(d, i) THEN Ask(i, id, value, heard)
       ELSE Exec(i, id, value) /\ UNCHANGED <<pendingAction, asked>>

MoveShutter(i, heard) ==
    /\ i.name \in {"open", "close", "stop", "pos"}
    /\ LET found == First([n \in DOMAIN config.shutters |-> config.shutters[n].up], i.key)
       IN IF found = {} THEN Say(i, "unknown")
          ELSE \E at \in found : MoveFound(config.shutters[at], i, heard)

\* The pending action is cleared before it is run: a failed one is lost.
Confirm(i) ==
    /\ i.name = "confirm"
    /\ IF pendingAction = Nothing THEN Say(i, "nothing to confirm")
       ELSE /\ ClearPending
            /\ Exec(i, pendingAction.id, pendingAction.value)
            /\ asked' = NoQuestion

ForgetPending(i) ==
    /\ i.name = "cancel"
    /\ IF pendingAction = Nothing THEN Say(i, "nothing to confirm")
       ELSE ClearPending /\ EndHandle(i, {}, "cancelled") /\ asked' = NoQuestion

\* A call the worker makes, for a rule registered now or before a reload.
\* A barge-in meanwhile drops the answer (heard is FALSE), not the call.
HandleIntent(i, heard) ==
    /\ \/ Read(i) \/ ReadSlot(i) \/ ReadAll(i)
       \/ Turn(i, heard) \/ Group(i) \/ MoveShutter(i, heard)
       \/ Confirm(i) \/ ForgetPending(i)
    /\ UNCHANGED config

\* tmp_get: a key is gone once its time has come.
Expire == pendingAction' = IF pendingAction.left <= 1 THEN Nothing
                     ELSE [pendingAction EXCEPT !.left = @ - 1]

ConsentTick ==
    /\ pendingAction # Nothing \/ asked.age < Ttl
    /\ Expire
    /\ asked' = [asked EXCEPT !.age = IF @ < Ttl THEN @ + 1 ELSE @]
    /\ UNCHANGED <<config, last>>

\* A new plugin instance with another configuration; the store is the host's.
Reconfigure(c) == config' = c /\ c # config /\ UNCHANGED <<pendingAction, asked, last>>

\* The process restarts, and with it the tmp store, which is in memory.
Restart ==
    /\ pendingAction # Nothing /\ pendingAction' = Nothing
    /\ UNCHANGED <<config, asked, last>>

Intents == UNION {Rules(c) : c \in Configs}

JeedomInit ==
    /\ config \in Configs
    /\ pendingAction = Nothing /\ asked = NoQuestion
    /\ last = [intent |-> Named("none"), runs |-> {}, said |-> "nothing", turn |-> FALSE]

JeedomNext ==
    \/ \E i \in Intents, heard \in BOOLEAN : HandleIntent(i, heard)
    \/ ConsentTick \/ Restart
    \/ \E c \in Configs : Reconfigure(c)
-----------------------------------------------------------------------------
\* A command that only gated devices name, and none as its stop, runs, but for
\* the two group intents, only on a confirm within Ttl of the question about
\* that very command, with that very value, and once per question; whichever
\* questions, answers, reloads and restarts came in between (Pending,
\* load_pending, handle).
OnlyFreshConsentRuns ==
    [][\A r \in last'.runs :
          last'.turn # last.turn /\ Gated(config, r.id)
                       /\ last'.intent.name \notin {"open_all", "close_all"}
            => /\ last'.intent.name = "confirm"
               /\ asked.age < Ttl /\ r.id = asked.id /\ r.value = asked.value]_jeedomVars

\* "the assistant asks `Tu confirmes : ... ?` and waits for a spoken
\* oui/confirme before executing" (ActionDevice::confirm): what a confirm runs,
\* somebody was asked about.
ConfirmedWasAsked ==
    [][last'.turn # last.turn /\ last'.intent.name = "confirm" /\ last'.runs # {}
          => asked.heard]_jeedomVars
=============================================================================
