------------------------------- MODULE MCAnswers -----------------------------
(***************************************************************************)
(* What answers an utterance.  The assist bridge, at its two levels: the   *)
(* map of a device's actors, and one actor with its router and LLM stage.  *)
(* The skills: the walk of a phrase and the choice among the rules, a call *)
(* through the dispatcher with what the timer leaves behind, and the       *)
(* questions of the Jeedom skill.  They share no state; a behaviour is one *)
(* of theirs and part says which.                                          *)
(***************************************************************************)
EXTENDS AssistBridge, AssistActor, SkillCalls, JeedomSkill, IntentMatching

VARIABLE part

skillVars == <<callsVars, jeedomVars, walkVars, chooseVars>>
allVars == <<part, bridgeVars, actorVars, skillVars>>

(***************************************************************************)
(* A house: a gated and a plain lamp, a gated shutter with all commands    *)
(* and a plain one with the least; another after an edit; and one whose    *)
(* address was never filled in.                                            *)
(***************************************************************************)
MCConfigs == {
    [reach |-> TRUE,
     sensors |-> <<Sensor(1, 1), Sensor(2, 1)>>,
     actions |-> <<ActionDevice(11, 12, TRUE), ActionDevice(13, 14, FALSE)>>,
     shutters |-> <<Shutter(21, 22, 23, 24, TRUE), Shutter(31, 32, 0, 0, FALSE)>>],
    [reach |-> TRUE, sensors |-> <<Sensor(1, 2)>>,
     actions |-> <<ActionDevice(13, 14, TRUE)>>, shutters |-> <<>>],
    [reach |-> FALSE, sensors |-> <<>>, actions |-> <<>>,
     shutters |-> <<Shutter(21, 22, 0, 24, FALSE)>>]}

MCRetention == [timer |-> 1, weather |-> 1, home |-> 0]

MCPhrases == {
    <<Literal(<<"a">>), Slot("any")>>,
    <<Literal(<<"a">>), Slot("number"), Literal(<<"b">>)>>,
    <<Slot("any"), Literal(<<"b">>)>>,
    <<Literal(<<"a">>), Slot("any"), Literal(<<"b">>),
      Slot("any")>>}

\* Only the part that moves starts in more than one state.
MCInit ==
    /\ part \in {"map", "actor", "calls", "jeedom", "walk", "choice"}
    /\ BridgeInit /\ ActorInit /\ CallsInit /\ JeedomInit /\ MatchingInit
    /\ part # "jeedom" => config = CHOOSE c \in Configs : TRUE
    /\ part # "walk" => text = <<>> /\ phrase = CHOOSE p \in Phrases : TRUE

MapStep == part = "map" /\ BridgeNext /\ UNCHANGED <<part, actorVars, skillVars>>
DeviceStep == part = "actor" /\ ActorNext /\ UNCHANGED <<part, bridgeVars, skillVars>>
SkillStep ==
    /\ \/ part = "calls" /\ CallsNext /\ UNCHANGED <<jeedomVars, walkVars, chooseVars>>
       \/ part = "jeedom" /\ JeedomNext /\ UNCHANGED <<callsVars, walkVars, chooseVars>>
       \/ part = "walk" /\ WalkStep /\ UNCHANGED <<callsVars, jeedomVars>>
       \/ part = "choice" /\ ChoiceStep /\ UNCHANGED <<callsVars, jeedomVars>>
    /\ UNCHANGED <<part, bridgeVars, actorVars>>

MCSpec == MCInit /\ [][MapStep \/ DeviceStep \/ SkillStep]_allVars

\* AssistActor: a polled actor releases the loader whatever the router, the
\* skills and the LLM do, as long as it has room for every transcript and no
\* publish waits for ever (ANSWER_TIMEOUT).
PolledActorReleases ==
    part = "actor" => (WF_actorVars(Actor) => LoaderReleasedOrHeld)

\* SkillCalls: a call is answered, whatever fails (SkillDispatcherHandle::call).
CallsAreAnswered == part = "calls" => (CallsFairness => EveryCallIsAnswered)

\* SkillCalls: a stored timer rings and is announced, a light said to be
\* switched is (SchedulerTask, publish_command).
PromisesAreMet == part = "calls" => (CallsFairness => PromisesAreKept)
=============================================================================
