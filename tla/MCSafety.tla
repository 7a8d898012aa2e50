------------------------------- MODULE MCSafety -------------------------------
(***************************************************************************)
(* The safety of one session's pipeline and of the skill registry.  They   *)
(* share no state here: a behaviour is one of theirs.  The registry gets   *)
(* two requests, with a crash or a failure between them, or three, all for *)
(* the same skill.                                                         *)
(***************************************************************************)
EXTENDS VoicePipeline, SkillRegistry, TLC

VARIABLE part   \* "pipeline", "registry", or the only skill of the requests

safetyVars == <<part, vars, adminVars>>

MCInit ==
    /\ part \in {"pipeline", "registry"} \cup Skills
    /\ Init /\ RegistryInit
    /\ part = "pipeline" => /\ file = [s \in Skills |-> None]
                            /\ budget = [requests |-> 0, faults |-> 0]
    /\ part = "registry" => budget = [requests |-> MaxRequests - 1, faults |-> MaxFaults]
    /\ part \in Skills => /\ \A s \in Skills \ {part} : file[s] = None
                          /\ budget = [requests |-> MaxRequests, faults |-> 0]

\* Bound: three requests bring no file without rules.
InPart ==
    part \in Skills =>
        \A r \in Requests : req'[r].at # "idle" =>
            req'[r].skill = part /\ req'[r].version \notin Ruleless

MCNext ==
    \/ part = "pipeline" /\ Next /\ UNCHANGED <<part, adminVars>>
    \/ part # "pipeline" /\ RegistryNext /\ InPart /\ UNCHANGED <<part, vars>>

MCSpec == MCInit /\ [][MCNext]_safetyVars

Symmetry == Permutations(Skills)
=============================================================================
