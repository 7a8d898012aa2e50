---------------------------- MODULE MCAssistActor ----------------------------
(* Model-checking instances of AssistActor: the constants are in the cfgs. *)
EXTENDS AssistActor
=============================================================================
