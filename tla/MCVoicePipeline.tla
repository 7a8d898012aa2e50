--------------------------- MODULE MCVoicePipeline ---------------------------
(* Model-checking instances of VoicePipeline: the constants are in the cfgs. *)
EXTENDS VoicePipeline
=============================================================================
