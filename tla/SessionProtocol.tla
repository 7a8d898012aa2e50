--------------------------- MODULE SessionProtocol ---------------------------
(***************************************************************************)
(* What a satellite promises the server about the topics                   *)
(* <root>/sat/<id>/session/<sid>/...: every session begins with one        *)
(* `start` and asks one question, by a text or by audio that an empty      *)
(* frame ends; it may say `end`, and it has asked before the next session  *)
(* begins.  A satellite that is not Lossless goes on when a message could  *)
(* not be published: the server then hears less, `start` included, but     *)
(* never a second question, nor anything of an earlier session after a     *)
(* newer one has begun.                                                    *)
(* Satellite (the ESP32 firmware), DesktopClient and TestConsole           *)
(* implement it.                                                           *)
(***************************************************************************)
EXTENDS Naturals, Sequences

CONSTANTS
    Sessions,     \* the sessions of one satellite
    Lossless      \* every message is published

VARIABLES
    stage,        \* session |-> how far it has come
    wire          \* session |-> messages published, repeated audio once

protocolVars == <<stage, wire>>

Messages == {"start", "audio", "question", "end"}

TypeOK ==
    /\ stage \in [Sessions -> {"new", "open", "asked"}]
    /\ wire \in [Sessions -> Seq(Messages)]

Has(s, m) == \E i \in DOMAIN wire[s] : wire[s][i] = m

\* The messages of a session once m has been published too.
Recorded(ms, m) ==
    IF m = "audio" /\ ms # <<>> /\ ms[Len(ms)] = m THEN ms ELSE Append(ms, m)

Publish(s, m) ==
    \/ wire' = [wire EXCEPT ![s] = Recorded(@, m)]
    \/ ~Lossless /\ UNCHANGED wire

Init ==
    /\ stage = [s \in Sessions |-> "new"]
    /\ wire = [s \in Sessions |-> <<>>]

Start(s) ==
    /\ stage[s] = "new" /\ \A t \in Sessions : stage[t] # "open"
    /\ stage' = [stage EXCEPT ![s] = "open"]
    /\ Publish(s, "start")

Speak(s) ==
    /\ stage[s] = "open" /\ UNCHANGED stage
    /\ Publish(s, "audio")

Ask(s) ==
    /\ stage[s] = "open"
    /\ stage' = [stage EXCEPT ![s] = "asked"]
    /\ Publish(s, "question")

End(s) ==
    /\ stage[s] # "new" /\ UNCHANGED stage
    /\ Publish(s, "end")

Next == \E s \in Sessions : Start(s) \/ Speak(s) \/ Ask(s) \/ End(s)

Spec == Init /\ [][Next]_protocolVars

\* On the wire there is no session with two questions, and none that speaks
\* before it has begun (what a server that pairs questions with answers needs).
OneQuestion ==
    \A s \in Sessions :
        /\ \A i, j \in DOMAIN wire[s] :
               wire[s][i] = "question" /\ wire[s][j] = "question" => i = j
        /\ stage[s] = "new" => wire[s] = <<>>
=============================================================================
