----------------------------- MODULE AssistBridge -----------------------------
(***************************************************************************)
(* The assist bridge's map of device actors, for one device: how questions *)
(* are routed to the device's actor, when an actor is spawned, and how one *)
(* that ends leaves the map and passes on what reached it too late.        *)
(*                                                                         *)
(* route runs on the MQTT poll task, one question after the other, and on  *)
(* every ending actor, for its leftovers; all of them run concurrently.    *)
(* The DashMap guard is held across the lookup and the try_send, so these  *)
(* are one step; a miss and the insert that follows are two.               *)
(*                                                                         *)
(* What an actor does with a question is in AssistActor.  The branch of    *)
(* route for a closed channel is not here: EntryIsOpen shows that a lookup *)
(* never finds one.                                                        *)
(***************************************************************************)
EXTENDS Integers, Sequences, FiniteSets

CONSTANTS
    MaxQuestions,  \* bound: questions published for the device
    MaxActors,     \* bound: actors spawned for the device
    QuestionCap    \* capacity of an actor's question channel

ASSUME BridgeAssumption ==
    {MaxQuestions, MaxActors, QuestionCap} \subseteq Nat \ {0}

VARIABLES
    shutdown,  \* deps.shutdown is cancelled
    posed,     \* questions received from the broker so far
    entry,     \* the actor `devices` points at, 0 for no entry
    spawned,   \* actors spawned so far
    pc,        \* where each actor is
    queue,     \* each actor's question channel
    left,      \* the leftovers an ending actor has drained
    call,      \* per caller of route: the question of a lookup that missed
    taken,     \* history: questions an actor's loop has received
    discarded  \* history: questions given up with a warning

bridgeVars == <<shutdown, posed, entry, spawned, pc, queue, left, call, taken,
                discarded>>

Questions == 1..MaxQuestions
Actors    == 1..MaxActors

\* Callers of route: the poll task and the actors.
Poll    == 0
Callers == Actors \cup {Poll}

\* The questions in a channel or a list.
Elems(seq) == {seq[i] : i \in DOMAIN seq}

BridgeInit ==
    /\ shutdown = FALSE /\ posed = 0
    /\ entry = 0 /\ spawned = 0
    /\ pc = [a \in Actors |-> "none"]
    /\ queue = [a \in Actors |-> <<>>]
    /\ left = [a \in Actors |-> <<>>]
    /\ call = [c \in Callers |-> 0]
    /\ taken = {} /\ discarded = {}

-----------------------------------------------------------------------------
(* route *)

\* Faulty variant: the channel is taken to have no bound.
LookupUnbounded(c, q) ==
    \/ /\ entry # 0
       /\ queue' = [queue EXCEPT ![entry] = Append(@, q)]
       /\ UNCHANGED <<call, discarded>>
    \/ /\ entry = 0
       /\ call' = [call EXCEPT ![c] = q]
       /\ UNCHANGED <<queue, discarded>>

\* devices.get and try_send: into the actor's channel, dropped when that is
\* full, or a miss.
Lookup(c, q) ==
    \/ /\ entry # 0 /\ Len(queue[entry]) < QuestionCap
       /\ queue' = [queue EXCEPT ![entry] = Append(@, q)]
       /\ UNCHANGED <<call, discarded>>
    \/ /\ entry # 0 /\ Len(queue[entry]) >= QuestionCap
       /\ discarded' = discarded \cup {q}
       /\ UNCHANGED <<call, queue>>
    \/ /\ entry = 0
       /\ call' = [call EXCEPT ![c] = q]
       /\ UNCHANGED <<queue, discarded>>

\* After a miss: a fresh channel with the question in it, the insert, which
\* replaces whatever is there by now, and the actor's task.
Spawn(c) ==
    /\ call[c] # 0 /\ spawned < MaxActors
    /\ spawned' = spawned + 1
    /\ entry' = spawned + 1
    /\ queue' = [queue EXCEPT ![spawned + 1] = <<call[c]>>]
    /\ pc' = [pc EXCEPT ![spawned + 1] = "loop"]
    /\ call' = [call EXCEPT ![c] = 0]
    /\ UNCHANGED <<shutdown, posed, left, taken, discarded>>

\* handle: the poll task routes the next question until it stops polling.
Handle ==
    /\ ~shutdown /\ call[Poll] = 0 /\ posed < MaxQuestions
    /\ posed' = posed + 1
    /\ Lookup(Poll, posed + 1)
    /\ UNCHANGED <<shutdown, entry, spawned, pc, left, taken>>

Shutdown ==
    /\ ~shutdown
    /\ shutdown' = TRUE
    /\ UNCHANGED <<posed, entry, spawned, pc, queue, left, call, taken,
                   discarded>>

-----------------------------------------------------------------------------
(* The actor's life; the steps of one actor are in this order. *)

Take(a) ==
    /\ pc[a] = "loop" /\ queue[a] # <<>>
    /\ taken' = taken \cup {Head(queue[a])}
    /\ queue' = [queue EXCEPT ![a] = Tail(@)]
    /\ UNCHANGED <<shutdown, posed, entry, spawned, pc, left, call, discarded>>

\* The loop breaks: shutdown, idle, or the router or its tokens are gone.
Leave(a) ==
    /\ pc[a] = "loop"
    /\ pc' = [pc EXCEPT ![a] = "remove"]
    /\ UNCHANGED <<shutdown, posed, entry, spawned, queue, left, call, taken,
                   discarded>>

\* Faulty variant: the actor leaves the map alone.
KeepEntry(a) == entry

\* Faulty variant: the entry is removed whoever it points at.
RemoveAnyEntry(a) == 0

\* remove_if(same_channel): only an entry that is still the actor's own.
RemoveOwnEntry(a) == IF entry = a THEN 0 ELSE entry

RemoveEntry(a) ==
    /\ pc[a] = "remove"
    /\ entry' = RemoveOwnEntry(a)
    /\ pc' = [pc EXCEPT ![a] = "drain"]
    /\ UNCHANGED <<shutdown, posed, spawned, queue, left, call, taken, discarded>>

\* Faulty variant: what is still in the channel goes away with it.
LeftoversIgnored(a) == <<>>

\* question_rx.close() and the try_recv loop.
Leftovers(a) == queue[a]

CloseAndDrain(a) ==
    /\ pc[a] = "drain"
    /\ left' = [left EXCEPT ![a] = Leftovers(a)]
    /\ queue' = [queue EXCEPT ![a] = <<>>]
    /\ pc' = [pc EXCEPT ![a] = "leftovers"]
    /\ UNCHANGED <<shutdown, posed, entry, spawned, call, taken, discarded>>

\* Faulty variant: what is dropped at shutdown is routed as well.
LeftoverDroppedAndRouted(a) ==
    /\ pc[a] = "leftovers"
    /\ discarded' = IF shutdown
                  THEN discarded \cup Elems(left[a])
                  ELSE discarded
    /\ pc' = [pc EXCEPT ![a] = "reroute"]
    /\ UNCHANGED <<shutdown, posed, entry, spawned, queue, left, call, taken>>

\* At shutdown the leftovers are dropped, otherwise each of them is routed.
Leftover(a) ==
    /\ pc[a] = "leftovers"
    /\ IF shutdown
       THEN /\ discarded' = discarded \cup Elems(left[a])
            /\ left' = [left EXCEPT ![a] = <<>>]
            /\ pc' = [pc EXCEPT ![a] = "gone"]
       ELSE /\ pc' = [pc EXCEPT ![a] = "reroute"]
            /\ UNCHANGED <<left, discarded>>
    /\ UNCHANGED <<shutdown, posed, entry, spawned, queue, call, taken>>

Reroute(a) ==
    /\ pc[a] = "reroute" /\ left[a] # <<>> /\ call[a] = 0
    /\ left' = [left EXCEPT ![a] = Tail(@)]
    /\ Lookup(a, Head(left[a]))
    /\ UNCHANGED <<shutdown, posed, entry, spawned, pc, taken>>

Finish(a) ==
    /\ pc[a] = "reroute" /\ left[a] = <<>> /\ call[a] = 0
    /\ pc' = [pc EXCEPT ![a] = "gone"]
    /\ UNCHANGED <<shutdown, posed, entry, spawned, queue, left, call, taken,
                   discarded>>

-----------------------------------------------------------------------------
ActorStep(a) ==
    \/ Take(a) \/ Leave(a) \/ RemoveEntry(a) \/ CloseAndDrain(a)
    \/ Leftover(a) \/ Reroute(a) \/ Finish(a)

BridgeNext ==
    \/ Handle \/ Shutdown
    \/ \E c \in Callers : Spawn(c)
    \/ \E a \in Actors : ActorStep(a)

BridgeSpec == BridgeInit /\ [][BridgeNext]_bridgeVars

-----------------------------------------------------------------------------
(* Properties *)

\* Every variable has its type, and no channel holds more than its capacity.
BridgeTypeOK ==
    /\ shutdown \in BOOLEAN /\ posed \in 0..MaxQuestions
    /\ entry \in 0..MaxActors /\ spawned \in 0..MaxActors
    /\ pc \in [Actors -> {"none", "loop", "remove", "drain", "leftovers",
                          "reroute", "gone"}]
    /\ queue \in [Actors -> Seq(Questions)]
    /\ \A a \in Actors : Len(queue[a]) <= QuestionCap
    /\ left \in [Actors -> Seq(Questions)]
    /\ call \in [Callers -> 0..MaxQuestions]
    /\ taken \subseteq Questions /\ discarded \subseteq Questions

\* The device's entry points at an actor whose question channel is open: an
\* actor is out of the map before it closes its channel.  So try_send in route
\* cannot fail with Closed.
EntryIsOpen == entry # 0 => pc[entry] \in {"loop", "remove"}

\* bridge.rs on remove_if: an ending actor never deletes "a live actor's entry
\* instead of our own stale one".  The entry of an actor in its loop may be
\* replaced by that of a newer actor but never goes away.
LiveEntryKept ==
    [][entry # 0 /\ pc[entry] = "loop" => entry' # 0]_bridgeVars

\* Where question q waits: in a call of route, in the channel of an actor that
\* will still look at it, or among an ending actor's leftovers.
Waiting(q) ==
    \/ \E c \in Callers : call[c] = q
    \/ \E a \in Actors :
          pc[a] \in {"loop", "remove", "drain"} /\ q \in Elems(queue[a])
    \/ \E a \in Actors :
          pc[a] \in {"leftovers", "reroute"} /\ q \in Elems(left[a])

\* bridge.rs on the reap window: a question that "succeeded into a receiver
\* nobody will ever poll again" is not lost.  Every question is on its way,
\* has been received by an actor or was dropped with a warning.
NoQuestionLost ==
    \A q \in 1..posed : Waiting(q) \/ q \in taken \/ q \in discarded

\* A question is not answered twice: one that an actor has received or that
\* was dropped waits nowhere any more, and none is both.
NoQuestionTwice ==
    /\ \A q \in taken \cup discarded : ~Waiting(q)
    /\ taken \cap discarded = {}
=============================================================================
