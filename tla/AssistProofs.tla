------------------------------ MODULE AssistProofs -----------------------------
(***************************************************************************)
(* Proofs about the assist bridge.  The map of a device's actors, for any  *)
(* number of questions and actors and any channel capacity: the properties *)
(* about questions need to know that no question is in two places          *)
(* (Distinct) and that an actor's channel and leftovers hold something     *)
(* only in the phases that still look at them (Phases).  And one actor,    *)
(* for any number of questions and tokens and channels of any capacity:    *)
(* its loader and its answer deadline go together.                         *)
(***************************************************************************)
EXTENDS AssistBridge, AssistActor, SequenceTheorems, TLAPS

Injective(seq) == \A i, j \in DOMAIN seq : seq[i] = seq[j] => i = j

\* What each phase of an actor's life leaves behind.
Phases ==
    /\ \A a \in Actors : (pc[a] = "none") <=> (a > spawned)
    /\ \A a \in Actors :
          pc[a] \notin {"loop", "remove", "drain"} => queue[a] = <<>>
    /\ \A a \in Actors :
          pc[a] \notin {"leftovers", "reroute"} => left[a] = <<>>
    /\ \A a \in Actors : call[a] # 0 => pc[a] = "reroute"

\* Only questions that were received are anywhere.
Received ==
    /\ \A a \in Actors : Elems(queue[a]) \subseteq 1..posed
    /\ \A a \in Actors : Elems(left[a]) \subseteq 1..posed
    /\ \A c \in Callers : call[c] <= posed
    /\ taken \subseteq 1..posed /\ discarded \subseteq 1..posed

\* No question is in two places at once.
Distinct ==
    /\ \A a \in Actors : Injective(queue[a]) /\ Injective(left[a])
    /\ \A a, b \in Actors :
          a # b => /\ Elems(queue[a]) \cap Elems(queue[b]) = {}
                   /\ Elems(left[a]) \cap Elems(left[b]) = {}
    /\ \A a, b \in Actors : Elems(queue[a]) \cap Elems(left[b]) = {}
    /\ \A c, d \in Callers : c # d /\ call[c] = call[d] => call[c] = 0
    /\ \A c \in Callers, a \in Actors :
          call[c] \notin Elems(queue[a]) \cup Elems(left[a])
    /\ \A c \in Callers : call[c] \notin taken \cup discarded
    /\ \A a \in Actors :
          (Elems(queue[a]) \cup Elems(left[a])) \cap (taken \cup discarded) = {}
    /\ taken \cap discarded = {}

IInv ==
    /\ BridgeTypeOK /\ Phases /\ Received /\ EntryIsOpen /\ NoQuestionLost
    /\ Distinct

-----------------------------------------------------------------------------
(* Channels *)

\* What appending a question to a channel adds to it.
LEMMA Appended ==
    ASSUME NEW s \in Seq(Questions), NEW q \in Questions
    PROVE  /\ Append(s, q) \in Seq(Questions)
           /\ Len(Append(s, q)) = Len(s) + 1
           /\ Elems(Append(s, q)) = Elems(s) \cup {q}
           /\ Injective(s) /\ q \notin Elems(s) => Injective(Append(s, q))
<1>1. /\ Append(s, q) \in Seq(Questions)
      /\ Len(Append(s, q)) = Len(s) + 1
      /\ DOMAIN s = 1..Len(s)
      /\ DOMAIN Append(s, q) = 1..(Len(s) + 1)
      /\ \A i \in 1..Len(s) : Append(s, q)[i] = s[i]
      /\ Append(s, q)[Len(s) + 1] = q
  OBVIOUS
<1>2. Len(s) \in Nat
  OBVIOUS
<1>3. Elems(Append(s, q)) = Elems(s) \cup {q}
  <2>1. ASSUME NEW x \in Elems(Append(s, q)) PROVE x \in Elems(s) \cup {q}
    <3>1. PICK i \in 1..(Len(s) + 1) : x = Append(s, q)[i]
      BY <1>1, <2>1 DEF Elems
    <3>2. CASE i = Len(s) + 1
      BY <1>1, <3>1, <3>2
    <3>3. CASE i \in 1..Len(s)
      BY <1>1, <3>1, <3>3 DEF Elems
    <3> QED BY <1>2, <3>2, <3>3
  <2>2. ASSUME NEW x \in Elems(s) PROVE x \in Elems(Append(s, q))
    <3>1. PICK i \in 1..Len(s) : x = s[i]
      BY <1>1, <2>2 DEF Elems
    <3>2. i \in DOMAIN Append(s, q) /\ Append(s, q)[i] = x
      BY <1>1, <1>2, <3>1
    <3> QED BY <3>2 DEF Elems
  <2>3. q \in Elems(Append(s, q))
    <3>1. Len(s) + 1 \in DOMAIN Append(s, q)
      BY <1>1, <1>2
    <3> QED BY <1>1, <3>1 DEF Elems
  <2> QED BY <2>1, <2>2, <2>3
<1>4. ASSUME Injective(s), q \notin Elems(s) PROVE Injective(Append(s, q))
  <2>1. SUFFICES ASSUME NEW i \in 1..(Len(s) + 1), NEW j \in 1..(Len(s) + 1),
                        Append(s, q)[i] = Append(s, q)[j]
                 PROVE  i = j
    BY <1>1 DEF Injective
  <2>2. \A k \in 1..Len(s) : s[k] # q
    BY <1>1, <1>4 DEF Elems
  <2>3. CASE i \in 1..Len(s) /\ j \in 1..Len(s)
    BY <1>1, <1>4, <2>1, <2>3 DEF Injective
  <2>4. CASE i = Len(s) + 1 \/ j = Len(s) + 1
    BY <1>1, <1>2, <2>1, <2>2, <2>4
  <2> QED BY <1>2, <2>3, <2>4
<1> QED BY <1>1, <1>3, <1>4

\* What taking the first question leaves.
LEMMA Removed ==
    ASSUME NEW s \in Seq(Questions), s # <<>>
    PROVE  /\ Tail(s) \in Seq(Questions) /\ Head(s) \in Questions
           /\ Len(Tail(s)) <= Len(s)
           /\ Elems(s) = Elems(Tail(s)) \cup {Head(s)}
           /\ Injective(s) => /\ Injective(Tail(s))
                              /\ Head(s) \notin Elems(Tail(s))
<1>1. /\ Tail(s) \in Seq(Questions) /\ Head(s) \in Questions
      /\ Len(s) \in Nat /\ Len(s) >= 1
      /\ Len(Tail(s)) = Len(s) - 1
      /\ DOMAIN s = 1..Len(s) /\ DOMAIN Tail(s) = 1..(Len(s) - 1)
      /\ \A i \in 1..(Len(s) - 1) : Tail(s)[i] = s[i + 1]
      /\ Head(s) = s[1]
  OBVIOUS
<1>2. Elems(s) = Elems(Tail(s)) \cup {Head(s)}
  <2>1. ASSUME NEW x \in Elems(s) PROVE x \in Elems(Tail(s)) \cup {Head(s)}
    <3>1. PICK i \in 1..Len(s) : x = s[i]
      BY <1>1, <2>1 DEF Elems
    <3>2. CASE i = 1
      BY <1>1, <3>1, <3>2
    <3>3. CASE i # 1
      <4>1. i - 1 \in DOMAIN Tail(s) /\ Tail(s)[i - 1] = x
        BY <1>1, <3>1, <3>3
      <4> QED BY <4>1 DEF Elems
    <3> QED BY <3>2, <3>3
  <2>2. ASSUME NEW x \in Elems(Tail(s)) PROVE x \in Elems(s)
    <3>1. PICK i \in 1..(Len(s) - 1) : x = Tail(s)[i]
      BY <1>1, <2>2 DEF Elems
    <3>2. i + 1 \in DOMAIN s /\ s[i + 1] = x
      BY <1>1, <3>1
    <3> QED BY <3>2 DEF Elems
  <2>3. Head(s) \in Elems(s)
    <3>1. 1 \in DOMAIN s
      BY <1>1
    <3> QED BY <1>1, <3>1 DEF Elems
  <2> QED BY <2>1, <2>2, <2>3
<1>3. ASSUME Injective(s)
      PROVE  Injective(Tail(s)) /\ Head(s) \notin Elems(Tail(s))
  <2>1. \A i, j \in 1..Len(s) : s[i] = s[j] => i = j
    BY <1>1, <1>3 DEF Injective
  <2>2. \A i, j \in 1..(Len(s) - 1) : Tail(s)[i] = Tail(s)[j] => i = j
    <3>1. TAKE i, j \in 1..(Len(s) - 1)
    <3>2. HAVE Tail(s)[i] = Tail(s)[j]
    <3>3. i + 1 \in 1..Len(s) /\ j + 1 \in 1..Len(s) /\ s[i + 1] = s[j + 1]
      BY <1>1, <3>2
    <3>4. i + 1 = j + 1
      BY <2>1, <3>3
    <3> QED BY <3>4
  <2>3. ASSUME Head(s) \in Elems(Tail(s)) PROVE FALSE
    <3>1. PICK i \in 1..(Len(s) - 1) : Head(s) = Tail(s)[i]
      BY <1>1, <2>3 DEF Elems
    <3>2. 1 \in 1..Len(s) /\ i + 1 \in 1..Len(s) /\ s[1] = s[i + 1]
      BY <1>1, <3>1
    <3>3. 1 = i + 1
      BY <2>1, <3>2
    <3> QED BY <1>1, <3>3
  <2> QED BY <1>1, <2>2, <2>3 DEF Injective
<1> QED BY <1>1, <1>2, <1>3

\* A channel with nothing in it, and one with one question in it.
LEMMA Small ==
    ASSUME NEW q \in Questions
    PROVE  /\ <<>> \in Seq(Questions) /\ Len(<<>>) = 0
           /\ Elems(<<>>) = {} /\ Injective(<<>>)
           /\ <<q>> \in Seq(Questions) /\ Len(<<q>>) = 1
           /\ Elems(<<q>>) = {q} /\ Injective(<<q>>)
BY DEF Elems, Injective
-----------------------------------------------------------------------------
(* The steps *)

\* The bounds are natural numbers.
LEMMA Constants ==
    MaxQuestions \in Nat /\ MaxActors \in Nat /\ QuestionCap \in Nat
BY BridgeAssumption

\* The invariant holds initially: nothing is anywhere.
LEMMA InitHolds == BridgeInit => IInv
<1> SUFFICES ASSUME BridgeInit PROVE IInv
  OBVIOUS
<1>1. Elems(<<>>) = {} /\ Injective(<<>>)
  BY DEF Elems, Injective
<1>2. BridgeTypeOK
  <2>1. <<>> \in Seq(Questions) /\ Len(<<>>) = 0
    OBVIOUS
  <2>2. /\ queue \in [Actors -> Seq(Questions)]
        /\ left \in [Actors -> Seq(Questions)]
        /\ \A a \in Actors : Len(queue[a]) <= QuestionCap
    BY <2>1, Constants DEF BridgeInit
  <2>3. call \in [Callers -> 0..MaxQuestions]
    BY Constants DEF BridgeInit
  <2>4. pc \in [Actors -> {"none", "loop", "remove", "drain", "leftovers",
                          "reroute", "gone"}]
    BY DEF BridgeInit
  <2>5. /\ posed \in 0..MaxQuestions
        /\ entry \in 0..MaxActors /\ spawned \in 0..MaxActors
    BY Constants DEF BridgeInit
  <2>6. /\ shutdown \in BOOLEAN
        /\ taken \subseteq Questions /\ discarded \subseteq Questions
    BY DEF BridgeInit
  <2> QED BY <2>2, <2>3, <2>4, <2>5, <2>6 DEF BridgeTypeOK
<1>3. Phases
  BY Constants DEF BridgeInit, Phases, Actors, Callers
<1>4. Received /\ EntryIsOpen /\ NoQuestionLost
  BY <1>1 DEF BridgeInit, Received, EntryIsOpen, NoQuestionLost
<1>5. Distinct
  BY <1>1 DEF BridgeInit, Distinct, Callers
<1> QED BY <1>2, <1>3, <1>4, <1>5 DEF IInv

\* A step that changes nothing.
LEMMA StutterStep ==
    ASSUME IInv, UNCHANGED bridgeVars PROVE IInv'
BY DEF bridgeVars, IInv, BridgeTypeOK, Phases, Received, EntryIsOpen, NoQuestionLost,
   Waiting, Distinct

\* The runtime shuts down.
LEMMA ShutdownStep ==
    ASSUME IInv, Shutdown PROVE IInv'
<1> USE DEF IInv
<1>1. BridgeTypeOK'
  BY Constants DEF BridgeTypeOK, Shutdown
<1>2. Phases'
  BY DEF BridgeTypeOK, Phases, Shutdown
<1>3. Received'
  BY DEF BridgeTypeOK, Received, Shutdown
<1>4. EntryIsOpen'
  BY DEF BridgeTypeOK, Phases, EntryIsOpen, Shutdown
<1>5. NoQuestionLost'
  BY DEF BridgeTypeOK, Phases, NoQuestionLost, Waiting, Shutdown
<1>6. Distinct'
  BY DEF BridgeTypeOK, Phases, Received, Distinct, Shutdown
<1> QED BY <1>1, <1>2, <1>3, <1>4, <1>5, <1>6

\* An actor's loop receives a question.
LEMMA TakeStep ==
    ASSUME IInv, NEW a \in Actors, Take(a) PROVE IInv'
<1> USE DEF IInv
<1>1. /\ queue[a] \in Seq(Questions) /\ queue[a] # <<>>
      /\ queue' = [queue EXCEPT ![a] = Tail(queue[a])]
      /\ queue'[a] = Tail(queue[a])
      /\ \A b \in Actors : b # a => queue'[b] = queue[b]
  BY DEF BridgeTypeOK, Take
<1>2. /\ Tail(queue[a]) \in Seq(Questions) /\ Head(queue[a]) \in Questions
      /\ Len(queue'[a]) <= QuestionCap
      /\ Elems(queue[a]) = Elems(queue'[a]) \cup {Head(queue[a])}
  BY <1>1, Removed, Constants DEF BridgeTypeOK
<1>3. Injective(queue'[a]) /\ Head(queue[a]) \notin Elems(queue'[a])
  BY <1>1, Removed DEF Distinct
<1>4. BridgeTypeOK'
  BY <1>1, <1>2, <1>3, Constants DEF BridgeTypeOK, Take
<1>5. Phases'
  BY <1>1, <1>2, <1>3 DEF BridgeTypeOK, Phases, Take
<1>6. Received'
  BY <1>1, <1>2, <1>3 DEF BridgeTypeOK, Received, Take
<1>7. EntryIsOpen'
  BY <1>1, <1>2, <1>3 DEF BridgeTypeOK, Phases, EntryIsOpen, Take
<1>8. NoQuestionLost'
  BY <1>1, <1>2, <1>3 DEF BridgeTypeOK, Phases, NoQuestionLost, Waiting, Take
<1>9. Distinct'
  <2> USE DEF BridgeTypeOK, Phases, Received, Distinct
  <2>1. \A b \in Actors : Injective(queue'[b]) /\ Injective(left'[b])
    BY <1>1, <1>2, <1>3 DEF Take
  <2>2. \A b, d \in Actors :
          b # d => Elems(queue'[b]) \cap Elems(queue'[d]) = {}
    BY <1>1, <1>2, <1>3 DEF Take
  <2>3. \A b, d \in Actors :
          b # d => Elems(left'[b]) \cap Elems(left'[d]) = {}
    BY <1>1, <1>2, <1>3 DEF Take
  <2>4. \A b, d \in Actors : Elems(queue'[b]) \cap Elems(left'[d]) = {}
    BY <1>1, <1>2, <1>3 DEF Take
  <2>5. \A c, d \in Callers : c # d /\ call'[c] = call'[d] => call'[c] = 0
    BY <1>1, <1>2, <1>3 DEF Take
  <2>6. \A c \in Callers, b \in Actors :
          call'[c] \notin Elems(queue'[b]) \cup Elems(left'[b])
    BY <1>1, <1>2, <1>3 DEF Take
  <2>7. \A c \in Callers : call'[c] \notin taken' \cup discarded'
    BY <1>1, <1>2, <1>3 DEF Take
  <2>8. \A b \in Actors :
          (Elems(queue'[b]) \cup Elems(left'[b])) \cap (taken' \cup discarded') = {}
    BY <1>1, <1>2, <1>3 DEF Take
  <2>9. taken' \cap discarded' = {}
    BY <1>1, <1>2, <1>3 DEF Take
  <2> QED BY <2>1, <2>2, <2>3, <2>4, <2>5, <2>6, <2>7, <2>8, <2>9
<1> QED BY <1>4, <1>5, <1>6, <1>7, <1>8, <1>9

\* An actor's loop ends.
LEMMA LeaveStep ==
    ASSUME IInv, NEW a \in Actors, Leave(a) PROVE IInv'
<1> USE DEF IInv
<1>1. BridgeTypeOK'
  BY Constants DEF BridgeTypeOK, Leave
<1>2. Phases'
  BY DEF BridgeTypeOK, Phases, Leave
<1>3. Received'
  BY DEF BridgeTypeOK, Received, Leave
<1>4. EntryIsOpen'
  BY DEF BridgeTypeOK, Phases, EntryIsOpen, Leave
<1>5. NoQuestionLost'
  BY DEF BridgeTypeOK, Phases, NoQuestionLost, Waiting, Leave
<1>6. Distinct'
  BY DEF BridgeTypeOK, Phases, Received, Distinct, Leave
<1> QED BY <1>1, <1>2, <1>3, <1>4, <1>5, <1>6

\* An actor removes itself from the map.
LEMMA RemoveStep ==
    ASSUME IInv, NEW a \in Actors, RemoveEntry(a) PROVE IInv'
<1> USE DEF IInv
<1>1. BridgeTypeOK'
  BY Constants DEF BridgeTypeOK, RemoveEntry, RemoveOwnEntry
<1>2. Phases'
  BY DEF BridgeTypeOK, Phases, RemoveEntry, RemoveOwnEntry
<1>3. Received'
  BY DEF BridgeTypeOK, Received, RemoveEntry, RemoveOwnEntry
<1>4. EntryIsOpen'
  BY DEF BridgeTypeOK, Phases, EntryIsOpen, RemoveEntry, RemoveOwnEntry
<1>5. NoQuestionLost'
  BY DEF BridgeTypeOK, Phases, NoQuestionLost, Waiting, RemoveEntry, RemoveOwnEntry
<1>6. Distinct'
  BY DEF BridgeTypeOK, Phases, Received, Distinct, RemoveEntry, RemoveOwnEntry
<1> QED BY <1>1, <1>2, <1>3, <1>4, <1>5, <1>6

\* An ending actor closes its channel and drains it.
LEMMA CloseAndDrainStep ==
    ASSUME IInv, NEW a \in Actors, CloseAndDrain(a) PROVE IInv'
<1> USE DEF IInv
<1>1. <<>> \in Seq(Questions) /\ Elems(<<>>) = {} /\ Injective(<<>>) /\ Len(<<>>) = 0
  BY DEF Elems, Injective
<1>2. /\ queue' = [queue EXCEPT ![a] = <<>>] /\ queue'[a] = <<>>
      /\ left' = [left EXCEPT ![a] = queue[a]] /\ left'[a] = queue[a]
      /\ \A b \in Actors : b # a => queue'[b] = queue[b] /\ left'[b] = left[b]
  BY DEF BridgeTypeOK, CloseAndDrain, Leftovers
<1>3. BridgeTypeOK'
  BY <1>1, <1>2, Constants DEF BridgeTypeOK, CloseAndDrain
<1>4. Phases'
  BY <1>1, <1>2 DEF BridgeTypeOK, Phases, CloseAndDrain
<1>5. Received'
  BY <1>1, <1>2 DEF BridgeTypeOK, Received, CloseAndDrain
<1>6. EntryIsOpen'
  BY <1>1, <1>2 DEF BridgeTypeOK, Phases, EntryIsOpen, CloseAndDrain
<1>7. NoQuestionLost'
  BY <1>1, <1>2 DEF BridgeTypeOK, Phases, NoQuestionLost, Waiting, CloseAndDrain
<1>8. Distinct'
  <2> USE DEF BridgeTypeOK, Phases, Received, Distinct
  <2>1. \A b \in Actors : Injective(queue'[b]) /\ Injective(left'[b])
    BY <1>1, <1>2 DEF CloseAndDrain
  <2>2. \A b, d \in Actors :
          b # d => Elems(queue'[b]) \cap Elems(queue'[d]) = {}
    BY <1>1, <1>2 DEF CloseAndDrain
  <2>3. \A b, d \in Actors :
          b # d => Elems(left'[b]) \cap Elems(left'[d]) = {}
    BY <1>1, <1>2 DEF CloseAndDrain
  <2>4. \A b, d \in Actors : Elems(queue'[b]) \cap Elems(left'[d]) = {}
    BY <1>1, <1>2 DEF CloseAndDrain
  <2>5. \A c, d \in Callers : c # d /\ call'[c] = call'[d] => call'[c] = 0
    BY <1>1, <1>2 DEF CloseAndDrain
  <2>6. \A c \in Callers, b \in Actors :
          call'[c] \notin Elems(queue'[b]) \cup Elems(left'[b])
    BY <1>1, <1>2 DEF CloseAndDrain
  <2>7. \A c \in Callers : call'[c] \notin taken' \cup discarded'
    BY <1>1, <1>2 DEF CloseAndDrain
  <2>8. \A b \in Actors :
          (Elems(queue'[b]) \cup Elems(left'[b])) \cap (taken' \cup discarded') = {}
    BY <1>1, <1>2 DEF CloseAndDrain
  <2>9. taken' \cap discarded' = {}
    BY <1>1, <1>2 DEF CloseAndDrain
  <2> QED BY <2>1, <2>2, <2>3, <2>4, <2>5, <2>6, <2>7, <2>8, <2>9
<1> QED BY <1>3, <1>4, <1>5, <1>6, <1>7, <1>8

\* An ending actor drops its leftovers or goes on to route them.
LEMMA LeftoverStep ==
    ASSUME IInv, NEW a \in Actors, Leftover(a) PROVE IInv'
<1> USE DEF IInv
<1>1. <<>> \in Seq(Questions) /\ Elems(<<>>) = {} /\ Injective(<<>>)
  BY DEF Elems, Injective
<1>2. pc[a] = "leftovers"
  BY DEF Leftover
<1>3. entry # 0 => entry \in Actors /\ entry # a
  BY <1>2, Constants DEF BridgeTypeOK, EntryIsOpen, Actors
<1>4. Elems(left[a]) \subseteq Questions
  BY DEF BridgeTypeOK, Elems
<1>5. /\ queue' = queue /\ call' = call /\ taken' = taken /\ posed' = posed
      /\ pc[a] = "leftovers" /\ Elems(<<>>) = {}
      /\ \A b \in Actors : b # a => pc'[b] = pc[b] /\ left'[b] = left[b]
      /\ \/ /\ discarded' = discarded \cup Elems(left[a])
            /\ left'[a] = <<>> /\ pc'[a] = "gone"
            /\ Elems(left'[a]) = {} /\ Injective(left'[a])
         \/ discarded' = discarded /\ left' = left /\ pc'[a] = "reroute"
  BY <1>1 DEF BridgeTypeOK, Leftover
<1>6. BridgeTypeOK'
  BY <1>1, <1>2, <1>3, <1>4, Constants DEF BridgeTypeOK, Leftover
<1>7. Phases'
  BY <1>1, <1>2, <1>3, <1>4 DEF BridgeTypeOK, Phases, Leftover
<1>8. Received'
  BY <1>5, Constants DEF Received, BridgeTypeOK
<1>9. EntryIsOpen'
  BY <1>1, <1>2, <1>3, <1>4 DEF BridgeTypeOK, Phases, EntryIsOpen, Leftover
<1>10. NoQuestionLost'
  BY <1>5 DEF NoQuestionLost, Waiting
<1>11. Distinct'
  <2> USE DEF Received, Distinct
  <2>1. \A b \in Actors : Injective(queue'[b]) /\ Injective(left'[b])
    BY <1>5
  <2>2. \A b, d \in Actors :
          b # d => Elems(queue'[b]) \cap Elems(queue'[d]) = {}
    BY <1>5
  <2>3. \A b, d \in Actors :
          b # d => Elems(left'[b]) \cap Elems(left'[d]) = {}
    BY <1>5
  <2>4. \A b, d \in Actors : Elems(queue'[b]) \cap Elems(left'[d]) = {}
    BY <1>5
  <2>5. \A c, d \in Callers : c # d /\ call'[c] = call'[d] => call'[c] = 0
    BY <1>5
  <2>6. \A c \in Callers, b \in Actors :
          call'[c] \notin Elems(queue'[b]) \cup Elems(left'[b])
    BY <1>5
  <2>7. \A c \in Callers : call'[c] \notin taken' \cup discarded'
    BY <1>5
  <2>8. \A b \in Actors :
          (Elems(queue'[b]) \cup Elems(left'[b])) \cap (taken' \cup discarded') = {}
    BY <1>5
  <2>9. taken' \cap discarded' = {}
    BY <1>5
  <2> QED BY <2>1, <2>2, <2>3, <2>4, <2>5, <2>6, <2>7, <2>8, <2>9
<1> QED BY <1>6, <1>7, <1>8, <1>9, <1>10, <1>11

\* An actor is gone.
LEMMA FinishStep ==
    ASSUME IInv, NEW a \in Actors, Finish(a) PROVE IInv'
<1> USE DEF IInv
<1>1. <<>> \in Seq(Questions) /\ Elems(<<>>) = {} /\ Injective(<<>>)
  BY DEF Elems, Injective
<1>2. pc[a] = "reroute"
  BY DEF Finish
<1>3. entry # 0 => entry \in Actors /\ entry # a
  BY <1>2, Constants DEF BridgeTypeOK, EntryIsOpen, Actors
<1>4. BridgeTypeOK'
  BY <1>1, <1>2, <1>3, Constants DEF BridgeTypeOK, Finish
<1>5. Phases'
  BY <1>1, <1>2, <1>3 DEF BridgeTypeOK, Phases, Finish
<1>6. Received'
  BY <1>1, <1>2, <1>3 DEF BridgeTypeOK, Received, Finish
<1>7. EntryIsOpen'
  BY <1>1, <1>2, <1>3 DEF BridgeTypeOK, Phases, EntryIsOpen, Finish
<1>8. NoQuestionLost'
  BY <1>1, <1>2, <1>3 DEF BridgeTypeOK, Phases, NoQuestionLost, Waiting, Finish
<1>9. Distinct'
  <2> USE DEF BridgeTypeOK, Phases, Received, Distinct
  <2>1. \A b \in Actors : Injective(queue'[b]) /\ Injective(left'[b])
    BY <1>1, <1>2, <1>3 DEF Finish
  <2>2. \A b, d \in Actors :
          b # d => Elems(queue'[b]) \cap Elems(queue'[d]) = {}
    BY <1>1, <1>2, <1>3 DEF Finish
  <2>3. \A b, d \in Actors :
          b # d => Elems(left'[b]) \cap Elems(left'[d]) = {}
    BY <1>1, <1>2, <1>3 DEF Finish
  <2>4. \A b, d \in Actors : Elems(queue'[b]) \cap Elems(left'[d]) = {}
    BY <1>1, <1>2, <1>3 DEF Finish
  <2>5. \A c, d \in Callers : c # d /\ call'[c] = call'[d] => call'[c] = 0
    BY <1>1, <1>2, <1>3 DEF Finish
  <2>6. \A c \in Callers, b \in Actors :
          call'[c] \notin Elems(queue'[b]) \cup Elems(left'[b])
    BY <1>1, <1>2, <1>3 DEF Finish
  <2>7. \A c \in Callers : call'[c] \notin taken' \cup discarded'
    BY <1>1, <1>2, <1>3 DEF Finish
  <2>8. \A b \in Actors :
          (Elems(queue'[b]) \cup Elems(left'[b])) \cap (taken' \cup discarded') = {}
    BY <1>1, <1>2, <1>3 DEF Finish
  <2>9. taken' \cap discarded' = {}
    BY <1>1, <1>2, <1>3 DEF Finish
  <2> QED BY <2>1, <2>2, <2>3, <2>4, <2>5, <2>6, <2>7, <2>8, <2>9
<1> QED BY <1>4, <1>5, <1>6, <1>7, <1>8, <1>9

\* A caller whose lookup missed inserts a new actor.
LEMMA SpawnStep ==
    ASSUME IInv, NEW c \in Callers, Spawn(c) PROVE IInv'
<1> USE DEF IInv
<1>1. /\ call[c] \in Questions /\ spawned + 1 \in Actors
      /\ 0 \in 0..MaxQuestions /\ spawned + 1 \in 0..MaxActors
  BY Constants DEF BridgeTypeOK, Spawn, Questions, Actors
<1>2. /\ <<call[c]>> \in Seq(Questions) /\ Len(<<call[c]>>) = 1
      /\ Elems(<<call[c]>>) = {call[c]} /\ Injective(<<call[c]>>)
      /\ QuestionCap >= 1
  BY <1>1, Small, BridgeAssumption
<1>3. /\ spawned + 1 > spawned /\ spawned \in Int
      /\ \A b \in Actors : b \in Int
  BY Constants DEF BridgeTypeOK, Actors
<1>4. pc[spawned + 1] = "none"
  BY <1>1, <1>3 DEF Phases
<1>5. <<>> \in Seq(Questions) /\ Elems(<<>>) = {} /\ Injective(<<>>)
  BY DEF Elems, Injective
<1>6. Elems(queue[spawned + 1]) = {} /\ left[spawned + 1] = <<>>
  BY <1>1, <1>4, <1>5 DEF Phases
<1>7. /\ left' = left /\ taken' = taken /\ discarded' = discarded
      /\ posed' = posed /\ spawned + 1 \in Actors
      /\ call[c] # 0 /\ call'[c] = 0
      /\ \A d \in Callers : d # c => call'[d] = call[d]
      /\ pc[spawned + 1] = "none" /\ pc'[spawned + 1] = "loop"
      /\ \A b \in Actors : b # spawned + 1 => /\ pc'[b] = pc[b]
                                            /\ queue'[b] = queue[b]
      /\ Elems(queue[spawned + 1]) = {}
      /\ Elems(queue'[spawned + 1]) = {call[c]}
      /\ Injective(queue'[spawned + 1])
  BY <1>1, <1>2, <1>4, <1>6 DEF BridgeTypeOK, Spawn
<1>8. BridgeTypeOK'
  BY <1>1, <1>2, <1>3, <1>4, <1>5, <1>6, Constants DEF BridgeTypeOK, Spawn
<1>9. Phases'
  BY <1>1, <1>2, <1>3, <1>4, <1>5, <1>6 DEF BridgeTypeOK, Phases, Spawn
<1>10. Received'
  <2>1. posed \in Nat /\ call[c] \in 1..posed
    BY <1>1, Constants DEF BridgeTypeOK, Received, Questions
  <2> QED BY <1>7, <2>1 DEF Received
<1>11. EntryIsOpen'
  <2>1. entry' = spawned + 1 /\ pc'[spawned + 1] = "loop"
    BY <1>1 DEF BridgeTypeOK, Spawn
  <2> QED BY <2>1 DEF EntryIsOpen
<1>12. NoQuestionLost'
  BY <1>7 DEF NoQuestionLost, Waiting
<1>13. Distinct'
  <2> USE DEF Received, Distinct
  <2>1. \A b \in Actors : Injective(queue'[b]) /\ Injective(left'[b])
    BY <1>7
  <2>2. \A b, d \in Actors :
          b # d => Elems(queue'[b]) \cap Elems(queue'[d]) = {}
    BY <1>7
  <2>3. \A b, d \in Actors :
          b # d => Elems(left'[b]) \cap Elems(left'[d]) = {}
    BY <1>7
  <2>4. \A b, d \in Actors : Elems(queue'[b]) \cap Elems(left'[d]) = {}
    BY <1>7
  <2>5. \A d, e \in Callers : d # e /\ call'[d] = call'[e] => call'[d] = 0
    BY <1>7
  <2>6. \A d \in Callers, b \in Actors :
          call'[d] \notin Elems(queue'[b]) \cup Elems(left'[b])
    BY <1>7
  <2>7. \A d \in Callers : call'[d] \notin taken' \cup discarded'
    BY <1>7
  <2>8. \A b \in Actors :
          (Elems(queue'[b]) \cup Elems(left'[b])) \cap (taken' \cup discarded') = {}
    BY <1>7
  <2>9. taken' \cap discarded' = {}
    BY <1>7
  <2> QED BY <2>1, <2>2, <2>3, <2>4, <2>5, <2>6, <2>7, <2>8, <2>9
<1> QED BY <1>8, <1>9, <1>10, <1>11, <1>12, <1>13

\* What a lookup can do with question q, in terms of the questions a channel
\* holds.
Delivered(q) ==
    /\ entry \in Actors /\ pc[entry] \in {"loop", "remove"}
    /\ Elems(queue'[entry]) = Elems(queue[entry]) \cup {q}
    /\ Injective(queue[entry]) /\ q \notin Elems(queue[entry])
          => Injective(queue'[entry])
    /\ \A b \in Actors : b # entry => queue'[b] = queue[b]
    /\ call' = call /\ discarded' = discarded

Refused(q) ==
    /\ queue' = queue /\ call' = call
    /\ discarded' = discarded \cup {q}

Missed(c, q) ==
    /\ queue' = queue /\ discarded' = discarded
    /\ entry = 0 /\ call'[c] = q
    /\ \A d \in Callers : d # c => call'[d] = call[d]

\* A lookup delivers, refuses or misses, and keeps the types.
LEMMA LookupStep ==
    ASSUME IInv, NEW c \in Callers, NEW q \in Questions, Lookup(c, q)
    PROVE  /\ Delivered(q) \/ Refused(q) \/ Missed(c, q)
           /\ queue' \in [Actors -> Seq(Questions)]
           /\ \A b \in Actors : Len(queue'[b]) <= QuestionCap
           /\ call' \in [Callers -> 0..MaxQuestions]
           /\ discarded' \subseteq Questions
           /\ \A b \in Actors :
                 pc[b] \notin {"loop", "remove", "drain"} => queue'[b] = queue[b]
<1> USE DEF IInv
<1>1. q \in 0..MaxQuestions
  BY Constants DEF Questions
<1>2. CASE entry # 0 /\ Len(queue[entry]) < QuestionCap
  <2>1. entry \in Actors /\ pc[entry] \in {"loop", "remove"}
    BY <1>2, Constants DEF BridgeTypeOK, EntryIsOpen, Actors
  <2>2. queue[entry] \in Seq(Questions) /\ Len(queue[entry]) \in Nat
    BY <2>1 DEF BridgeTypeOK
  <2>3. /\ queue' = [queue EXCEPT ![entry] = Append(queue[entry], q)]
        /\ call' = call /\ discarded' = discarded
    BY <1>2, <2>2, Constants DEF Lookup
  <2>4. /\ queue'[entry] = Append(queue[entry], q)
        /\ \A b \in Actors : b # entry => queue'[b] = queue[b]
    BY <2>1, <2>3 DEF BridgeTypeOK
  <2>5. /\ queue'[entry] \in Seq(Questions)
        /\ Len(queue'[entry]) <= QuestionCap
        /\ Elems(queue'[entry]) = Elems(queue[entry]) \cup {q}
        /\ Injective(queue[entry]) /\ q \notin Elems(queue[entry])
              => Injective(queue'[entry])
    BY <1>2, <2>2, <2>4, Appended, Constants
  <2>6. Delivered(q)
    BY <2>1, <2>3, <2>4, <2>5 DEF Delivered
  <2>7. /\ queue' \in [Actors -> Seq(Questions)]
        /\ \A b \in Actors : Len(queue'[b]) <= QuestionCap
    BY <2>1, <2>3, <2>4, <2>5 DEF BridgeTypeOK
  <2> QED BY <2>1, <2>3, <2>4, <2>6, <2>7 DEF BridgeTypeOK
<1>3. CASE entry # 0 /\ Len(queue[entry]) >= QuestionCap
  <2>1. entry \in Actors
    BY <1>3, Constants DEF BridgeTypeOK, Actors
  <2>2. Len(queue[entry]) \in Nat
    BY <2>1 DEF BridgeTypeOK
  <2>3. Refused(q)
    BY <1>3, <2>2, Constants DEF Lookup, Refused
  <2> QED BY <2>3 DEF BridgeTypeOK, Refused
<1>4. CASE entry = 0
  <2>1. queue' = queue /\ discarded' = discarded /\ call' = [call EXCEPT ![c] = q]
    BY <1>4 DEF Lookup
  <2>2. Missed(c, q)
    BY <1>4, <2>1 DEF BridgeTypeOK, Missed
  <2> QED BY <1>1, <2>1, <2>2 DEF BridgeTypeOK
<1> QED BY <1>2, <1>3, <1>4 DEF Lookup

\* Routing question q keeps the invariant's parts about questions, if q waits
\* nowhere else: it is new, or has just been taken from the leftovers.
LEMMA RoutedStep ==
    ASSUME IInv, NEW c \in Callers, NEW q \in Questions,
           Delivered(q) \/ Refused(q) \/ Missed(c, q),
           taken' = taken, pc' = pc, call[c] = 0,
           posed \in Nat, posed' \in Nat, posed <= posed', q <= posed',
           \A p \in 1..posed' : p \in 1..posed \/ p = q,
           \A b \in Actors : /\ Elems(left'[b]) \subseteq Elems(left[b])
                             /\ Elems(left[b]) \subseteq Elems(left'[b]) \cup {q}
                             /\ q \notin Elems(left'[b])
                             /\ Injective(left'[b]),
           \A b \in Actors : q \notin Elems(queue[b]),
           \A d \in Callers : call[d] # q,
           q \notin taken \cup discarded
    PROVE  Received' /\ NoQuestionLost' /\ Distinct'
<1> USE DEF IInv
<1>1. q \in 1..posed' /\ 1..posed \subseteq 1..posed' /\ q # 0
  BY DEF Questions
<1>2. \A d \in Callers : call[d] \in Int
  BY Constants DEF BridgeTypeOK
<1>3. \A b \in Actors : 0 \notin Elems(queue[b]) \cup Elems(left[b])
  BY DEF Received
<1>4. 0 \notin taken \cup discarded
  BY DEF Received
<1>5. CASE Delivered(q)
  <2>1. Received'
    <3>1. \A d \in Callers : call'[d] <= posed'
      BY <1>1, <1>2, <1>5 DEF Received, Delivered
    <3>2. /\ \A b \in Actors : Elems(queue'[b]) \subseteq 1..posed'
          /\ \A b \in Actors : Elems(left'[b]) \subseteq 1..posed'
          /\ taken' \subseteq 1..posed' /\ discarded' \subseteq 1..posed'
      BY <1>1, <1>5 DEF Received, Delivered
    <3> QED BY <3>1, <3>2 DEF Received
  <2>2. NoQuestionLost'
    BY <1>1, <1>5 DEF NoQuestionLost, Waiting, EntryIsOpen, Delivered
  <2>3. Distinct'
    <3> USE DEF Distinct, Delivered
    <3>1. \A b \in Actors : Injective(queue'[b]) /\ Injective(left'[b])
      BY <1>1, <1>3, <1>4, <1>5
    <3>2. \A b, d \in Actors :
            b # d => Elems(queue'[b]) \cap Elems(queue'[d]) = {}
      BY <1>1, <1>3, <1>4, <1>5
    <3>3. \A b, d \in Actors :
            b # d => Elems(left'[b]) \cap Elems(left'[d]) = {}
      BY <1>1, <1>3, <1>4, <1>5
    <3>4. \A b, d \in Actors : Elems(queue'[b]) \cap Elems(left'[d]) = {}
      BY <1>1, <1>3, <1>4, <1>5
    <3>5. \A d, e \in Callers : d # e /\ call'[d] = call'[e] => call'[d] = 0
      BY <1>1, <1>3, <1>4, <1>5
    <3>6. \A d \in Callers, b \in Actors :
            call'[d] \notin Elems(queue'[b]) \cup Elems(left'[b])
      BY <1>1, <1>3, <1>4, <1>5
    <3>7. \A d \in Callers : call'[d] \notin taken' \cup discarded'
      BY <1>1, <1>3, <1>4, <1>5
    <3>8. \A b \in Actors :
            (Elems(queue'[b]) \cup Elems(left'[b])) \cap (taken' \cup discarded') = {}
      BY <1>1, <1>3, <1>4, <1>5
    <3>9. taken' \cap discarded' = {}
      BY <1>1, <1>3, <1>4, <1>5
    <3> QED BY <3>1, <3>2, <3>3, <3>4, <3>5, <3>6, <3>7, <3>8, <3>9
  <2> QED BY <2>1, <2>2, <2>3
<1>6. CASE Refused(q)
  <2>1. Received'
    <3>1. \A d \in Callers : call'[d] <= posed'
      BY <1>1, <1>2, <1>6 DEF Received, Refused
    <3>2. /\ \A b \in Actors : Elems(queue'[b]) \subseteq 1..posed'
          /\ \A b \in Actors : Elems(left'[b]) \subseteq 1..posed'
          /\ taken' \subseteq 1..posed' /\ discarded' \subseteq 1..posed'
      BY <1>1, <1>6 DEF Received, Refused
    <3> QED BY <3>1, <3>2 DEF Received
  <2>2. NoQuestionLost'
    BY <1>1, <1>6 DEF NoQuestionLost, Waiting, EntryIsOpen, Refused
  <2>3. Distinct'
    <3> USE DEF Distinct, Refused
    <3>1. \A b \in Actors : Injective(queue'[b]) /\ Injective(left'[b])
      BY <1>1, <1>3, <1>4, <1>6
    <3>2. \A b, d \in Actors :
            b # d => Elems(queue'[b]) \cap Elems(queue'[d]) = {}
      BY <1>1, <1>3, <1>4, <1>6
    <3>3. \A b, d \in Actors :
            b # d => Elems(left'[b]) \cap Elems(left'[d]) = {}
      BY <1>1, <1>3, <1>4, <1>6
    <3>4. \A b, d \in Actors : Elems(queue'[b]) \cap Elems(left'[d]) = {}
      BY <1>1, <1>3, <1>4, <1>6
    <3>5. \A d, e \in Callers : d # e /\ call'[d] = call'[e] => call'[d] = 0
      BY <1>1, <1>3, <1>4, <1>6
    <3>6. \A d \in Callers, b \in Actors :
            call'[d] \notin Elems(queue'[b]) \cup Elems(left'[b])
      BY <1>1, <1>3, <1>4, <1>6
    <3>7. \A d \in Callers : call'[d] \notin taken' \cup discarded'
      BY <1>1, <1>3, <1>4, <1>6
    <3>8. \A b \in Actors :
            (Elems(queue'[b]) \cup Elems(left'[b])) \cap (taken' \cup discarded') = {}
      BY <1>1, <1>3, <1>4, <1>6
    <3>9. taken' \cap discarded' = {}
      BY <1>1, <1>3, <1>4, <1>6
    <3> QED BY <3>1, <3>2, <3>3, <3>4, <3>5, <3>6, <3>7, <3>8, <3>9
  <2> QED BY <2>1, <2>2, <2>3
<1>7. CASE Missed(c, q)
  <2>1. Received'
    <3>1. \A d \in Callers : call'[d] <= posed'
      BY <1>1, <1>2, <1>7 DEF Received, Missed
    <3>2. /\ \A b \in Actors : Elems(queue'[b]) \subseteq 1..posed'
          /\ \A b \in Actors : Elems(left'[b]) \subseteq 1..posed'
          /\ taken' \subseteq 1..posed' /\ discarded' \subseteq 1..posed'
      BY <1>1, <1>7 DEF Received, Missed
    <3> QED BY <3>1, <3>2 DEF Received
  <2>2. NoQuestionLost'
    BY <1>1, <1>7 DEF NoQuestionLost, Waiting, EntryIsOpen, Missed
  <2>3. Distinct'
    <3> USE DEF Distinct, Missed
    <3>1. \A b \in Actors : Injective(queue'[b]) /\ Injective(left'[b])
      BY <1>1, <1>3, <1>4, <1>7
    <3>2. \A b, d \in Actors :
            b # d => Elems(queue'[b]) \cap Elems(queue'[d]) = {}
      BY <1>1, <1>3, <1>4, <1>7
    <3>3. \A b, d \in Actors :
            b # d => Elems(left'[b]) \cap Elems(left'[d]) = {}
      BY <1>1, <1>3, <1>4, <1>7
    <3>4. \A b, d \in Actors : Elems(queue'[b]) \cap Elems(left'[d]) = {}
      BY <1>1, <1>3, <1>4, <1>7
    <3>5. \A d, e \in Callers : d # e /\ call'[d] = call'[e] => call'[d] = 0
      BY <1>1, <1>3, <1>4, <1>7
    <3>6. \A d \in Callers, b \in Actors :
            call'[d] \notin Elems(queue'[b]) \cup Elems(left'[b])
      BY <1>1, <1>3, <1>4, <1>7
    <3>7. \A d \in Callers : call'[d] \notin taken' \cup discarded'
      BY <1>1, <1>3, <1>4, <1>7
    <3>8. \A b \in Actors :
            (Elems(queue'[b]) \cup Elems(left'[b])) \cap (taken' \cup discarded') = {}
      BY <1>1, <1>3, <1>4, <1>7
    <3>9. taken' \cap discarded' = {}
      BY <1>1, <1>3, <1>4, <1>7
    <3> QED BY <3>1, <3>2, <3>3, <3>4, <3>5, <3>6, <3>7, <3>8, <3>9
  <2> QED BY <2>1, <2>2, <2>3
<1> QED BY <1>5, <1>6, <1>7

\* The poll task routes a question.
LEMMA HandleStep ==
    ASSUME IInv, Handle PROVE IInv'
<1> USE DEF IInv
<1>1. /\ posed \in Nat /\ posed' = posed + 1 /\ posed + 1 \in Questions
      /\ posed' \in 0..MaxQuestions
  BY Constants DEF BridgeTypeOK, Handle, Questions
<1>2. /\ Poll \in Callers /\ call[Poll] = 0 /\ Lookup(Poll, posed + 1)
      /\ taken' = taken /\ pc' = pc /\ left' = left /\ entry' = entry
      /\ spawned' = spawned /\ shutdown' = shutdown
  BY DEF Handle, Callers
<1>3. /\ Delivered(posed + 1) \/ Refused(posed + 1) \/ Missed(Poll, posed + 1)
      /\ queue' \in [Actors -> Seq(Questions)]
      /\ \A b \in Actors : Len(queue'[b]) <= QuestionCap
      /\ call' \in [Callers -> 0..MaxQuestions]
      /\ discarded' \subseteq Questions
      /\ \A b \in Actors :
            pc[b] \notin {"loop", "remove", "drain"} => queue'[b] = queue[b]
  BY <1>1, <1>2, LookupStep
<1>4. /\ \A b \in Actors : posed + 1 \notin Elems(queue[b]) \cup Elems(left[b])
      /\ posed + 1 \notin taken \cup discarded
  BY <1>1 DEF Received
<1>5. \A d \in Callers : call[d] # posed + 1
  BY <1>1, Constants DEF BridgeTypeOK, Received
<1>6. \A b \in Actors : Injective(left[b])
  BY DEF Distinct
<1>7. \A p \in 1..posed' : p \in 1..posed \/ p = posed + 1
  BY <1>1
<1>8. Received' /\ NoQuestionLost' /\ Distinct'
  BY <1>1, <1>2, <1>3, <1>4, <1>5, <1>6, <1>7, RoutedStep
<1>9. BridgeTypeOK'
  BY <1>1, <1>2, <1>3 DEF BridgeTypeOK
<1>10. \A a \in Actors : call'[a] = call[a]
  BY <1>2, <1>3 DEF Delivered, Refused, Missed, Actors, Callers, Poll
<1>11. Phases'
  BY <1>2, <1>3, <1>10 DEF Phases
<1>12. EntryIsOpen'
  BY <1>2 DEF EntryIsOpen
<1> QED BY <1>8, <1>9, <1>11, <1>12

\* An ending actor routes its next leftover.
LEMMA RerouteStep ==
    ASSUME IInv, NEW a \in Actors, Reroute(a) PROVE IInv'
<1> USE DEF IInv
<1> DEFINE q == Head(left[a])
<1>1. /\ left[a] \in Seq(Questions) /\ left[a] # <<>>
      /\ left' = [left EXCEPT ![a] = Tail(left[a])]
      /\ left'[a] = Tail(left[a])
      /\ \A b \in Actors : b # a => left'[b] = left[b]
  BY DEF BridgeTypeOK, Reroute
<1>2. /\ a \in Callers /\ call[a] = 0 /\ Lookup(a, q) /\ pc[a] = "reroute"
      /\ taken' = taken /\ pc' = pc /\ entry' = entry /\ posed' = posed
      /\ spawned' = spawned /\ shutdown' = shutdown
  BY DEF Reroute, Callers
<1>3. /\ left'[a] \in Seq(Questions) /\ q \in Questions
      /\ Elems(left[a]) = Elems(left'[a]) \cup {q}
      /\ Injective(left'[a]) /\ q \notin Elems(left'[a])
  BY <1>1, Removed DEF Distinct
<1> HIDE DEF q
<1>4. /\ Delivered(q) \/ Refused(q) \/ Missed(a, q)
      /\ queue' \in [Actors -> Seq(Questions)]
      /\ \A b \in Actors : Len(queue'[b]) <= QuestionCap
      /\ call' \in [Callers -> 0..MaxQuestions]
      /\ discarded' \subseteq Questions
      /\ \A b \in Actors :
            pc[b] \notin {"loop", "remove", "drain"} => queue'[b] = queue[b]
  BY <1>2, <1>3, LookupStep
<1>5. /\ \A b \in Actors : q \notin Elems(queue[b])
      /\ \A d \in Callers : call[d] # q
      /\ q \notin taken \cup discarded
      /\ \A b \in Actors : b # a => q \notin Elems(left[b])
  BY <1>3 DEF Distinct
<1>6. \A b \in Actors : /\ Elems(left'[b]) \subseteq Elems(left[b])
                        /\ Elems(left[b]) \subseteq Elems(left'[b]) \cup {q}
                        /\ q \notin Elems(left'[b])
                        /\ Injective(left'[b])
  BY <1>1, <1>3, <1>5 DEF Distinct
<1>7. /\ posed \in Nat /\ q <= posed /\ posed <= posed
      /\ \A p \in 1..posed : p \in 1..posed \/ p = q
  BY <1>3, Constants DEF BridgeTypeOK, Received
<1>8. Received' /\ NoQuestionLost' /\ Distinct'
  BY <1>2, <1>3, <1>4, <1>5, <1>6, <1>7, RoutedStep
<1>9. left' \in [Actors -> Seq(Questions)]
  BY <1>1, <1>3 DEF BridgeTypeOK
<1>10. BridgeTypeOK'
  BY <1>2, <1>4, <1>9 DEF BridgeTypeOK
<1>11. \A b \in Actors : call'[b] # 0 => pc[b] = "reroute"
  BY <1>2, <1>4 DEF Delivered, Refused, Missed, Phases, Callers
<1>12. Phases'
  BY <1>1, <1>2, <1>4, <1>11 DEF Phases
<1>13. EntryIsOpen'
  BY <1>2 DEF EntryIsOpen
<1> QED BY <1>8, <1>10, <1>12, <1>13

-----------------------------------------------------------------------------
(* The theorems *)

\* Every step keeps the invariant.
LEMMA NextStep == ASSUME IInv, [BridgeNext]_bridgeVars PROVE IInv'
<1>1. CASE Handle
  BY <1>1, HandleStep
<1>2. CASE Shutdown
  BY <1>2, ShutdownStep
<1>3. CASE \E c \in Callers : Spawn(c)
  BY <1>3, SpawnStep
<1>4. CASE \E a \in Actors : ActorStep(a)
  <2>1. PICK a \in Actors : ActorStep(a)
    BY <1>4
  <2> QED BY <2>1, TakeStep, LeaveStep, RemoveStep, CloseAndDrainStep,
             LeftoverStep, RerouteStep, FinishStep DEF ActorStep
<1>5. CASE UNCHANGED bridgeVars
  BY <1>5, StutterStep
<1> QED BY <1>1, <1>2, <1>3, <1>4, <1>5 DEF BridgeNext

\* IInv is an invariant of the bridge.
THEOREM Inductive == BridgeSpec => []IInv
<1>1. BridgeInit => IInv
  BY InitHolds
<1>2. IInv /\ [BridgeNext]_bridgeVars => IInv'
  BY NextStep
<1> QED BY <1>1, <1>2, PTL DEF BridgeSpec

\* Types and channel capacities, for any number of questions and actors.
THEOREM TypeCorrect == BridgeSpec => []BridgeTypeOK
<1>1. IInv => BridgeTypeOK
  BY DEF IInv
<1> QED BY <1>1, Inductive, PTL

\* route never finds a closed channel: the branch of route that removes the
\* entry of an exited actor is dead code.
THEOREM RouteFindsOpenChannel == BridgeSpec => []EntryIsOpen
<1>1. IInv => EntryIsOpen
  BY DEF IInv
<1> QED BY <1>1, Inductive, PTL

\* No question is lost in the window in which an actor reaps itself.
THEOREM QuestionsKept == BridgeSpec => []NoQuestionLost
<1>1. IInv => NoQuestionLost
  BY DEF IInv
<1> QED BY <1>1, Inductive, PTL

\* No question reaches two actors, or an actor after it was dropped.
THEOREM QuestionsOnce == BridgeSpec => []NoQuestionTwice
<1>1. ASSUME IInv PROVE NoQuestionTwice
  <2>1. ASSUME NEW q \in taken \cup discarded, Waiting(q) PROVE FALSE
    BY <1>1, <2>1 DEF IInv, Distinct, Waiting
  <2> QED BY <1>1, <2>1 DEF IInv, Distinct, NoQuestionTwice
<1> QED BY <1>1, Inductive, PTL

\* An ending actor never removes the entry of an actor in its loop.
THEOREM SuccessorKept == BridgeSpec => LiveEntryKept
<1>1. ASSUME IInv, [BridgeNext]_bridgeVars
      PROVE  entry # 0 /\ pc[entry] = "loop" => entry' # 0
  <2> SUFFICES ASSUME entry # 0, pc[entry] = "loop" PROVE entry' # 0
    OBVIOUS
  <2>1. spawned + 1 # 0
    BY <1>1, Constants DEF IInv, BridgeTypeOK
  <2>2. ASSUME NEW c \in Callers, Spawn(c) PROVE entry' # 0
    BY <2>1, <2>2 DEF Spawn
  <2>3. ASSUME NEW a \in Actors, RemoveEntry(a) PROVE entry' # 0
    BY <2>3 DEF RemoveEntry, RemoveOwnEntry
  <2>4. ASSUME NEW a \in Actors, ActorStep(a) PROVE entry' # 0
    <3>1. CASE RemoveEntry(a)
      BY <2>3, <3>1
    <3>2. CASE Take(a) \/ Leave(a) \/ CloseAndDrain(a) \/ Finish(a)
      BY <3>2 DEF Take, Leave, CloseAndDrain, Finish
    <3>3. CASE Leftover(a) \/ Reroute(a)
      BY <3>3 DEF Leftover, Reroute
    <3> QED BY <2>4, <3>1, <3>2, <3>3 DEF ActorStep
  <2>5. CASE Handle \/ Shutdown \/ UNCHANGED bridgeVars
    BY <2>5 DEF Handle, Shutdown, bridgeVars
  <2> QED BY <1>1, <2>2, <2>4, <2>5 DEF BridgeNext
<1> QED BY <1>1, Inductive, PTL DEF BridgeSpec, LiveEntryKept

(***************************************************************************)
(* The actor of a device                                                   *)
(***************************************************************************)
ActorIInv == heard \in Nat /\ awaited \in {0, heard} /\ LoaderMatchesDeadline

\* The router and the LLM stage know nothing of the actor's questions.
LEMMA PipelineKeeps == Pipeline => UNCHANGED <<heard, awaited, status, ttsPc>>
<1>1. Router => heard' = heard /\ ttsPc' = ttsPc
  BY DEF Router, RouterFinal, RouterPartial, RouterInputClosed, RouterOutcome,
         RouterSendPrompt, RouterSendSpeech, RouterSendEnd, RouterExit, input,
         tts
<1>2. Llm => heard' = heard /\ ttsPc' = ttsPc
  BY DEF Llm, LlmTake, LlmProgress, LlmToken, LlmApologise, LlmEnd, LlmExit,
         LlmSend, input, tts
<1>3. /\ Cancel => heard' = heard /\ ttsPc' = ttsPc
      /\ \A u \in Utterances :
            DispatchReturn(u) => heard' = heard /\ ttsPc' = ttsPc
  BY DEF Cancel, DispatchReturn, input, tts
<1>4. QED
  BY <1>1, <1>2, <1>3 DEF Pipeline

\* Whatever gives an answer up, or gets it, does it to both (Release,
\* publish_answer).
LEMMA ReleaseKeeps ==
  ASSUME ActorIInv, Release, heard' = heard, ttsPc = "select"
  PROVE  ActorIInv'
  BY DEF ActorIInv, Release, LoaderMatchesDeadline

\* So does the end of the actor (run_device_actor after its loop).
LEMMA EndKeeps ==
  ASSUME ActorIInv, ActorEnds, heard' = heard, ttsPc # "stuck"
  PROVE  ActorIInv'
  BY DEF ActorIInv, ActorEnds, LoaderMatchesDeadline

\* A step that leaves loader, deadline and tag alone keeps the invariant,
\* unless it lets an actor go on that waits for ever.
LEMMA SameKeeps ==
  ASSUME ActorIInv, UNCHANGED <<heard, awaited, status>>,
         ttsPc = "stuck" => ttsPc' = "stuck"
  PROVE  ActorIInv'
  BY DEF ActorIInv, LoaderMatchesDeadline

\* An actor whose publish waits for ever keeps a deadline of its last question
\* or none (publish_status, publish_answer).
LEMMA SticksKeeps ==
  ASSUME ActorIInv, ActorSticks
  PROVE  ActorIInv'
<1>1. heard \in Nat /\ awaited \in {0, heard}
  BY DEF ActorIInv
<1>2. \/ heard' = heard + 1 /\ awaited' = heard + 1
      \/ heard' = heard /\ awaited' \in {0, awaited}
  BY DEF ActorSticks
<1>3. heard' \in Nat /\ awaited' \in {0, heard'}
  BY <1>1, <1>2
<1>4. ttsPc' = "stuck"
  BY DEF ActorSticks
<1>5. QED
  BY <1>3, <1>4, Zenon DEF ActorIInv, LoaderMatchesDeadline

\* The invariant of the actor holds at the start.
LEMMA ActorStarts == ActorInit => ActorIInv
  BY DEF ActorInit, Init, ActorIInv, LoaderMatchesDeadline

\* The strengthened invariant survives every step of the actor and of its
\* mini-pipeline.
THEOREM ActorInductive == ActorIInv /\ [ActorNext]_actorVars => ActorIInv'
<1> SUFFICES ASSUME ActorIInv, [ActorNext]_actorVars
             PROVE  ActorIInv'
  OBVIOUS
<1>1. CASE ActorQuestion
  <2>1. heard \in Nat
    BY DEF ActorIInv
  <2>2. heard' = heard + 1 /\ awaited' = heard + 1
    BY <1>1 DEF ActorQuestion
  <2>3. heard' \in Nat /\ awaited' = heard'
    BY <2>1, <2>2
  <2>4. awaited' # 0 /\ status' = "in progress"
    <3>1. heard + 1 # 0
      BY <2>1
    <3>2. QED
      BY <1>1, <3>1 DEF ActorQuestion
  <2>5. QED
    BY <2>3, <2>4, Zenon DEF ActorIInv, LoaderMatchesDeadline
<1>2. CASE ActorIdles
  BY <1>2, EndKeeps DEF ActorIdles
<1>3. CASE ActorSend
  BY <1>3, EndKeeps, SameKeeps DEF ActorSend
<1>4. CASE ActorToken
  BY <1>4, ReleaseKeeps, SameKeeps DEF ActorToken
<1>5. CASE ActorAnswerEnd
  BY <1>5, ReleaseKeeps DEF ActorAnswerEnd
<1>6. CASE ActorIdleFlush
  BY <1>6, ReleaseKeeps DEF ActorIdleFlush
<1>7. CASE ActorTimeout
  BY <1>7 DEF ActorTimeout, vars, input, ActorIInv, LoaderMatchesDeadline
<1>8. CASE ActorStops
  BY <1>8, EndKeeps DEF ActorStops
<1>9. CASE Pipeline
  BY <1>9, PipelineKeeps, SameKeeps
<1>10. CASE UNCHANGED actorVars
  BY <1>10, SameKeeps DEF actorVars, vars, input, tts
<1>11. CASE ActorSticks
  BY <1>11, SticksKeeps
<1>12. QED
  BY <1>1, <1>2, <1>3, <1>4, <1>5, <1>6, <1>7, <1>8, <1>9, <1>10, <1>11
  DEF ActorNext, Actor

\* The invariant of the actor holds in every state of every behaviour.
LEMMA ActorAlways == ActorInit /\ [][ActorNext]_actorVars => []ActorIInv
  BY ActorStarts, ActorInductive, PTL

\* On every path that gives a question up the app is told, and no deadline
\* outlives its loader (run_device_actor).
THEOREM LoaderFollowsDeadline ==
  ActorInit /\ [][ActorNext]_actorVars => []LoaderMatchesDeadline
<1>1. ActorIInv => LoaderMatchesDeadline
  BY DEF ActorIInv
<1>2. QED
  BY <1>1, ActorAlways, PTL

\* A deadline is always that of the newest question, so the epoch that
\* publish_answer compares with it never tells an old answer from a new one.
THEOREM TagIsCurrent ==
  ActorInit /\ [][ActorNext]_actorVars => [](awaited \in {0, heard})
<1>1. ActorIInv => awaited \in {0, heard}
  BY DEF ActorIInv
<1>2. QED
  BY <1>1, ActorAlways, PTL
=============================================================================
