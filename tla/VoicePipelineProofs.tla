------------------------- MODULE VoicePipelineProofs -------------------------
(***************************************************************************)
(* Proofs about VoicePipeline, for every number of utterances, tokens and  *)
(* chunks and every channel capacity.                                      *)
(***************************************************************************)
EXTENDS VoicePipeline, TLAPS

-----------------------------------------------------------------------------
(* Channels *)

\* What a send does to a channel.
LEMMA Sent ==
    ASSUME NEW S, NEW s \in Seq(S), NEW e \in S
    PROVE  /\ Append(s, e) \in Seq(S)
           /\ DOMAIN Append(s, e) = 1..(Len(s) + 1)
           /\ DOMAIN s = 1..Len(s)
           /\ Len(s) \in Nat
           /\ Append(s, e)[Len(s) + 1] = e
           /\ \A i \in 1..Len(s) : Append(s, e)[i] = s[i]
           /\ Queued(Append(s, e)) = Queued(s) \cup {e}
  <1>1. /\ Append(s, e) \in Seq(S)
        /\ DOMAIN Append(s, e) = 1..(Len(s) + 1)
        /\ DOMAIN s = 1..Len(s)
        /\ Len(s) \in Nat
        /\ Append(s, e)[Len(s) + 1] = e
        /\ \A i \in 1..Len(s) : Append(s, e)[i] = s[i]
    OBVIOUS
  <1>2. Queued(Append(s, e)) = Queued(s) \cup {e}
    <2>1. ASSUME NEW m \in Queued(Append(s, e)) PROVE m \in Queued(s) \cup {e}
      <3>1. PICK i \in 1..(Len(s) + 1) : m = Append(s, e)[i]
        BY <1>1 DEF Queued
      <3> QED BY <1>1, <3>1 DEF Queued
    <2>2. ASSUME NEW m \in Queued(s) PROVE m \in Queued(Append(s, e))
      <3>1. PICK i \in 1..Len(s) : m = s[i]
        BY <1>1 DEF Queued
      <3> QED BY <1>1, <3>1 DEF Queued
    <2>3. e \in Queued(Append(s, e))
      BY <1>1 DEF Queued
    <2> QED BY <2>1, <2>2, <2>3
  <1> QED BY <1>1, <1>2

\* What a receive does to a channel.
LEMMA Received ==
    ASSUME NEW S, NEW s \in Seq(S), s # <<>>
    PROVE  /\ Tail(s) \in Seq(S)
           /\ DOMAIN Tail(s) = 1..(Len(s) - 1)
           /\ DOMAIN s = 1..Len(s)
           /\ Len(s) \in Nat \ {0}
           /\ Head(s) = s[1] /\ Head(s) \in S
           /\ \A i \in 1..(Len(s) - 1) : Tail(s)[i] = s[i + 1]
           /\ Queued(s) = Queued(Tail(s)) \cup {Head(s)}
  <1>1. /\ Tail(s) \in Seq(S)
        /\ DOMAIN Tail(s) = 1..(Len(s) - 1)
        /\ DOMAIN s = 1..Len(s)
        /\ Len(s) \in Nat \ {0}
        /\ Head(s) = s[1] /\ Head(s) \in S
        /\ \A i \in 1..(Len(s) - 1) : Tail(s)[i] = s[i + 1]
    OBVIOUS
  <1>2. Queued(s) = Queued(Tail(s)) \cup {Head(s)}
    <2>1. ASSUME NEW m \in Queued(s) PROVE m \in Queued(Tail(s)) \cup {Head(s)}
      <3>1. PICK i \in 1..Len(s) : m = s[i]
        BY <1>1 DEF Queued
      <3>2. CASE i = 1
        BY <1>1, <3>1, <3>2
      <3>3. CASE i # 1
        <4>1. i - 1 \in 1..(Len(s) - 1) /\ (i - 1) + 1 = i
          BY <1>1, <3>3
        <4>2. m = Tail(s)[i - 1]
          BY <1>1, <3>1, <4>1
        <4> QED BY <1>1, <4>1, <4>2 DEF Queued
      <3> QED BY <3>2, <3>3
    <2>2. ASSUME NEW m \in Queued(Tail(s)) PROVE m \in Queued(s)
      <3>1. PICK i \in 1..(Len(s) - 1) : m = Tail(s)[i]
        BY <1>1 DEF Queued
      <3>2. i + 1 \in 1..Len(s) /\ m = s[i + 1]
        BY <1>1, <3>1
      <3> QED BY <1>1, <3>2 DEF Queued
    <2>3. Head(s) \in Queued(s)
      BY <1>1 DEF Queued
    <2> QED BY <2>1, <2>2, <2>3
  <1> QED BY <1>1, <1>2

\* An empty channel holds nothing.
LEMMA Empty == Queued(<<>>) = {} /\ \A S : <<>> \in Seq(S)
  BY DEF Queued

-----------------------------------------------------------------------------
(* The inductive invariant *)

\* No two messages of the channel are about the same utterance.
Distinct(s) == \A i, j \in DOMAIN s : i # j => s[i].of # s[j].of

NoRepeat(s) == \A i, j \in DOMAIN s : i # j => s[i] # s[j]

\* Nothing about an utterance stands behind its end marker.
EndsLast(s) ==
    \A i, j \in DOMAIN s : i < j /\ s[i].kind = "end" => s[i].of # s[j].of
EndsLastSet(s) ==
    \A i, j \in DOMAIN s :
        i < j /\ s[i].kind = "end" => s[i].of \cap s[j].of = {}

\* A stage's local variables are set exactly while it works on something.
Control ==
    /\ routerFor = 0 <=> routerPc \in {"select", "exited"}
    /\ routerFor # 0 => routerFor = epoch
    /\ llmFor = 0 <=> llmPc \in {"select", "exited"}
    /\ ttsPc = "end" => ttsEnd # 0
    /\ ttsPc \in {"select", "exited"} => ttsEnd = 0
    /\ ttsPc # "select" => ttsBuf = {}
    /\ ttsPc \in {"select", "end", "exited"} => ttsSentence = {}

\* The final transcripts still queued are newer than the current epoch.
Arrivals ==
    /\ epoch <= heard
    /\ \A i \in DOMAIN transcripts :
        transcripts[i] # Partial =>
            /\ epoch < transcripts[i] /\ transcripts[i] <= heard
            /\ \A j \in DOMAIN transcripts :
                i < j /\ transcripts[j] # Partial
                    => transcripts[i] < transcripts[j]

\* Nothing is known of utterances the router has not taken yet.
FutureBlank ==
    /\ pending <= epoch
    /\ \A u \in Utterances : u > epoch =>
        /\ calls[u] = "none" /\ u \notin ended /\ u \notin dropped
        /\ ~Producing(u) /\ ~Speaking(u)

\* The skill's reply to u is still to be handled by the router.
Awaited(u) ==
    calls[u] \in {"running", "cancelled"} \/ \E o \in Queued(outcomes) : o.of = u

\* At any time at most one place can still produce text for u.
OneProducer ==
    /\ Distinct(outcomes)
    /\ NoRepeat(prompts)
    /\ \A u \in Utterances :
        /\ calls[u] \in {"running", "cancelled"}
                => \A o \in Queued(outcomes) : o.of # u
        /\ Awaited(u) => /\ routerFor # u /\ llmFor # u
                         /\ u \notin Queued(prompts)
                         /\ ~Speaking(u) /\ u \notin ended
        /\ routerFor = u => llmFor # u /\ u \notin Queued(prompts)
        /\ u \in Queued(prompts) => llmFor # u

\* pending_dispatch stands for a reply still to come.
PendingAwaited == pending # 0 /\ routerPc # "exited" => Awaited(pending)

\* Behind the end marker of u, wherever it is, there is nothing of u.
EndIsLast ==
    /\ EndsLast(tok) /\ EndsLastSet(chunks)
    /\ \A m \in Queued(tok) : m.kind = "end" => ~Producing(m.of)
    /\ ttsEnd # 0 => /\ ~Producing(ttsEnd)
                     /\ \A m \in Queued(tok) : m.of # ttsEnd
    /\ \A c \in Queued(chunks) : c.kind = "end" =>
        \A u \in c.of :
            /\ ~Producing(u)
            /\ \A m \in Queued(tok) : m.of # u
            /\ u \notin ttsBuf /\ u \notin ttsSentence /\ ttsEnd # u

\* Superseded skill replies belong to older utterances.
DroppedIsPast == \A u \in dropped : u < epoch

IInv ==
    /\ TypeOK /\ Control /\ Arrivals /\ FutureBlank /\ OneProducer
    /\ PendingAwaited /\ EndIsLast /\ DoneIsFinal
    /\ DroppedIsPast /\ SupersededSkillIsSilent

-----------------------------------------------------------------------------
\* The constants' types, one by one.
LEMMA Constants ==
    /\ MaxUtterances \in Nat \ {0} /\ MaxTokens \in Nat \ {0}
    /\ MaxChunks \in Nat \ {0} /\ MaxPartials \in Nat
    /\ TranscriptCap \in Nat /\ PromptCap \in Nat /\ TokenCap \in Nat
    /\ ChunkCap \in Nat /\ OutcomeCap \in Nat
  BY PipelineAssumption

\* When a send keeps the order properties of a channel.
LEMMA SentOrder ==
    ASSUME NEW S, NEW s \in Seq(S), NEW e \in S
    PROVE  /\ Distinct(s) /\ (\A m \in Queued(s) : m.of # e.of)
                => Distinct(Append(s, e))
           /\ NoRepeat(s) /\ e \notin Queued(s) => NoRepeat(Append(s, e))
           /\ EndsLast(s)
              /\ (\A m \in Queued(s) : m.kind = "end" => m.of # e.of)
                => EndsLast(Append(s, e))
           /\ EndsLastSet(s)
              /\ (\A m \in Queued(s) : m.kind = "end" => m.of \cap e.of = {})
                => EndsLastSet(Append(s, e))
  <1> DEFINE t == Append(s, e)
  <1>1. /\ DOMAIN t = 1..(Len(s) + 1) /\ DOMAIN s = 1..Len(s)
        /\ Len(s) \in Nat /\ t[Len(s) + 1] = e
        /\ \A i \in 1..Len(s) : t[i] = s[i]
    BY Sent
  <1>2. \A i \in DOMAIN s : s[i] \in Queued(s)
    BY DEF Queued
  <1> HIDE DEF t
  <1>3. Distinct(s) /\ (\A m \in Queued(s) : m.of # e.of) => Distinct(t)
    BY <1>1, <1>2 DEF Distinct
  <1>4. NoRepeat(s) /\ e \notin Queued(s) => NoRepeat(t)
    BY <1>1, <1>2 DEF NoRepeat
  <1>5. EndsLast(s) /\ (\A m \in Queued(s) : m.kind = "end" => m.of # e.of)
            => EndsLast(t)
    BY <1>1, <1>2 DEF EndsLast
  <1>6. EndsLastSet(s)
        /\ (\A m \in Queued(s) : m.kind = "end" => m.of \cap e.of = {})
            => EndsLastSet(t)
    <2> SUFFICES ASSUME EndsLastSet(s),
                        \A m \in Queued(s) : m.kind = "end" => m.of \cap e.of = {},
                        NEW i \in DOMAIN t, NEW j \in DOMAIN t,
                        i < j, t[i].kind = "end"
                 PROVE  t[i].of \cap t[j].of = {}
      BY DEF EndsLastSet
    <2>1. i \in DOMAIN s /\ t[i] = s[i]
      BY <1>1
    <2>2. CASE j \in DOMAIN s
      BY <1>1, <2>1, <2>2 DEF EndsLastSet
    <2>3. CASE j \notin DOMAIN s
      BY <1>1, <1>2, <2>1, <2>3
    <2> QED BY <2>2, <2>3
  <1> QED BY <1>3, <1>4, <1>5, <1>6 DEF t

\* A receive keeps them, and says what else the order tells of the head.
LEMMA ReceivedOrder ==
    ASSUME NEW S, NEW s \in Seq(S), s # <<>>
    PROVE  /\ Distinct(s) => /\ Distinct(Tail(s))
                             /\ \A m \in Queued(Tail(s)) : m.of # Head(s).of
           /\ NoRepeat(s) => NoRepeat(Tail(s)) /\ Head(s) \notin Queued(Tail(s))
           /\ EndsLast(s) =>
                /\ EndsLast(Tail(s))
                /\ Head(s).kind = "end"
                     => \A m \in Queued(Tail(s)) : m.of # Head(s).of
           /\ EndsLastSet(s) =>
                /\ EndsLastSet(Tail(s))
                /\ Head(s).kind = "end"
                     => \A m \in Queued(Tail(s)) : m.of \cap Head(s).of = {}
  <1> DEFINE t == Tail(s)
  <1>1. /\ DOMAIN t = 1..(Len(s) - 1) /\ DOMAIN s = 1..Len(s)
        /\ Len(s) \in Nat \ {0} /\ Head(s) = s[1]
        /\ \A i \in 1..(Len(s) - 1) : t[i] = s[i + 1]
    BY Received
  <1> HIDE DEF t
  <1>2. \A m \in Queued(t) : \E i \in 2..Len(s) : m = s[i]
    <2> SUFFICES ASSUME NEW i \in DOMAIN t PROVE t[i] = s[i + 1] /\ i + 1 \in 2..Len(s)
      BY DEF Queued
    <2> QED BY <1>1
  <1>3. \A i \in DOMAIN t : i + 1 \in DOMAIN s /\ t[i] = s[i + 1]
    BY <1>1
  <1>4. 1 \in DOMAIN s /\ DOMAIN t \subseteq Int /\ 2..Len(s) \subseteq DOMAIN s
    BY <1>1
  <1>5. /\ Distinct(s) => Distinct(t)
        /\ NoRepeat(s) => NoRepeat(t)
        /\ EndsLast(s) => EndsLast(t)
    <2>1. \A i, j \in DOMAIN t : /\ i # j => i + 1 # j + 1
                                 /\ i < j => i + 1 < j + 1
      BY <1>4
    <2> QED BY <1>3, <2>1 DEF Distinct, NoRepeat, EndsLast
  <1>6. ASSUME EndsLastSet(s) PROVE EndsLastSet(t)
    <2> SUFFICES ASSUME NEW i \in DOMAIN t, NEW j \in DOMAIN t,
                        i < j, t[i].kind = "end"
                 PROVE  t[i].of \cap t[j].of = {}
      BY DEF EndsLastSet
    <2>1. /\ i + 1 \in DOMAIN s /\ j + 1 \in DOMAIN s /\ i + 1 < j + 1
          /\ t[i] = s[i + 1] /\ t[j] = s[j + 1]
      BY <1>1
    <2> QED BY <1>6, <2>1 DEF EndsLastSet
  <1>7. ASSUME EndsLastSet(s), Head(s).kind = "end", NEW m \in Queued(t)
        PROVE  m.of \cap Head(s).of = {}
    <2>1. PICK i \in 2..Len(s) : m = s[i]
      BY <1>2
    <2>2. 1 \in DOMAIN s /\ i \in DOMAIN s /\ 1 < i
      BY <1>1
    <2> QED BY <1>1, <1>7, <2>1, <2>2 DEF EndsLastSet
  <1>8. ASSUME NEW m \in Queued(t)
        PROVE  /\ Distinct(s) => m.of # Head(s).of
               /\ NoRepeat(s) => m # Head(s)
               /\ EndsLast(s) /\ Head(s).kind = "end" => m.of # Head(s).of
    <2>1. PICK i \in 2..Len(s) : m = s[i]
      BY <1>2
    <2>2. i \in DOMAIN s /\ 1 < i /\ 1 # i
      BY <1>4
    <2> QED BY <1>1, <1>4, <2>1, <2>2 DEF Distinct, NoRepeat, EndsLast
  <1> QED BY <1>5, <1>6, <1>7, <1>8 DEF t

\* Every queued message is about an utterance.
LEMMA Members ==
    ASSUME TypeOK
    PROVE  /\ \A m \in Queued(tok) : m \in TtsMsg /\ m.of \in Utterances
           /\ \A c \in Queued(chunks) : c \in SinkMsg /\ c.of \subseteq Utterances
           /\ \A o \in Queued(outcomes) : o.of \in Utterances
           /\ Queued(prompts) \subseteq Utterances
  <1>1. ASSUME NEW S, NEW s \in Seq(S) PROVE Queued(s) \subseteq S
    BY DEF Queued
  <1>2. \A m \in Queued(tok) : m \in TtsMsg
    BY <1>1 DEF TypeOK
  <1>3. \A c \in Queued(chunks) : c \in SinkMsg
    BY <1>1 DEF TypeOK
  <1>4. \A o \in Queued(outcomes) : o \in Outcome
    BY <1>1 DEF TypeOK
  <1>5. Queued(prompts) \subseteq Utterances
    BY <1>1 DEF TypeOK
  <1> QED BY <1>2, <1>3, <1>4, <1>5 DEF TtsMsg, SinkMsg, Outcome

-----------------------------------------------------------------------------
(* One lemma per action: it preserves the inductive invariant. *)

USE Constants DEF IInv, input, router, llm, tts, sink, Utterances

\* What a step may do without endangering anything but types and control:
\* let text and audio move on towards the sink, in order, or vanish.
LEMMA ShrinkStep ==
    ASSUME IInv, TypeOK', Control',
           UNCHANGED <<transcripts, heard, routerPc, epoch, pending, routerFor,
                       calls, outcomes, prompts, llmFor, dropped, ended>>,
           EndsLast(tok)', Queued(tok') \subseteq Queued(tok),
           EndsLastSet(chunks)',
           \A c \in Queued(chunks') :
            \/ c \in Queued(chunks)
            \/ c.kind # "end" /\ c.of = ttsSentence
            \/ /\ c.of = {ttsEnd} /\ ttsEnd # 0 /\ ttsEnd' = 0
               /\ ttsBuf' \cup ttsSentence' = {},
           ttsBuf' \cup ttsSentence' \subseteq ttsBuf \cup ttsSentence,
           ttsEnd' \in {0, ttsEnd}
    PROVE  IInv'
  <1>1. /\ \A u : Producing(u)' <=> Producing(u)
        /\ \A u : Awaited(u)' <=> Awaited(u)
        /\ \A u \in Utterances : Speaking(u)' => Speaking(u)
    <2>1. \A u : (Producing(u)' <=> Producing(u)) /\ (Awaited(u)' <=> Awaited(u))
      BY DEF Producing, Awaited
    <2>2. \A u \in Utterances : Speaking(u)' => Speaking(u)
      BY DEF Speaking
    <2> QED BY <2>1, <2>2
  <1>2. Arrivals' /\ PendingAwaited' /\ DroppedIsPast'
    BY <1>1 DEF Arrivals, PendingAwaited, DroppedIsPast
  <1>3. FutureBlank' /\ OneProducer'
    BY <1>1 DEF FutureBlank, OneProducer
  <1>4. EndIsLast'
    <2>1. \A m \in Queued(tok') : m.kind = "end" => ~Producing(m.of)'
      BY <1>1 DEF EndIsLast
    <2>2. ttsEnd' # 0 => /\ ~Producing(ttsEnd)'
                         /\ \A m \in Queued(tok') : m.of # ttsEnd'
      BY <1>1 DEF EndIsLast
    <2>3. ASSUME NEW c \in Queued(chunks'), c.kind = "end", NEW u \in c.of
          PROVE  /\ ~Producing(u)'
                 /\ \A m \in Queued(tok') : m.of # u
                 /\ u \notin ttsBuf' /\ u \notin ttsSentence' /\ ttsEnd' # u
      <3>1. u # 0
        <4>1. CASE c \in Queued(chunks)
          <5>1. u \in Utterances
            BY <2>3, <4>1, Members
          <5> QED BY <5>1
        <4>2. CASE c.of = {ttsEnd} /\ ttsEnd # 0
          BY <2>3, <4>2
        <4> QED BY <2>3, <4>1, <4>2
      <3>2. CASE c \in Queued(chunks)
        BY <1>1, <2>3, <3>1, <3>2 DEF EndIsLast
      <3>3. CASE c \notin Queued(chunks)
        BY <1>1, <2>3, <3>1, <3>3 DEF EndIsLast
      <3> QED BY <3>2, <3>3
    <2> QED BY <2>1, <2>2, <2>3 DEF EndIsLast
  <1>5. DoneIsFinal' /\ SupersededSkillIsSilent'
    BY <1>1 DEF DoneIsFinal, SupersededSkillIsSilent, TypeOK
  <1> QED BY <1>2, <1>3, <1>4, <1>5

\* The LLM stage takes a prompt: it moves from the channel to the stage.
LEMMA LlmTakeStep == IInv /\ LlmTake => IInv'
  <1> SUFFICES ASSUME IInv, LlmTake PROVE IInv'
    OBVIOUS
  <1>1. /\ Head(prompts) \in Utterances /\ prompts' \in Seq(Utterances)
        /\ Queued(prompts) = Queued(prompts') \cup {Head(prompts)}
        /\ NoRepeat(prompts') /\ Head(prompts) \notin Queued(prompts')
    BY Received, ReceivedOrder DEF LlmTake, TypeOK, OneProducer
  <1>2. TypeOK'
    BY <1>1 DEF LlmTake, TypeOK
  <1>3. Control' /\ Arrivals' /\ PendingAwaited' /\ DroppedIsPast'
    BY <1>1, SMTT(20) DEF LlmTake, TypeOK, Control, Arrivals,
        PendingAwaited, DroppedIsPast, Awaited
  <1>4. FutureBlank'
    BY <1>1 DEF LlmTake, TypeOK, Control, FutureBlank,
        Producing, Speaking
  <1>5. OneProducer'
    BY <1>1 DEF LlmTake, TypeOK, Control, FutureBlank,
        OneProducer, Producing, Awaited, Speaking
  <1>6. EndIsLast'
    BY <1>1 DEF LlmTake, TypeOK, Control, EndIsLast,
        OneProducer, Producing, Awaited
  <1>7. DoneIsFinal' /\ SupersededSkillIsSilent'
    BY <1>1 DEF LlmTake, TypeOK, Control,
        EndIsLast, DoneIsFinal, SupersededSkillIsSilent, DroppedIsPast,
        Producing, Speaking
  <1> QED BY <1>2, <1>3, <1>4, <1>5, <1>6, <1>7

\* The backend answers, fails or finishes: only the place changes.
LEMMA LlmProgressStep == IInv /\ LlmProgress => IInv'
  <1> SUFFICES ASSUME IInv, LlmProgress PROVE IInv'
    OBVIOUS
  <1>1. TypeOK'
    BY DEF LlmProgress, AfterLlmError, TypeOK
  <1>2. Control'
    BY DEF LlmProgress, AfterLlmError, Control
  <1> QED BY <1>1, <1>2, ShrinkStep DEF LlmProgress, AfterLlmError, EndIsLast

\* The LLM stage leaves and its channel is dropped.
LEMMA LlmExitStep == IInv /\ LlmExit => IInv'
  <1> SUFFICES ASSUME IInv, LlmExit PROVE IInv'
    OBVIOUS
  <1>1. Queued(prompts') = {} /\ NoRepeat(prompts') /\ prompts' \in Seq(Utterances)
    BY Empty DEF LlmExit, NoRepeat
  <1>2. TypeOK'
    BY <1>1 DEF LlmExit, TypeOK
  <1>3. Control' /\ Arrivals' /\ PendingAwaited' /\ DroppedIsPast'
    BY <1>1 DEF LlmExit, TypeOK, Control, Arrivals,
        PendingAwaited, DroppedIsPast, Awaited
  <1>4. FutureBlank'
    BY <1>1 DEF LlmExit, TypeOK, Control, FutureBlank,
        Producing, Speaking
  <1>5. OneProducer'
    BY <1>1 DEF LlmExit, TypeOK, Control, FutureBlank,
        OneProducer, Producing, Awaited, Speaking
  <1>6. EndIsLast'
    BY <1>1 DEF LlmExit, TypeOK, Control, EndIsLast,
        OneProducer, Producing, Awaited
  <1>7. DoneIsFinal' /\ SupersededSkillIsSilent'
    BY <1>1 DEF LlmExit, TypeOK, Control,
        EndIsLast, DoneIsFinal, SupersededSkillIsSilent, DroppedIsPast,
        Producing, Speaking
  <1> QED BY <1>2, <1>3, <1>4, <1>5, <1>6, <1>7

\* The token is cancelled.
LEMMA CancelStep == IInv /\ Cancel => IInv'
  <1> SUFFICES ASSUME IInv, Cancel PROVE IInv'
    OBVIOUS
  <1>1. TypeOK'
    BY DEF Cancel, TypeOK
  <1>2. Control'
    BY DEF Cancel, Control
  <1> QED BY <1>1, <1>2, ShrinkStep DEF Cancel, EndIsLast

\* The transcript senders are dropped.
LEMMA DropInputsStep == IInv /\ DropInputs => IInv'
  <1> SUFFICES ASSUME IInv, DropInputs PROVE IInv'
    OBVIOUS
  <1>1. TypeOK'
    BY DEF DropInputs, TypeOK
  <1>2. Control'
    BY DEF DropInputs, Control
  <1> QED BY <1>1, <1>2, ShrinkStep DEF DropInputs, EndIsLast

\* The router sees the end of its input.
LEMMA RouterInputClosedStep == IInv /\ RouterInputClosed => IInv'
  <1> SUFFICES ASSUME IInv, RouterInputClosed PROVE IInv'
    OBVIOUS
  <1>1. TypeOK'
    BY DEF RouterInputClosed, TypeOK
  <1>2. Control'
    BY DEF RouterInputClosed, Control
  <1> QED BY <1>1, <1>2, ShrinkStep DEF RouterInputClosed, EndIsLast

\* A BargeIn is lost.
LEMMA BusLagStep == IInv /\ BusLag => IInv'
  <1> SUFFICES ASSUME IInv, BusLag PROVE IInv'
    OBVIOUS
  <1>1. bus' \in Seq(Utterances)
    BY Received DEF BusLag, TypeOK
  <1>2. TypeOK'
    BY <1>1 DEF BusLag, TypeOK
  <1>3. Control'
    BY <1>1 DEF BusLag, Control
  <1> QED BY <1>1, <1>2, <1>3, ShrinkStep DEF BusLag, EndIsLast

\* A synthesis request is never taken up.
LEMMA TtsHangsStep == IInv /\ TtsHangs => IInv'
  <1> SUFFICES ASSUME IInv, TtsHangs PROVE IInv'
    OBVIOUS
  <1>1. TypeOK'
    BY DEF TtsHangs, TypeOK
  <1>2. Control'
    BY DEF TtsHangs, Control
  <1> QED BY <1>1, <1>2, ShrinkStep DEF TtsHangs, EndIsLast

\* A publish of the sink is never taken up; what it has taken is not heard.
LEMMA SinkSticksStep == IInv /\ SinkSticks => IInv'
  <1> SUFFICES ASSUME IInv, SinkSticks PROVE IInv'
    OBVIOUS
  <1>1. /\ chunks' \in Seq(SinkMsg) /\ Queued(chunks') \subseteq Queued(chunks)
        /\ EndsLastSet(chunks')
    <2>1. CASE chunks # <<>> /\ chunks' = Tail(chunks)
      BY <2>1, Received, ReceivedOrder DEF TypeOK, EndIsLast
    <2>2. CASE UNCHANGED chunks
      BY <2>2 DEF TypeOK, EndIsLast
    <2> QED BY <2>1, <2>2 DEF SinkSticks
  <1>2. answerDone' \in BOOLEAN
    BY DEF SinkSticks, TypeOK
  <1>3. TypeOK'
    BY <1>1, <1>2 DEF SinkSticks, TypeOK
  <1>4. Control'
    BY DEF SinkSticks, Control
  <1> QED BY <1>1, <1>3, <1>4, ShrinkStep DEF SinkSticks, EndIsLast

\* The TTS stage receives a BargeIn and drops its buffer.
LEMMA TtsBargeInStep == IInv /\ TtsBargeIn => IInv'
  <1> SUFFICES ASSUME IInv, TtsBargeIn PROVE IInv'
    OBVIOUS
  <1>1. bus' \in Seq(Utterances) /\ Head(bus) \in Utterances
    BY Received DEF TtsBargeIn, TypeOK
  <1>2. TypeOK'
    BY <1>1 DEF TtsBargeIn, TypeOK
  <1>3. Control'
    BY <1>1 DEF TtsBargeIn, Control
  <1> QED BY <1>1, <1>2, <1>3, ShrinkStep DEF TtsBargeIn, EndIsLast

\* A BargeIn aborts the synthesis.
LEMMA TtsAbortStep == IInv /\ TtsAbort => IInv'
  <1> SUFFICES ASSUME IInv, TtsAbort PROVE IInv'
    OBVIOUS
  <1>1. bus' \in Seq(Utterances) /\ Head(bus) \in Utterances
    BY Received DEF TtsAbort, FlushReturns, AfterFlush, TypeOK
  <1>2. TypeOK'
    BY <1>1 DEF TtsAbort, FlushReturns, AfterFlush, TypeOK
  <1>3. Control'
    BY <1>1 DEF TtsAbort, FlushReturns, AfterFlush, Control
  <1> QED BY <1>1, <1>2, <1>3, ShrinkStep DEF TtsAbort, FlushReturns, AfterFlush, EndIsLast

\* The audio stream yields a chunk or ends.
LEMMA TtsAudioStep == IInv /\ TtsAudio => IInv'
  <1> SUFFICES ASSUME IInv, TtsAudio PROVE IInv'
    OBVIOUS
  <1>1. TypeOK'
    <2>1. ttsPc' \in {"select", "chunk", "end"}
      BY DEF TtsAudio, FlushReturns, AfterFlush, TypeOK
    <2>2. ttsChunks' \in 0..MaxChunks
      BY DEF TtsAudio, FlushReturns, AfterFlush, TypeOK
    <2>3. ttsSentence' \subseteq Utterances
      BY DEF TtsAudio, FlushReturns, AfterFlush, TypeOK
    <2> QED BY <2>1, <2>2, <2>3 DEF TtsAudio, FlushReturns, AfterFlush, TypeOK
  <1>2. Control'
    BY DEF TtsAudio, FlushReturns, AfterFlush, Control
  <1> QED BY <1>1, <1>2, ShrinkStep DEF TtsAudio, FlushReturns, AfterFlush, EndIsLast

\* The buffer becomes the sentence being spoken.
LEMMA TtsIdleFlushStep == IInv /\ TtsIdleFlush => IInv'
  <1> SUFFICES ASSUME IInv, TtsIdleFlush PROVE IInv'
    OBVIOUS
  <1>1. TypeOK'
    BY DEF TtsIdleFlush, Flush, TypeOK
  <1>2. Control'
    BY DEF TtsIdleFlush, Flush, Control
  <1> QED BY <1>1, <1>2, ShrinkStep DEF TtsIdleFlush, Flush, EndIsLast

\* A token moves from the channel to the buffer or the sentence.
LEMMA TtsTokenStep == IInv /\ TtsToken => IInv'
  <1> SUFFICES ASSUME IInv, TtsToken PROVE IInv'
    OBVIOUS
  <1>1. /\ Head(tok) \in TtsMsg /\ tok' \in Seq(TtsMsg)
        /\ Queued(tok) = Queued(tok') \cup {Head(tok)}
        /\ EndsLast(tok')
        /\ Head(tok).kind = "end"
             => \A m \in Queued(tok') : m.of # Head(tok).of
    BY Received, ReceivedOrder DEF TtsToken, Flush, TypeOK, EndIsLast
  <1>2. Head(tok).of \in Utterances
    BY <1>1 DEF TtsMsg
  <1>3. TypeOK'
    <2>1. ttsPc' \in {"select", "synth"}
      BY <1>1, <1>2 DEF TtsToken, Flush, TypeOK
    <2>2. ttsBuf' \subseteq Utterances
      BY <1>1, <1>2 DEF TtsToken, Flush, TypeOK
    <2>3. ttsSentence' \subseteq Utterances
      BY <1>1, <1>2 DEF TtsToken, Flush, TypeOK
    <2>4. ttsEnd' \in 0..MaxUtterances
      BY <1>1, <1>2 DEF TtsToken, Flush, TypeOK
    <2>5. ttsChunks' \in 0..MaxChunks
      BY <1>1, <1>2 DEF TtsToken, Flush, TypeOK
    <2> QED BY <1>1, <1>2, <2>1, <2>2, <2>3, <2>4, <2>5 DEF TtsToken, Flush, TypeOK
  <1>4. Control' /\ Arrivals' /\ PendingAwaited' /\ DroppedIsPast'
    BY <1>1, <1>2 DEF TtsToken, Flush, TypeOK, Control, Arrivals,
        PendingAwaited, DroppedIsPast, Awaited
  <1>5. FutureBlank'
    BY <1>1, <1>2 DEF TtsToken, Flush, TypeOK, Control, FutureBlank,
        Producing, Speaking
  <1>6. OneProducer'
    BY <1>1, <1>2 DEF TtsToken, Flush, TypeOK, Control, FutureBlank,
        OneProducer, Producing, Awaited, Speaking
  <1>7. EndIsLast'
    <2>1. /\ ttsBuf' \subseteq ttsBuf \cup {Head(tok).of}
          /\ ttsSentence' \subseteq ttsSentence \cup ttsBuf \cup {Head(tok).of}
          /\ ttsEnd' = 0
      BY DEF TtsToken, Flush, Control
    <2>2. \A u : Producing(u)' <=> Producing(u)
      BY DEF TtsToken, Flush, Producing
    <2>3. UNCHANGED chunks /\ Head(tok) \in Queued(tok)
      BY <1>1 DEF TtsToken, Flush
    <2>4. \A m \in Queued(tok') : m.kind = "end" => ~Producing(m.of)'
      BY <1>1, <2>2 DEF EndIsLast
    <2>5. \A c \in Queued(chunks') : c.kind = "end" =>
            \A u \in c.of :
                /\ ~Producing(u)'
                /\ \A m \in Queued(tok') : m.of # u
                /\ u \notin ttsBuf' /\ u \notin ttsSentence' /\ ttsEnd' # u
      <3> SUFFICES ASSUME NEW c \in Queued(chunks), c.kind = "end",
                          NEW u \in c.of
                   PROVE  /\ ~Producing(u)'
                          /\ \A m \in Queued(tok') : m.of # u
                          /\ u \notin ttsBuf' /\ u \notin ttsSentence'
                          /\ ttsEnd' # u
        BY <2>3
      <3>1. /\ ~Producing(u) /\ \A m \in Queued(tok) : m.of # u
            /\ u \notin ttsBuf /\ u \notin ttsSentence /\ ttsEnd # u
        BY DEF EndIsLast
      <3>2. ttsEnd = 0
        BY DEF TtsToken, Control
      <3> QED BY <1>1, <2>1, <2>2, <2>3, <3>1, <3>2
    <2> QED BY <1>1, <2>1, <2>3, <2>4, <2>5 DEF EndIsLast
  <1>8. DoneIsFinal' /\ SupersededSkillIsSilent'
    BY <1>1, <1>2 DEF TtsToken, Flush, TypeOK, Control,
        EndIsLast, DoneIsFinal, SupersededSkillIsSilent, DroppedIsPast,
        Producing, Speaking
  <1> QED BY <1>3, <1>4, <1>5, <1>6, <1>7, <1>8

\* The end marker moves from the channel to the stage.
LEMMA TtsAnswerEndStep == IInv /\ TtsAnswerEnd => IInv'
  <1> SUFFICES ASSUME IInv, TtsAnswerEnd PROVE IInv'
    OBVIOUS
  <1>1. /\ Head(tok) \in TtsMsg /\ tok' \in Seq(TtsMsg)
        /\ Queued(tok) = Queued(tok') \cup {Head(tok)}
        /\ EndsLast(tok')
        /\ Head(tok).kind = "end"
             => \A m \in Queued(tok') : m.of # Head(tok).of
    BY Received, ReceivedOrder DEF TtsAnswerEnd, Flush, TypeOK, EndIsLast
  <1>2. Head(tok).of \in Utterances
    BY <1>1 DEF TtsMsg
  <1>3. TypeOK'
    <2>1. ttsPc' \in {"end", "synth"}
      BY <1>1, <1>2 DEF TtsAnswerEnd, Flush, TypeOK
    <2>2. ttsBuf' \subseteq Utterances
      BY <1>1, <1>2 DEF TtsAnswerEnd, Flush, TypeOK
    <2>3. ttsSentence' \subseteq Utterances
      BY <1>1, <1>2 DEF TtsAnswerEnd, Flush, TypeOK
    <2>4. ttsEnd' \in 0..MaxUtterances
      BY <1>1, <1>2 DEF TtsAnswerEnd, Flush, TypeOK
    <2>5. ttsChunks' \in 0..MaxChunks
      BY <1>1, <1>2 DEF TtsAnswerEnd, Flush, TypeOK
    <2> QED BY <1>1, <1>2, <2>1, <2>2, <2>3, <2>4, <2>5 DEF TtsAnswerEnd, Flush, TypeOK
  <1>4. Control' /\ Arrivals' /\ PendingAwaited' /\ DroppedIsPast'
    <2>1. Control'
      <3>1. /\ ttsPc' \in {"end", "synth"} /\ ttsEnd' = Head(tok).of
            /\ ttsBuf' = {} /\ (ttsPc' = "end" => ttsSentence' = {})
        BY DEF TtsAnswerEnd, Flush, Control
      <3> QED BY <1>2, <3>1 DEF TtsAnswerEnd, Flush, Control
    <2> QED BY <2>1 DEF TtsAnswerEnd, Flush, TypeOK, Arrivals, PendingAwaited, DroppedIsPast, Awaited
  <1>5. FutureBlank'
    BY <1>1, <1>2 DEF TtsAnswerEnd, Flush, TypeOK, Control, FutureBlank,
        Producing, Speaking
  <1>6. OneProducer'
    BY <1>1, <1>2 DEF TtsAnswerEnd, Flush, TypeOK, Control, FutureBlank,
        OneProducer, Producing, Awaited, Speaking
  <1>7. EndIsLast'
    BY <1>1, <1>2 DEF TtsAnswerEnd, Flush, TypeOK, Control, EndIsLast,
        OneProducer, Producing, Awaited
  <1>8. DoneIsFinal' /\ SupersededSkillIsSilent'
    BY <1>1, <1>2 DEF TtsAnswerEnd, Flush, TypeOK, Control,
        EndIsLast, DoneIsFinal, SupersededSkillIsSilent, DroppedIsPast,
        Producing, Speaking
  <1> QED BY <1>3, <1>4, <1>5, <1>6, <1>7, <1>8

\* A partial transcript is dropped.
LEMMA RouterPartialStep == IInv /\ RouterPartial => IInv'
  <1> SUFFICES ASSUME IInv, RouterPartial PROVE IInv'
    OBVIOUS
  <1>1. transcripts' \in Seq(Utterances \cup {Partial})
    BY Received DEF RouterPartial, TypeOK
  <1>2. TypeOK'
    BY <1>1 DEF RouterPartial, TypeOK
  <1>3. Control' /\ Arrivals' /\ PendingAwaited' /\ DroppedIsPast'
    <2>1. Arrivals'
      BY Received DEF RouterPartial, TypeOK, Arrivals
    <2> QED BY <2>1 DEF RouterPartial, TypeOK, Control, PendingAwaited, DroppedIsPast, Awaited
  <1>4. FutureBlank'
    BY <1>1 DEF RouterPartial, TypeOK, Control, FutureBlank,
        Producing, Speaking
  <1>5. OneProducer'
    BY <1>1 DEF RouterPartial, TypeOK, Control, FutureBlank,
        OneProducer, Producing, Awaited, Speaking
  <1>6. EndIsLast'
    BY <1>1 DEF RouterPartial, TypeOK, Control, EndIsLast,
        OneProducer, Producing, Awaited
  <1>7. DoneIsFinal' /\ SupersededSkillIsSilent'
    BY <1>1 DEF RouterPartial, TypeOK, Control,
        EndIsLast, DoneIsFinal, SupersededSkillIsSilent, DroppedIsPast,
        Producing, Speaking
  <1> QED BY <1>2, <1>3, <1>4, <1>5, <1>6, <1>7

\* The sink takes a format.
LEMMA SinkFormatStep == IInv /\ SinkFormat => IInv'
  <1> SUFFICES ASSUME IInv, SinkFormat PROVE IInv'
    OBVIOUS
  <1>1. /\ Head(chunks) \in SinkMsg /\ chunks' \in Seq(SinkMsg)
        /\ Queued(chunks) = Queued(chunks') \cup {Head(chunks)}
        /\ EndsLastSet(chunks')
    BY Received, ReceivedOrder DEF SinkFormat, TypeOK, EndIsLast
  <1>2. TypeOK'
    <2>1. lastOut' \in {"none", "meta", "audio", "done"}
      BY <1>1 DEF SinkFormat, TypeOK
    <2>2. ended' \subseteq Utterances
      BY <1>1 DEF SinkFormat, TypeOK
    <2>3. metaSent' \in BOOLEAN
      BY <1>1 DEF SinkFormat, TypeOK
    <2>4. answerDone' \in BOOLEAN
      BY <1>1 DEF SinkFormat, TypeOK
    <2> QED BY <1>1, <2>1, <2>2, <2>3, <2>4 DEF SinkFormat, TypeOK
  <1>3. Control'
    BY <1>1 DEF SinkFormat, Control
  <1> QED BY <1>1, <1>2, <1>3, ShrinkStep DEF SinkFormat, EndIsLast

\* The sink takes a chunk of audio.
LEMMA SinkChunkStep == IInv /\ SinkChunk => IInv'
  <1> SUFFICES ASSUME IInv, SinkChunk PROVE IInv'
    OBVIOUS
  <1>1. /\ Head(chunks) \in SinkMsg /\ chunks' \in Seq(SinkMsg)
        /\ Queued(chunks) = Queued(chunks') \cup {Head(chunks)}
        /\ EndsLastSet(chunks')
    BY Received, ReceivedOrder DEF SinkChunk, TypeOK, EndIsLast
  <1>2. TypeOK'
    <2>1. lastOut' \in {"none", "meta", "audio", "done"}
      BY <1>1 DEF SinkChunk, TypeOK
    <2>2. ended' \subseteq Utterances
      BY <1>1 DEF SinkChunk, TypeOK
    <2>3. metaSent' \in BOOLEAN
      BY <1>1 DEF SinkChunk, TypeOK
    <2>4. answerDone' \in BOOLEAN
      BY <1>1 DEF SinkChunk, TypeOK
    <2> QED BY <1>1, <2>1, <2>2, <2>3, <2>4 DEF SinkChunk, TypeOK
  <1>3. Control'
    BY <1>1 DEF SinkChunk, Control
  <1> QED BY <1>1, <1>2, <1>3, ShrinkStep DEF SinkChunk, EndIsLast

\* The sink takes an end marker and publishes `done`.
LEMMA SinkAnswerEndStep == IInv /\ SinkAnswerEnd => IInv'
  <1> SUFFICES ASSUME IInv, SinkAnswerEnd PROVE IInv'
    OBVIOUS
  <1>1. /\ Head(chunks) \in SinkMsg /\ chunks' \in Seq(SinkMsg)
        /\ Queued(chunks) = Queued(chunks') \cup {Head(chunks)}
        /\ EndsLastSet(chunks')
        /\ Head(chunks).kind = "end"
             => \A m \in Queued(chunks') : m.of \cap Head(chunks).of = {}
    BY Received, ReceivedOrder DEF SinkAnswerEnd, TypeOK, EndIsLast
  <1>2. Head(chunks).of \subseteq Utterances
    BY <1>1 DEF SinkMsg
  <1>3. TypeOK'
    <2>1. lastOut' \in {"none", "meta", "audio", "done"}
      BY <1>1, <1>2 DEF SinkAnswerEnd, TypeOK
    <2>2. ended' \subseteq Utterances
      BY <1>1, <1>2 DEF SinkAnswerEnd, TypeOK
    <2>3. metaSent' \in BOOLEAN
      BY <1>1, <1>2 DEF SinkAnswerEnd, TypeOK
    <2>4. answerDone' \in BOOLEAN
      BY <1>1, <1>2 DEF SinkAnswerEnd, TypeOK
    <2> QED BY <1>1, <1>2, <2>1, <2>2, <2>3, <2>4 DEF SinkAnswerEnd, TypeOK
  <1>4. Control' /\ Arrivals' /\ PendingAwaited' /\ DroppedIsPast'
    BY <1>1, <1>2 DEF SinkAnswerEnd, TypeOK, Control, Arrivals,
        PendingAwaited, DroppedIsPast, Awaited
  <1>5. FutureBlank'
    BY <1>1, <1>2 DEF SinkAnswerEnd, TypeOK, Control, FutureBlank,
        Producing, Speaking
  <1>6. OneProducer'
    BY <1>1, <1>2 DEF SinkAnswerEnd, TypeOK, Control, FutureBlank,
        OneProducer, Producing, Awaited, Speaking
  <1>7. EndIsLast'
    BY <1>1, <1>2 DEF SinkAnswerEnd, TypeOK, Control, EndIsLast,
        OneProducer, Producing, Awaited
  <1>8. DoneIsFinal' /\ SupersededSkillIsSilent'
    BY <1>1, <1>2 DEF SinkAnswerEnd, TypeOK, Control,
        EndIsLast, DoneIsFinal, SupersededSkillIsSilent, DroppedIsPast,
        Producing, Speaking
  <1> QED BY <1>3, <1>4, <1>5, <1>6, <1>7, <1>8

\* The sink leaves and its channel is dropped.
LEMMA SinkTeardownStep == IInv /\ SinkTeardown => IInv'
  <1> SUFFICES ASSUME IInv, SinkTeardown PROVE IInv'
    OBVIOUS
  <1>1. chunks' \in Seq(SinkMsg) /\ Queued(chunks') = {} /\ EndsLastSet(chunks')
    BY Empty DEF SinkTeardown, TeardownOut, EndsLastSet
  <1>2. TypeOK'
    BY <1>1 DEF SinkTeardown, TeardownOut, TypeOK
  <1>3. Control'
    BY <1>1 DEF SinkTeardown, TeardownOut, Control
  <1> QED BY <1>1, <1>2, <1>3, ShrinkStep DEF SinkTeardown, TeardownOut, EndIsLast

\* The TTS stage leaves and its channels are dropped.
LEMMA TtsExitStep == IInv /\ TtsExit => IInv'
  <1> SUFFICES ASSUME IInv, TtsExit PROVE IInv'
    OBVIOUS
  <1>1. /\ tok' \in Seq(TtsMsg) /\ Queued(tok') = {} /\ EndsLast(tok')
        /\ bus' \in Seq(Utterances)
    BY Empty DEF TtsExit, TtsLeave, EndsLast
  <1>2. TypeOK'
    BY <1>1 DEF TtsExit, TtsLeave, TypeOK
  <1>3. Control'
    BY <1>1 DEF TtsExit, TtsLeave, Control
  <1> QED BY <1>1, <1>2, <1>3, ShrinkStep DEF TtsExit, TtsLeave, EndIsLast

\* The router leaves and its channels are dropped.
LEMMA RouterExitStep == IInv /\ RouterExit => IInv'
  <1> SUFFICES ASSUME IInv, RouterExit PROVE IInv'
    OBVIOUS
  <1>1. /\ outcomes' \in Seq(Outcome) /\ Queued(outcomes') = {}
        /\ Distinct(outcomes')
        /\ transcripts' \in Seq(Utterances \cup {Partial})
    BY Empty DEF RouterExit, Distinct
  <1>2. TypeOK'
    BY <1>1 DEF RouterExit, TypeOK
  <1>3. Control' /\ Arrivals' /\ PendingAwaited' /\ DroppedIsPast'
    BY <1>1 DEF RouterExit, TypeOK, Control, Arrivals,
        PendingAwaited, DroppedIsPast, Awaited
  <1>4. FutureBlank'
    BY <1>1 DEF RouterExit, TypeOK, Control, FutureBlank,
        Producing, Speaking
  <1>5. OneProducer'
    BY <1>1 DEF RouterExit, TypeOK, Control, FutureBlank,
        OneProducer, Producing, Awaited, Speaking
  <1>6. EndIsLast'
    BY <1>1 DEF RouterExit, TypeOK, Control, EndIsLast,
        OneProducer, Producing, Awaited
  <1>7. DoneIsFinal' /\ SupersededSkillIsSilent'
    BY <1>1 DEF RouterExit, TypeOK, Control,
        EndIsLast, DoneIsFinal, SupersededSkillIsSilent, DroppedIsPast,
        Producing, Speaking
  <1> QED BY <1>2, <1>3, <1>4, <1>5, <1>6, <1>7

\* The router takes a reply: it forwards it or drops it.
LEMMA RouterOutcomeStep == IInv /\ RouterOutcome => IInv'
  <1> SUFFICES ASSUME IInv, RouterOutcome PROVE IInv'
    OBVIOUS
  <1>1. /\ Head(outcomes) \in Outcome /\ outcomes' \in Seq(Outcome)
        /\ Queued(outcomes) = Queued(outcomes') \cup {Head(outcomes)}
        /\ Distinct(outcomes')
        /\ \A m \in Queued(outcomes') : m.of # Head(outcomes).of
    BY Received, ReceivedOrder DEF RouterOutcome, TypeOK, OneProducer
  <1>2. /\ Head(outcomes).of \in Utterances /\ Head(outcomes).of # 0
        /\ Awaited(Head(outcomes).of) /\ Head(outcomes).of <= epoch
    <2>1. Head(outcomes).of \in Utterances
      BY <1>1 DEF Outcome
    <2>2. Head(outcomes) \in Queued(outcomes)
      BY <1>1
    <2>3. Awaited(Head(outcomes).of) /\ Producing(Head(outcomes).of)
      BY <2>2 DEF Awaited, Producing
    <2> QED BY <2>1, <2>3 DEF FutureBlank, TypeOK
  <1>3. \/ /\ Head(outcomes).of # epoch /\ routerPc' = "select" /\ routerFor' = 0
        \/ /\ Head(outcomes).of = epoch /\ routerFor' = epoch
           /\ routerPc' \in {"toTts", "askLlm", "toEnd"}
    <2>1. CASE Head(outcomes).of # epoch
      <3>1. Superseded(Head(outcomes))
        BY <2>1 DEF Superseded
      <3> QED BY <2>1, <3>1 DEF RouterOutcome, AfterOutcome
    <2>2. CASE Head(outcomes).of = epoch
      <3>1. ~Superseded(Head(outcomes))
        BY <2>2 DEF Superseded
      <3>2. AfterOutcome(Head(outcomes)) \in {"toTts", "askLlm", "toEnd"}
        <4>1. CASE Head(outcomes).result = "speak"
          BY <3>1, <4>1 DEF AfterOutcome
        <4>2. CASE Head(outcomes).result = "askLlm"
          BY <3>1, <4>2 DEF AfterOutcome
        <4>3. CASE Head(outcomes).result \notin {"speak", "askLlm"}
          BY <3>1, <4>3 DEF AfterOutcome
        <4> QED BY <4>1, <4>2, <4>3
      <3> QED BY <2>2, <3>1, <3>2 DEF RouterOutcome
    <2> QED BY <2>1, <2>2
  <1>4. /\ pending' = IF pending = Head(outcomes).of THEN 0 ELSE pending
        /\ routerPc = "select" /\ routerFor = 0
        /\ UNCHANGED <<input, transcripts, rxClosed, epoch, priorWork, dropped,
                       calls, prompts, llm, tok, bus, tts, chunks, sink>>
    BY DEF RouterOutcome, Control
  <1>5. TypeOK'
    BY <1>1, <1>2, <1>3, <1>4 DEF TypeOK
  <1>6. Control' /\ Arrivals' /\ PendingAwaited' /\ DroppedIsPast'
    <2>1. PendingAwaited'
      BY <1>1, <1>2, <1>3, <1>4 DEF PendingAwaited, Awaited
    <2>2. Control'
      BY <1>1, <1>2, <1>3, <1>4 DEF Control
    <2> QED BY <1>4, <2>1, <2>2 DEF Arrivals, DroppedIsPast
  <1>7. FutureBlank'
    BY <1>1, <1>2, <1>3, <1>4 DEF TypeOK, FutureBlank, Producing, Speaking
  <1>8. OneProducer'
    BY <1>1, <1>2, <1>3, <1>4 DEF TypeOK, OneProducer, Awaited, Speaking
  <1>9. EndIsLast'
    <2>1. \A u : Producing(u)' => Producing(u)
      BY <1>1, <1>2, <1>3, <1>4 DEF Producing
    <2> QED BY <1>4, <2>1 DEF EndIsLast
  <1>10. DoneIsFinal' /\ SupersededSkillIsSilent'
    <2>1. \A u : Producing(u)' => Producing(u)
      BY <1>1, <1>2, <1>3, <1>4 DEF Producing
    <2>2. \A u : Speaking(u)' <=> Speaking(u)
      BY <1>4 DEF Speaking
    <2>3. DoneIsFinal'
      BY <1>4, <2>1, <2>2 DEF DoneIsFinal
    <2>4. SupersededSkillIsSilent'
      BY <1>1, <1>2, <1>3, <1>4, <2>2 DEF TypeOK, SupersededSkillIsSilent, DroppedIsPast
    <2> QED BY <2>3, <2>4
  <1> QED BY <1>5, <1>6, <1>7, <1>8, <1>9, <1>10

\* The router sends a prompt, or finds the LLM stage gone.
LEMMA RouterSendPromptStep == IInv /\ RouterSendPrompt => IInv'
  <1> SUFFICES ASSUME IInv, RouterSendPrompt PROVE IInv'
    OBVIOUS
  <1>1. /\ routerFor \in Utterances /\ routerFor # 0 /\ routerFor = epoch
        /\ routerFor' = 0 /\ routerFor \notin Queued(prompts)
        /\ Producing(routerFor) /\ ~Awaited(routerFor) /\ llmFor # routerFor
        /\ routerPc # "exited"
        /\ UNCHANGED <<input, rxClosed, epoch, pending, dropped, calls, llm, tok,
                       bus, tts, chunks, sink>>
    BY DEF RouterSendPrompt, Control, TypeOK, OneProducer, Producing
  <1>2. /\ routerPc' \in {"select", "exited"} /\ priorWork' \in BOOLEAN
        /\ prompts' \in Seq(Utterances) /\ NoRepeat(prompts')
        /\ Queued(prompts') \subseteq Queued(prompts) \cup {routerFor}
        /\ outcomes' \in Seq(Outcome) /\ Distinct(outcomes')
        /\ Queued(outcomes') \subseteq Queued(outcomes)
        /\ routerPc' = "select" => outcomes' = outcomes
        /\ transcripts' = transcripts \/ transcripts' = <<>>
    <2>1. CASE llmPc # "exited" /\ Room(prompts, PromptCap) /\ routerPc' = "select"
               /\ prompts' = Append(prompts, routerFor) /\ priorWork' = TRUE
               /\ UNCHANGED <<transcripts, outcomes>>
      <3>1. prompts \in Seq(Utterances) /\ NoRepeat(prompts)
            /\ outcomes \in Seq(Outcome) /\ Distinct(outcomes)
        BY DEF TypeOK, OneProducer
      <3>2. prompts' \in Seq(Utterances)
            /\ Queued(prompts') = Queued(prompts) \cup {routerFor}
        BY <1>1, <2>1, <3>1, Sent
      <3>3. NoRepeat(prompts')
        BY <1>1, <2>1, <3>1, SentOrder
      <3> QED BY <2>1, <3>1, <3>2, <3>3
    <2>2. CASE routerPc' = "exited" /\ transcripts' = <<>> /\ outcomes' = <<>>
               /\ UNCHANGED <<prompts, priorWork>>
      BY <2>2, Empty DEF Distinct, TypeOK, OneProducer
    <2>3. CASE routerPc' = "select"
               /\ UNCHANGED <<transcripts, outcomes, prompts, priorWork>>
      BY <2>3 DEF TypeOK, OneProducer
    <2> QED BY <2>1, <2>2, <2>3 DEF RouterSendPrompt
  <1>3. TypeOK'
    <2>1. transcripts' \in Seq(Utterances \cup {Partial})
      BY <1>2, Empty DEF TypeOK
    <2> QED BY <1>1, <1>2, <2>1 DEF TypeOK
  <1>4. Control' /\ Arrivals' /\ PendingAwaited' /\ DroppedIsPast'
    <2>1. Control'
      BY <1>1, <1>2 DEF Control
    <2>2. Arrivals'
      BY <1>1, <1>2 DEF Arrivals
    <2>3. PendingAwaited'
      BY <1>1, <1>2 DEF PendingAwaited, Awaited
    <2> QED BY <1>1, <2>1, <2>2, <2>3 DEF DroppedIsPast
  <1>5. FutureBlank'
    BY <1>1, <1>2 DEF TypeOK, FutureBlank, Producing, Speaking
  <1>6. OneProducer'
    <2>1. \A u \in Utterances : /\ Awaited(u)' => Awaited(u)
                                /\ Speaking(u)' <=> Speaking(u)
      BY <1>1, <1>2 DEF Awaited, Speaking
    <2> QED BY <1>1, <1>2, <2>1 DEF OneProducer
  <1>7. EndIsLast'
    <2>1. \A u \in Utterances : Producing(u)' => Producing(u)
      BY <1>1, <1>2 DEF Producing
    <2>2. ttsEnd # 0 => ttsEnd \in Utterances
      BY DEF TypeOK
    <2> QED BY <1>1, <2>1, <2>2, Members DEF EndIsLast
  <1>8. DoneIsFinal' /\ SupersededSkillIsSilent'
    <2>1. \A u \in Utterances : Producing(u)' => Producing(u)
      BY <1>1, <1>2 DEF Producing
    <2>2. \A u : Speaking(u)' <=> Speaking(u)
      BY <1>1 DEF Speaking
    <2>3. DoneIsFinal'
      BY <1>1, <2>1, <2>2 DEF DoneIsFinal, TypeOK
    <2>4. SupersededSkillIsSilent'
      BY <1>1, <1>2, <2>2 DEF TypeOK, SupersededSkillIsSilent
    <2> QED BY <2>3, <2>4
  <1> QED BY <1>3, <1>4, <1>5, <1>6, <1>7, <1>8

\* A stage that answers u may append a token of u: no end marker of u is queued.
LEMMA TokenSent ==
    ASSUME IInv, NEW u \in Utterances, routerFor = u \/ llmFor = u,
           NEW msg \in TtsMsg, msg.of = u, tok' = Append(tok, msg)
    PROVE  /\ tok' \in Seq(TtsMsg) /\ EndsLast(tok')
           /\ Queued(tok') = Queued(tok) \cup {msg}
  <1>1. /\ tok \in Seq(TtsMsg) /\ EndsLast(tok)
        /\ \A m \in Queued(tok) : m.kind = "end" => m.of # u
    BY DEF TypeOK, EndIsLast, Producing
  <1>2. tok' \in Seq(TtsMsg) /\ Queued(tok') = Queued(tok) \cup {msg}
    BY <1>1, Sent
  <1>3. EndsLast(tok')
    BY <1>1, SentOrder
  <1> QED BY <1>2, <1>3

\* What sending a token or an end marker for u, or finding the TTS stage gone,
\* may do: an end marker is sent by the last producer of u as it lets go of u.
LEMMA SpeakStep ==
    ASSUME IInv, TypeOK', Control',
           UNCHANGED <<transcripts, heard, epoch, pending, calls, outcomes,
                       dropped, ended, ttsBuf, ttsSentence, ttsEnd, chunks>>,
           routerPc' # "exited" => routerPc # "exited",
           routerFor' \in {0, routerFor}, llmFor' \in {0, llmFor},
           NoRepeat(prompts)', Queued(prompts') \subseteq Queued(prompts),
           NEW u \in Utterances, routerFor = u \/ llmFor = u,
           NEW msg, msg.of = u, EndsLast(tok)',
           Queued(tok') \subseteq Queued(tok) \cup {msg},
           msg.kind = "end" => routerFor' # u /\ llmFor' # u
    PROVE  IInv'
  <1>1. /\ Producing(u) /\ ~Awaited(u) /\ u \notin dropped
        /\ u \notin Queued(prompts) /\ u # 0
    <2>1. u # 0
      OBVIOUS
    <2> QED BY <2>1 DEF Producing, OneProducer, SupersededSkillIsSilent
  <1>2. \A v \in Utterances : /\ v # 0
                              /\ routerFor' = v => routerFor = v
                              /\ llmFor' = v => llmFor = v
    OBVIOUS
  <1>3. \A v \in Utterances : /\ Producing(v)' => Producing(v)
                              /\ Awaited(v)' <=> Awaited(v)
                              /\ Speaking(v)' => Speaking(v) \/ v = u
    <2>1. \A v \in Utterances : /\ Producing(v)' => Producing(v)
                                /\ Awaited(v)' <=> Awaited(v)
      BY <1>2 DEF Producing, Awaited
    <2>2. \A v \in Utterances : Speaking(v)' => Speaking(v) \/ v = u
      BY DEF Speaking
    <2> QED BY <2>1, <2>2
  <1>4. Arrivals' /\ DroppedIsPast' /\ PendingAwaited'
    BY DEF Arrivals, DroppedIsPast, PendingAwaited, Awaited
  <1>5. FutureBlank'
    BY <1>1, <1>3 DEF TypeOK, FutureBlank
  <1>6. OneProducer'
    <2>1. Distinct(outcomes)' /\ NoRepeat(prompts)'
      BY DEF OneProducer
    <2>2. ASSUME NEW v \in Utterances
          PROVE  Awaited(v)' => /\ routerFor' # v /\ llmFor' # v
                                /\ v \notin Queued(prompts')
                                /\ ~Speaking(v)' /\ v \notin ended'
      <3>1. Awaited(v)' => Awaited(v) /\ ~Speaking(v)'
        BY <1>1, <1>3 DEF OneProducer
      <3> QED BY <1>2, <3>1 DEF OneProducer
    <2>3. ASSUME NEW v \in Utterances
          PROVE  /\ routerFor' = v => llmFor' # v /\ v \notin Queued(prompts')
                 /\ v \in Queued(prompts') => llmFor' # v
      BY <1>2 DEF OneProducer
    <2> QED BY <2>1, <2>2, <2>3 DEF OneProducer
  <1>7. EndIsLast'
    <2>1. msg.kind = "end" => ~Producing(u)'
      BY <1>1 DEF Producing, Awaited
    <2>2. \A m \in Queued(tok') : m.kind = "end" => ~Producing(m.of)'
      BY <1>3, <2>1, Members DEF EndIsLast
    <2>3. ttsEnd' # 0 => /\ ~Producing(ttsEnd)'
                         /\ \A m \in Queued(tok') : m.of # ttsEnd'
      BY <1>1, <1>3, SMTT(20) DEF EndIsLast, TypeOK
    <2>4. \A c \in Queued(chunks') : c.kind = "end" =>
            \A v \in c.of : /\ ~Producing(v)'
                            /\ \A m \in Queued(tok') : m.of # v
      BY <1>1, <1>3, Members DEF EndIsLast
    <2> QED BY <2>2, <2>3, <2>4 DEF EndIsLast
  <1>8. DoneIsFinal'
    BY <1>1, <1>3 DEF DoneIsFinal, TypeOK
  <1>9. SupersededSkillIsSilent'
    <2> SUFFICES ASSUME NEW v \in dropped
                 PROVE  /\ ~Speaking(v)' /\ v \notin ended'
                        /\ routerFor' # v /\ llmFor' # v
                        /\ v \notin Queued(prompts')
      BY DEF SupersededSkillIsSilent
    <2>1. /\ v \in Utterances /\ ~Speaking(v) /\ v \notin ended
          /\ routerFor # v /\ llmFor # v /\ v \notin Queued(prompts)
      BY DEF SupersededSkillIsSilent, TypeOK
    <2> QED BY <1>1, <1>2, <1>3, <2>1
  <1> QED BY <1>4, <1>5, <1>6, <1>7, <1>8, <1>9

\* The router speaks a skill's sentence, or finds the TTS stage gone.
LEMMA RouterSendSpeechStep == IInv /\ RouterSendSpeech => IInv'
  <1> SUFFICES ASSUME IInv, RouterSendSpeech PROVE IInv'
    OBVIOUS
  <1>1. PICK u \in Utterances : u = routerFor
    BY DEF RouterSendSpeech, Control, TypeOK
  <1>2. PICK msg \in TtsMsg : msg = [kind |-> "sentence", of |-> u]
    BY DEF TtsMsg, TokenKinds
  <1>3. /\ \/ routerPc' = "toEnd" /\ routerFor' = routerFor
           \/ routerPc' = "select" /\ routerFor' = 0
        /\ priorWork' \in BOOLEAN
        /\ tok' \in Seq(TtsMsg) /\ EndsLast(tok')
        /\ Queued(tok') \subseteq Queued(tok) \cup {msg}
    <2>1. CASE routerPc' = "toEnd" /\ routerFor' = routerFor /\ priorWork' = TRUE
               /\ tok' = Append(tok, msg)
      BY <1>1, <1>2, <2>1, TokenSent
    <2>2. CASE routerPc' = "select" /\ routerFor' = 0 /\ UNCHANGED <<tok, priorWork>>
      BY <2>2 DEF TypeOK, EndIsLast
    <2> QED BY <1>1, <1>2, <2>1, <2>2 DEF RouterSendSpeech
  <1>4. TypeOK'
    BY <1>1, <1>3 DEF RouterSendSpeech, TypeOK
  <1>5. Control'
    BY <1>1, <1>3 DEF RouterSendSpeech, Control
  <1> QED BY <1>1, <1>2, <1>3, <1>4, <1>5, SpeakStep DEF RouterSendSpeech, OneProducer

\* The router ends a skill's answer, or finds the TTS stage gone.
LEMMA RouterSendEndStep == IInv /\ RouterSendEnd => IInv'
  <1> SUFFICES ASSUME IInv, RouterSendEnd PROVE IInv'
    OBVIOUS
  <1>1. PICK u \in Utterances : u = routerFor
    BY DEF RouterSendEnd, Control, TypeOK
  <1>2. PICK msg \in TtsMsg : msg = [kind |-> "end", of |-> u]
    BY DEF TtsMsg
  <1>3. /\ tok' \in Seq(TtsMsg) /\ EndsLast(tok')
        /\ Queued(tok') \subseteq Queued(tok) \cup {msg}
    <2>1. CASE tok' = Append(tok, msg)
      BY <1>1, <1>2, <2>1, TokenSent
    <2>2. CASE UNCHANGED tok
      BY <2>2 DEF TypeOK, EndIsLast
    <2> QED BY <1>1, <1>2, <2>1, <2>2 DEF RouterSendEnd
  <1>4. TypeOK'
    BY <1>3 DEF RouterSendEnd, TypeOK
  <1>5. Control'
    BY DEF RouterSendEnd, Control
  <1>6. llmFor # u /\ u # 0
    BY <1>1 DEF OneProducer
  <1> QED BY <1>1, <1>2, <1>3, <1>4, <1>5, <1>6, SpeakStep
          DEF RouterSendEnd, OneProducer

\* What LlmSend does to the channels and to the LLM stage.
LEMMA LlmSent ==
    ASSUME IInv, NEW kind \in TokenKinds \cup {"end"}, NEW next, LlmSend(kind, next),
           llmPc \notin {"select", "exited"}
    PROVE  \E u \in Utterances, msg \in TtsMsg :
            /\ u = llmFor /\ msg = [kind |-> kind, of |-> u]
            /\ llmPc' \in {next, "exited"} /\ llmFor' \in {0, llmFor}
            /\ llmFor' = 0 <=> llmPc' \in {"select", "exited"}
            /\ prompts' \in Seq(Utterances) /\ NoRepeat(prompts')
            /\ Queued(prompts') \subseteq Queued(prompts)
            /\ tok' \in Seq(TtsMsg) /\ EndsLast(tok')
            /\ Queued(tok') \subseteq Queued(tok) \cup {msg}
  <1>1. PICK u \in Utterances : u = llmFor /\ u # 0
    BY DEF Control, TypeOK
  <1>2. PICK msg \in TtsMsg : msg = [kind |-> kind, of |-> u]
    BY DEF TtsMsg
  <1>3. llmFor' = IF llmPc' \in {"select", "exited"} THEN 0 ELSE llmFor
    BY DEF LlmSend
  <1>4. prompts \in Seq(Utterances) /\ NoRepeat(prompts)
        /\ tok \in Seq(TtsMsg) /\ EndsLast(tok)
    BY DEF TypeOK, OneProducer, EndIsLast
  <1>5. CASE tok' = Append(tok, msg) /\ llmPc' = next /\ UNCHANGED prompts
    <2>1. tok' \in Seq(TtsMsg) /\ EndsLast(tok')
          /\ Queued(tok') = Queued(tok) \cup {msg}
      BY <1>1, <1>2, <1>5, TokenSent
    <2> QED BY <1>1, <1>2, <1>3, <1>4, <1>5, <2>1
  <1>6. CASE UNCHANGED tok /\ llmPc' = "exited" /\ prompts' = <<>>
    BY <1>1, <1>2, <1>3, <1>4, <1>6, Empty DEF NoRepeat
  <1> QED BY <1>1, <1>2, <1>5, <1>6 DEF LlmSend

\* The LLM stage sends a token, or finds the TTS stage gone.
LEMMA LlmTokenStep == IInv /\ LlmToken => IInv'
  <1> SUFFICES ASSUME IInv, LlmToken PROVE IInv'
    OBVIOUS
  <1>1. PICK kind \in TokenKinds : LlmSend(kind, "stream")
    BY DEF LlmToken
  <1>2. PICK u \in Utterances, msg \in TtsMsg :
            /\ u = llmFor /\ msg = [kind |-> kind, of |-> u]
            /\ llmPc' \in {"stream", "exited"} /\ llmFor' \in {0, llmFor}
            /\ llmFor' = 0 <=> llmPc' \in {"select", "exited"}
            /\ prompts' \in Seq(Utterances) /\ NoRepeat(prompts')
            /\ Queued(prompts') \subseteq Queued(prompts)
            /\ tok' \in Seq(TtsMsg) /\ EndsLast(tok')
            /\ Queued(tok') \subseteq Queued(tok) \cup {msg}
    BY <1>1, LlmSent DEF LlmToken, TokenKinds
  <1>3. /\ llmTokens' \in 0..MaxTokens
        /\ UNCHANGED <<input, transcripts, router, calls, outcomes, bus, tts,
                       chunks, sink>>
    BY <1>1 DEF LlmToken, LlmSend, TypeOK
  <1>4. TypeOK'
    BY <1>2, <1>3 DEF TypeOK
  <1>5. Control'
    BY <1>2, <1>3 DEF Control
  <1>6. msg.kind # "end" /\ msg.of = u
    BY <1>2 DEF TokenKinds
  <1> QED BY <1>2, <1>3, <1>4, <1>5, <1>6, SpeakStep

\* The LLM stage apologises, or finds the TTS stage gone.
LEMMA LlmApologiseStep == IInv /\ LlmApologise => IInv'
  <1> SUFFICES ASSUME IInv, LlmApologise PROVE IInv'
    OBVIOUS
  <1>1. LlmSend("sentence", "end")
    BY DEF LlmApologise
  <1>2. PICK u \in Utterances, msg \in TtsMsg :
            /\ u = llmFor /\ msg = [kind |-> "sentence", of |-> u]
            /\ llmPc' \in {"end", "exited"} /\ llmFor' \in {0, llmFor}
            /\ llmFor' = 0 <=> llmPc' \in {"select", "exited"}
            /\ prompts' \in Seq(Utterances) /\ NoRepeat(prompts')
            /\ Queued(prompts') \subseteq Queued(prompts)
            /\ tok' \in Seq(TtsMsg) /\ EndsLast(tok')
            /\ Queued(tok') \subseteq Queued(tok) \cup {msg}
    BY <1>1, LlmSent DEF LlmApologise, TokenKinds
  <1>3. /\ llmTokens' \in 0..MaxTokens
        /\ UNCHANGED <<input, transcripts, router, calls, outcomes, bus, tts,
                       chunks, sink>>
    BY <1>1 DEF LlmApologise, LlmSend, TypeOK
  <1>4. TypeOK'
    BY <1>2, <1>3 DEF TypeOK
  <1>5. Control'
    BY <1>2, <1>3 DEF Control
  <1>6. msg.kind # "end" /\ msg.of = u
    BY <1>2 DEF TokenKinds
  <1> QED BY <1>2, <1>3, <1>4, <1>5, <1>6, SpeakStep

\* The LLM stage ends its answer, or finds the TTS stage gone.
LEMMA LlmEndStep == IInv /\ LlmEnd => IInv'
  <1> SUFFICES ASSUME IInv, LlmEnd PROVE IInv'
    OBVIOUS
  <1>1. LlmSend("end", "select")
    BY DEF LlmEnd
  <1>2. PICK u \in Utterances, msg \in TtsMsg :
            /\ u = llmFor /\ msg = [kind |-> "end", of |-> u]
            /\ llmPc' \in {"select", "exited"} /\ llmFor' \in {0, llmFor}
            /\ llmFor' = 0 <=> llmPc' \in {"select", "exited"}
            /\ prompts' \in Seq(Utterances) /\ NoRepeat(prompts')
            /\ Queued(prompts') \subseteq Queued(prompts)
            /\ tok' \in Seq(TtsMsg) /\ EndsLast(tok')
            /\ Queued(tok') \subseteq Queued(tok) \cup {msg}
    BY <1>1, LlmSent DEF LlmEnd, TokenKinds
  <1>3. /\ llmTokens' \in 0..MaxTokens
        /\ UNCHANGED <<input, transcripts, router, calls, outcomes, bus, tts,
                       chunks, sink>>
    BY <1>1 DEF LlmEnd, LlmSend, TypeOK
  <1>4. TypeOK'
    BY <1>2, <1>3 DEF TypeOK
  <1>5. Control'
    BY <1>2, <1>3 DEF Control
  <1>6. routerFor' # u /\ llmFor' # u
    BY <1>2, <1>3 DEF OneProducer
  <1>7. routerPc' # "exited" => routerPc # "exited"
    BY <1>3
  <1> QED BY <1>2, <1>3, <1>4, <1>5, <1>6, <1>7, SpeakStep

\* A dispatch task delivers its reply, or finds the router gone.
LEMMA DispatchReturnStep ==
    ASSUME NEW u \in Utterances PROVE IInv /\ DispatchReturn(u) => IInv'
  <1> SUFFICES ASSUME IInv, DispatchReturn(u) PROVE IInv'
    OBVIOUS
  <1>1. /\ calls[u] \in {"running", "cancelled"} /\ Awaited(u) /\ Producing(u)
        /\ calls' = [calls EXCEPT ![u] = "returned"]
        /\ \A o \in Queued(outcomes) : o.of # u
        /\ u <= epoch
        /\ UNCHANGED <<input, transcripts, router, prompts, llm, tok, bus, tts,
                       chunks, sink>>
    BY DEF DispatchReturn, Awaited, Producing, OneProducer, FutureBlank, TypeOK
  <1>2. /\ outcomes' \in Seq(Outcome) /\ Distinct(outcomes')
        /\ \A o \in Queued(outcomes') : o \in Queued(outcomes) \/ o.of = u
        /\ Queued(outcomes) \subseteq Queued(outcomes')
        /\ routerPc # "exited" => \E o \in Queued(outcomes') : o.of = u
    <2>1. outcomes \in Seq(Outcome) /\ Distinct(outcomes)
      BY DEF TypeOK, OneProducer
    <2>2. ASSUME NEW r \in Results,
                 outcomes' = Append(outcomes, [result |-> r, of |-> u])
          PROVE  <1>2!:
      <3> DEFINE e == [result |-> r, of |-> u]
      <3>1. e \in Outcome /\ e.of = u
        BY DEF Outcome
      <3> HIDE DEF e
      <3>2. outcomes' = Append(outcomes, e)
        BY <2>2 DEF e
      <3>3. outcomes' \in Seq(Outcome) /\ Queued(outcomes') = Queued(outcomes) \cup {e}
        BY <2>1, <3>1, <3>2, Sent
      <3>4. Distinct(outcomes')
        BY <1>1, <2>1, <3>1, <3>2, SentOrder
      <3> QED BY <3>1, <3>3, <3>4
    <2>3. CASE UNCHANGED outcomes /\ routerPc = "exited"
      BY <2>1, <2>3
    <2> QED BY <2>2, <2>3 DEF DispatchReturn
  <1>3. \A v \in Utterances : /\ v # u => calls'[v] = calls[v]
                              /\ Producing(v)' => Producing(v)
                              /\ Awaited(v)' => Awaited(v)
                              /\ Speaking(v)' <=> Speaking(v)
    <2>1. \A v \in Utterances :
            calls'[v] \in {"running", "cancelled"} =>
                calls[v] \in {"running", "cancelled"}
      BY <1>1 DEF TypeOK
    <2>2. \A v \in Utterances : (\E o \in Queued(outcomes') : o.of = v) =>
            (\E o \in Queued(outcomes) : o.of = v) \/ v = u
      BY <1>2
    <2>3. \A v \in Utterances : Speaking(v)' <=> Speaking(v)
      BY <1>1 DEF Speaking
    <2> QED BY <1>1, <2>1, <2>2, <2>3 DEF Producing, Awaited, TypeOK
  <1>4. TypeOK'
    BY <1>1, <1>2 DEF TypeOK
  <1>5. Control' /\ Arrivals' /\ DroppedIsPast'
    BY <1>1 DEF Control, Arrivals, DroppedIsPast
  <1>6. PendingAwaited'
    <2> SUFFICES ASSUME pending # 0, routerPc # "exited" PROVE Awaited(pending)'
      BY <1>1 DEF PendingAwaited
    <2>1. Awaited(pending) /\ pending \in Utterances
      BY DEF PendingAwaited, TypeOK
    <2>2. CASE pending = u
      BY <1>1, <1>2, <2>2 DEF Awaited
    <2>3. CASE pending # u
      BY <1>1, <1>2, <1>3, <2>1, <2>3 DEF Awaited
    <2> QED BY <2>2, <2>3
  <1>7. FutureBlank'
    BY <1>1, <1>3 DEF FutureBlank, TypeOK
  <1>8. OneProducer'
    <2>1. ASSUME NEW v \in Utterances, calls'[v] \in {"running", "cancelled"}
          PROVE  \A o \in Queued(outcomes') : o.of # v
      BY <1>1, <1>2, <1>3, <2>1 DEF OneProducer, TypeOK
    <2>2. ASSUME NEW v \in Utterances
          PROVE  /\ Awaited(v)' => /\ routerFor' # v /\ llmFor' # v
                                   /\ v \notin Queued(prompts')
                                   /\ ~Speaking(v)' /\ v \notin ended'
                 /\ routerFor' = v => llmFor' # v /\ v \notin Queued(prompts')
                 /\ v \in Queued(prompts') => llmFor' # v
      BY <1>1, <1>3 DEF OneProducer
    <2>3. NoRepeat(prompts)' /\ Distinct(outcomes)'
      BY <1>1, <1>2 DEF OneProducer
    <2> QED BY <2>1, <2>2, <2>3 DEF OneProducer
  <1>9. EndIsLast'
    BY <1>1, <1>3, Members DEF EndIsLast, TypeOK
  <1>10. DoneIsFinal' /\ SupersededSkillIsSilent'
    BY <1>1, <1>3 DEF DoneIsFinal, SupersededSkillIsSilent, TypeOK
  <1> QED BY <1>4, <1>5, <1>6, <1>7, <1>8, <1>9, <1>10

\* The format is declared to the sink, or the synthesis fails.
LEMMA TtsSynthesizeStep == IInv /\ TtsSynthesize => IInv'
  <1> SUFFICES ASSUME IInv, TtsSynthesize PROVE IInv'
    OBVIOUS
  <1>1. PICK e \in SinkMsg : e = [kind |-> "format", of |-> ttsSentence]
    BY DEF SinkMsg, TypeOK
  <1>2. /\ chunks \in Seq(SinkMsg) /\ EndsLastSet(chunks)
        /\ e.of = ttsSentence /\ e.kind # "end"
        /\ \A c \in Queued(chunks) : c.kind = "end" => c.of \cap e.of = {}
    BY <1>1 DEF TypeOK, EndIsLast
  <1>3. /\ ttsPc \notin {"select", "exited", "end"}
        /\ \/ ttsPc' = "stream" /\ ttsSentence' = ttsSentence
           \/ ttsPc' = "end" /\ ttsEnd # 0 /\ ttsSentence' = {}
           \/ ttsPc' = "select" /\ ttsEnd = 0 /\ ttsSentence' = {}
        /\ ttsChunks' \in 0..MaxChunks
        /\ chunks' = chunks \/ chunks' = Append(chunks, e)
    BY <1>1 DEF TtsSynthesize, FlushReturns, AfterFlush, TypeOK
  <1>4. /\ chunks' \in Seq(SinkMsg) /\ EndsLastSet(chunks')
        /\ Queued(chunks') \subseteq Queued(chunks) \cup {e}
    <2>1. CASE chunks' = Append(chunks, e)
      <3>1. chunks' \in Seq(SinkMsg) /\ Queued(chunks') = Queued(chunks) \cup {e}
        BY <1>2, <2>1, Sent
      <3>2. EndsLastSet(chunks')
        BY <1>2, <2>1, SentOrder
      <3> QED BY <3>1, <3>2
    <2> QED BY <1>2, <1>3, <2>1
  <1>5. TypeOK'
    <2>1. ttsPc' \in {"select", "stream", "end"} /\ ttsSentence' \subseteq Utterances
      BY <1>3 DEF TypeOK
    <2> QED BY <1>3, <1>4, <2>1 DEF TtsSynthesize, TypeOK
  <1>6. Control'
    BY <1>3 DEF TtsSynthesize, Control
  <1>7. \A c \in Queued(chunks') :
            c \in Queued(chunks) \/ (c.kind # "end" /\ c.of = ttsSentence)
    BY <1>2, <1>4
  <1>8. ttsSentence' \subseteq ttsSentence
    BY <1>3
  <1> QED BY <1>4, <1>5, <1>6, <1>7, <1>8, ShrinkStep DEF TtsSynthesize, EndIsLast

\* A chunk is sent to the sink, or the sink is gone.
LEMMA TtsSendChunkStep == IInv /\ TtsSendChunk => IInv'
  <1> SUFFICES ASSUME IInv, TtsSendChunk PROVE IInv'
    OBVIOUS
  <1>1. PICK e \in SinkMsg : e = [kind |-> "chunk", of |-> ttsSentence]
    BY DEF SinkMsg, TypeOK
  <1>2. /\ chunks \in Seq(SinkMsg) /\ EndsLastSet(chunks)
        /\ e.of = ttsSentence /\ e.kind # "end"
        /\ \A c \in Queued(chunks) : c.kind = "end" => c.of \cap e.of = {}
    BY <1>1 DEF TypeOK, EndIsLast
  <1>3. /\ ttsPc \notin {"select", "exited", "end"}
        /\ \/ ttsPc' = "stream" /\ ttsSentence' = ttsSentence
           \/ ttsPc' = "end" /\ ttsEnd # 0 /\ ttsSentence' = {}
           \/ ttsPc' = "select" /\ ttsEnd = 0 /\ ttsSentence' = {}
        /\ ttsChunks' \in 0..MaxChunks
        /\ chunks' = chunks \/ chunks' = Append(chunks, e)
    BY <1>1 DEF TtsSendChunk, FlushReturns, AfterFlush, TypeOK
  <1>4. /\ chunks' \in Seq(SinkMsg) /\ EndsLastSet(chunks')
        /\ Queued(chunks') \subseteq Queued(chunks) \cup {e}
    <2>1. CASE chunks' = Append(chunks, e)
      <3>1. chunks' \in Seq(SinkMsg) /\ Queued(chunks') = Queued(chunks) \cup {e}
        BY <1>2, <2>1, Sent
      <3>2. EndsLastSet(chunks')
        BY <1>2, <2>1, SentOrder
      <3> QED BY <3>1, <3>2
    <2> QED BY <1>2, <1>3, <2>1
  <1>5. TypeOK'
    <2>1. ttsPc' \in {"select", "stream", "end"} /\ ttsSentence' \subseteq Utterances
      BY <1>3 DEF TypeOK
    <2> QED BY <1>3, <1>4, <2>1 DEF TtsSendChunk, TypeOK
  <1>6. Control'
    BY <1>3 DEF TtsSendChunk, Control
  <1>7. \A c \in Queued(chunks') :
            c \in Queued(chunks) \/ (c.kind # "end" /\ c.of = ttsSentence)
    BY <1>2, <1>4
  <1>8. ttsSentence' \subseteq ttsSentence
    BY <1>3
  <1> QED BY <1>4, <1>5, <1>6, <1>7, <1>8, ShrinkStep DEF TtsSendChunk, EndIsLast

\* The end marker goes to the sink, or the TTS stage leaves with it.
LEMMA TtsSendEndStep == IInv /\ TtsSendEnd => IInv'
  <1> SUFFICES ASSUME IInv, TtsSendEnd PROVE IInv'
    OBVIOUS
  <1>1. /\ ttsEnd \in Utterances /\ ttsEnd # 0 /\ ttsEnd' = 0
        /\ ttsBuf = {} /\ ttsSentence = {} /\ ttsSentence' = {}
    BY DEF TtsSendEnd, Control, TypeOK
  <1>2. PICK e \in SinkMsg : e = [kind |-> "end", of |-> {ttsEnd}]
    BY <1>1 DEF SinkMsg
  <1>3. /\ chunks \in Seq(SinkMsg) /\ EndsLastSet(chunks) /\ e.of = {ttsEnd}
        /\ tok \in Seq(TtsMsg) /\ EndsLast(tok) /\ bus \in Seq(Utterances)
        /\ \A c \in Queued(chunks) : c.kind = "end" => c.of \cap e.of = {}
    BY <1>1, <1>2 DEF TypeOK, EndIsLast
  <1>4. /\ ttsPc' \in {"select", "exited"} /\ ttsBuf' = {}
        /\ tok' \in Seq(TtsMsg) /\ EndsLast(tok') /\ Queued(tok') \subseteq Queued(tok)
        /\ bus' \in Seq(Utterances)
        /\ chunks' \in Seq(SinkMsg) /\ EndsLastSet(chunks')
        /\ Queued(chunks') \subseteq Queued(chunks) \cup {e}
    <2>1. CASE chunks' = Append(chunks, e) /\ ttsPc' = "select"
               /\ UNCHANGED <<tok, bus, ttsBuf>>
      <3>1. chunks' \in Seq(SinkMsg) /\ Queued(chunks') = Queued(chunks) \cup {e}
        BY <1>3, <2>1, Sent
      <3>2. EndsLastSet(chunks')
        BY <1>3, <2>1, SentOrder
      <3> QED BY <1>1, <1>3, <2>1, <3>1, <3>2
    <2>2. CASE TtsLeave /\ UNCHANGED chunks
      BY <1>3, <2>2, Empty DEF TtsLeave, EndsLast
    <2> QED BY <1>2, <2>1, <2>2 DEF TtsSendEnd
  <1>5. TypeOK'
    BY <1>1, <1>4 DEF TtsSendEnd, TypeOK
  <1>6. Control'
    BY <1>1, <1>4 DEF TtsSendEnd, Control
  <1>7. \A c \in Queued(chunks') : c \in Queued(chunks) \/ c.of = {ttsEnd}
    BY <1>3, <1>4
  <1> QED BY <1>1, <1>4, <1>5, <1>6, <1>7, ShrinkStep DEF TtsSendEnd

\* A transcript arrives behind the ones already queued.
LEMMA HearStep == IInv /\ Hear => IInv'
  <1> SUFFICES ASSUME IInv, Hear PROVE IInv'
    OBVIOUS
  <1>1. /\ transcripts \in Seq(Utterances \cup {Partial}) /\ heard \in 0..MaxUtterances
        /\ UNCHANGED <<cancelled, inputClosed, router, calls, outcomes, prompts,
                       llm, tok, bus, tts, chunks, sink>>
    BY DEF Hear, TypeOK
  <1>2. \E e \in Utterances \cup {Partial} :
            /\ transcripts' = Append(transcripts, e)
            /\ \/ e = heard + 1 /\ heard' = heard + 1 /\ e # Partial
               \/ e = Partial /\ heard' = heard
            /\ heard' \in 0..MaxUtterances /\ partials' \in 0..MaxPartials
    <2>1. CASE /\ heard < MaxUtterances /\ heard' = heard + 1
               /\ transcripts' = Append(transcripts, heard + 1)
               /\ UNCHANGED partials
      <3>1. heard + 1 \in Utterances /\ heard + 1 # Partial
        BY <1>1, <2>1 DEF Partial
      <3> QED BY <1>1, <2>1, <3>1 DEF TypeOK
    <2>2. CASE /\ partials < MaxPartials /\ partials' = partials + 1
               /\ transcripts' = Append(transcripts, Partial)
               /\ UNCHANGED heard
      <3>1. Partial \in Utterances \cup {Partial} /\ partials' \in 0..MaxPartials
        BY <2>2 DEF TypeOK
      <3> QED BY <1>1, <2>2, <3>1
    <2> QED BY <2>1, <2>2 DEF Hear
  <1>3. TypeOK'
    <2>1. transcripts' \in Seq(Utterances \cup {Partial})
      BY <1>1, <1>2, Sent
    <2> QED BY <1>1, <1>2, <2>1, SMTT(20) DEF TypeOK
  <1>4. Control' /\ Arrivals' /\ PendingAwaited' /\ DroppedIsPast'
    <2>1. PICK e \in Utterances \cup {Partial} :
            /\ transcripts' = Append(transcripts, e)
            /\ \/ e = heard + 1 /\ heard' = heard + 1 /\ e # Partial
               \/ e = Partial /\ heard' = heard
            /\ heard' \in 0..MaxUtterances
      BY <1>2
    <2> DEFINE n == Len(transcripts)
    <2>2. /\ DOMAIN transcripts = 1..n /\ DOMAIN transcripts' = 1..(n + 1)
          /\ n \in Nat /\ transcripts'[n + 1] = e
          /\ \A i \in 1..n : transcripts'[i] = transcripts[i]
      BY <1>1, <2>1, Sent
    <2> HIDE DEF n
    <2>3. \A i \in 1..n : transcripts[i] # Partial =>
            epoch < transcripts[i] /\ transcripts[i] <= heard
            /\ transcripts[i] \in Utterances
      BY <1>1, <2>2 DEF Arrivals
    <2>4. epoch \in Nat /\ epoch <= heard /\ epoch' = epoch /\ heard <= heard'
      BY <1>1, <2>1 DEF Arrivals, TypeOK
    <2>5. ASSUME NEW i \in 1..(n + 1), transcripts'[i] # Partial
          PROVE  epoch' < transcripts'[i] /\ transcripts'[i] <= heard'
      <3>1. CASE i = n + 1
        BY <1>1, <2>1, <2>2, <2>4, <2>5, <3>1
      <3>2. CASE i \in 1..n
        BY <1>1, <2>1, <2>2, <2>3, <2>4, <2>5, <3>2
      <3> QED BY <2>2, <3>1, <3>2
    <2>6. ASSUME NEW i \in 1..(n + 1), NEW j \in 1..(n + 1), i < j,
                 transcripts'[i] # Partial, transcripts'[j] # Partial
          PROVE  transcripts'[i] < transcripts'[j]
      <3>1. i \in 1..n
        BY <2>2, <2>6
      <3>2. CASE j = n + 1
        BY <1>1, <2>1, <2>2, <2>3, <2>6, <3>1, <3>2
      <3>3. CASE j \in 1..n
        BY <2>2, <2>6, <3>1, <3>3 DEF Arrivals
      <3> QED BY <2>2, <3>2, <3>3
    <2>7. Arrivals'
      BY <1>1, <2>1, <2>2, <2>4, <2>5, <2>6 DEF Arrivals
    <2> QED BY <1>1, <2>7 DEF Control, PendingAwaited, DroppedIsPast, Awaited
  <1>5. FutureBlank'
    BY <1>1 DEF FutureBlank, Producing, Speaking
  <1>6. OneProducer'
    BY <1>1 DEF OneProducer, Awaited, Speaking
  <1>7. EndIsLast'
    BY <1>1 DEF EndIsLast, Producing
  <1>8. DoneIsFinal' /\ SupersededSkillIsSilent'
    BY <1>1 DEF DoneIsFinal, SupersededSkillIsSilent, Producing, Speaking
  <1> QED BY <1>3, <1>4, <1>5, <1>6, <1>7, <1>8

\* The router takes a final transcript: what was pending is superseded, and
\* the new utterance goes to a skill or to the LLM.
LEMMA RouterFinalStep ==
    ASSUME NEW route \in Routes PROVE IInv /\ RouterFinal(route) => IInv'
  <1> SUFFICES ASSUME IInv, RouterFinal(route) PROVE IInv'
    OBVIOUS
  <1>0. PICK n \in Nat : n = epoch + 1
    BY DEF TypeOK
  <1>1. /\ epoch' = n /\ priorWork' = FALSE /\ transcripts' = Tail(transcripts)
        /\ routerPc = "select" /\ routerFor = 0
        /\ dropped' = dropped \cup ({pending} \ {0})
        /\ transcripts # <<>> /\ Head(transcripts) # Partial
        /\ UNCHANGED <<input, rxClosed, outcomes, prompts, llm, tok, tts,
                       chunks, sink>>
    BY <1>0 DEF RouterFinal, Control
  <1>2. /\ n \in Utterances /\ n # 0 /\ epoch \in Nat /\ Arrivals'
        /\ transcripts' \in Seq(Utterances \cup {Partial})
    <2> DEFINE k == Len(transcripts)
    <2>1. /\ k \in Nat \ {0} /\ DOMAIN transcripts = 1..k
          /\ DOMAIN transcripts' = 1..(k - 1) /\ Head(transcripts) = transcripts[1]
          /\ Head(transcripts) \in Utterances \cup {Partial}
          /\ \A i \in 1..(k - 1) : transcripts'[i] = transcripts[i + 1]
          /\ transcripts' \in Seq(Utterances \cup {Partial})
      BY <1>1, Received DEF TypeOK
    <2> HIDE DEF k
    <2>2. 1 \in 1..k /\ \A i \in 1..(k - 1) : i + 1 \in 1..k /\ 1 < i + 1
      BY <2>1
    <2>3. transcripts[1] \in Utterances /\ epoch < transcripts[1]
          /\ transcripts[1] <= heard
      BY <1>1, <2>1, <2>2 DEF Arrivals
    <2>4. n \in Utterances /\ n # 0 /\ epoch \in Nat /\ n <= heard
          /\ n <= transcripts[1]
      BY <1>0, <2>3 DEF TypeOK
    <2>5. ASSUME NEW i \in 1..(k - 1), transcripts'[i] # Partial
          PROVE  n < transcripts'[i] /\ transcripts'[i] <= heard
      <3>1. transcripts[1] < transcripts[i + 1] /\ transcripts[i + 1] <= heard
        BY <1>1, <2>1, <2>2, <2>5 DEF Arrivals
      <3>2. transcripts[i + 1] \in Utterances
        BY <2>1, <2>2, <2>5 DEF TypeOK
      <3> QED BY <2>1, <2>3, <2>4, <3>1, <3>2
    <2>6. ASSUME NEW i \in 1..(k - 1), NEW j \in 1..(k - 1), i < j,
                 transcripts'[i] # Partial, transcripts'[j] # Partial
          PROVE  transcripts'[i] < transcripts'[j]
      <3>1. i + 1 < j + 1
        BY <2>6
      <3> QED BY <2>1, <2>2, <2>6, <3>1 DEF Arrivals
    <2>7. Arrivals'
      BY <1>1, <2>1, <2>4, <2>5, <2>6 DEF Arrivals
    <2> QED BY <2>1, <2>4, <2>7
  <1>3. /\ calls[n] = "none" /\ n \notin ended /\ n \notin dropped
        /\ ~Producing(n) /\ ~Speaking(n) /\ pending # n
    BY <1>0, <1>2 DEF FutureBlank, TypeOK
  <1>4. /\ CancelPending \in [Utterances ->
                                {"none", "running", "cancelled", "returned"}]
        /\ \A v \in Utterances : CancelPending[v] \in {"running", "cancelled"}
                                    <=> calls[v] \in {"running", "cancelled"}
        /\ CancelPending[n] = "none"
    BY <1>2, <1>3 DEF CancelPending, TypeOK
  <1> DEFINE Kept == \A v \in Utterances \ {n} :
                        calls'[v] \in {"running", "cancelled"}
                            <=> calls[v] \in {"running", "cancelled"}
  <1>5. /\ calls' \in [Utterances -> {"none", "running", "cancelled", "returned"}]
        /\ Kept
        /\ \/ /\ pending' = n /\ calls'[n] = "running"
              /\ routerPc' = "select" /\ routerFor' = 0
           \/ /\ pending' = 0 /\ calls'[n] = "none"
              /\ routerPc' = "toLlm" /\ routerFor' = n
    <2>1. CASE route = "dispatch"
      <3>1. /\ pending' = n /\ routerPc' = "select" /\ routerFor' = 0
            /\ calls' = [CancelPending EXCEPT ![n] = "running"]
        BY <1>0, <1>1, <2>1 DEF RouterFinal
      <3> QED BY <1>2, <1>4, <3>1
    <2>2. CASE route # "dispatch"
      <3>1. /\ pending' = 0 /\ routerPc' = "toLlm" /\ routerFor' = n
            /\ calls' = CancelPending
        BY <1>0, <2>2 DEF RouterFinal
      <3> QED BY <1>2, <1>4, <3>1
    <2> QED BY <2>1, <2>2
  <1>6. bus' \in Seq(Utterances)
    <2>1. bus \in Seq(Utterances) /\ (bus' = bus \/ bus' = Append(bus, n))
      BY <1>0 DEF RouterFinal, TypeOK
    <2> QED BY <1>2, <2>1, Sent
  <1> HIDE DEF Kept
  <1>7. /\ \A v : Speaking(v)' <=> Speaking(v)
        /\ \A v \in Utterances : v # n => /\ Awaited(v)' <=> Awaited(v)
                                          /\ Producing(v)' <=> Producing(v)
        /\ Awaited(n)' => calls'[n] = "running" /\ routerFor' = 0
    <2>1. \A v : Speaking(v)' <=> Speaking(v)
      BY <1>1 DEF Speaking
    <2>2. \A v \in Utterances : v # n => (Awaited(v)' <=> Awaited(v))
      BY <1>1, <1>5 DEF Awaited, Kept
    <2>3. \A v \in Utterances : v # n => (Producing(v)' <=> Producing(v))
      BY <1>1, <1>5 DEF Producing, Kept
    <2>4. Awaited(n)' => calls'[n] = "running" /\ routerFor' = 0
      <3>1. \A o \in Queued(outcomes') : o.of # n
        BY <1>1, <1>3 DEF Producing
      <3> QED BY <1>5, <3>1 DEF Awaited
    <2> QED BY <2>1, <2>2, <2>3, <2>4
  <1>8. pending # 0 => Awaited(pending) /\ pending \in Utterances /\ pending < n
    BY <1>0, <1>1 DEF PendingAwaited, TypeOK, FutureBlank
  <1>9. TypeOK'
    <2>1. dropped' \subseteq Utterances
      BY <1>1, <1>8 DEF TypeOK
    <2>2. epoch' \in 0..MaxUtterances /\ pending' \in 0..MaxUtterances
          /\ routerFor' \in 0..MaxUtterances /\ routerPc' \in {"select", "toLlm"}
      BY <1>1, <1>2, <1>5
    <2>3. priorWork' \in BOOLEAN
      BY <1>1
    <2> QED BY <1>1, <1>2, <1>5, <1>6, <2>1, <2>2, <2>3 DEF TypeOK
  <1>10. Control'
    BY <1>1, <1>2, <1>5 DEF Control
  <1>11. PendingAwaited'
    BY <1>2, <1>5 DEF PendingAwaited, Awaited
  <1>12. DroppedIsPast'
    BY <1>0, <1>1, <1>8 DEF DroppedIsPast, TypeOK
  <1>13. FutureBlank'
    <2>1. pending' <= epoch'
      BY <1>1, <1>2, <1>5
    <2>2. ASSUME NEW u \in Utterances, u > n
          PROVE  /\ calls'[u] = "none" /\ u \notin ended' /\ u \notin dropped'
                 /\ ~Producing(u)' /\ ~Speaking(u)'
      <3>1. /\ u > epoch /\ u # n /\ u # pending
        BY <1>0, <1>2, <1>8, <2>2
      <3>2. /\ calls[u] = "none" /\ u \notin ended /\ u \notin dropped
            /\ ~Producing(u) /\ ~Speaking(u)
        BY <3>1 DEF FutureBlank
      <3>3. calls'[u] = "none"
        BY <1>0, <1>2, <3>1, <3>2 DEF RouterFinal, CancelPending, TypeOK
      <3> QED BY <1>1, <1>7, <3>1, <3>2, <3>3
    <2> QED BY <1>1, <2>1, <2>2 DEF FutureBlank
  <1>14. OneProducer'
    <2>1. Distinct(outcomes)' /\ NoRepeat(prompts)'
      BY <1>1 DEF OneProducer
    <2>2. ASSUME NEW u \in Utterances
          PROVE  /\ calls'[u] \in {"running", "cancelled"}
                        => \A o \in Queued(outcomes') : o.of # u
                 /\ Awaited(u)' => /\ routerFor' # u /\ llmFor' # u
                                   /\ u \notin Queued(prompts')
                                   /\ ~Speaking(u)' /\ u \notin ended'
                 /\ routerFor' = u => llmFor' # u /\ u \notin Queued(prompts')
                 /\ u \in Queued(prompts') => llmFor' # u
      <3>1. CASE u = n
        <4>1. /\ \A o \in Queued(outcomes) : o.of # n
              /\ n \notin Queued(prompts) /\ llmFor # n
          BY <1>3 DEF Producing
        <4> QED BY <1>1, <1>2, <1>3, <1>7, <3>1, <4>1
      <3>2. CASE u # n
        <4>1. /\ calls'[u] \in {"running", "cancelled"}
                    <=> calls[u] \in {"running", "cancelled"}
              /\ routerFor' # u
          BY <1>5, <3>2 DEF Kept
        <4> QED BY <1>1, <1>7, <3>2, <4>1 DEF OneProducer
      <3> QED BY <3>1, <3>2
    <2> QED BY <2>1, <2>2 DEF OneProducer
  <1>15. EndIsLast'
    <2>1. /\ \A m \in Queued(tok) : m.of # n
          /\ ttsEnd # n /\ \A c \in Queued(chunks) : n \notin c.of
      BY <1>3 DEF Speaking
    <2>2. \A m \in Queued(tok) : m.kind = "end" => ~Producing(m.of)'
      BY <1>7, <2>1, Members DEF EndIsLast
    <2>3. ttsEnd # 0 => ~Producing(ttsEnd)'
      <3>1. ttsEnd # 0 => ttsEnd \in Utterances /\ ~Producing(ttsEnd)
        BY DEF EndIsLast, TypeOK
      <3> QED BY <1>1, <1>7, <2>1, <3>1
    <2>4. \A c \in Queued(chunks) : c.kind = "end" =>
            \A u \in c.of : ~Producing(u)'
      BY <1>7, <2>1, Members DEF EndIsLast
    <2> QED BY <1>1, <2>2, <2>3, <2>4 DEF EndIsLast
  <1>16. DoneIsFinal'
    BY <1>1, <1>3, <1>7 DEF DoneIsFinal, TypeOK
  <1>17. SupersededSkillIsSilent'
    <2> SUFFICES ASSUME NEW u \in dropped'
                 PROVE  /\ ~Speaking(u)' /\ u \notin ended'
                        /\ routerFor' # u /\ llmFor' # u
                        /\ u \notin Queued(prompts')
      BY DEF SupersededSkillIsSilent
    <2>1. u \in Utterances /\ u # n /\ u # 0
      BY <1>1, <1>3, <1>8, <1>9 DEF TypeOK
    <2>2. ~Speaking(u) /\ u \notin ended /\ llmFor # u /\ u \notin Queued(prompts)
      <3>1. CASE u \in dropped
        BY <3>1 DEF SupersededSkillIsSilent
      <3>2. CASE u = pending /\ pending # 0
        BY <1>8, <3>2 DEF OneProducer
      <3> QED BY <1>1, <3>1, <3>2
    <2> QED BY <1>1, <1>5, <1>7, <2>1, <2>2
  <1> QED BY <1>2, <1>9, <1>10, <1>11, <1>12, <1>13, <1>14, <1>15, <1>16, <1>17

\* The initial state satisfies the invariant: every channel is empty.
LEMMA InitStep == Init => IInv
  <1> SUFFICES ASSUME Init PROVE IInv
    OBVIOUS
  <1>1. /\ Queued(transcripts) = {} /\ Queued(outcomes) = {}
        /\ Queued(prompts) = {} /\ Queued(tok) = {} /\ Queued(chunks) = {}
    BY Empty DEF Init
  <1>2. TypeOK
    <2>1. /\ transcripts \in Seq(Utterances \cup {Partial})
          /\ outcomes \in Seq(Outcome) /\ prompts \in Seq(Utterances)
          /\ tok \in Seq(TtsMsg) /\ bus \in Seq(Utterances)
          /\ chunks \in Seq(SinkMsg)
      BY Empty DEF Init
    <2>2. /\ cancelled \in BOOLEAN /\ inputClosed \in BOOLEAN
          /\ rxClosed \in BOOLEAN /\ priorWork \in BOOLEAN
          /\ metaSent \in BOOLEAN /\ answerDone \in BOOLEAN
      BY Zenon DEF Init
    <2> QED BY <2>1, <2>2 DEF Init, TypeOK
  <1>3. Control /\ Arrivals /\ PendingAwaited /\ DroppedIsPast
    BY DEF Init, Control, Arrivals, PendingAwaited, DroppedIsPast
  <1>4. \A u \in Utterances : /\ calls[u] = "none" /\ ~Awaited(u)
                              /\ ~Producing(u) /\ ~Speaking(u)
    BY <1>1 DEF Init, Awaited, Producing, Speaking
  <1>5. FutureBlank
    BY <1>4 DEF Init, FutureBlank
  <1>6. OneProducer
    BY <1>1, <1>4 DEF Init, OneProducer, Distinct, NoRepeat
  <1>7. EndIsLast
    BY <1>1 DEF Init, EndIsLast, EndsLast, EndsLastSet
  <1>8. DoneIsFinal /\ SupersededSkillIsSilent
    BY DEF Init, DoneIsFinal, SupersededSkillIsSilent
  <1> QED BY <1>2, <1>3, <1>5, <1>6, <1>7, <1>8

\* A stuttering step changes nothing the invariant speaks of.
LEMMA StutterStep == IInv /\ UNCHANGED vars => IInv'
  <1> SUFFICES ASSUME IInv, UNCHANGED vars PROVE IInv'
    OBVIOUS
  <1>1. TypeOK'
    BY DEF vars, TypeOK
  <1>2. Control'
    BY DEF vars, Control
  <1> QED BY <1>1, <1>2, ShrinkStep DEF vars, EndIsLast

\* The invariant is inductive.
THEOREM Inductive == Spec => []IInv
  <1>1. ASSUME IInv, Next PROVE IInv'
    <2>1. CASE Environment
      BY <1>1, <2>1, HearStep, CancelStep, DropInputsStep, BusLagStep,
         TtsHangsStep, SinkSticksStep DEF Environment
    <2>2. CASE Router
      BY <1>1, <2>2, RouterFinalStep, RouterPartialStep, RouterInputClosedStep,
         RouterOutcomeStep, RouterSendPromptStep, RouterSendSpeechStep,
         RouterSendEndStep, RouterExitStep DEF Router
    <2>3. CASE Llm
      BY <1>1, <2>3, LlmTakeStep, LlmProgressStep, LlmTokenStep,
         LlmApologiseStep, LlmEndStep, LlmExitStep DEF Llm
    <2>4. CASE Tts
      BY <1>1, <2>4, TtsBargeInStep, TtsIdleFlushStep, TtsTokenStep,
         TtsAnswerEndStep, TtsSynthesizeStep, TtsAbortStep, TtsAudioStep,
         TtsSendChunkStep, TtsSendEndStep, TtsExitStep DEF Tts
    <2>5. CASE Sink
      BY <1>1, <2>5, SinkFormatStep, SinkChunkStep, SinkAnswerEndStep,
         SinkTeardownStep DEF Sink
    <2>6. CASE \E u \in Utterances : DispatchReturn(u)
      BY <1>1, <2>6, DispatchReturnStep
    <2> QED BY <1>1, <2>1, <2>2, <2>3, <2>4, <2>5, <2>6 DEF Next
  <1>2. IInv /\ [Next]_vars => IInv'
    BY <1>1, StutterStep
  <1> QED BY <1>2, InitStep, PTL DEF Spec

\* Every variable keeps its type, for any number of utterances and any
\* channel capacities.
THEOREM TypeCorrect == Spec => []TypeOK
  <1>1. IInv => TypeOK
    OBVIOUS
  <1> QED BY <1>1, Inductive, PTL

\* The `done` that sink.rs publishes for an AnswerEnd is the last the satellite
\* hears of that answer: nothing of it is left in any stage or channel.
THEOREM AnswerEndsOnce == Spec => []DoneIsFinal
  <1>1. IInv => DoneIsFinal
    OBVIOUS
  <1> QED BY <1>1, Inductive, PTL

\* handle_outcome's epoch check keeps every superseded skill reply from the LLM,
\* the TTS stage and the sink.
THEOREM SupersededIsSilent == Spec => []SupersededSkillIsSilent
  <1>1. IInv => SupersededSkillIsSilent
    OBVIOUS
  <1> QED BY <1>1, Inductive, PTL

-----------------------------------------------------------------------------
(* What the satellite hears *)

\* While the sink takes messages an audio chunk stands behind its format, unless
\* meta is already out.
ChunksDeclared ==
    \A i \in DOMAIN chunks : sinkPc = "select" /\ chunks[i].kind = "chunk" =>
        metaSent \/ \E j \in DOMAIN chunks : j < i /\ chunks[j].kind = "format"

\* While audio is streamed its format is in the channel, or meta is out.
StreamDeclared ==
    ttsPc \in {"stream", "chunk"} /\ sinkPc = "select" =>
        metaSent \/ \E j \in DOMAIN chunks : chunks[j].kind = "format"

\* answer_done is set only by the `done` that was published last.
DoneRecorded == (answerDone \/ sinkPc = "exited") => lastOut = "done"

OInv == ChunksDeclared /\ StreamDeclared /\ DoneRecorded

\* Steps that neither touch the sink nor start or feed a stream keep OInv.
LEMMA QuietStep ==
    ASSUME OInv, UNCHANGED <<chunks, sink>>,
           ttsPc' \in {"stream", "chunk"} => ttsPc \in {"stream", "chunk"}
    PROVE  OInv'
  BY DEF OInv, ChunksDeclared, StreamDeclared, DoneRecorded

\* A send to the sink keeps the declarations made before it.
LEMMA SendStep ==
    ASSUME TypeOK, OInv, UNCHANGED sink,
           NEW e \in SinkMsg, chunks' = Append(chunks, e),
           e.kind = "chunk" => ttsPc = "chunk",
           ttsPc' \in {"stream", "chunk"} =>
                ttsPc \in {"stream", "chunk"} \/ e.kind = "format"
    PROVE  OInv'
  <1> DEFINE n == Len(chunks)
  <1>1. /\ n \in Nat /\ DOMAIN chunks = 1..n /\ DOMAIN chunks' = 1..(n + 1)
        /\ chunks'[n + 1] = e /\ \A i \in 1..n : chunks'[i] = chunks[i]
    BY Sent DEF TypeOK
  <1> HIDE DEF n
  <1>2. \A j \in DOMAIN chunks : j \in DOMAIN chunks' /\ chunks'[j] = chunks[j]
    BY <1>1
  <1>3. ChunksDeclared'
    <2> SUFFICES ASSUME NEW i \in DOMAIN chunks', chunks'[i].kind = "chunk",
                        sinkPc = "select", ~metaSent
                 PROVE  \E j \in DOMAIN chunks' : j < i /\ chunks'[j].kind = "format"
      BY DEF ChunksDeclared
    <2>1. CASE i \in DOMAIN chunks
      BY <1>2, <2>1 DEF OInv, ChunksDeclared
    <2>2. CASE i = n + 1
      <3>1. PICK j \in DOMAIN chunks : chunks[j].kind = "format"
        BY <1>1, <2>2 DEF OInv, StreamDeclared
      <3>2. j < i
        BY <1>1, <2>2
      <3> QED BY <1>2, <3>1, <3>2
    <2> QED BY <1>1, <2>1, <2>2
  <1>4. StreamDeclared'
    <2>1. CASE e.kind = "format"
      BY <1>1, <2>1 DEF StreamDeclared
    <2>2. CASE e.kind # "format"
      BY <1>2, <2>2 DEF OInv, StreamDeclared
    <2> QED BY <2>1, <2>2
  <1>5. DoneRecorded'
    BY DEF OInv, DoneRecorded
  <1> QED BY <1>3, <1>4, <1>5 DEF OInv

\* A receive by the sink keeps them too: a format at the head becomes meta.
LEMMA ReceiveStep ==
    ASSUME TypeOK, OInv, chunks # <<>>, chunks' = Tail(chunks),
           UNCHANGED <<ttsPc, sinkPc>>, metaSent => metaSent',
           Head(chunks).kind = "format" => metaSent', DoneRecorded'
    PROVE  OInv'
  <1> DEFINE n == Len(chunks)
  <1>1. /\ n \in Nat \ {0} /\ DOMAIN chunks = 1..n /\ DOMAIN chunks' = 1..(n - 1)
        /\ Head(chunks) = chunks[1]
        /\ \A i \in 1..(n - 1) : chunks'[i] = chunks[i + 1]
    BY Received DEF TypeOK
  <1> HIDE DEF n
  <1>2. ASSUME NEW j \in DOMAIN chunks, chunks[j].kind = "format", ~metaSent'
        PROVE  j - 1 \in DOMAIN chunks' /\ chunks'[j - 1].kind = "format"
    <2>1. j # 1
      BY <1>1, <1>2
    <2>2. j - 1 \in 1..(n - 1) /\ (j - 1) + 1 = j
      BY <1>1, <2>1
    <2> QED BY <1>1, <1>2, <2>2
  <1>3. ChunksDeclared'
    <2> SUFFICES ASSUME NEW i \in DOMAIN chunks', chunks'[i].kind = "chunk",
                        sinkPc = "select", ~metaSent'
                 PROVE  \E j \in DOMAIN chunks' : j < i /\ chunks'[j].kind = "format"
      BY DEF ChunksDeclared
    <2>1. i + 1 \in DOMAIN chunks /\ chunks[i + 1].kind = "chunk"
      BY <1>1
    <2>2. PICK j \in DOMAIN chunks : j < i + 1 /\ chunks[j].kind = "format"
      BY <2>1 DEF OInv, ChunksDeclared
    <2>3. j - 1 \in DOMAIN chunks' /\ chunks'[j - 1].kind = "format"
      BY <1>2, <2>2
    <2>4. j - 1 < i
      BY <1>1, <2>2
    <2> QED BY <2>3, <2>4
  <1>4. StreamDeclared'
    BY <1>2 DEF OInv, StreamDeclared
  <1> QED BY <1>3, <1>4 DEF OInv

\* The messages published to the satellite keep their order.
LEMMA OutputStep == IInv /\ OInv /\ [Next]_vars => OInv'
  <1> SUFFICES ASSUME IInv, OInv, [Next]_vars PROVE OInv'
    OBVIOUS
  <1> DEFINE Rest == \/ Hear \/ Cancel \/ DropInputs \/ BusLag \/ Router \/ Llm
                     \/ \E u \in Utterances : DispatchReturn(u)
  <1>1. CASE Rest \/ UNCHANGED vars
    <2>1. UNCHANGED <<chunks, sink, ttsPc>>
      BY <1>1 DEF Hear, Cancel, DropInputs, BusLag, Router,
         RouterFinal, RouterPartial, RouterInputClosed, RouterOutcome,
         RouterSendPrompt, RouterSendSpeech, RouterSendEnd, RouterExit, Llm,
         LlmTake, LlmProgress, LlmToken, LlmApologise, LlmEnd, LlmExit,
         LlmSend, DispatchReturn, vars
    <2> QED BY <2>1, QuietStep
  <1>2. CASE TtsBargeIn \/ TtsIdleFlush \/ TtsToken \/ TtsAnswerEnd \/ TtsAbort
             \/ TtsAudio \/ TtsExit \/ TtsHangs
    <2>1. /\ UNCHANGED <<chunks, sink>>
          /\ ttsPc' \in {"stream", "chunk"} => ttsPc \in {"stream", "chunk"}
      BY <1>2 DEF TtsBargeIn, TtsIdleFlush, TtsToken, TtsAnswerEnd, TtsAbort,
         TtsAudio, TtsExit, TtsHangs, TtsLeave, Flush, FlushReturns, AfterFlush
    <2> QED BY <2>1, QuietStep
  <1>3. CASE TtsSynthesize \/ TtsSendChunk \/ TtsSendEnd
    <2> DEFINE Send(e) == chunks' = Append(chunks, e) /\ sinkPc # "exited"
               F == [kind |-> "format", of |-> ttsSentence]
               C == [kind |-> "chunk", of |-> ttsSentence]
               E == [kind |-> "end", of |-> {ttsEnd}]
    <2>1. F \in SinkMsg /\ C \in SinkMsg /\ F.kind = "format" /\ C.kind = "chunk"
      BY DEF SinkMsg, TypeOK
    <2>2. UNCHANGED sink
      BY <1>3 DEF TtsSynthesize, TtsSendChunk, TtsSendEnd
    <2>3. \/ UNCHANGED chunks /\ ttsPc' \notin {"stream", "chunk"}
          \/ Send(F)
          \/ Send(C) /\ ttsPc = "chunk"
          \/ Send(E) /\ ttsPc' = "select" /\ ttsPc = "end"
      BY <1>3 DEF TtsSynthesize, TtsSendChunk, TtsSendEnd, FlushReturns,
         AfterFlush, TtsLeave
    <2>4. CASE UNCHANGED chunks /\ ttsPc' \notin {"stream", "chunk"}
      BY <2>2, <2>4, QuietStep
    <2>5. CASE Send(F)
      BY <2>1, <2>2, <2>5, SendStep
    <2>6. CASE Send(C) /\ ttsPc = "chunk"
      BY <2>1, <2>2, <2>6, SendStep
    <2>7. CASE Send(E) /\ ttsPc' = "select" /\ ttsPc = "end"
      <3>1. E \in SinkMsg /\ E.kind = "end"
        BY <2>7 DEF SinkMsg, TypeOK, Control
      <3> QED BY <2>2, <2>7, <3>1, SendStep
    <2> QED BY <2>3, <2>4, <2>5, <2>6, <2>7
  <1>4. CASE SinkFormat \/ SinkChunk \/ SinkAnswerEnd
    <2>1. /\ chunks # <<>> /\ chunks' = Tail(chunks)
          /\ UNCHANGED <<ttsPc, sinkPc>> /\ (metaSent => metaSent')
          /\ Head(chunks).kind = "format" => metaSent'
      BY <1>4 DEF SinkFormat, SinkChunk, SinkAnswerEnd
    <2>2. DoneRecorded'
      BY <1>4 DEF SinkFormat, SinkChunk, SinkAnswerEnd, DoneRecorded
    <2> QED BY <2>1, <2>2, ReceiveStep
  <1>5. CASE SinkTeardown
    BY <1>5 DEF SinkTeardown, SinkStops, TeardownOut, OInv, ChunksDeclared,
       StreamDeclared, DoneRecorded
  <1>6. CASE SinkSticks
    <2>1. sinkPc' = "stuck" /\ lastOut' = lastOut
      BY <1>6 DEF SinkSticks
    <2>2. answerDone' => answerDone
      BY <1>6 DEF SinkSticks, TypeOK
    <2>3. DoneRecorded
      BY DEF OInv
    <2> QED
      BY <2>1, <2>2, <2>3 DEF OInv, ChunksDeclared, StreamDeclared, DoneRecorded
  <1>7. CASE Tts
    BY <1>2, <1>3, <1>7 DEF Tts
  <1>8. CASE Sink
    BY <1>4, <1>5, <1>8 DEF Sink
  <1>9. CASE Environment
    BY <1>1, <1>2, <1>6, <1>9 DEF Environment
  <1> QED BY <1>1, <1>7, <1>8, <1>9 DEF Next

\* What holds of the satellite's output holds throughout the session.
THEOREM OutputInvariant == Spec => []OInv
  <1>1. Init => OInv
    BY DEF Init, OInv, ChunksDeclared, StreamDeclared, DoneRecorded
  <1> QED BY <1>1, OutputStep, Inductive, PTL DEF Spec

\* sink.rs publishes tts/meta before any audio of the session.
THEOREM MetaPrecedesAudio == Spec => []MetaBeforeAudio
  <1>1. TypeOK /\ OInv => MetaBeforeAudio
    <2> SUFFICES ASSUME TypeOK, OInv, chunks # <<>>, Head(chunks).kind = "chunk",
                        sinkPc = "select"
                 PROVE  metaSent
      BY DEF MetaBeforeAudio
    <2>1. 1 \in DOMAIN chunks /\ DOMAIN chunks \subseteq Nat \ {0}
          /\ chunks[1].kind = "chunk"
      BY Received DEF TypeOK
    <2>2. ~\E j \in DOMAIN chunks : j < 1
      BY <2>1
    <2> QED BY <2>1, <2>2 DEF OInv, ChunksDeclared
  <1> QED BY <1>1, OutputInvariant, TypeCorrect, PTL

\* However the sink stops, the satellite has heard a `done` last.
THEOREM SatelliteReleased == Spec => []ReleasedAtTeardown
  <1>1. OInv => ReleasedAtTeardown
    BY DEF OInv, DoneRecorded, ReleasedAtTeardown
  <1> QED BY <1>1, OutputInvariant, PTL

=============================================================================
