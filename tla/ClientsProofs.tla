---------------------------- MODULE ClientsProofs ----------------------------
(***************************************************************************)
(* The desktop client and the test console implement the session protocol, *)
(* for a recording of any length, any capacity of the client's channel and *)
(* any number of lost connections.  Of the client it has to be shown that  *)
(* main and its audio task, which publish independently, ask one question  *)
(* between them; of the console, whose steps are guarded by where its task *)
(* is, how that relates to what has been published.                        *)
(***************************************************************************)
EXTENDS MCSatellite, TLAPS

-----------------------------------------------------------------------------
(* DesktopClient *)

ClientStages == [s \in {1} |-> ClientStage]

\* Where main and its task are, for the session to be one.
ClientLog ==
    /\ said \in [{1} -> Seq(ClientProtocol!Messages)]
    /\ feeder \in Nat
    /\ ~started => said[1] = <<>>
    /\ feeder > 0 => started
    /\ at = "text" => started /\ ~(feeder > 0)

\* What recording a message does to the log.
LEMMA Spoken ==
  ASSUME ClientLog, NEW m \in ClientProtocol!Messages, Say(Recorded(said[1], m))
  PROVE  /\ said' \in [{1} -> Seq(ClientProtocol!Messages)]
         /\ ClientProtocol!Publish(1, m)
<1> DEFINE w == said[1]
           r == Recorded(said[1], m)
<1>1. w \in Seq(ClientProtocol!Messages) /\ said \in [{1} -> Seq(ClientProtocol!Messages)]
  BY DEF ClientLog
<1>2. r = w \/ r = Append(w, m)
  BY DEF Recorded, ClientProtocol!Recorded
<1>3. r \in Seq(ClientProtocol!Messages)
  BY <1>1, <1>2
<1>4. said' = [said EXCEPT ![1] = r]
  BY DEF Say
<1>5. ClientProtocol!Publish(1, m)
  BY <1>4 DEF ClientProtocol!Publish, Recorded
<1>6. QED
  BY <1>1, <1>3, <1>4, <1>5

\* A client starts with an empty log (main).
LEMMA ClientInitLog == ClientInit => ClientLog /\ ClientProtocol!Init
  BY DEF ClientInit, ClientLog, ClientProtocol!Init, ClientStage

\* The SubAck begins the session, as a text or as audio.
LEMMA SubAckStarts ==
  ASSUME ClientLog, SubAck
  PROVE  ClientLog' /\ ClientProtocol!Start(1)
<1>1. said \in [{1} -> Seq(ClientProtocol!Messages)] /\ said[1] = <<>> /\ ~(feeder > 0)
      /\ ~started
  BY DEF ClientLog, SubAck
<1>2. said' = [said EXCEPT ![1] = <<"start">>]
      /\ said' \in [{1} -> Seq(ClientProtocol!Messages)]
  BY <1>1 DEF SubAck, Say, ClientProtocol!Messages
<1>3. ClientProtocol!Recorded(<<>>, "start") = <<"start">>
  BY DEF ClientProtocol!Recorded
<1>4. ClientProtocol!Publish(1, "start")
  BY <1>1, <1>2, <1>3 DEF ClientProtocol!Publish
<1>5. /\ started' /\ at = "loop"
      /\ \/ at' = "text" /\ feeder' = feeder
         \/ at' = at /\ feeder' = Frames + 1 /\ Frames \in Nat
  BY ClientAssumption DEF SubAck
<1>6. ClientStage = "new" /\ ClientStage' = "open"
  BY <1>1, <1>5 DEF ClientStage
<1>7. ClientProtocol!Start(1)
  BY <1>4, <1>6 DEF ClientProtocol!Start
<1>8. QED
  BY <1>1, <1>2, <1>5, <1>7 DEF ClientLog

\* The text is the question of a text session.
LEMMA TextAsks ==
  ASSUME ClientLog, SayText
  PROVE  ClientLog' /\ ClientProtocol!Ask(1)
<1>1. Say(Recorded(said[1], "question")) /\ "question" \in ClientProtocol!Messages
  BY DEF SayText, ClientProtocol!Messages
<1>2. started /\ ~(feeder > 0) /\ at = "text"
  BY DEF ClientLog, SayText
<1>3. /\ said' \in [{1} -> Seq(ClientProtocol!Messages)]
      /\ ClientProtocol!Publish(1, "question")
  BY <1>1, Spoken
<1>4. started' = started /\ feeder' = feeder /\ at' = "loop"
  BY DEF SayText
<1>5. ClientStage = "open" /\ ClientStage' = "asked"
  BY <1>2, <1>4 DEF ClientStage
<1>6. ClientProtocol!Ask(1)
  BY <1>3, <1>5 DEF ClientProtocol!Ask
<1>7. QED
  BY <1>2, <1>3, <1>4, <1>6 DEF ClientLog

\* A chunk of audio, and at the end the marker that is the question.
LEMMA FeedSpeaks ==
  ASSUME ClientLog, Feed
  PROVE  ClientLog' /\ (ClientProtocol!Speak(1) \/ ClientProtocol!Ask(1))
<1> DEFINE m == IF feeder = 1 THEN "question" ELSE "audio"
<1>1. Say(Recorded(said[1], m)) /\ m \in ClientProtocol!Messages
  BY DEF Feed, ClientProtocol!Messages
<1>2. started /\ at # "text" /\ feeder > 0 /\ feeder \in Nat
  BY DEF ClientLog, Feed
<1>3. /\ said' \in [{1} -> Seq(ClientProtocol!Messages)]
      /\ ClientProtocol!Publish(1, m)
  BY <1>1, Spoken
<1>4. started' = started /\ feeder' = feeder - 1 /\ at' = at
  BY DEF Feed
<1>5. ClientStage = "open"
      /\ ClientStage' = IF feeder = 1 THEN "asked" ELSE "open"
  BY <1>2, <1>4 DEF ClientStage
<1>6. ClientProtocol!Speak(1) \/ ClientProtocol!Ask(1)
  BY <1>3, <1>5 DEF ClientProtocol!Speak, ClientProtocol!Ask
<1>7. QED
  BY <1>2, <1>3, <1>4, <1>6 DEF ClientLog

\* What leaves the session where it is says nothing of it.
LEMMA ClientRests ==
  ASSUME ClientLog, started' = started, feeder' = feeder,
         at' = at \/ (at # "text" /\ at' # "text")
  PROVE  ClientStage' = ClientStage
BY DEF ClientStage

\* `end`, which a client that was never subscribed publishes too; then there is
\* no session it could belong to.
LEMMA EndEnds ==
  ASSUME ClientLog, PublishEnd
  PROVE  ClientLog' /\ (ClientProtocol!End(1) \/ UNCHANGED <<ClientStages, said>>)
<1>1. at # "text" /\ at' # "text" /\ started' = started /\ feeder' = feeder
  BY DEF PublishEnd, Ending
<1>2. said \in [{1} -> Seq(ClientProtocol!Messages)]
  BY DEF ClientLog
<1>3. ClientStage' = ClientStage
  BY <1>1, ClientRests
<1>4. CASE started
  <2>1. Say(Recorded(said[1], "end")) /\ "end" \in ClientProtocol!Messages
    BY <1>4 DEF PublishEnd, ClientProtocol!Messages
  <2>2. /\ said' \in [{1} -> Seq(ClientProtocol!Messages)]
        /\ ClientProtocol!Publish(1, "end")
    BY <2>1, Spoken
  <2>3. ClientProtocol!End(1)
    BY <1>3, <1>4, <2>2 DEF ClientProtocol!End, ClientStage
  <2>4. QED
    BY <1>1, <1>4, <2>2, <2>3 DEF ClientLog
<1>5. CASE ~started
  <2>1. said' = said
    BY <1>2, <1>5 DEF PublishEnd, Say
  <2>2. QED
    BY <1>1, <1>3, <2>1 DEF ClientLog, ClientStages
<1>6. QED
  BY <1>4, <1>5

\* Every step keeps the log and is a step of the protocol, or says nothing.
LEMMA ClientStep ==
  ASSUME ClientLog, [ClientNext]_clientVars
  PROVE  ClientLog' /\ [ClientProtocol!Next]_ClientProtocol!protocolVars
<1>1. CASE SubAck
  BY <1>1, SubAckStarts DEF ClientProtocol!Next
<1>2. CASE SayText
  BY <1>2, TextAsks DEF ClientProtocol!Next
<1>3. CASE Feed
  BY <1>3, FeedSpeaks DEF ClientProtocol!Next
<1>4. CASE PublishEnd
  BY <1>4, EndEnds DEF ClientProtocol!Next, ClientProtocol!protocolVars, ClientStages
<1>5. ASSUME said' = said, started' = started, feeder' = feeder,
             (at # "text" /\ at' # "text") \/ at' = at
      PROVE  ClientLog' /\ [ClientProtocol!Next]_ClientProtocol!protocolVars
  <2>1. ClientStage' = ClientStage
    BY <1>5, ClientRests
  <2>2. QED
    BY <1>5, <2>1 DEF ClientLog, ClientProtocol!protocolVars
<1>6. CASE PollConnects \/ PollSends \/ PollFails \/ HandlePublish
  BY <1>5, <1>6 DEF PollConnects, PollSends, PollFails, HandlePublish
<1>7. CASE Quiet \/ Deadline \/ FlushEnds
  BY <1>5, <1>7 DEF Quiet, Deadline, FlushEnds
<1>8. CASE UNCHANGED clientVars
  BY <1>5, <1>8 DEF clientVars
<1>9. QED
  BY <1>1, <1>2, <1>3, <1>4, <1>6, <1>7, <1>8 DEF ClientNext

\* The client's session keeps the protocol: one start, one question, whatever
\* main and the audio task do in between, and whenever `end` is published
\* (main, handle_publish).
THEOREM ClientRefinesProtocol == ClientInit /\ [][ClientNext]_clientVars => ClientKeepsProtocol
<1>1. ClientInit => ClientLog /\ ClientProtocol!Init
  BY ClientInitLog
<1>2. ClientLog /\ [ClientNext]_clientVars => ClientLog' /\ [ClientProtocol!Next]_ClientProtocol!protocolVars
  BY ClientStep
<1>3. QED
  BY <1>1, <1>2, PTL DEF ClientKeepsProtocol, ClientProtocol!Spec

-----------------------------------------------------------------------------
(* TestConsole *)

ConsoleStages == [s \in {1} |-> ConsoleStage]

\* Where the task is, for the session to be one.
ConsoleLog ==
    /\ told \in [{1} -> Seq(ConsoleProtocol!Messages)]
    /\ ~begun => told[1] = <<>>
    /\ step = "text" => begun

\* What a publish adds to the log.
LEMMA Enqueued ==
  ASSUME ConsoleLog, NEW m \in ConsoleProtocol!Messages, Enqueue(m), m # "audio"
  PROVE  /\ told' \in [{1} -> Seq(ConsoleProtocol!Messages)]
         /\ ConsoleProtocol!Publish(1, m)
<1>1. told \in [{1} -> Seq(ConsoleProtocol!Messages)] /\ told[1] \in Seq(ConsoleProtocol!Messages)
  BY DEF ConsoleLog
<1>2. told' = [told EXCEPT ![1] = Append(told[1], m)]
  BY DEF Enqueue
<1>3. Append(told[1], m) \in Seq(ConsoleProtocol!Messages)
  BY <1>1
<1>4. ConsoleProtocol!Recorded(told[1], m) = Append(told[1], m)
  BY DEF ConsoleProtocol!Recorded
<1>5. QED
  BY <1>1, <1>2, <1>3, <1>4 DEF ConsoleProtocol!Publish

\* Nothing has been said before the request (run_text_session).
LEMMA ConsoleInitLog == ConsoleInit => ConsoleLog /\ ConsoleProtocol!Init
  BY DEF ConsoleInit, ConsoleLog, ConsoleProtocol!Init, ConsoleStage

\* The SubAck begins the session: nothing was said, `start` is now.
LEMMA ConsoleSubAckStarts ==
  ASSUME ConsoleLog, ConsoleSubAck
  PROVE  ConsoleLog' /\ ConsoleProtocol!Start(1)
<1>1. Enqueue("start") /\ "start" \in ConsoleProtocol!Messages
  BY DEF ConsoleSubAck, ConsoleProtocol!Messages
<1>2. told' \in [{1} -> Seq(ConsoleProtocol!Messages)] /\ ConsoleProtocol!Publish(1, "start")
  BY <1>1, Enqueued
<1>3. begun' /\ step' = "text" /\ ~begun
  BY DEF ConsoleSubAck
<1>4. ConsoleStage = "new" /\ ConsoleStage' = "open"
  BY <1>3 DEF ConsoleStage
<1>5. ConsoleProtocol!Start(1)
  BY <1>2, <1>4 DEF ConsoleProtocol!Start
<1>6. QED
  BY <1>2, <1>3, <1>5 DEF ConsoleLog

\* The text is the session's only question.
LEMMA ConsoleTextAsks ==
  ASSUME ConsoleLog, ConsoleText
  PROVE  ConsoleLog' /\ ConsoleProtocol!Ask(1)
<1>1. Enqueue("question") /\ "question" \in ConsoleProtocol!Messages
  BY DEF ConsoleText, ConsoleProtocol!Messages
<1>2. told' \in [{1} -> Seq(ConsoleProtocol!Messages)] /\ ConsoleProtocol!Publish(1, "question")
  BY <1>1, Enqueued
<1>3. begun /\ step = "text" /\ begun' = begun /\ step' = "loop"
  BY DEF ConsoleText, ConsoleLog
<1>4. ConsoleStage = "open" /\ ConsoleStage' = "asked"
  BY <1>3 DEF ConsoleStage
<1>5. ConsoleProtocol!Ask(1)
  BY <1>2, <1>4 DEF ConsoleProtocol!Ask
<1>6. QED
  BY <1>2, <1>3, <1>5 DEF ConsoleLog

\* A session that was opened is ended; one that was not has said nothing.
LEMMA ConsoleCloseEnds ==
  ASSUME ConsoleLog, Close
  PROVE  ConsoleLog' /\ (ConsoleProtocol!End(1) \/ UNCHANGED <<ConsoleStages, told>>)
<1>1. step = "closing" /\ step' = "flush" /\ begun' = begun
  BY DEF Close
<1>2. ConsoleStage' = ConsoleStage
  BY <1>1 DEF ConsoleStage
<1>3. CASE begun
  <2>1. Enqueue("end") /\ "end" \in ConsoleProtocol!Messages
    BY <1>3 DEF Close, ConsoleProtocol!Messages
  <2>2. told' \in [{1} -> Seq(ConsoleProtocol!Messages)] /\ ConsoleProtocol!Publish(1, "end")
    BY <2>1, Enqueued
  <2>3. ConsoleProtocol!End(1)
    BY <1>2, <1>3, <2>2 DEF ConsoleProtocol!End, ConsoleStage
  <2>4. QED
    BY <1>1, <1>3, <2>2, <2>3 DEF ConsoleLog
<1>4. CASE ~begun
  <2>1. told' = told
    BY <1>4 DEF Close
  <2>2. QED
    BY <1>1, <1>2, <2>1 DEF ConsoleLog, ConsoleStages
<1>5. QED
  BY <1>3, <1>4

\* Every step keeps the log and is a step of the protocol, or says nothing.
LEMMA ConsoleStep ==
  ASSUME ConsoleLog, [ConsoleNext]_consoleVars
  PROVE  ConsoleLog' /\ [ConsoleProtocol!Next]_ConsoleProtocol!protocolVars
<1>1. CASE ConsoleSubAck
  BY <1>1, ConsoleSubAckStarts DEF ConsoleProtocol!Next
<1>2. CASE ConsoleText
  BY <1>2, ConsoleTextAsks DEF ConsoleProtocol!Next
<1>3. CASE Close
  BY <1>3, ConsoleCloseEnds DEF ConsoleProtocol!Next, ConsoleProtocol!protocolVars, ConsoleStages
<1>4. ASSUME told' = told, begun' = begun,
             (step # "text" /\ step' # "text") \/ step' = step
      PROVE  ConsoleLog' /\ [ConsoleProtocol!Next]_ConsoleProtocol!protocolVars
  <2>1. ConsoleStage' = ConsoleStage
    BY <1>4 DEF ConsoleStage
  <2>2. QED
    BY <1>4, <2>1 DEF ConsoleLog, ConsoleProtocol!protocolVars
<1>5. CASE Request \/ ConsoleConnects \/ ConsoleSends \/ Incoming \/ PubAck
  BY <1>4, <1>5 DEF Request, ConsoleConnects, ConsoleSends, Incoming, PubAck, Leave
<1>6. CASE ConsoleFails \/ ConsoleQuiet \/ ConsoleDeadline \/ ConsoleFlushEnds \/ DisconnectConsole
  BY <1>4, <1>6 DEF ConsoleFails, ConsoleQuiet, ConsoleDeadline, ConsoleFlushEnds,
                    DisconnectConsole, Leave, Polls
<1>7. CASE UNCHANGED consoleVars
  BY <1>4, <1>7 DEF consoleVars
<1>8. QED
  BY <1>1, <1>2, <1>3, <1>5, <1>6, <1>7 DEF ConsoleNext

\* The one session of an HTTP request keeps the protocol, however the broker's
\* answers, errors and timers interleave (run_text_session).
THEOREM ConsoleRefinesProtocol == ConsoleInit /\ [][ConsoleNext]_consoleVars => ConsoleKeepsProtocol
<1>1. ConsoleInit => ConsoleLog /\ ConsoleProtocol!Init
  BY ConsoleInitLog
<1>2. ConsoleLog /\ [ConsoleNext]_consoleVars
      => ConsoleLog' /\ [ConsoleProtocol!Next]_ConsoleProtocol!protocolVars
  BY ConsoleStep
<1>3. QED
  BY <1>1, <1>2, PTL DEF ConsoleKeepsProtocol, ConsoleProtocol!Spec

-----------------------------------------------------------------------------
(* Both, as MCSatellite runs them *)

\* A step of MCSatellite is a step of each part, or leaves it alone.
LEMMA PartSteps ==
  [MCNext]_allVars => [ClientNext]_clientVars /\ [ConsoleNext]_consoleVars
BY DEF MCNext, allVars

\* Both programs' sessions keep the protocol in every behaviour of the run.
THEOREM ClientsImplementProtocol == MCSpec => ClientImplementsProtocol
<1>1. MCInit => ClientInit /\ ConsoleInit
  BY DEF MCInit
<1>2. [MCNext]_allVars => [ClientNext]_clientVars /\ [ConsoleNext]_consoleVars
  BY PartSteps
<1>3. QED
  BY <1>1, <1>2, ClientRefinesProtocol, ConsoleRefinesProtocol, PTL
     DEF MCSpec, ClientImplementsProtocol
=============================================================================
