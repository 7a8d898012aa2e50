------------------------------ MODULE LlmStream ------------------------------
(***************************************************************************)
(* The streamed answer of an LLM over HTTP, as OllamaLlm (one JSON object  *)
(* a line) and OpenAiCompatLlm (server-sent events) decode it, and what    *)
(* the LLM stage passes on.  The network cuts the body into chunks where   *)
(* it likes, within a line too.                                            *)
(*                                                                         *)
(* A line of the body is a record: whether it carries a token, and whether *)
(* it ends the answer.  A line with neither is one that is skipped: empty, *)
(* a comment, another event, malformed JSON, or an error object.           *)
(***************************************************************************)
EXTENDS Naturals, Sequences, SequencesExt

CONSTANTS
    MaxLines    \* bound: lines of a body

ASSUME StreamAssumption == MaxLines \in Nat

VARIABLES
    server,     \* "ollama" or "openai"
    body,       \* what the server sends: lines, and newlines as marks
    arrived,    \* how much of it the network has delivered
    buf,        \* `buf`: what has not been decoded
    yielded,    \* tokens, as the places of their lines in the body
    stream,     \* "request", "open", "over" or "failed"
    said        \* what the stage did about the prompt

streamVars == <<server, body, arrived, buf, yielded, stream, said>>

Newline == [token |-> FALSE, ends |-> FALSE, at |-> 0]
Line(token, ends) == [token |-> token, ends |-> ends, at |-> 1]

\* Ollama's last object may hold the last token; `data: [DONE]` stands alone.
Lines(s) == {Line(TRUE, FALSE), Line(FALSE, FALSE), Line(FALSE, TRUE)}
            \cup (IF s = "ollama" THEN {Line(TRUE, TRUE)} ELSE {})

\* Every line but perhaps the last is terminated.
Body(ls, terminated) ==
    LET marks == IF terminated \/ ls = <<>> THEN Len(ls) ELSE Len(ls) - 1
    IN [i \in 1..(Len(ls) + marks) |->
            IF i % 2 = 0 THEN Newline
            ELSE [ls[(i + 1) \div 2] EXCEPT !.at = (i + 1) \div 2]]

StreamInit ==
    /\ server \in {"ollama", "openai"}
    /\ \E ls \in BoundedSeq(Lines(server), MaxLines), t \in BOOLEAN : body = Body(ls, t)
    /\ arrived = 0 /\ buf = <<>> /\ yielded = <<>>
    /\ stream = "request" /\ said = <<>>

\* The newlines of the buffer; a line is decoded up to the first of them.
Newlines == {i \in DOMAIN buf : buf[i] = Newline}

\* complete(): no connection, a refusal, or a status that is no success.
Connect ==
    /\ stream = "request"
    /\ stream' \in {"open", "failed"}
    /\ UNCHANGED <<server, body, arrived, buf, yielded, said>>

\* The next chunk, once every whole line of the ones before is decoded.
Chunk ==
    /\ stream = "open" /\ Newlines = {}
    /\ \E n \in arrived + 1 .. Len(body) :
          /\ buf' = buf \o SubSeq(body, arrived + 1, n)
          /\ arrived' = n
    /\ UNCHANGED <<server, body, yielded, stream, said>>

\* Faulty variant: one line a chunk, and the rest of the chunk is dropped.
DecodeOneLine ==
    /\ stream = "open" /\ Newlines # {}
    /\ buf' = <<>>
    /\ LET line == buf[1]
       IN /\ yielded' = IF line.token THEN Append(yielded, line.at) ELSE yielded
          /\ stream' = IF line.ends THEN "over" ELSE stream
    /\ UNCHANGED <<server, body, arrived, said>>

\* A whole line: its token is yielded, then it may end the stream.
Decode ==
    /\ stream = "open"
    /\ \E n \in Newlines : /\ \A m \in Newlines : n <= m
                            /\ buf' = SubSeq(buf, n + 1, Len(buf))
    /\ LET line == buf[1]
       IN /\ yielded' = IF line.token THEN Append(yielded, line.at) ELSE yielded
          /\ stream' = IF line.ends THEN "over" ELSE stream
    /\ UNCHANGED <<server, body, arrived, said>>

\* The end of the body, or an error of the transport or the 60 s timeout.
CloseBody ==
    /\ stream = "open" /\ Newlines = {}
    /\ \/ arrived = Len(body) /\ stream' = "over"
       \/ stream' = "failed"
    /\ UNCHANGED <<server, body, arrived, buf, yielded, said>>

\* spawn_llm: the next token; after the last one the apology that a failure
\* before any token calls for, and AnswerEnd.
Speak ==
    /\ "end" \notin Range(said)
    /\ \/ /\ Len(said) < Len(yielded)
          /\ said' = Append(said, "token")
       \/ /\ Len(said) = Len(yielded) /\ stream \in {"over", "failed"}
          /\ said' = said \o (IF stream = "failed" /\ said = <<>>
                              THEN <<"apology">> ELSE <<>>) \o <<"end">>
    /\ UNCHANGED <<server, body, arrived, buf, yielded, stream>>

StreamNext == Connect \/ Chunk \/ Decode \/ CloseBody \/ Speak
-----------------------------------------------------------------------------
\* The lines of which the newline too has arrived, and among them the places of
\* the tokens up to the line that ends the answer.
Terminated == {i \in 1..arrived : body[i] # Newline /\ i < arrived /\ body[i + 1] = Newline}
Due == {body[i].at : i \in {i \in Terminated :
           body[i].token /\ \A j \in Terminated : j < i => ~body[j].ends}}

\* However the network cuts the body, the tokens yielded are the first ones of
\* the lines that arrived, each once and in their order; and all of them, up
\* to the line that ends the answer, once the stream is over
\* (decode_ndjson_tokens, decode_sse_tokens).
TokensSurviveChunking ==
    /\ \A k, l \in DOMAIN yielded : k < l => yielded[k] < yielded[l]
    /\ Range(yielded) \subseteq Due
    /\ \A p \in Due, q \in Range(yielded) : p < q => p \in Range(yielded)
    /\ stream = "over" => Due \subseteq Range(yielded)

\* A failed backend is never silent: the stage says a token or apologises
\* (llm.rs, apology).
FailureIsNotSilent ==
    "end" \in Range(said) /\ stream = "failed" => Len(said) > 1
=============================================================================
