\* Liveness: every channel has a single place, so that each stage also waits
\* for room; two transcripts, of which one may be partial.
CONSTANTS
    MaxUtterances = 2
    MaxPartials = 1
    MaxTranscripts = 2
    MaxTokens = 1
    MaxChunks = 1
    TranscriptCap = 1
    PromptCap = 1
    TokenCap = 1
    ChunkCap = 1
    OutcomeCap = 1
    HasDispatcher = TRUE
SPECIFICATION FairSpec
CHECK_DEADLOCK FALSE
PROPERTIES
    TurnAnswered
    CancelStopsAll
