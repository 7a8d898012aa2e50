\* One question more than the actor's channels hold, and an answer longer than
\* the token channel.
CONSTANTS
    MaxUtterances = 5
    MaxPartials = 0
    MaxTranscripts = 5
    MaxTokens = 2
    MaxChunks = 1
    TranscriptCap = 1
    PromptCap = 1
    TokenCap = 2
    ChunkCap = 1
    OutcomeCap = 1
    HasDispatcher = FALSE
SPECIFICATION FairActorSpec
CHECK_DEADLOCK FALSE
PROPERTY LoaderReleased
