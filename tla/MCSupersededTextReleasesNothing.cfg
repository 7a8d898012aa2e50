\* Two questions, and room enough that nobody waits for the other.
CONSTANTS
    MaxUtterances = 2
    MaxPartials = 0
    MaxTranscripts = 2
    MaxTokens = 2
    MaxChunks = 1
    TranscriptCap = 2
    PromptCap = 1
    TokenCap = 2
    ChunkCap = 1
    OutcomeCap = 1
    HasDispatcher = FALSE
SPECIFICATION LoaderSpec
CHECK_DEADLOCK FALSE
PROPERTY SupersededTextReleasesNothing
