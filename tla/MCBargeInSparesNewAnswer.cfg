CONSTANTS
    MaxUtterances = 2
    MaxPartials = 0
    MaxTranscripts = 2
    MaxTokens = 1
    MaxChunks = 1
    TranscriptCap = 1
    PromptCap = 1
    TokenCap = 1
    ChunkCap = 1
    OutcomeCap = 1
    HasDispatcher = TRUE
SPECIFICATION Spec
CHECK_DEADLOCK FALSE
PROPERTY BargeInSparesNewAnswer
