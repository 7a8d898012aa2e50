\* The map: four questions through at most three actors, so that leftovers are
\* routed while the poll task routes too, and channels of two places overflow.
\* The actor: room for every transcript, so that it never waits in t_tx.send;
\* the router, the skills and the LLM may stop at any point.
SPECIFICATION MCSpec
CONSTANTS
    MaxQuestions = 4
    MaxActors = 3
    QuestionCap = 2
    MaxUtterances = 2
    MaxPartials = 0
    MaxTranscripts = 2
    MaxTokens = 2
    MaxChunks = 1
    TranscriptCap = 2
    PromptCap = 1
    TokenCap = 2
    ChunkCap = 1
    OutcomeCap = 1
    HasDispatcher = TRUE
    MailboxCap = 1
    WireCap = 1
    BusCap = 1
    Retention <- MCRetention
    Delay = 1
    SchedulerRuns = TRUE
    MaxCalls = 2
    MaxTime = 2
    MaxFaults = 1
    Configs <- MCConfigs
    Positions = {150}
    Ttl = 2
    Words = {"a", "b", "n"}
    Numbers = {"n"}
    Phrases <- MCPhrases
    MaxWords = 4
    Scores = {79, 80, 84, 88}
    MaxWeight = 2
    MaxCandidates = 3
PROPERTIES ConfirmedWasAsked
CHECK_DEADLOCK FALSE
