\* The pipeline: two utterances (or one and a partial), both routes, two tokens
\* per answer, room for two tokens so that the router's and the LLM's tokens
\* interleave in the channel.
\* The registry: two requests at once, one crash or one failed store or file
\* operation; three requests for one skill, or two for two skills.
CONSTANTS
    MaxUtterances = 2
    MaxPartials = 1
    MaxTranscripts = 2
    MaxTokens = 2
    MaxChunks = 1
    TranscriptCap = 2
    PromptCap = 1
    TokenCap = 2
    ChunkCap = 1
    OutcomeCap = 1
    HasDispatcher = TRUE
    Skills = {s1, s2}
    Requests = {r1, r2}
    GoodVersions = {v1}
    Unbuildable = {bad}
    Ruleless = {odd}
    Keys = {url, key}
    SecretKeys = {key}
    Required = {url}
    None = None
    MaxRequests = 3
    MaxFaults = 1
SPECIFICATION MCSpec
SYMMETRY Symmetry
CHECK_DEADLOCK FALSE
INVARIANTS
    TypeOK
    DoneIsFinal
    SupersededSkillIsSilent
    MetaBeforeAudio
    ReleasedAtTeardown
    RegistryAgrees
PROPERTIES
    SecretsKept
