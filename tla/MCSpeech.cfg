SPECIFICATION MCSpec
CONSTANTS
    Sids = {s1}
    RequestCap = 2
    TextCap = 1
    BusCap = 1
    IdleTicks = 0
    MaxOpens = 2
    MaxInputs = 3
    MaxOutages = 1
    Callers = {c1, c2, c3}
    Threshold = 3
    OpenTicks = 3
    ProbeTicks = 2
    MaxAttempts = 2
    AudioCap = 2
    StageCap = 1
    NetCap = 2
    RouteCap = 2
    TtsRouteCap = 2
    Frames = 1
    MaxUtterances = 2
    Chunks = 2
    MaxRequests = 2
    MaxLosses = 1
    MaxTtsLosses = 1
    MaxLines = 3
INVARIANTS SpeechTypes EntriesOwnThePipelines NothingRunsAfterShutdown OpensOnlyForAStreak OneTranscriptPerUtterance StreamsAreWhole
PROPERTIES PollStopsOnlyTwoWays SilentOnesEnd ShutdownEnds CircuitRecovers MarkedOnesAreHeard SpeechTasksEnd SynthesesEnd
CHECK_DEADLOCK FALSE
