SPECIFICATION MCSpec
CONSTANTS
    MaxSessions = 2
    QueueBound = 2
    MaxInbound = 2
    MaxOutages = 1
    UtteranceTicks = 1
    ReplyTicks = 1
    ChannelCap = 4
    Frames = 1
    MaxCuts = 0
INVARIANT PlaybackCannotRetrigger
CHECK_DEADLOCK FALSE
