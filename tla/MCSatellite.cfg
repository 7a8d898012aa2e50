SPECIFICATION MCSpec
CONSTANTS
    MaxSessions = 2
    QueueBound = 2
    MaxInbound = 1
    MaxOutages = 1
    UtteranceTicks = 1
    ReplyTicks = 1
    ChannelCap = 4
    Frames = 5
    MaxCuts = 1
INVARIANTS IdleMicIsArmed
PROPERTIES ImplementsProtocol ClientImplementsProtocol SatelliteSessionsEnd ClientsEnd
CHECK_DEADLOCK FALSE
