SPECIFICATION Spec
CONSTANTS
    Sids = {s1}
    RequestCap = 2
    TextCap = 1
    BusCap = 1
    IdleTicks = 0
    MaxOpens = 1
    MaxInputs = 1
    MaxOutages = 1
PROPERTY EveryConnAckResubscribes
CHECK_DEADLOCK FALSE
