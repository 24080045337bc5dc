CONSTANTS
    Callers = {c1}
    TTL = 6
    MaxLatency = 1
    MaxTime = 4
    Attempts = 3
    Threshold = 2
    Cooldown = 2
    MaxCalls = 5
SPECIFICATION Spec
PROPERTY SuccessCloses
CHECK_DEADLOCK FALSE
