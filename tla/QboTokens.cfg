CONSTANTS
    t1 = t1
    t2 = t2
    t3 = t3
    Threads = {t1, t2, t3}
    Processes <- MCProcesses
    Torn = Torn
    MaxRotations = 2
    MaxFaults = 2
SPECIFICATION FairSpec
INVARIANTS
    TokenNotLost
    OneWriter
PROPERTIES
    NoStaleOverwrite
    HeldIsSaved
CHECK_DEADLOCK FALSE
