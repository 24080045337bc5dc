CONSTANTS
    Amounts = {1, 2}
    Limit = 3
    Valuations = {1, 4}
    MaxCalls = 3
    MaxFaults = 2
SPECIFICATION Spec
INVARIANTS
    DrawnIsTheBook
    OnlyFaultsLoseCalls
PROPERTIES
    OverdraftIsWhatTheCheckMissed
CHECK_DEADLOCK FALSE
