\* Amounts around a cent, policies at both ends and one that rounds.
CONSTANTS
    Cash = {1, 14, 25, 106, 995}
    Draws = {0, 5, 14, 94, 500}
    Bps = {0, 333, 5000, 9500, 10000}
    MaxCalls = 2
SPECIFICATION PolicySpec
INVARIANTS
    AllowedKeepsBuffer
CHECK_DEADLOCK FALSE
