\* Two threads, tokens that live 6 ticks (a skew of 2) and answers that take up to 1.
CONSTANTS
    Callers = {c1, c2}
    TTL = 6
    MaxLatency = 1
    MaxTime = 7
    Attempts = 2
    Threshold = 2
    Cooldown = 2
    MaxCalls = 4
SPECIFICATION Spec
INVARIANTS
    OpenIsEarned
    BearerAgesInRetries
PROPERTIES
    CooldownHolds
SYMMETRY Threads
CHECK_DEADLOCK FALSE
