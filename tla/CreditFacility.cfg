\* One bank, two requests at a time, two keys per table, one fault.
CONSTANTS
    Banks = {b1}
    Keys = {k1, k2}
    Amounts = {1, 2}
    Handlers = {h1, h2}
    Cap <- MCCap
    Buffer <- MCBuffer
    MaxFaults = 1
    NoId = NoId
    Free = Free
SPECIFICATION FairSpec
INVARIANTS
    AtMostOneExecution
    BookWithinLimit
    ExposureWithinLimit
    NoContradictoryReplies
    AuditMatchesBook
PROPERTIES
    RowsAreFinal
    PendingIsDecided
CHECK_DEADLOCK FALSE
