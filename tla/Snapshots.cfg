CONSTANTS
    r1 = r1
    r2 = r2
    p1 = p1
    Runs <- MCRuns
    Posts <- MCPosts
    MaxVersion = 2
    MaxFaults = 2
SPECIFICATION FairSpec
INVARIANTS
    TypeOK
    MessagesAreRows
    CommittedIsHandled
    SummaryIsFresh
PROPERTIES
    ImplementsLedger
    EveryMessageIsHandled
CHECK_DEADLOCK FALSE
