CONSTANTS
    s1 = s1
    s2 = s2
    a = a
    b = b
    Clients <- MCSyncs
    Syncs <- MCSyncs
    Items <- MCItems
    Setups <- MCSetups
    MaxHiccups = 3
    MaxChanges = 1
SPECIFICATION FairSpec
INVARIANTS
    TypeOK
    RaisesAreExplained
PROPERTIES
    CompleteRunsMirror
    OlderOnlyIfOvertaken
    EveryRunEnds
CHECK_DEADLOCK FALSE
