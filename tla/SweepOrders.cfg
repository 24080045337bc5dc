CONSTANTS
    Orders = {o1, o2}
    IdemKeys = {k1, k2}
    Handlers = {h1, h2}
    RailsModes = {TRUE, FALSE}
    FloatLimit = 2
    MaxErrors = 3
    FaultKinds = {"crash", "db"}
    MaxFaults = 1
    NoItem = NoItem
SPECIFICATION FairSpec
INVARIANTS
    TypeOK
    OneKeyPerOrder
    StatusIsTrue
    NoOrderForgotten
PROPERTIES
    OnlyAcceptedLeaves
    EveryOrderArrives
CHECK_DEADLOCK FALSE
