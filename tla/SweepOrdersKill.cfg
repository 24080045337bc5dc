CONSTANTS
    Orders = {o1, o2}
    IdemKeys = {k1}
    Handlers = {h1}
    RailsModes = {TRUE}
    FloatLimit = 3
    MaxErrors = 2
    FaultKinds = {"crash"}
    MaxFaults = 1
    NoItem = NoItem
SPECIFICATION FairSpec
PROPERTY NoOrderLoss
CHECK_DEADLOCK FALSE
