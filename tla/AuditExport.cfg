CONSTANTS
    MaxRow = 3
    Exporters = {e1, e2}
    DryExporters = {}
    Pods = {e2}
    BatchSize = 2
    MaxFailures = 2
SPECIFICATION FairSpec
INVARIANTS
    AtLeastOnce
    CopiesNeedFailures
    
PROPERTIES
    ImplementsArchive
    EveryRowIsExported
CHECK_DEADLOCK FALSE
