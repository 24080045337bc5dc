CONSTANTS
    MaxRow = 2
    Exporters = {e1, e2}
    DryExporters = {e2}
    Pods = {}
    BatchSize = 2
    MaxFailures = 0
SPECIFICATION Spec
INVARIANT AtLeastOnce
CHECK_DEADLOCK FALSE
