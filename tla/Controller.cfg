\* One stage with inputs, timeouts, a second fire, undone fires and failing ops,
\* and shutdown against everything in progress.
SPECIFICATION Spec
CONSTANTS
    ingress0 = ingress0
    none = none
    NStages = 1
    Paths = {ingress0}
    PathRoutes <- NoRoutes
    ControlRoutes <- EgressRoutes
    Commands = {"start", "stop", "malformed"}
    NoPath = none
    InitialDesired <- PipelineDesired
    Workers = 2
    Timeout = 1
    MaxNow = 2
    MaxFires = 2
    MaxQueue = 1
INVARIANTS
    OneLiveOp
    NoOpAfterWait
    TeardownIsFinal
PROPERTIES
    ClearFreesNoLiveFire
    ShutdownCompletes
