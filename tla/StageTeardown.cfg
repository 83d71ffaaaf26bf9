\* Shutdown while a start op is under way.
SPECIFICATION SSpec
CONSTANTS
    ingress0 = ingress0
    none = none
    NStages = 1
    Paths = {}
    PathRoutes <- NoRoutes
    ControlRoutes <- NoRoutes
    Commands = {}
    NoPath = none
    InitialDesired <- MediaMtxDesired
    Leftovers <- CleanStart
    Workers = 2
    Timeout = 1
    MaxNow = 1
    MaxFires = 1
    MaxQueue = 3
    MaxFaults = 0
    MaxCrashes = 0
INVARIANTS
    TeardownStopsEveryTask
