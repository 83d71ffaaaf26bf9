\* mediamtx, after a controller that left its task behind, with a failing call.
SPECIFICATION SSpec
CONSTANTS
    ingress0 = ingress0
    none = none
    NStages = 1
    Paths = {}
    PathRoutes <- NoRoutes
    ControlRoutes <- NoRoutes
    Commands = {}
    NoPath = none
    InitialDesired <- MediaMtxDesired
    Leftovers <- TaskLeftover
    Workers = 2
    Timeout = 1
    MaxNow = 1
    MaxFires = 3
    MaxQueue = 3
    MaxFaults = 1
    MaxCrashes = 0
PROPERTIES
    Convergence
