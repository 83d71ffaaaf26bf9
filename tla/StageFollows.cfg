\* normalize follows the path events of ingress0, both ways.
SPECIFICATION SSpec
CONSTANTS
    ingress0 = ingress0
    none = none
    NStages = 1
    Paths = {ingress0}
    PathRoutes <- NormalizeRoutes
    ControlRoutes <- NoRoutes
    Commands = {}
    NoPath = none
    InitialDesired <- NormalizeDesired
    Leftovers <- CleanStart
    Workers = 1
    Timeout = 1
    MaxNow = 1
    MaxFires = 3
    MaxQueue = 1
    MaxFaults = 0
    MaxCrashes = 0
PROPERTIES
    Convergence
