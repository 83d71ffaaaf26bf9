\* Fires that overlap, a failing call, a crash, then shutdown.
SPECIFICATION SSpec
CONSTANTS
    ingress0 = ingress0
    none = none
    NStages = 1
    Paths = {}
    PathRoutes <- NoRoutes
    ControlRoutes <- NoRoutes
    Commands = {}
    NoPath = none
    InitialDesired <- MediaMtxDesired
    Leftovers <- CleanStart
    Workers = 2
    Timeout = 1
    MaxNow = 2
    MaxFires = 3
    MaxQueue = 3
    MaxFaults = 1
    MaxCrashes = 1
INVARIANTS
    
    BeliefsCatchUp
