SPECIFICATION MCSpec
CONSTANTS
    Parts = {"main", "deps", "go", "notify", "ddns"}
    MaxJobs = 2
    Deps <- MCDeps
    Kind <- MCKind
    Workers = {1, 2}
    TTL = 1
    MaxTime = 2
    MaxRuns = 2
    MaxCrashes = 1
    GoRequests = 2
    GoTicks = 1
INVARIANTS
    UsersHoldLiveObjects
    ReturnsClean
    CacheSound
    BeliefFollows
    ExitTellsTruth
PROPERTIES
    EveryProgramEnds
CHECK_DEADLOCK FALSE
