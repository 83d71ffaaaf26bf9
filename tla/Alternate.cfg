SPECIFICATION MCSpec
CONSTANTS
  Parts = {"run", "settle", "late", "ctr"}
  Clients = {"c1"}
  Losses = {"ended", "lost"}
  Late = TRUE
  MaySignal = TRUE
  MaxRequests = 2
  MaxExits = 0
  MaxFaults = 0
  CallFaults = 3
INVARIANTS
    ListenersCurrent
    OnePipeline
    ReportsTrue

    
CHECK_DEADLOCK FALSE
