SPECIFICATION MCFairSpec
CONSTANTS
  Parts = {"recover", "settle", "live", "send live"}
  MaxWire = 3
  NoOne = "nobody"
  Stages = {"s1", "s2"}
  Boot = {TRUE}
  Faults = {"toobig"}
  MaxFaults = 1
  MaxDeaths = 1
PROPERTIES
    
    OpsRecover
CHECK_DEADLOCK FALSE
