SPECIFICATION MCSpec
CONSTANTS
  Parts = {"ws", "go", "cc", "deck"}
  Clients = {"a", "b"}
  None = "none"
  NSlots = 2
  MaxListeners = 1
  MaxStatus = 2
INVARIANTS
    SlotsConsistent
    
PROPERTIES
    ImplementsLatestValue
    ChannelsImplementLatestValue
    
    SlotsComeBack
CHECK_DEADLOCK FALSE
