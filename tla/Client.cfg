SPECIFICATION MCSpec
CONSTANTS
  Parts = {"ctrd", "streams", "unary", "pair", "reclaim", "cc streams", "cc unary", "cc pair", "send"}
  MaxWire = 2
  NoOne = NoOne
  Stages = {s1, s2}
  Boot = {TRUE}
  Faults = {"toobig"}
  MaxFaults = 0
  MaxDeaths = 1
SYMMETRY StageSymmetry
CONSTRAINT WireBound
INVARIANTS
    TaskNested
    StrikesBounded
    AnswersTrue
    FlowAgrees
PROPERTIES
    ImplementsMsgStream
CHECK_DEADLOCK FALSE
