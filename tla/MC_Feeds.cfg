SPECIFICATION MCSpec
CONSTANTS
  MaxRows = 5
  MaxTs = 5
  Limit = 3
  MaxDrops = 2
  Envs = {{}, {"duringReconnect", "sameTs", "longGap", "queryFails"}}
CHECK_DEADLOCK FALSE
INVARIANTS
  
  NothingLost
PROPERTIES
  ImplementsFeedPromise
  FeedsDeliver
