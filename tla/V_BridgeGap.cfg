SPECIFICATION Spec
CONSTANTS
  MaxRows = 5
  MaxTs = 5
  Limit = 3
  MaxDrops = 2
  Envs = {{"duringReconnect"}}
CHECK_DEADLOCK FALSE
INVARIANTS
  Complete
