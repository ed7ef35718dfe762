SPECIFICATION Spec
CONSTANTS
  MaxRows = 3
  MaxRestarts = 4
  Envs = {{"torn"}}
CHECK_DEADLOCK FALSE
INVARIANTS
  ComesUpWhole
