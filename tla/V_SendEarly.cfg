SPECIFICATION Spec
CONSTANTS
  MaxJobs = 2
  MaxSends = 2
  EarlyCancel = TRUE
CHECK_DEADLOCK FALSE
PROPERTIES
  CancelTakesEffect
