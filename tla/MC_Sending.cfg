SPECIFICATION MCSpec
CONSTANTS
  None = None
  NoLive = NoLive
  MaxJobs = 2
  MaxSends = 1
  EarlyCancel = FALSE
  RowIds = {r1, r2}
  Addresses = {ga1, ga2}
  Schedules <- MCSchedules
  MaxNet = 2
  MaxValues = 2
  PanelEnvs <- MCPanelEnvs
CHECK_DEADLOCK FALSE
INVARIANTS
  JobsAreSound
  PanelIsTrue
PROPERTIES
  EndedIsOver
  JobsEnd
  PanelFollows
  PageCatchesUp
