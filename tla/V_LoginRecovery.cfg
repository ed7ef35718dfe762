SPECIFICATION MCSpec
CONSTANTS
  MaxKeys = 2
  MaxFails = 1
  MaxLive = 5
  Envs = {{}, {"overlap"}, {"tightShutdown"}}
CHECK_DEADLOCK FALSE
INVARIANTS
  HeldOffOffersReset
