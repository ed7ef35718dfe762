SPECIFICATION MCSpec
CONSTANTS
  NoLive = NoLive
  None = None
  gaA = gaA
  gaB = gaB
  gaC = gaC
  MaxTick = 3
  TicksPerMs = 1
  MaxSize = 2
  InitialLimit = 2
  Chunk = 1
  BatchSize = 2
  MaxCache = 1
  Retention = 2
  MaxLoads = 2
  MaxOps = 2
  Envs = {{"connect", "range", "evict", "clear", "fetchFails"},
          {"connect", "overlap", "evict", "clear", "fetchFails"},
          {"range", "clear", "crash", "idbFails", "fetchFails"},
          {"connect", "clear", "clearMidStore", "evict", "crash", "idbFails", "fetchFails", "halfOpen"},
          {"connect", "sameMs"},
          {"range", "crash", "noRestore"}, {"connect", "clear", "noRestore"}}
CHECK_DEADLOCK FALSE
INVARIANTS
  
  SavedIsCached
  ChartIsTrue
PROPERTIES
  NothingIsPretended
