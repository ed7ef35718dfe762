SPECIFICATION Spec
CONSTANTS
  NoLive = NoLive
  MaxTick = 3
  TicksPerMs = 1
  MaxSize = 2
  InitialLimit = 2
  Chunk = 2
  BatchSize = 2
  MaxCache = 2
  Retention = 2
  MaxLoads = 2
  MaxOps = 2
  Envs = {{"range", "clear", "clearMidStore"}}
INVARIANTS
  Accounted
