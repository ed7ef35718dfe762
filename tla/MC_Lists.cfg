SPECIFICATION MCSpec
CONSTANTS
  None = None
  house = house
  floor = floor
  hall = hall
  attic = attic
  dev1 = dev1
  dev2 = dev2
  ch = ch
  ko1 = ko1
  ko2 = ko2
  ko3 = ko3
  ko4 = ko4
  fn = fn
  ga = ga
  gb = gb
  gc = gc
  Trees <- MCTrees
  Queries <- MCQueries
  Addresses = {ga, gb, gc}
  Focus = ko3
  Rank <- MCRank
  MaxClicks = 3
  MaxBus = 2
  Envs <- MCEnvs
CHECK_DEADLOCK FALSE
INVARIANTS
  BufferIsTrue
  RowsHold
  
  
  WorkspaceKept
PROPERTIES
  ImplementsBufferPromise
  ArrangedStays
  HistoryRests
