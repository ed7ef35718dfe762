SPECIFICATION MCSpec
CONSTANTS
  Time <- MCTime
  NoLive = NoLive
  None = None
  blue = blue
  red = red
  timeCol = time
  sourceCol = source
  kindCol = kind
  valueCol = value
CHECK_DEADLOCK FALSE
INVARIANTS
  ListIsExact
  PageIsTrue
PROPERTIES
  ImplementsCoveragePromise
  
  ColumnsStay
