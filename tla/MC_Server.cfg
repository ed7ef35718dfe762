SPECIFICATION MCSpec
CONSTANTS
  MaxRequests = 5
CHECK_DEADLOCK FALSE
INVARIANTS
  
  ImportIsExact
  
  
  OffersTruly
PROPERTIES
  HoldEnds
  UpgradeEnds
  
  ChangesAreNoticed
