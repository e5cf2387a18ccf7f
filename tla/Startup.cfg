SPECIFICATION FairSpec
CONSTANTS
  v = v w = w
  Writers <- MCWriters
  MaxPairs = 3
  MaxCrashes = 2
INVARIANTS
  Pairs
  NoBlindSpot
PROPERTIES
  StartsWithTLS
  CatchesUp
CHECK_DEADLOCK FALSE
