SPECIFICATION FairSpec
CONSTANTS
  s1 = s1 s2 = s2 r1 = r1
  Sessions <- MCSessions
  Requests <- MCRequests
  MaxMsg = 1
  Present = 0
  MaxQueue = 1
  Tolerated = {}
  MayFail = FALSE
PROPERTIES
  IdleHears
CONSTRAINT MCQuiet
