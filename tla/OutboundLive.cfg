SPECIFICATION FairSpec
CONSTANTS
  i1 = i1 i2 = i2 w1 = w1 w2 = w2 a1 = a1 a2 = a2 adm = adm
  Items <- MCItems2
  Workers <- MCWorkers
  Admins = {}
  Addrs <- MCAddrs
  ToAddr <- MCSameAddr
  LocalSenders = {i1}
  MaxAttempts = 2
  BatchSize = 1
  PerAddrLimit = 1
  MaxHosts = 1
  MaxRetries = 0
  MaxCrashes = 0
  DBMayFail = FALSE
  MayStop = TRUE
CHECK_DEADLOCK FALSE
INVARIANTS
  SlotsExact
  CleanStop
PROPERTIES
  EventuallySettled
  KickSuffices
  StopCompletes
