SPECIFICATION Spec
CONSTANTS
  i1 = i1 i2 = i2 w1 = w1 w2 = w2 a1 = a1 a2 = a2 adm = adm
  Items <- MCItems1
  Workers <- MCWorkers
  Admins = {adm}
  Addrs <- MCAddrs
  ToAddr <- MCOneAddr
  LocalSenders = {i1}
  MaxAttempts = 2
  BatchSize = 1
  PerAddrLimit = 1
  MaxHosts = 2
  MaxRetries = 1
  MaxCrashes = 1
  DBMayFail = TRUE
  MayStop = FALSE
INVARIANTS
  SendingIsHeld
  ExclusiveClaim
  FailureIsReported
  HonestBounce
PROPERTIES
  SentIsKept
  LedgerSpec
