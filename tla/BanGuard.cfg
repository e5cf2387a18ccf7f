SPECIFICATION BanSpec
CONSTANTS
  web = web pop = pop k1 = k1 k2 = k2 k3 = k3 k4 = k4
  Clients <- MCClients
  Sticky <- MCSticky
  Ids <- MCIds
  MaxFail = 2
  FreeTriggers = 1
  MaxTier = 2
  FailCap = 3
  MySQL = TRUE
  DBMayFail = TRUE
  MayUnknown = TRUE
  MaySucceed = TRUE
  AdminActs = TRUE
SYMMETRY IdSymmetry
INVARIANTS
  BanInv
PROPERTIES
  BanIsKept
