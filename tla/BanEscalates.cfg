SPECIFICATION GuessSpec
CONSTANTS
  web = web pop = pop k1 = k1 k2 = k2 k3 = k3 k4 = k4
  Clients <- MCClients
  Sticky <- MCSticky
  Ids <- MCIds
  MaxFail = 2
  FreeTriggers = 2
  MaxTier = 2
  FailCap = 4
  MySQL = TRUE
  DBMayFail = FALSE
  MayUnknown = FALSE
  MaySucceed = FALSE
  AdminActs = FALSE
PROPERTIES
  Escalates
