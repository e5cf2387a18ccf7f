SPECIFICATION Spec
CONSTANTS
  s1 = s1 loc = loc ext1 = ext1
  Sessions <- MCSessions
  Rcpts <- MCRcpts
  Domestic <- MCDomestic
  Modes = {"inbound", "submission"}
  MaxPerMin = 1
  MaxPerDay = 2
  Minute = 1
  Day = 4
  MaxTime = 4
  MaxRestarts = 1
  MaxRecipients = 1
  MaxTries <- MCTries
  MaxChanges = 1
  MayFail = TRUE
INVARIANTS
  LimitsHold
  Accounted
  SubmissionInv
CHECK_DEADLOCK FALSE
