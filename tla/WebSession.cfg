SPECIFICATION Spec
CONSTANTS
  adm = adm usr = usr x = x p = p q = q
  Users <- MCUsers
  Admin = adm
  Browsers <- MCBrowsers
  Requests <- MCRequests
  BrowserOf <- MCBrowserOf
  Sliding = 0
  CookieAge = 1
  AbsoluteAge = 1
  MaxPasswords = 3
  MaxFlows = 1
INVARIANTS
  TypeOK
  LoggedOut
  StateOnce
  UsersStand
PROPERTIES
  TemporaryIsChanged
SYMMETRY MCSymmetry
CONSTRAINT MCConstraint
