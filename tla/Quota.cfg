SPECIFICATION Spec
CONSTANTS
  p = p q = q
  Requests <- MCRequests
  MaxFiles = 1
  MaxMail = 2
  MaxQuota = 1
  MayFail = TRUE
INVARIANTS
  Charged
  QuotaHolds
  Attached
SYMMETRY MCSymmetry
CONSTRAINT MCOneCause
