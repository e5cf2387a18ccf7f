SPECIFICATION Spec
CONSTANTS
  inbox = inbox x = x y = y p = p q = q
  System <- MCSystem
  Inbox = inbox
  Custom <- MCCustom
  Procs <- MCProcs
  MaxMail = 2
  MaxDraws = 2
INVARIANTS
  FolderInv
  CacheStands
PROPERTIES
  KeepsChoice
SYMMETRY MCSymmetry
CONSTRAINT MCConstraint
