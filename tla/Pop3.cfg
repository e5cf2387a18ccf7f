SPECIFICATION Spec
CONSTANTS
  c1 = c1 c2 = c2 u = u v = v
  Conns <- MCConns
  Protocol <- MCProtocol
  MaxBans = 1
  Known <- MCKnown
  Ids <- MCIds
  Owner <- MCOwner
  MayFail = TRUE
INVARIANTS
  NoPanic
  Pop3Inv
  RemovesMarked
PROPERTIES
  Kicked
  Drains
CHECK_DEADLOCK FALSE
