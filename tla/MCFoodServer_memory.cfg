SPECIFICATION Spec
CONSTANTS
  Cooks = {k1}
  Customers = {c1, c2}
  Dishes = {d1}
  Workers = {w1, w2}
  Addr = {a1, a2, a3}
  NoClient = NoClient
  NoThread = NoThread
  Capabilities <- AnyMenu
  MaxOrderLen = 1
  Mortal = {c1}
  Paced = FALSE
SYMMETRY Symmetry
INVARIANTS
  TypeOK
  ListHoldsConnections
  BusyCookHasCustomer
  MutexHeldByWalker
CHECK_DEADLOCK FALSE
