SPECIFICATION ReuseSpec
CONSTANTS
  Cooks = {k1, k2}
  Customers = {c1, c2}
  Dishes = {d1, d2}
  Workers = {w1, w2}
  Addr = {a1, a2, a3}
  NoClient = NoClient
  NoThread = NoThread
  Capabilities <- EveryDish
  MaxOrderLen = 1
  Mortal = {c1}
  Paced = TRUE
SYMMETRY Symmetry
CONSTRAINT OneCustomerAtATime
INVARIANTS
  IdleBusyCookWasDeserted
  OwnDishIsBeingCooked
CHECK_DEADLOCK FALSE
