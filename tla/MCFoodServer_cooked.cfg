SPECIFICATION OpenSpec
CONSTANTS
  Cooks = {k1, k2}
  Customers = {c1, c2}
  Dishes = {d1, d2}
  Workers = {w1}
  Addr = {a1, a2, a3, a4}
  NoClient = NoClient
  NoThread = NoThread
  Capabilities <- EveryDish
  MaxOrderLen = 2
  Mortal = {}
  Paced = TRUE
SYMMETRY Alike
CONSTRAINT OneCustomerAtATime
INVARIANTS
  CompleteMeansCooked
CHECK_DEADLOCK FALSE
