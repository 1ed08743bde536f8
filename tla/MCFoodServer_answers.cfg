SPECIFICATION OpenSpec
CONSTANTS
  Cooks = {k1, k2}
  Customers = {c1}
  Dishes = {d1, d2}
  Workers = {w1, w2, w3}
  Addr = {a1, a2, a3}
  NoClient = NoClient
  NoThread = NoThread
  Capabilities <- AnyMenu
  MaxOrderLen = 3
  Mortal = {}
  Paced = TRUE
INVARIANTS
  CompleteMeansCooked
PROPERTIES
  OrdersAreAnswered
CHECK_DEADLOCK FALSE
