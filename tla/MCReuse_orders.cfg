SPECIFICATION OpenReuse
CONSTANTS
  Cooks = {k1, k2}
  Customers = {c1, c2}
  Dishes = {d1, d2}
  Workers = {w1, w2}
  Addr = {a1, a2, a3, a4}
  NoClient = NoClient
  NoThread = NoThread
  Capabilities <- OneOrAll
  MaxOrderLen = 2
  Mortal = {c1}
  Paced = TRUE
SYMMETRY OpenSymmetry
INVARIANTS
  NoDoubleBooking
  OwnRefusalIsTrue
PROPERTIES
  OwnDishGivenOnce
CHECK_DEADLOCK FALSE
