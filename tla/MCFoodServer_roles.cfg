SPECIFICATION Spec
CONSTANTS
  Cooks = {k1, k2}
  Customers = {c1}
  Dishes = {d1, d2}
  Workers = {w1, w2}
  Addr = {a1, a2, a3}
  NoClient = NoClient
  NoThread = NoThread
  Capabilities <- AnyMenu
  MaxOrderLen = 2
  Mortal = {}
  Paced = FALSE
SYMMETRY Symmetry
INVARIANTS
  OnlyCooksBecomeCooks
CHECK_DEADLOCK FALSE
