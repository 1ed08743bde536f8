SPECIFICATION FairSpec
CONSTANTS
  Options = {}
  Writers = {"assign_orders", "cook_update"}
  Holders = {"assign_orders"}
  Loop = "loop"
  Nobody = Nobody
  Room = 1
  Marks = {}
  MaxWrites = 1
  MaxArrivals = 0
  MaxCalls = 0
PROPERTIES
  WrittenIsSent
CHECK_DEADLOCK FALSE
