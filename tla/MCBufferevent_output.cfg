SPECIFICATION FairSpec
CONSTANTS
  Options = {"THREADSAFE", "DEFER_CALLBACKS", "UNLOCK_CALLBACKS"}
  Writers = {"assign_orders", "cook_update"}
  Holders = {"assign_orders"}
  Loop = "loop"
  Nobody = Nobody
  Room = 1
  Marks = {0, 1}
  MaxWrites = 1
  MaxArrivals = 2
  MaxCalls = 2
INVARIANTS
  InputFollowsWatermark
PROPERTIES
  NothingAfterFree
  WrittenIsSent
  CallsReturn
  FreedIsReclaimed
CHECK_DEADLOCK FALSE
