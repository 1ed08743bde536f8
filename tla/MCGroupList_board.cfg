SPECIFICATION FairSpec
CONSTANTS
  Clients = {c1, c2, c3}
  Groups = {0, 3, 10}
  NoGroup = NoGroup
  Garbage = Garbage
INVARIANTS
  SortedGroups
  MessagesInOrder
PROPERTIES
  OneMessageEach
  EveryClientIsServed
CHECK_DEADLOCK FALSE
