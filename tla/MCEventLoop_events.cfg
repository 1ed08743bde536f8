SPECIFICATION FairSpec
CONSTANTS
  Events = {"read", "write", "once"}
  Deferreds = {"deferred"}
  Fds = {"socket"}
  Fd <- MCFd
  What <- MCWhat
  Persist = {"read", "write"}
  Pri <- MCPri
  NPri = 2
  Delays <- MCDelays
  MaxDeferreds = 0
  Together <- MCTogether
  Activated = {"once"}
  MaxLate = 1
  None = None
INVARIANTS
  Bookkeeping
  KernelWatches
  DeletedStaysQuiet
PROPERTIES
  NothingAfterFinalizer
  UrgentFirst
  ReadyIsServed
  TimeoutIsHandled
