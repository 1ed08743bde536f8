SPECIFICATION PausedFairSpec
CONSTANTS
  Workers = {w1, w2}
  Callers = {c1, c2}
  Waiters = {c1}
  Jobs = {j1, j2}
  NoJob = NoJob
  Nobody = Nobody
  MaxSpurious = 1
  MaxPauses = 1
INVARIANTS
  TypeOK
  EveryJobIsSomewhere
  WaitReturnsAfterWork
  NoLostWakeup
  DestroyOutlivesWork
PROPERTIES
  Implements
  EveryJobIsExecuted
  EveryWaitReturns
  DestroyReturns
CHECK_DEADLOCK FALSE
