SPECIFICATION Spec
CONSTANTS
  Threads = {t1, t2, t3}
  MaxJourneys = 4
  MaxWaits = 3
INVARIANTS PoolInv
PROPERTIES ReturnMeansDone Progress
\* the pool may be destroyed
CHECK_DEADLOCK FALSE
