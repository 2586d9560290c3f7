SPECIFICATION MCSpec
CONSTANTS
  Journeys = {j1, j2, j3}
  Disturbed = {j1, j2}
  Watched = {j1}
  MaxEvents = 2
INVARIANTS MutexInv MutualExclusion
PROPERTIES LostByThrowingOnly Woken FirstComeFirstServed
\* every journey may have ended
CHECK_DEADLOCK FALSE
