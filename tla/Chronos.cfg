SPECIFICATION MCSpec
CONSTANTS
  Nodes = {1, 2}
  Home = 1
  Events = {1, 2}
  Alone = {2}
  Faulty = {2}
  MaxTime = 2
  MaxCrashes = 1
  MaxLate = 1
  MaxRemovals = 1
INVARIANTS ChronosInv
PROPERTIES KeptUntilDone ReadsOwnWrite EventRuns
\* everything may have been run
CHECK_DEADLOCK FALSE
