SPECIFICATION Spec
CONSTANTS
  Node = {1, 2}
  MaxStep = 2
  MaxMsg = 4
  MaxCrash = 1
  Timely = FALSE
  Reuse = TRUE
INVARIANTS NoSplitBrain
CHECK_DEADLOCK FALSE
