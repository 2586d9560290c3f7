SPECIFICATION FairSpec
CONSTANTS
  Node = {1, 2, 3}
  MaxStep = 1
  MaxMsg = 3
  MaxCrash = 1
  Timely = TRUE
  Reuse = FALSE
PROPERTIES Delivery
CHECK_DEADLOCK FALSE
