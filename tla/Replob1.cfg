SPECIFICATION FairSpec
CONSTANTS
  Node = {1, 2, 3}
  MaxStep = 2
  MaxMsg = 2
  MaxStop = 1
  Timely = TRUE
INVARIANTS Replob1Inv
PROPERTIES Refines Delivery
\* everything may be executed, or a step wait for a process that died
CHECK_DEADLOCK FALSE
