SPECIFICATION Spec
CONSTANTS
  Node = {1, 2, 3}
  MaxStep = 2
  MaxMsg = 3
  MaxCrash = 2
  Timely = TRUE
  Reuse = FALSE
INVARIANTS Agreement SenderOrder VotingInv
PROPERTIES NoMinorityDecision
CHECK_DEADLOCK FALSE
