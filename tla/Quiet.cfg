SPECIFICATION SpecQuiet
CONSTANTS
  Node = {1, 2, 3}
  MaxStep = 2
  MaxMsg = 3
  MaxCrash = 1
  Timely = FALSE
  Reuse = FALSE
INVARIANTS UniformAgreement IInv
PROPERTIES Refines
CHECK_DEADLOCK FALSE
