SPECIFICATION Spec
CONSTANTS
  Half = 16
  Messages = {1, 2, 3}
  MaxFaults = 1
  MaxSize = 3
INVARIANTS NetworkInv RoundTrip
PROPERTIES SilentAfterRemove Progress
\* everything may be written and read
CHECK_DEADLOCK FALSE
