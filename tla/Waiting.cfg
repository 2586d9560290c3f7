SPECIFICATION FairSpec
CONSTANTS
  Parent = p
  Journeys = {p}
  Kids = {k1, k2, k3}
  NoKid = none
  Nobody = nobody
  MaxEvents = 2
INVARIANTS WaitingInv ReturnsInTime Outlives LeavesNothing
PROPERTIES WaitEnds
\* the parent may have left, and a child be stuck
CHECK_DEADLOCK FALSE
