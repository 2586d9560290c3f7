SPECIFICATION MCSpec
CONSTANTS
  Journeys = {j1, j2}
  Alone = {j1}
  Callers = {c1, c2}
  MaxEvents = 1
  MaxPuts = 2
  MaxCloses = 2
INVARIANTS ChannelInv NobodyForgotten
PROPERTIES LostToEventsOnly ClosedIsTold FirstInFirstOut
\* every journey may have ended, and nobody may put
CHECK_DEADLOCK FALSE
