\* The engine follows the board; no symmetry, for the liveness.
SPECIFICATION FairSpec
CONSTANTS
  Positions = {p1, p2}
  Timely = TRUE
  MaxStarts = 1
  MaxCalls = 2
  MaxUnderWay = 1
  MaxHandlers = 2
  None = None
PROPERTIES
  Follows
