\* Calls that overlap and starts that overlap, on an engine that takes its time.
SPECIFICATION Spec
CONSTANTS
  Positions = {p1, p2}
  Timely = FALSE
  MaxStarts = 2
  MaxCalls = 2
  MaxUnderWay = 2
  MaxHandlers = 2
  None = None
SYMMETRY Symmetry
ACTION_CONSTRAINT Crossings
INVARIANTS
  TypeOK
  ResultsBelong
  OffIsQuiet
  FollowsTheBoard
