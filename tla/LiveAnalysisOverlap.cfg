\* Two calls that overlap, on an engine that falls silent within 50 ms.
SPECIFICATION Spec
CONSTANTS
  Positions = {p1, p2}
  Timely = TRUE
  MaxStarts = 1
  MaxCalls = 2
  MaxUnderWay = 1
  MaxHandlers = 2
  None = None
INVARIANTS
  LinesBelong
