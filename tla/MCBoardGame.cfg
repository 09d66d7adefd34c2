CONSTANTS
  Moves = {a, b}
  Sides = {{0}, {1}, {0, 1}}
  MaxPly = 2
  MaxCalls = 2
  MaxEvents = 2
  None = None
SPECIFICATION Spec
INVARIANTS TypeOK BoardCatchesUp OverAgrees
CONSTRAINT Watched
SYMMETRY Symmetry
