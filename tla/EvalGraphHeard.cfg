SPECIFICATION Spec
CONSTANTS
  Views = {v1, v2}
  Games = {g1}
  Plies = {p1}
  NoView = NoView
SYMMETRY Symmetry
INVARIANTS
  HeardIsShown
