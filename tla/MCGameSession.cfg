\* A human with the first move against an engine with a book, on a clock.
SPECIFICATION FairSpec
CONSTANTS
  Moves = {a, b, c}
  MaxPlies = 3
  Lines <- SmallTree
  EngineSides = {1}
  HasClock = TRUE
  HasBook = TRUE
CHECK_DEADLOCK FALSE
INVARIANTS
  TypeOK
  GameIsTended
PROPERTIES
  EngineMovesAreFresh
  OutcomesStand
  EngineReplies
  AbortEnds
