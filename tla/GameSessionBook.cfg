\* The same game, against what game.rs:1373 says of the book.
SPECIFICATION Spec
CONSTANTS
  Moves = {a, b, c}
  MaxPlies = 3
  Lines <- SmallTree
  EngineSides = {1}
  HasClock = TRUE
  HasBook = TRUE
CHECK_DEADLOCK FALSE
PROPERTIES
  BookMovesOnEngineTurns
