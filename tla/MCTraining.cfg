\* Puzzles: two puzzles of four moves. Practice: two games, of three positions
\* and of one.
CONSTANTS
  MaxPuzzles = 2
  MaxCalls = 2
  N = 4
  None = None
  Games = {0, 1}
  Fens <- MCFens
  Answers = {"x", "y"}
  WhiteMoves <- MCWhite
  Trees <- MCTrees
  Stored <- MCStored
  AutoGrade = TRUE
  NoFen = NoFen
SPECIFICATION TrainingSpec
CONSTRAINT Watched
INVARIANTS TypeOK BoardIsTheCurrent PracticeTypeOK FullAsksTheFirst
PROPERTIES CountedOnce GradesTheShown ReviewsSurvive
