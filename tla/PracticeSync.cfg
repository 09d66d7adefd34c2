CONSTANTS
  Games = {0, 1}
  Fens <- MCFens
  Answers = {"x", "y"}
  WhiteMoves <- MCWhite
  Trees <- MCTrees
  Stored <- MCStored
  AutoGrade = TRUE
  NoFen = NoFen
SPECIFICATION PracticeSpec
INVARIANT AnswersFollowTree
