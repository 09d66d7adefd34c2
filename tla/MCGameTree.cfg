CONSTANTS
  Moves <- MCMoves
  EngineMoves <- MCEngineMoves
  Games <- MCGames
  NotedPaths <- MCNotedPaths
  MaxPly = 3
  MaxNodes = 4
  NoMove = NoMove
  NoPath = NoPath
  NoReport = NoReport
SPECIFICATION Spec
ACTION_CONSTRAINT Apart
INVARIANTS TypeOK
PROPERTIES TwinsOnlyBy EditsAreMarked StraysOnlyBy KeepsLines
