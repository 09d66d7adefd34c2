CONSTANTS
  TabIds = {t1, t2}
  MaxSaves = 1
  MayFail = TRUE
  NoTab = NoTab
  NoEntry = NoEntry
  Live = Live
SPECIFICATION Spec
INVARIANTS TypeOK EditsSurvive CleanIsWritten
PROPERTIES ClosesUnaskedOnlyUnflushed
SYMMETRY Symmetry
CHECK_DEADLOCK FALSE
