CONSTANTS
  TabIds = {t1}
  MaxSaves = 1
  MayFail = FALSE
  NoTab = NoTab
  NoEntry = NoEntry
  Live = Live
SPECIFICATION Spec
INVARIANT AutoSavesEachMove
CHECK_DEADLOCK FALSE
