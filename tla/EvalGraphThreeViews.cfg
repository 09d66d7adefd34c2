SPECIFICATION Spec
CONSTANTS
  Views = {v1, v2, v3}
  Games = {g1, g2}
  Plies = {p1}
  NoView = NoView
SYMMETRY Symmetry
INVARIANTS
  TypeOK
  FollowersAreServed
  EntriesAreRunning
  OneAnalysisUnlessOutlived
  WriteLockIsInUse
  OwnResultsShown
