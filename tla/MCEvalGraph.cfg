\* Two clients and a game of two plies, with liveness and the refinement.
SPECIFICATION FairSpec
CONSTANTS
  Views = {v1, v2}
  Games = {g1}
  Plies = {p1, p2}
  NoView = NoView
INVARIANTS
  TypeOK
  DedupIsSound
  StoreIsSound
PROPERTIES
  CacheSpec
  EveryViewAnswered
