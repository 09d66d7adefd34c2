\* Three clients on one slot, with engines that may hang at any point.
SPECIFICATION FairSpec
CONSTANTS
  Reqs = {r1, r2, r3}
  Engines = {stockfish}
  MaxWorkers = 1
  MultiPVs = {1}
INVARIANTS
  TypeOK
  SlotExclusion
  PoolAccounts
  AnswersOwnSearch
PROPERTIES
  Answered
  GoEnds
