\* MultiPV of an earlier request stays set in the process.
SPECIFICATION Spec
CONSTANTS
  Reqs = {r1, r2}
  Engines = {stockfish}
  MaxWorkers = 1
  MultiPVs = {1, 3}
INVARIANT
  PVsAsRequested
