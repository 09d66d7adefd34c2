\* With one slot, a hung search makes every later request a 503.
SPECIFICATION Spec
CONSTANTS
  Reqs = {r1, r2}
  Engines = {stockfish}
  MaxWorkers = 1
  MultiPVs = {1}
PROPERTY
  RefusedOnlyIfNeverAcquired
