\* A process that died between two requests is handed to the next one.
SPECIFICATION Spec
CONSTANTS
  Reqs = {r1, r2}
  Engines = {stockfish}
  MaxWorkers = 1
  MultiPVs = {1}
PROPERTY
  AcquireDeliversLiveEngine
