\* Two slots of one engine, three clients.
SPECIFICATION Spec
CONSTANTS
  Reqs = {r1, r2, r3}
  Engines = {stockfish}
  MaxWorkers = 2
  MultiPVs = {1}
SYMMETRY ClientSymmetry
INVARIANTS
  TypeOK
  SlotExclusion
  HolderHasLock
  AdmissionIsWaiting
  PermitsAccounted
  NoIdlePermit
  AnswersOwnSearch
  NoAbandonedSearch
  QueuesAreWaiters
