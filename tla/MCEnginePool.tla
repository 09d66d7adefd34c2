----------------------------- MODULE MCEnginePool -----------------------------
(* Small instances of EnginePool for TLC.                                  *)
EXTENDS EnginePool, TLC

(* Clients are interchangeable.                                            *)
ClientSymmetry == Permutations(Reqs)
=============================================================================
