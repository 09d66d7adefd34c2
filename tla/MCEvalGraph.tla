----------------------------- MODULE MCEvalGraph -----------------------------
(* Small instances of EvalGraph for TLC.                                   *)
EXTENDS EvalGraph, TLC

(* Views are interchangeable, and so are games and plies.                  *)
Symmetry == Permutations(Views) \cup Permutations(Games) \cup Permutations(Plies)
=============================================================================
