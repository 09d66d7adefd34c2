--------------------------- MODULE MCLiveAnalysis ---------------------------
(* Small instances of LiveAnalysis for TLC.                                 *)
EXTENDS LiveAnalysis, TLC

Symmetry == Permutations(Positions)

(* Action constraint: one process, or two and with them two of what sleeps, *)
(* listens or is under way, not both of one kind.                           *)
Crossings ==
  Len(procs') = 2 =>
    /\ Len(calls') + UnderWay' + Cardinality(handlers') <= 2
    /\ Len(calls') < 2 /\ UnderWay' < 2 /\ Cardinality(handlers') < 2

=============================================================================
