---------------------------- MODULE MCBoardGame ----------------------------
(* The board of a game for TLC: moves are interchangeable.                  *)
EXTENDS BoardGame

Symmetry == Permutations(Moves)

=============================================================================
