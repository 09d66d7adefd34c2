----------------------------- MODULE MCGameTree -----------------------------
(* A pawn's move and castling, by the rook's square as a PGN gives it and by*)
(* the king's as an engine does: two names, so there are siblings in both   *)
(* orders and lines that differ late, and twins. Four nodes hold a main line*)
(* with a side line of two moves.                                           *)
EXTENDS GameTree, TLC

e4 == [san |-> "e4", move |-> "e2e4"]
ToRook == [san |-> "O-O", move |-> "e1h1"]
ToKing == [san |-> "O-O", move |-> "e1g1"]

MCMoves == {e4, ToRook, ToKing}
MCEngineMoves == {e4, ToKing}

Line(m, n) == (<< >> :> NoMove) @@ (<<0>> :> m) @@ (<<0, 0>> :> n)

(* 1. e4 .. 2. O-O, and the same with a variation that begins with 1. e4.   *)
MCGames == {Line(e4, ToRook), (<<0>> :> e4) @@ (<<1>> :> e4) @@ Line(e4, ToRook)}

(* A path that neither of them has.                                         *)
MCNotedPaths == {<<1, 0>>}

(* Action constraint: no report runs in a game with a Start header, which it*)
(* neither reads nor writes.                                                *)
Apart == report' = NoReport \/ start' = NoPath

=============================================================================
