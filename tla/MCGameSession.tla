---------------------------- MODULE MCGameSession ----------------------------
(* Small instances of GameSession for TLC.                                 *)
EXTENDS GameSession, FiniteSets

CONSTANT MaxPlies  \* the length of the longest game

(* A game in which no move repeats the one before it: after different moves *)
(* some replies are legal in both positions and some in one only.           *)
SmallTree ==
  {h \in UNION {[1 .. n -> Moves] : n \in 0 .. MaxPlies} :
     \A i \in 2 .. Len(h) : h[i] # h[i - 1]}
=============================================================================
