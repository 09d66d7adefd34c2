----------------------------- MODULE MCPractice -----------------------------
(* Two games. The first has two cards for White and one for Black; a        *)
(* promotion changes its order or the answer of a card, a deletion takes    *)
(* one away.                                                                *)
EXTENDS Practice

Node(f, a) == [fen |-> f, answer |-> a]

MCFens == {"start", "reply", "black"}
MCWhite == {"start", "reply"}
Whole == <<Node("start", "x"), Node("black", "x"), Node("reply", "x")>>
Turned == <<Node("reply", "x"), Node("start", "x"), Node("black", "x")>>
Promoted == <<Node("start", "y"), Node("black", "x"), Node("reply", "x")>>
Short == <<Node("reply", "x")>>
MCTrees == [g \in Games |-> IF g = 0 THEN {Whole, Turned, Promoted, Short} ELSE {Short}]
MCStored == [g \in Games |-> IF g = 0 THEN Whole ELSE Short]

=============================================================================
