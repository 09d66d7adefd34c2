------------------------------ MODULE LineBook ------------------------------
(* What a game tree promises, whatever its children's order and their       *)
(* number: it is a set of lines closed under prefixes, and a mark that it   *)
(* has changed. Moves are added, a move is deleted with what follows it, the*)
(* book is cleared, and another one takes its place.                        *)
EXTENDS Sequences, SequencesExt

CONSTANT Books  \* the lines of the games there are

VARIABLES lines, dirty

Closed(L) ==
  /\ << >> \in L
  /\ \A l \in L \ {<< >>} : Front(l) \in L

Init ==
  /\ lines = {<< >>}
  /\ dirty = FALSE

(* New moves, or none: no line is lost.                                     *)
Extend ==
  /\ lines \subseteq lines'
  /\ Closed(lines')
  /\ dirty' = TRUE

Continuations(l) == {k \in lines : IsPrefix(l, k)}

(* Lines are lost that continue one: some, where another copy keeps them.   *)
Delete ==
  /\ \E l \in lines \ {<< >>} : lines \ Continuations(l) \subseteq lines'
  /\ lines' \subseteq lines
  /\ Closed(lines')
  /\ dirty' = TRUE

(* All of them are lost.                                                    *)
TakeOut == \E l \in lines \ {<< >>} : lines' = lines \ Continuations(l)

Clear ==
  /\ lines' = {<< >>}
  /\ dirty' = TRUE

(* Another book is opened, or an empty one.                                 *)
Open ==
  /\ lines' \in Books \cup {{<< >>}}
  /\ dirty' = FALSE

(* Another book takes the place of this one, which is not saved.            *)
Replace ==
  /\ lines' \in Books
  /\ dirty' = TRUE

Save ==
  /\ lines' = lines
  /\ dirty' = FALSE

Next == Extend \/ Delete \/ Clear \/ Open \/ Replace \/ Save

Spec == Init /\ [][Next]_<<lines, dirty>>

=============================================================================
