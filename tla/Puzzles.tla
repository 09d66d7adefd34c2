------------------------------- MODULE Puzzles -------------------------------
(* A tab of puzzles (components/puzzles/Puzzles.tsx) and its board           *)
(* (PuzzleBoard.tsx): the list of the session, the index of the current      *)
(* puzzle, and the game tree the two share, which the player, the solution   *)
(* and calls that answer late all write to.                                  *)
(*                                                                          *)
(* Of the tree the main line is kept, a move as <<puzzle, number>>, and how  *)
(* far along it the cursor is. A wrong try is pushed behind the moves that   *)
(* are there: where there are none it is the main line, else a variation;    *)
(* variations, with the cursor in them, are left out.                        *)
EXTENDS Integers, Sequences, SequencesExt, FiniteSetsExt

CONSTANTS
  MaxPuzzles,  \* bound: puzzles got from the database
  MaxCalls,    \* bound: get_puzzle() calls at a time
  N,           \* the moves of a puzzle, the first of them the opponent's
  None

ASSUME PuzzlesAssumption ==
  /\ MaxPuzzles \in Nat \ {0} /\ MaxCalls \in Nat \ {0} /\ N \in Nat \ {0, 1}

VARIABLES
  puzzles,   \* the puzzles of the session
  done,      \* completion of each: closures share the puzzle objects
  served,    \* the puzzles got so far
  current,   \* currentPuzzle
  line, at,  \* the main line of the tree and the cursor on it
  ended,     \* state of the board for the current index
  db,        \* whether a database is selected
  fetches,   \* for each get_puzzle() the length of the list when it was called
  waits,     \* last moves that wait for the themes of their puzzle
  solution,  \* the solution that is played and its next move
  crossed    \* history: a call or timer outlived what it was started for

list == <<puzzles, done, served>>
board == <<line, at, ended>>
calls == <<fetches, waits, solution>>
vars == <<list, current, board, db, calls, crossed>>

Ids == 1..MaxPuzzles
HasPuzzle == current \in DOMAIN puzzles
Puzzle == puzzles[current]
MoveOf(p, k) == <<p, k>>
Try(p) == <<p, 0>>  \* a move at puzzle p that is not of its solution

-----------------------------------------------------------------------------
(* The board.                                                               *)

(* makeMove() on the main line: an existing move is followed.               *)
Step(to, m) ==
  IF to[2] < Len(to[1]) /\ to[1][to[2] + 1] = m THEN <<to[1], to[2] + 1>>
  ELSE <<Append(SubSeq(to[1], 1, to[2]), m), to[2] + 1>>

Play(i, moves) ==
  LET to == FoldLeft(Step, <<line, i>>, moves) IN line' = to[1] /\ at' = to[2]

setPuzzle(p) == line' = <<MoveOf(p, 1)>> /\ at' = 1

(* currentMove of the board: how many moves of the puzzle the main line has. *)
Matched(p) ==
  Max({k \in 0..Len(line) : k <= N /\ \A j \in 1..k : line[j] = MoveOf(p, j)})

Movable ==
  /\ HasPuzzle /\ at = Matched(Puzzle)
  /\ done[Puzzle] \in {"incomplete", "incorrect"}

(* The board is mounted once for each index; e is what the one of the       *)
(* current index has been told.                                             *)
EndedAt(i, e) == IF i = current THEN e ELSE FALSE

(* Mutant: the solution of the puzzle before goes on.                       *)
GoesToPlaying(i, p, e) ==
  /\ current' = i /\ ended' = EndedAt(i, e)
  /\ setPuzzle(p)
  /\ UNCHANGED solution

GoesTo(i, p, e) ==
  /\ current' = i /\ ended' = EndedAt(i, e)
  /\ setPuzzle(p)
  /\ solution' = None

-----------------------------------------------------------------------------
(* Getting puzzles, with the list and the index of the caller's render.     *)

NextIn(l, i) ==
  LET open == {j \in DOMAIN l : j # i /\ done'[l[j]] = "incomplete"}
      after == {j \in open : j > i}
  IN IF after # {} THEN Min(after) ELSE IF open # {} THEN Min(open) ELSE 0

generatePuzzle(l, i, force, e) ==
  LET next == NextIn(l, i)
  IN IF next # 0 /\ ~force
     THEN GoesTo(next, l[next], e) /\ UNCHANGED fetches
     ELSE /\ Len(fetches) < MaxCalls
          /\ fetches' = Append(fetches, Len(l))
          /\ solution' = None /\ ended' = e
          /\ UNCHANGED <<current, line, at>>

NewPuzzle ==
  /\ db
  /\ UNCHANGED list /\ generatePuzzle(puzzles, current, TRUE, ended)
  /\ UNCHANGED <<db, waits, crossed>>

PuzzleArrives(c) ==
  /\ served < MaxPuzzles
  /\ served' = served + 1
  /\ puzzles' = Append(puzzles, served') /\ UNCHANGED done
  /\ current' = fetches[c] + 1 /\ ended' = EndedAt(current', ended)
  /\ setPuzzle(served')
  /\ fetches' = RemoveAt(fetches, c)
  /\ crossed' = (crossed \/ Len(puzzles) # fetches[c] \/ solution # None)
  /\ UNCHANGED <<db, waits, solution>>

(* unwrap() throws.                                                         *)
GetPuzzleFails(c) ==
  /\ fetches' = RemoveAt(fetches, c)
  /\ UNCHANGED <<list, current, board, db, waits, solution, crossed>>

-----------------------------------------------------------------------------
(* Playing.                                                                 *)

(* Mutant: the last move wins the puzzle whatever was tried or seen before. *)
SolvedAnyway(p) == [done EXCEPT ![p] = "correct"]

Solved(p) == IF done[p] = "incorrect" THEN done ELSE [done EXCEPT ![p] = "correct"]

Missed(p) == IF done[p] = "incomplete" THEN [done EXCEPT ![p] = "incorrect"] ELSE done

Replies(p, k) == SubSeq([j \in 1..N |-> MoveOf(p, j)], k + 1, IF k + 2 > N THEN N ELSE k + 2)

(* A right move, or one that mates; the reply comes with it.                *)
RightMove ==
  /\ Movable /\ Matched(Puzzle) < N - 1
  /\ Play(at, Replies(Puzzle, at))
  /\ UNCHANGED <<list, current, ended, db, calls, crossed>>

(* The last move of a puzzle that was won is shown after its themes have    *)
(* come, or the next puzzle is.                                             *)
LastMove ==
  /\ Movable /\ Matched(Puzzle) = N - 1
  /\ done' = Solved(Puzzle) /\ UNCHANGED <<puzzles, served>>
  /\ \E jump \in BOOLEAN :
       \/ /\ done[Puzzle] # "incorrect" /\ db
          /\ waits' = waits \cup {[puzzle |-> Puzzle, from |-> at, list |-> puzzles,
                                  index |-> current, jump |-> jump]}
          /\ UNCHANGED <<current, board, fetches, solution>>
       \/ /\ done[Puzzle] = "incorrect" /\ jump /\ db
          /\ generatePuzzle(puzzles, current, FALSE, FALSE)
          /\ UNCHANGED waits
       \/ /\ (done[Puzzle] = "incorrect" /\ ~jump) \/ ~db
          /\ Play(at, Replies(Puzzle, at)) /\ ended' = FALSE
          /\ UNCHANGED <<current, calls>>
  /\ UNCHANGED <<db, crossed>>

ThemesArrive(w) ==
  /\ waits' = waits \ {w}
  /\ UNCHANGED list
  /\ IF w.jump THEN generatePuzzle(w.list, w.index, FALSE, ended /\ current # w.index)
     ELSE /\ Play(at, Replies(w.puzzle, w.from))
          /\ ended' = (ended /\ current # w.index)
          /\ UNCHANGED <<current, fetches, solution>>
  /\ crossed' = (crossed \/ ~IF w.jump THEN IsPrefix(w.list, puzzles)
                              ELSE HasPuzzle /\ Puzzle = w.puzzle)
  /\ UNCHANGED db

(* makeMove() without `mainline` pushes the try and leaves the cursor.       *)
WrongMove ==
  /\ Movable
  /\ line' = IF at = Len(line) THEN Append(line, Try(Puzzle)) ELSE line
  /\ done' = IF ended THEN done ELSE [done EXCEPT ![Puzzle] = "incorrect"]
  /\ ended' = TRUE
  /\ UNCHANGED <<puzzles, served, current, at, db, calls, crossed>>

(* The button is off at the first and at the last position.                 *)
GetAHint ==
  /\ HasPuzzle /\ at > 0 /\ line[at] # MoveOf(Puzzle, N)
  /\ done' = Missed(Puzzle)
  /\ solution' = None
  /\ UNCHANGED <<puzzles, served, current, board, db, fetches, waits, crossed>>

ViewSolution ==
  /\ HasPuzzle
  /\ done' = Missed(Puzzle)
  /\ Play(0, <<MoveOf(Puzzle, 1)>>)
  /\ solution' = [puzzle |-> Puzzle, next |-> 2]
  /\ UNCHANGED <<puzzles, served, current, ended, db, fetches, waits, crossed>>

(* 500 ms later, wherever the cursor is.                                    *)
SolutionMove ==
  /\ solution # None
  /\ Play(at, <<MoveOf(solution.puzzle, solution.next)>>)
  /\ solution' = IF solution.next = N THEN None ELSE [solution EXCEPT !.next = @ + 1]
  /\ UNCHANGED <<list, current, ended, db, fetches, waits, crossed>>

Navigate(i) ==
  /\ i # at /\ at' = i
  /\ UNCHANGED <<list, current, line, ended, db, calls, crossed>>

-----------------------------------------------------------------------------
(* The session.                                                             *)

SelectPuzzle(i) ==
  /\ i # current
  /\ GoesTo(i, puzzles[i], ended)
  /\ UNCHANGED <<list, db, fetches, waits, crossed>>

(* Mutant: reset() keeps the position.                                      *)
ResetKeeping == line' = << >> /\ UNCHANGED at

Reset == line' = << >> /\ at' = 0

(* The index stays, and with it the board; the solution goes on.            *)
ClearSession ==
  /\ puzzles' = << >> /\ Reset
  /\ crossed' = (crossed \/ solution # None)
  /\ UNCHANGED <<done, served, current, ended, calls>>

DeleteDatabase == db /\ db' = FALSE /\ ClearSession

SelectDatabase == ~db /\ db' = TRUE /\ UNCHANGED <<list, current, board, calls, crossed>>

(* The list and the tree are in the session storage, the index is not.      *)
Reload ==
  /\ current' = 1 /\ ended' = FALSE
  /\ fetches' = << >> /\ waits' = {} /\ solution' = None
  /\ crossed' = (crossed \/ (puzzles # << >> /\ current # 1))
  /\ UNCHANGED <<list, line, at, db>>

-----------------------------------------------------------------------------

Init ==
  /\ puzzles = << >> /\ done = [p \in Ids |-> "incomplete"] /\ served = 0
  /\ current = 1
  /\ line = << >> /\ at = 0 /\ ended = FALSE
  /\ db = TRUE
  /\ fetches = << >> /\ waits = {} /\ solution = None
  /\ crossed = FALSE

Next ==
  \/ NewPuzzle
  \/ \E c \in DOMAIN fetches : PuzzleArrives(c) \/ GetPuzzleFails(c)
  \/ RightMove \/ LastMove \/ WrongMove
  \/ \E w \in waits : ThemesArrive(w)
  \/ GetAHint \/ ViewSolution \/ SolutionMove
  \/ \E i \in 0..Len(line) : Navigate(i)
  \/ \E i \in DOMAIN puzzles : SelectPuzzle(i)
  \/ ClearSession /\ UNCHANGED db
  \/ DeleteDatabase
  \/ SelectDatabase
  \/ Reload

Spec == Init /\ [][Next]_vars

(* State constraint: what follows after a crossing is not looked at, nor a  *)
(* line that is longer than a puzzle and a try at its end.                  *)
Watched ==
  /\ ~crossed
  /\ Len(line) <= N \/ (Len(line) = N + 1 /\ Last(line) = Try(Last(line)[1]))

-----------------------------------------------------------------------------
(* Properties.                                                              *)

(* The types; no puzzle is listed twice and the cursor is on the line.      *)
TypeOK ==
  /\ ToSet(puzzles) \subseteq 1..served /\ IsInjective(puzzles)
  /\ done \in [Ids -> {"incomplete", "correct", "incorrect"}]
  /\ current \in 1..(MaxPuzzles + 1)
  /\ at \in 0..Len(line)
  /\ solution # None => solution.puzzle \in 1..served /\ solution.next \in 2..N

(* Every move on the board is one of the puzzle that is judged, of its      *)
(* solution or a try at it, unless a call or a timer outlived what it was   *)
(* started for: two puzzles got at once, a list cleared or a solution       *)
(* started while one was on its way, a puzzle left before its last move was *)
(* shown, a session cleared while the solution played, a reload             *)
(* (Puzzles.tsx:148-191, 573-583, 642-661, PuzzleBoard.tsx:83-111).         *)
BoardIsTheCurrent ==
  ~crossed =>
    /\ puzzles # << >> => HasPuzzle /\ line # << >>
    /\ \A j \in DOMAIN line : HasPuzzle /\ line[j][1] = Puzzle

(* A puzzle counts once: what was missed or seen is not won later, what was *)
(* won is not missed later (PuzzleBoard.tsx:83-111, Puzzles.tsx:193-212).   *)
CountedOnce ==
  [][\A p \in Ids : done[p] # "incomplete" => done'[p] = done[p]]_vars

=============================================================================
