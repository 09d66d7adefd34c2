----------------------- MODULE PuzzlesPracticeProofs -----------------------
(* What a player of puzzles and of a repertoire may rely on.                *)
(* Puzzles: that a puzzle counts once, and that the board shows the puzzle  *)
(* that is judged, for any number of puzzles, calls and moves.              *)
(* Practice: that a deck has the cards of its tree, that a grade goes to    *)
(* the card that was answered, that a full session asks the card it drops,  *)
(* and that a sync forgets nothing of the positions that stay, for any      *)
(* games, trees and positions.                                              *)
EXTENDS Puzzles, Practice, FiniteSetTheorems, SequenceTheorems, TLAPS

-----------------------------------------------------------------------------
(* Numbers. The induction theorems of the library take an operator; here    *)
(* they take a set of numbers.                                              *)

(* A set of numbers has a least one.                                        *)
LEMMA MinOf ==
  ASSUME NEW T \in SUBSET Nat, T # {}
  PROVE  Min(T) \in T /\ \A y \in T : Min(T) <= y
<1> DEFINE upTo == {T \cap (0 .. n) : n \in T}
<1>1. upTo \subseteq FiniteSubsetsOf(T) /\ upTo # {}
  <2>1. ASSUME NEW n \in T
        PROVE  IsFiniteSet(T \cap (0 .. n))
    <3>1. IsFiniteSet(0 .. n)
      BY FS_Interval
    <3>2. QED
      BY <3>1, FS_Intersection
  <2>2. QED
    BY <2>1 DEF FiniteSubsetsOf
<1>2. PICK U \in upTo : \A V \in upTo : <<V, U>> \notin StrictSubsetOrdering(T)
  BY <1>1, FS_StrictSubsetOrderingWellFounded, WFMin, Zenon
<1>3. PICK n \in T : U = T \cap (0 .. n)
  BY <1>2
<1>4. ASSUME NEW y \in T
      PROVE  n <= y
  <2>1. SUFFICES ASSUME y < n
                 PROVE  FALSE
    OBVIOUS
  <2>2. T \cap (0 .. y) \in upTo
    OBVIOUS
  <2>3. T \cap (0 .. y) \subseteq U /\ T \cap (0 .. y) # U
    BY <1>3, <2>1
  <2>4. <<T \cap (0 .. y), U>> \in StrictSubsetOrdering(T)
    BY <1>3, <2>3 DEF StrictSubsetOrdering
  <2>5. QED
    BY <1>2, <2>2, <2>4
<1>5. QED
  BY <1>3, <1>4 DEF Min

(* A set that has 0 and the successors of its members has all.              *)
LEMMA NatSteps ==
  ASSUME NEW S, 0 \in S, \A n \in Nat : n \in S => n + 1 \in S
  PROVE  \A n \in Nat : n \in S
<1>1. SUFFICES ASSUME Nat \ S # {}
               PROVE  FALSE
  OBVIOUS
<1> DEFINE m == Min(Nat \ S)
<1>2. m \in Nat \ S /\ \A y \in Nat \ S : m <= y
  <2>1. Nat \ S \in SUBSET Nat
    OBVIOUS
  <2>2. QED
    BY <1>1, <2>1, MinOf, Zenon
<1> HIDE DEF m
<1>3. m - 1 \in Nat /\ m = (m - 1) + 1 /\ ~(m <= m - 1)
  BY <1>2
<1>4. m - 1 \in S
  BY <1>2, <1>3
<1>5. QED
  BY <1>2, <1>3, <1>4

(* A bounded set of numbers has a greatest one.                             *)
LEMMA MaxOf ==
  ASSUME NEW S \in SUBSET Nat, S # {}, NEW b \in Nat, \A x \in S : x <= b
  PROVE  Max(S) \in S /\ \A x \in S : x <= Max(S)
<1> DEFINE U == {n \in Nat : \A x \in S : x <= n}
<1> DEFINE m == Min(U)
<1>1. m \in Nat /\ (\A x \in S : x <= m) /\ \A y \in U : m <= y
  <2>1. U \in SUBSET Nat /\ b \in U
    OBVIOUS
  <2>2. m \in U /\ \A y \in U : m <= y
    BY <2>1, MinOf, Zenon
  <2>3. QED
    BY <2>2
<1>2. m \in S
  <2>1. SUFFICES ASSUME m \notin S
                 PROVE  FALSE
    OBVIOUS
  <2>2. PICK x \in S : TRUE
    OBVIOUS
  <2>3. \A y \in S : y <= m - 1
    BY <1>1, <2>1
  <2>4. m - 1 \in Nat /\ ~(m <= m - 1)
    BY <1>1, <2>2, <2>3
  <2> HIDE DEF m
  <2>5. m - 1 \in U
    BY <2>3, <2>4
  <2>6. QED
    BY <1>1, <2>4, <2>5
<1> HIDE DEF m
<1>3. QED
  BY <1>1, <1>2 DEF Max

(* The greatest one is known by its place.                                  *)
LEMMA MaxIs ==
  ASSUME NEW S \in SUBSET Nat, NEW m \in S, \A x \in S : x <= m
  PROVE  Max(S) = m
<1>1. Max(S) \in S /\ \A x \in S : x <= Max(S)
  BY MaxOf
<1> DEFINE y == Max(S)
<1> HIDE DEF y
<1>2. y \in Nat /\ m \in Nat /\ y <= m /\ m <= y
  BY <1>1 DEF y
<1>3. QED
  BY <1>2 DEF y

-----------------------------------------------------------------------------
(* Puzzles.                                                                 *)

Completions == {"incomplete", "correct", "incorrect"}

DoneInv == done \in [Ids -> Completions]

(* Each way of judging a puzzle keeps what was judged before.               *)
LEMMA SolvedKeeps ==
  ASSUME DoneInv, NEW p
  PROVE  /\ Solved(p) \in [Ids -> Completions]
         /\ \A q \in Ids : done[q] # "incomplete" /\ done[p] # "correct"
              => Solved(p)[q] = done[q]
  BY DEF DoneInv, Solved, Completions

LEMMA MissedKeeps ==
  ASSUME DoneInv, NEW p
  PROVE  /\ Missed(p) \in [Ids -> Completions]
         /\ \A q \in Ids : done[q] # "incomplete" => Missed(p)[q] = done[q]
  BY DEF DoneInv, Missed, Completions

(* The step of every action for `done`, in three kinds.                     *)
LEMMA DoneStep ==
  ASSUME DoneInv, [Next]_vars
  PROVE  /\ DoneInv'
         /\ \A q \in Ids : done[q] # "incomplete" => done'[q] = done[q]
<1>1. CASE LastMove
  <2>1. done' = Solved(Puzzle) /\ done[Puzzle] # "correct"
    BY <1>1 DEF LastMove, Movable
  <2>2. QED
    BY <2>1, SolvedKeeps DEF DoneInv
<1>2. CASE WrongMove
  <2>1. /\ done[Puzzle] \in {"incomplete", "incorrect"}
        /\ done' = IF ended THEN done ELSE [done EXCEPT ![Puzzle] = "incorrect"]
    BY <1>2 DEF WrongMove, Movable
  <2>2. QED
    BY <2>1 DEF DoneInv, Completions
<1>3. CASE GetAHint \/ ViewSolution
  <2>1. done' = Missed(Puzzle)
    BY <1>3 DEF GetAHint, ViewSolution
  <2>2. QED
    BY <2>1, MissedKeeps DEF DoneInv
<1>4. CASE UNCHANGED done
  BY <1>4 DEF DoneInv
<1>5. [Next]_vars => LastMove \/ WrongMove \/ GetAHint \/ ViewSolution \/ UNCHANGED done
  BY DEF Next, vars, list, NewPuzzle, PuzzleArrives, GetPuzzleFails, RightMove, ThemesArrive,
         SolutionMove, Navigate, SelectPuzzle, ClearSession, DeleteDatabase, SelectDatabase, Reload
<1>6. QED
  BY <1>1, <1>2, <1>3, <1>4, <1>5

-----------------------------------------------------------------------------
(* Playing moves on the main line.                                          *)

(* The moves of puzzles, of their solutions and tried.                      *)
MovesOf(P) == {MoveOf(p, k) : p \in P, k \in 0 .. N}

(* FoldLeft() takes the moves in their order, here of two moves at most.    *)
LEMMA MaxOfTwo == Max({1}) = 1 /\ Max({2}) = 2 /\ Max({1, 2}) = 2
  BY DEF Max

Played(to, ms) ==
  IF ms = << >> THEN to
  ELSE IF Len(ms) = 1 THEN Step(to, ms[1]) ELSE Step(Step(to, ms[1]), ms[2])

LEMMA FoldedShort ==
  ASSUME NEW S, NEW ms \in Seq(S), Len(ms) <= 2, NEW b
  PROVE  FoldLeft(Step, b, ms) = Played(b, ms)
<1> DEFINE D == DOMAIN ms
<1> DEFINE Rule(g) == [s \in SUBSET D |-> IF s = {} THEN b ELSE Step(g[s \ {Max(s)}], ms[Max(s)])]
<1> DEFINE h == [s \in SUBSET D |->
                  IF s = {} THEN b
                  ELSE IF s = {1} THEN Step(b, ms[1])
                  ELSE IF s = {2} THEN Step(b, ms[2]) ELSE Step(Step(b, ms[1]), ms[2])]
<1> DEFINE iter == CHOOSE g : g = Rule(g)
<1>1. \/ D = {} /\ ms = << >>
      \/ D = {1} /\ Len(ms) = 1 /\ ms # << >>
      \/ D = {1, 2} /\ Len(ms) = 2 /\ ms # << >>
  <2>1. Len(ms) \in {0, 1, 2} /\ D = 1 .. Len(ms)
    <3>1. Len(ms) \in Nat /\ D = 1 .. Len(ms)
      OBVIOUS
    <3>2. \A n \in Nat : n <= 2 => n \in {0, 1, 2}
      OBVIOUS
    <3> HIDE DEF D
    <3>3. QED
      BY <3>1, <3>2, Zenon
  <2> HIDE DEF D
  <2>2. 1 .. 0 = {} /\ 1 .. 1 = {1} /\ 1 .. 2 = {1, 2}
    OBVIOUS
  <2>3. Len(ms) = 0 <=> ms = << >>
    OBVIOUS
  <2>4. QED
    BY <2>1, <2>2, <2>3
<1>2. FoldLeft(Step, b, ms) = iter[D]
  BY DEF FoldLeft, MapThenFoldSet
<1> HIDE DEF D
<1>3. \A s \in SUBSET D : s = {} \/ s = {1} \/ s = {2} \/ s = {1, 2}
  BY <1>1
<1>4. h = Rule(h)
  <2>1. ASSUME NEW s \in SUBSET D
        PROVE  h[s] = Rule(h)[s]
    <3>1. CASE s = {}
      BY <3>1
    <3>2. CASE s = {1}
      <4>1. s \ {Max(s)} = {} /\ Max(s) = 1 /\ s # {}
        BY <3>2, MaxOfTwo
      <4>2. h[{}] = b /\ h[s] = Step(b, ms[1])
        BY <2>1, <3>2
      <4>3. QED
        BY <2>1, <4>1, <4>2
    <3>3. CASE s = {2}
      <4>1. s \ {Max(s)} = {} /\ Max(s) = 2 /\ s # {}
        BY <3>3, MaxOfTwo
      <4>2. h[{}] = b /\ h[s] = Step(b, ms[2])
        BY <2>1, <3>3
      <4>3. QED
        BY <2>1, <4>1, <4>2
    <3>4. CASE s = {1, 2}
      <4>1. s \ {Max(s)} = {1} /\ Max(s) = 2 /\ s # {} /\ {1} \in SUBSET D
        BY <2>1, <3>4, MaxOfTwo
      <4>2. h[{1}] = Step(b, ms[1]) /\ h[s] = Step(Step(b, ms[1]), ms[2])
        BY <2>1, <3>4, <4>1
      <4>3. QED
        BY <2>1, <4>1, <4>2
    <3>5. QED
      BY <1>3, <2>1, <3>1, <3>2, <3>3, <3>4
  <2>2. QED
    BY <2>1
<1> HIDE DEF h
<1>5. iter = Rule(iter)
  BY <1>4
<1> HIDE DEF iter
<1>6. /\ iter[{}] = b
      /\ {1} \in SUBSET D => iter[{1}] = Step(b, ms[1])
      /\ {1, 2} \in SUBSET D => iter[{1, 2}] = Step(Step(b, ms[1]), ms[2])
  <2>1. \A s \in SUBSET D : iter[s] = IF s = {} THEN b ELSE Step(iter[s \ {Max(s)}], ms[Max(s)])
    BY <1>5
  <2>2. iter[{}] = b
    BY <2>1
  <2>3. ASSUME {1} \in SUBSET D
        PROVE  iter[{1}] = Step(b, ms[1])
    <3>1. {1} \ {Max({1})} = {}
      BY MaxOfTwo
    <3>2. QED
      BY <2>1, <2>2, <2>3, <3>1, MaxOfTwo
  <2>4. ASSUME {1, 2} \in SUBSET D
        PROVE  iter[{1, 2}] = Step(Step(b, ms[1]), ms[2])
    <3>1. {1, 2} \ {Max({1, 2})} = {1} /\ {1} \in SUBSET D
      BY <2>4, MaxOfTwo
    <3>2. QED
      BY <2>1, <2>3, <2>4, <3>1, MaxOfTwo
  <2>5. QED
    BY <2>2, <2>3, <2>4
<1>7. CASE ms = << >>
  BY <1>1, <1>2, <1>6, <1>7 DEF Played
<1>8. CASE D = {1} /\ Len(ms) = 1 /\ ms # << >>
  BY <1>2, <1>6, <1>8 DEF Played
<1>9. CASE D = {1, 2} /\ Len(ms) = 2 /\ ms # << >>
  BY <1>2, <1>6, <1>9 DEF Played
<1>10. QED
  BY <1>1, <1>7, <1>8, <1>9

(* A step stays among the moves it starts with.                             *)
LEMMA StepKeeps ==
  ASSUME NEW S, NEW l \in Seq(S), NEW i \in 0 .. Len(l), NEW m \in S
  PROVE  LET to == Step(<<l, i>>, m)
         IN  /\ to = <<to[1], to[2]>> /\ to[1] \in Seq(S) /\ to[1] # << >>
             /\ to[2] \in 0 .. Len(to[1])
<1>1. CASE i < Len(l) /\ l[i + 1] = m
  <2>1. Step(<<l, i>>, m) = <<l, i + 1>>
    BY <1>1 DEF Step
  <2>2. i + 1 \in 0 .. Len(l) /\ l # << >>
    BY <1>1
  <2>3. QED
    BY <2>1, <2>2
<1>2. CASE ~(i < Len(l) /\ l[i + 1] = m)
  <2> DEFINE k == Append(SubSeq(l, 1, i), m)
  <2>1. Step(<<l, i>>, m) = <<k, i + 1>>
    BY <1>2 DEF Step
  <2>2. SubSeq(l, 1, i) \in Seq(S) /\ Len(SubSeq(l, 1, i)) = i
    OBVIOUS
  <2>3. k \in Seq(S) /\ Len(k) = i + 1 /\ k # << >>
    BY <2>2
  <2> HIDE DEF k
  <2>4. i + 1 \in 0 .. Len(k)
    BY <2>3
  <2>5. QED
    BY <2>1, <2>3, <2>4
<1>3. QED
  BY <1>1, <1>2

LEMMA PlayKeeps ==
  ASSUME NEW S, line \in Seq(S), NEW i \in 0 .. Len(line), NEW ms \in Seq(S), Len(ms) <= 2,
         Play(i, ms)
  PROVE  line' \in Seq(S) /\ at' \in 0 .. Len(line') /\ (line # << >> \/ ms # << >> => line' # << >>)
<1> DEFINE b == <<line, i>>
<1>1. line' = Played(b, ms)[1] /\ at' = Played(b, ms)[2]
  BY FoldedShort DEF Play
<1>2. CASE ms = << >>
  BY <1>1, <1>2 DEF Played
<1>3. CASE ms # << >>
  <2> DEFINE to == Step(b, ms[1])
  <2>1. ms[1] \in S /\ (Len(ms) # 1 => ms[2] \in S)
    <3>1. Len(ms) \in Nat \ {0} /\ \A j \in 1 .. Len(ms) : ms[j] \in S
      BY <1>3
    <3>2. \A n \in Nat \ {0} : 1 \in 1 .. n /\ (n # 1 => 2 \in 1 .. n)
      OBVIOUS
    <3>3. QED
      BY <3>1, <3>2, Zenon
  <2>2. to = <<to[1], to[2]>> /\ to[1] \in Seq(S) /\ to[1] # << >> /\ to[2] \in 0 .. Len(to[1])
    BY <2>1, StepKeeps
  <2> HIDE DEF to
  <2>3. CASE Len(ms) = 1
    <3>1. Played(b, ms) = to
      BY <1>3, <2>3 DEF Played, to
    <3>2. QED
      BY <1>1, <2>2, <3>1
  <2>4. CASE Len(ms) # 1
    <3> DEFINE end == Step(to, ms[2])
    <3>1. end[1] \in Seq(S) /\ end[1] # << >> /\ end[2] \in 0 .. Len(end[1])
      <4> DEFINE l == to[1]
      <4> DEFINE j == to[2]
      <4>1. l \in Seq(S) /\ j \in 0 .. Len(l) /\ to = <<l, j>> /\ ms[2] \in S
        BY <2>1, <2>2, <2>4
      <4> HIDE DEF l, j
      <4>2. end = Step(<<l, j>>, ms[2])
        BY <4>1
      <4> HIDE DEF end
      <4>3. QED
        BY <4>1, <4>2, StepKeeps
    <3>2. Played(b, ms) = end
      BY <1>3, <2>4 DEF Played, to
    <3> HIDE DEF end
    <3>3. QED
      BY <1>1, <3>1, <3>2
  <2>5. QED
    BY <2>3, <2>4
<1>4. QED
  BY <1>2, <1>3

LEMMA RepliesShort ==
  ASSUME NEW P, NEW p \in P, NEW k \in Nat
  PROVE  Replies(p, k) \in Seq(MovesOf(P)) /\ Len(Replies(p, k)) <= 2
<1> DEFINE ms == [j \in 1 .. N |-> MoveOf(p, j)]
<1> DEFINE last == IF k + 2 > N THEN N ELSE k + 2
<1>1. N \in Nat
  BY PuzzlesAssumption
<1>2. ms \in Seq(MovesOf(P)) /\ Len(ms) = N
  BY <1>1 DEF MovesOf
<1>3. last \in Nat /\ last <= N /\ last <= k + 2
  BY <1>1
<1>4. Replies(p, k) = SubSeq(ms, k + 1, last)
  BY DEF Replies
<1> HIDE DEF ms, last
<1>5. CASE k + 1 <= last
  <2>1. \A i \in k + 1 .. last : i \in 1 .. Len(ms)
    BY <1>2, <1>3
  <2>2. SubSeq(ms, k + 1, last) \in Seq(MovesOf(P)) /\ Len(SubSeq(ms, k + 1, last)) = last - k
    BY <1>2, <1>3, <1>5, <2>1
  <2>3. last - k <= 2
    BY <1>3
  <2>4. QED
    BY <1>4, <2>2, <2>3
<1>6. CASE ~(k + 1 <= last)
  <2>1. SubSeq(ms, k + 1, last) = << >>
    BY <1>3, <1>6
  <2>2. << >> \in Seq(MovesOf(P)) /\ Len(<< >>) <= 2
    OBVIOUS
  <2>3. QED
    BY <1>4, <2>1, <2>2, Zenon
<1>7. QED
  BY <1>5, <1>6

LEMMA NextOf ==
  ASSUME NEW l, DOMAIN l \in SUBSET Nat, 0 \notin DOMAIN l, NEW i, NextIn(l, i) # 0
  PROVE  NextIn(l, i) \in DOMAIN l
<1> DEFINE open == {j \in DOMAIN l : j # i /\ done'[l[j]] = "incomplete"}
<1> DEFINE after == {j \in open : j > i}
<1>1. NextIn(l, i) = IF after # {} THEN Min(after) ELSE IF open # {} THEN Min(open) ELSE 0
  BY DEF NextIn
<1>2. open \in SUBSET Nat /\ after \in SUBSET Nat /\ after \subseteq open /\ open \subseteq DOMAIN l
  OBVIOUS
<1> HIDE DEF open, after
<1>3. QED
  BY <1>1, <1>2, MinOf

-----------------------------------------------------------------------------
(* The list, the calls under way and the board.                             *)

ListInv ==
  /\ served \in 0 .. MaxPuzzles
  /\ puzzles \in Seq(1 .. served) /\ IsInjective(puzzles) /\ Len(puzzles) <= served
  /\ current \in 1 .. (MaxPuzzles + 1)

CallsInv ==
  /\ fetches \in Seq(0 .. served)
  /\ \A w \in waits : /\ w.list \in Seq(1 .. served) /\ Len(w.list) <= served
                      /\ w.puzzle \in 1 .. served /\ w.from \in Nat
  /\ solution = None \/ solution \in [puzzle : 1 .. served, next : 2 .. N]

BoardInv == line \in Seq(MovesOf(1 .. served)) /\ at \in 0 .. Len(line)

(* The board and the solution that is played are of the puzzle judged.      *)
Judged ==
  /\ puzzles = << >> => line = << >>
  /\ puzzles # << >> => HasPuzzle /\ line # << >> /\ line \in Seq(MovesOf({Puzzle}))
  /\ solution # None => HasPuzzle /\ solution.puzzle = Puzzle

IInv == ListInv /\ CallsInv /\ BoardInv /\ (~crossed => Judged)

LEMMA SeqWithin ==
  ASSUME NEW S, NEW T, S \subseteq T, NEW s \in Seq(S)
  PROVE  s \in Seq(T)
<1>1. Len(s) \in Nat /\ s \in [1 .. Len(s) -> T]
  OBVIOUS
<1>2. QED
  BY <1>1

LEMMA ElementOf ==
  ASSUME NEW S, NEW s \in Seq(S)
  PROVE  Len(s) \in Nat /\ DOMAIN s = 1 .. Len(s) /\ \A j \in DOMAIN s : s[j] \in S
  OBVIOUS

LEMMA RemovedTyped ==
  ASSUME NEW S, NEW s \in Seq(S), NEW c \in DOMAIN s
  PROVE  RemoveAt(s, c) \in Seq(S)
<1>1. SubSeq(s, 1, c - 1) \in Seq(S) /\ SubSeq(s, c + 1, Len(s)) \in Seq(S)
  <2>1. Len(s) \in Nat /\ c \in 1 .. Len(s)
    OBVIOUS
  <2>2. QED
    BY <2>1
<1>2. QED
  BY <1>1 DEF RemoveAt

LEMMA PuzzleTyped ==
  ASSUME ListInv, HasPuzzle
  PROVE  Puzzle \in 1 .. served /\ puzzles # << >>
  BY DEF ListInv, HasPuzzle, Puzzle

LEMMA ServedNumbers == ListInv => \A p \in 1 .. served : p \in Nat /\ p >= 1 /\ p <= MaxPuzzles
  BY PuzzlesAssumption DEF ListInv

(* The board is that of a puzzle in its first position.                     *)
Starts(p) == line' \in Seq(MovesOf({p})) /\ line' # << >> /\ at' \in 0 .. Len(line')

LEMMA SetTyped ==
  ASSUME NEW p, setPuzzle(p)
  PROVE  Starts(p)
<1>1. 1 \in 1 .. N
  BY PuzzlesAssumption
<1>2. MoveOf(p, 1) \in MovesOf({p})
  BY <1>1 DEF MovesOf
<1>3. line' \in Seq(MovesOf({p})) /\ Len(line') = 1 /\ line' # << >> /\ at' = 1
  BY <1>2 DEF setPuzzle
<1>4. QED
  BY <1>3 DEF Starts

(* A board of a puzzle that was got has the type of a board.                *)
LEMMA BoardOf ==
  ASSUME NEW n, NEW p \in 1 .. n, NEW l \in Seq(MovesOf({p}))
  PROVE  l \in Seq(MovesOf(1 .. n))
<1>1. MovesOf({p}) \subseteq MovesOf(1 .. n)
  BY DEF MovesOf
<1>2. QED
  BY <1>1, SeqWithin

(* What generatePuzzle() leaves: the board of a puzzle of the list it was   *)
(* called with, or the same board and one more call.                        *)
LEMMA Generated ==
  ASSUME NEW l \in Seq(1 .. served), NEW i, NEW force \in BOOLEAN, NEW e, generatePuzzle(l, i, force, e)
  PROVE  /\ solution' = None
         /\ \/ ~force /\ UNCHANGED fetches /\ \E n \in DOMAIN l : current' = n /\ Starts(l[n])
            \/ fetches' = Append(fetches, Len(l)) /\ UNCHANGED <<current, line, at>>
<1>1. DOMAIN l \in SUBSET Nat /\ 0 \notin DOMAIN l
  <2>1. Len(l) \in Nat /\ DOMAIN l = 1 .. Len(l)
    OBVIOUS
  <2>2. \A n \in Nat : 1 .. n \in SUBSET Nat /\ 0 \notin 1 .. n
    OBVIOUS
  <2>3. QED
    BY <2>1, <2>2, Zenon
<1> DEFINE n == NextIn(l, i)
<1>2. CASE n # 0 /\ ~force
  <2>1. GoesTo(n, l[n], e) /\ UNCHANGED fetches
    BY <1>2 DEF generatePuzzle
  <2>2. n \in DOMAIN l
    BY <1>1, <1>2, NextOf
  <2> HIDE DEF n
  <2>3. current' = n /\ solution' = None /\ setPuzzle(l[n])
    BY <2>1 DEF GoesTo
  <2>4. QED
    BY <1>2, <2>1, <2>2, <2>3, SetTyped
<1>3. CASE ~(n # 0 /\ ~force)
  BY <1>3 DEF generatePuzzle, board
<1>4. QED
  BY <1>2, <1>3

(* Moves of the puzzle judged, on its board.                                *)
LEMMA PlayedTyped ==
  ASSUME ListInv, BoardInv, NEW p \in 1 .. served, NEW i \in 0 .. Len(line),
         NEW ms \in Seq(MovesOf({p})), Len(ms) <= 2, Play(i, ms), UNCHANGED served
  PROVE  /\ BoardInv'
         /\ line \in Seq(MovesOf({p})) => line' \in Seq(MovesOf({p}))
         /\ line # << >> => line' # << >>
<1>1. ms \in Seq(MovesOf(1 .. served))
  BY BoardOf
<1>2. line' \in Seq(MovesOf(1 .. served)) /\ at' \in 0 .. Len(line') /\ (line # << >> => line' # << >>)
  BY <1>1, PlayKeeps DEF BoardInv
<1>3. line \in Seq(MovesOf({p})) => line' \in Seq(MovesOf({p}))
  BY PlayKeeps
<1>4. QED
  BY <1>2, <1>3 DEF BoardInv

-----------------------------------------------------------------------------
(* The steps.                                                               *)

(* Nothing but the cursor, the calls and what is judged changes.            *)
LEMMA QuietStep ==
  ASSUME IInv, UNCHANGED <<puzzles, served, current, line, fetches, crossed>>, at' \in 0 .. Len(line),
         waits' \subseteq waits, solution' \in {solution, None}
  PROVE  IInv'
<1>1. ListInv' /\ CallsInv' /\ BoardInv'
  BY DEF IInv, ListInv, CallsInv, BoardInv
<1>2. ~crossed' => Judged'
  BY DEF IInv, Judged, HasPuzzle, Puzzle
<1>3. QED
  BY <1>1, <1>2 DEF IInv

(* Another puzzle of the list is shown, or a puzzle is asked for.           *)
LEMMA GenerateStep ==
  ASSUME IInv, NEW l \in Seq(1 .. served), Len(l) <= served, NEW i, NEW force \in BOOLEAN, NEW e,
         generatePuzzle(l, i, force, e), UNCHANGED <<puzzles, served>>, waits' \subseteq waits,
         ~crossed' => ~crossed /\ (~force => \A n \in DOMAIN l : n \in DOMAIN puzzles /\ puzzles[n] = l[n])
  PROVE  IInv'
<1>1. CASE fetches' = Append(fetches, Len(l)) /\ UNCHANGED <<current, line, at>>
  <2>1. Len(l) \in 0 .. served
    BY DEF IInv, ListInv
  <2>2. CallsInv' /\ ListInv' /\ BoardInv' /\ solution' = None
    BY <1>1, <2>1, Generated DEF IInv, ListInv, CallsInv, BoardInv
  <2>3. ~crossed' => Judged'
    BY <1>1, <2>2 DEF IInv, Judged, HasPuzzle, Puzzle
  <2>4. QED
    BY <2>2, <2>3 DEF IInv
<1>2. CASE ~force /\ UNCHANGED fetches /\ \E n \in DOMAIN l : current' = n /\ Starts(l[n])
  <2>1. PICK n \in DOMAIN l : current' = n /\ Starts(l[n])
    BY <1>2
  <2>2. solution' = None
    BY Generated
  <2>3. l[n] \in 1 .. served /\ n \in 1 .. Len(l)
    BY ElementOf, Zenon
  <2>4. n \in 1 .. (MaxPuzzles + 1)
    <3>1. \A a, b, c, d \in Nat : a \in 1 .. b /\ b <= c /\ c <= d => a \in 1 .. (d + 1)
      OBVIOUS
    <3>2. n \in Nat /\ Len(l) \in Nat /\ served \in Nat /\ MaxPuzzles \in Nat /\ served <= MaxPuzzles
      BY <2>3, PuzzlesAssumption DEF IInv, ListInv
    <3>3. QED
      BY <2>3, <3>1, <3>2
  <2>5. ListInv' /\ CallsInv'
    BY <1>2, <2>1, <2>2, <2>4 DEF IInv, ListInv, CallsInv
  <2>6. BoardInv'
    BY <2>1, <2>3, BoardOf DEF Starts, BoardInv
  <2>7. ASSUME ~crossed'
        PROVE  Judged'
    <3>1. n \in DOMAIN puzzles /\ puzzles[n] = l[n] /\ puzzles # << >>
      BY <1>2, <2>7
    <3>2. HasPuzzle' /\ Puzzle' = l[n]
      BY <2>1, <3>1 DEF HasPuzzle, Puzzle
    <3>3. QED
      BY <2>1, <2>2, <3>1, <3>2 DEF Judged, Starts
  <2>8. QED
    BY <2>5, <2>6, <2>7 DEF IInv
<1>3. QED
  BY <1>1, <1>2, Generated

(* Moves are played, of the puzzle judged unless a call was crossed.        *)
LEMMA PlayStep ==
  ASSUME IInv, NEW p \in 1 .. served, NEW i \in 0 .. Len(line), NEW ms \in Seq(MovesOf({p})),
         Len(ms) <= 2, Play(i, ms), UNCHANGED <<puzzles, served, current, fetches>>,
         waits' \subseteq waits,
         solution' \in {None, solution} \/ solution' \in [puzzle : {p}, next : 2 .. N],
         ~crossed' => ~crossed /\ HasPuzzle /\ Puzzle = p
  PROVE  IInv'
<1>1. ListInv' /\ CallsInv'
  BY DEF IInv, ListInv, CallsInv
<1>2. BoardInv'
  BY PlayedTyped DEF IInv
<1>3. ASSUME ~crossed'
      PROVE  Judged'
  <2>1. Judged /\ HasPuzzle /\ Puzzle = p
    BY <1>3 DEF IInv
  <2>2. puzzles # << >> /\ line # << >> /\ line \in Seq(MovesOf({p}))
    BY <2>1, PuzzleTyped DEF IInv, Judged
  <2>3. line' # << >> /\ line' \in Seq(MovesOf({p}))
    BY <2>2, PlayedTyped DEF IInv
  <2>4. HasPuzzle' /\ Puzzle' = p
    BY <2>1 DEF HasPuzzle, Puzzle
  <2>5. solution' # None => solution'.puzzle = p
    BY <2>1 DEF Judged
  <2>6. QED
    BY <2>2, <2>3, <2>4, <2>5 DEF Judged
<1>4. QED
  BY <1>1, <1>2, <1>3 DEF IInv

LEMMA ArrivesStep ==
  ASSUME IInv, NEW c \in DOMAIN fetches, PuzzleArrives(c)
  PROVE  IInv'
<1> DEFINE p == served + 1
<1>1. /\ served' = p /\ puzzles' = Append(puzzles, p) /\ current' = fetches[c] + 1
      /\ fetches' = RemoveAt(fetches, c) /\ UNCHANGED <<waits, solution>> /\ served < MaxPuzzles
      /\ crossed' = (crossed \/ Len(puzzles) # fetches[c] \/ solution # None)
  BY DEF PuzzleArrives
<1>2. Starts(p)
  BY <1>1, SetTyped DEF PuzzleArrives
<1>3. served \in Nat /\ MaxPuzzles \in Nat /\ p \in 1 .. p /\ p \notin 1 .. served
      /\ 1 .. served \subseteq 1 .. p /\ 0 .. served \subseteq 0 .. p /\ p \in 0 .. MaxPuzzles
  BY <1>1, PuzzlesAssumption DEF IInv, ListInv
<1>4. fetches[c] \in 0 .. served /\ fetches' \in Seq(0 .. served)
  <2>1. fetches \in Seq(0 .. served)
    BY DEF IInv, CallsInv
  <2>2. fetches[c] \in 0 .. served
    BY <2>1, ElementOf, Zenon
  <2>3. RemoveAt(fetches, c) \in Seq(0 .. served)
    BY <2>1, RemovedTyped
  <2>4. QED
    BY <1>1, <2>2, <2>3
<1> HIDE DEF p
<1>5. current' \in 1 .. (MaxPuzzles + 1)
  BY <1>1, <1>3, <1>4
<1>6. /\ Len(puzzles) \in Nat /\ Len(puzzles) <= served /\ puzzles \in Seq(1 .. served)
      /\ IsInjective(puzzles)
  BY DEF IInv, ListInv
<1>7. /\ puzzles \in Seq(1 .. p) /\ puzzles' \in Seq(1 .. p) /\ Len(puzzles') = Len(puzzles) + 1
      /\ \A j \in 1 .. Len(puzzles) : puzzles'[j] = puzzles[j] /\ puzzles[j] # p
      /\ puzzles'[Len(puzzles) + 1] = p
  <2>1. puzzles \in Seq(1 .. p)
    BY <1>3, <1>6, SeqWithin
  <2>2. \A j \in 1 .. Len(puzzles) : puzzles[j] \in 1 .. served
    BY <1>6, ElementOf, Zenon
  <2>3. QED
    BY <1>1, <1>3, <2>1, <2>2
<1>8. IsInjective(puzzles')
  <2>1. DOMAIN puzzles = 1 .. Len(puzzles) /\ DOMAIN puzzles' = 1 .. (Len(puzzles) + 1)
    BY <1>6, <1>7
  <2>2. \A j \in 1 .. (Len(puzzles) + 1) : j \in 1 .. Len(puzzles) \/ j = Len(puzzles) + 1
    BY <1>6
  <2>3. QED
    BY <1>6, <1>7, <2>1, <2>2 DEF IsInjective
<1>9. Len(puzzles') <= p
  BY <1>3, <1>6, <1>7 DEF p
<1>10. ListInv'
  BY <1>1, <1>3, <1>5, <1>7, <1>8, <1>9 DEF ListInv
<1>11. CallsInv'
  <2>1. fetches' \in Seq(0 .. p)
    BY <1>3, <1>4, SeqWithin
  <2>2. ASSUME NEW w \in waits
        PROVE  /\ w.list \in Seq(1 .. p) /\ Len(w.list) <= p
               /\ w.puzzle \in 1 .. p /\ w.from \in Nat
    <3>1. /\ w.list \in Seq(1 .. served) /\ Len(w.list) <= served
          /\ w.puzzle \in 1 .. served /\ w.from \in Nat
      BY DEF IInv, CallsInv
    <3>2. w.list \in Seq(1 .. p)
      BY <1>3, <3>1, SeqWithin
    <3>3. Len(w.list) \in Nat
      BY <3>1
    <3>4. QED
      BY <1>3, <3>1, <3>2, <3>3 DEF p
  <2>3. solution = None \/ solution \in [puzzle : 1 .. p, next : 2 .. N]
    BY <1>3 DEF IInv, CallsInv
  <2>4. QED
    BY <1>1, <2>1, <2>2, <2>3 DEF CallsInv
<1>12. BoardInv'
  BY <1>1, <1>2, <1>3, BoardOf DEF Starts, BoardInv
<1>13. ASSUME ~crossed'
       PROVE  Judged'
  <2>1. current' = Len(puzzles) + 1 /\ solution' = None
    BY <1>1, <1>13
  <2>2. HasPuzzle' /\ Puzzle' = p /\ puzzles' # << >>
    BY <1>6, <1>7, <2>1 DEF HasPuzzle, Puzzle
  <2>3. QED
    BY <1>2, <2>1, <2>2 DEF Starts, Judged
<1>14. QED
  BY <1>10, <1>11, <1>12, <1>13 DEF IInv

LEMMA LastMoveStep ==
  ASSUME IInv, LastMove
  PROVE  IInv'
<1>1. HasPuzzle /\ UNCHANGED <<puzzles, served, db, crossed>> /\ at = Matched(Puzzle)
  BY DEF LastMove, Movable
<1>2. Puzzle \in 1 .. served /\ at \in Nat /\ at \in 0 .. Len(line)
  BY <1>1, PuzzleTyped DEF IInv, BoardInv
<1>3. PICK jump \in BOOLEAN :
        \/ /\ waits' = waits \cup {[puzzle |-> Puzzle, from |-> at, list |-> puzzles,
                                   index |-> current, jump |-> jump]}
           /\ UNCHANGED <<current, board, fetches, solution>>
        \/ generatePuzzle(puzzles, current, FALSE, FALSE) /\ UNCHANGED waits
        \/ Play(at, Replies(Puzzle, at)) /\ UNCHANGED <<current, calls>>
  BY DEF LastMove
<1>4. CASE /\ waits' = waits \cup {[puzzle |-> Puzzle, from |-> at, list |-> puzzles,
                                   index |-> current, jump |-> jump]}
           /\ UNCHANGED <<current, board, fetches, solution>>
  <2> DEFINE w == [puzzle |-> Puzzle, from |-> at, list |-> puzzles, index |-> current, jump |-> jump]
  <2>1. w.list = puzzles /\ w.puzzle = Puzzle /\ w.from = at
    OBVIOUS
  <2>2. waits' = waits \cup {w}
    BY <1>4
  <2> HIDE DEF w
  <2>3. CallsInv'
    BY <1>1, <1>2, <1>4, <2>1, <2>2 DEF IInv, ListInv, CallsInv
  <2>4. ListInv' /\ BoardInv' /\ (~crossed' => Judged')
    BY <1>1, <1>4 DEF IInv, ListInv, BoardInv, Judged, HasPuzzle, Puzzle, board
  <2>5. QED
    BY <2>3, <2>4 DEF IInv
<1>5. CASE generatePuzzle(puzzles, current, FALSE, FALSE) /\ UNCHANGED waits
  BY <1>1, <1>5, GenerateStep DEF IInv, ListInv
<1>6. CASE Play(at, Replies(Puzzle, at)) /\ UNCHANGED <<current, calls>>
  <2>1. Replies(Puzzle, at) \in Seq(MovesOf({Puzzle})) /\ Len(Replies(Puzzle, at)) <= 2
    BY <1>2, RepliesShort
  <2>2. UNCHANGED <<fetches, waits, solution>>
    BY <1>6 DEF calls
  <2>3. QED
    BY <1>1, <1>2, <1>6, <2>1, <2>2, PlayStep
<1>7. QED
  BY <1>3, <1>4, <1>5, <1>6

(* A try is one of the puzzle judged.                                       *)
LEMMA WrongStep ==
  ASSUME IInv, WrongMove
  PROVE  IInv'
<1>1. /\ HasPuzzle /\ UNCHANGED <<puzzles, served, current, at, fetches, waits, solution, crossed>>
      /\ line' = IF at = Len(line) THEN Append(line, Try(Puzzle)) ELSE line
  BY DEF WrongMove, Movable, calls
<1>2. Puzzle \in 1 .. served /\ puzzles # << >>
  BY <1>1, PuzzleTyped DEF IInv
<1>3. Try(Puzzle) \in MovesOf({Puzzle}) /\ Try(Puzzle) \in MovesOf(1 .. served)
  <2>1. 0 \in 0 .. N
    BY PuzzlesAssumption
  <2>2. QED
    BY <1>2, <2>1 DEF MovesOf, Try, MoveOf
<1>4. ASSUME NEW S, line \in Seq(S), Try(Puzzle) \in S
      PROVE  line' \in Seq(S) /\ Len(line') >= Len(line) /\ (line # << >> => line' # << >>)
  BY <1>1, <1>4
<1>5. ListInv' /\ CallsInv' /\ BoardInv'
  <2>1. line \in Seq(MovesOf(1 .. served)) /\ at \in 0 .. Len(line)
    BY DEF IInv, BoardInv
  <2>2. line' \in Seq(MovesOf(1 .. served)) /\ Len(line') >= Len(line)
    BY <1>3, <1>4, <2>1
  <2>3. BoardInv'
    BY <1>1, <2>1, <2>2 DEF BoardInv
  <2>4. QED
    BY <1>1, <2>3 DEF IInv, ListInv, CallsInv
<1>6. ASSUME ~crossed'
      PROVE  Judged'
  <2>1. line # << >> /\ line \in Seq(MovesOf({Puzzle}))
    BY <1>1, <1>2, <1>6 DEF IInv, Judged
  <2>2. line' # << >> /\ line' \in Seq(MovesOf({Puzzle}))
    BY <1>3, <1>4, <2>1
  <2>3. UNCHANGED <<HasPuzzle, Puzzle>>
    BY <1>1 DEF HasPuzzle, Puzzle
  <2>4. solution' # None => solution'.puzzle = Puzzle
    BY <1>1, <1>6 DEF IInv, Judged
  <2>5. QED
    BY <1>1, <1>2, <2>2, <2>3, <2>4 DEF Judged
<1>7. QED
  BY <1>5, <1>6 DEF IInv

LEMMA ThemesStep ==
  ASSUME IInv, NEW w \in waits, ThemesArrive(w)
  PROVE  IInv'
<1>1. /\ waits' \subseteq waits /\ UNCHANGED <<puzzles, served>>
      /\ crossed' = (crossed \/ ~IF w.jump THEN IsPrefix(w.list, puzzles)
                                  ELSE HasPuzzle /\ Puzzle = w.puzzle)
  BY DEF ThemesArrive, list
<1>2. /\ w.list \in Seq(1 .. served) /\ Len(w.list) <= served
      /\ w.puzzle \in 1 .. served /\ w.from \in Nat
  BY DEF IInv, CallsInv
<1>3. CASE w.jump
  <2>1. generatePuzzle(w.list, w.index, FALSE, ended /\ current # w.index)
    BY <1>3 DEF ThemesArrive
  <2>2. ASSUME ~crossed'
        PROVE  ~crossed /\ \A n \in DOMAIN w.list : n \in DOMAIN puzzles /\ puzzles[n] = w.list[n]
    <3>1. ~crossed /\ IsPrefix(w.list, puzzles)
      BY <1>1, <1>3, <2>2
    <3>2. puzzles \in Seq(1 .. served)
      BY DEF IInv, ListInv
    <3>3. Len(w.list) <= Len(puzzles) /\ w.list = SubSeq(puzzles, 1, Len(w.list))
      BY <1>2, <3>1, <3>2 DEF IsPrefix
    <3>4. Len(w.list) \in Nat /\ Len(puzzles) \in Nat /\ DOMAIN w.list = 1 .. Len(w.list)
          /\ DOMAIN puzzles = 1 .. Len(puzzles)
      BY <1>2, <3>2
    <3>5. \A n \in 1 .. Len(w.list) : n \in 1 .. Len(puzzles)
      BY <3>3, <3>4
    <3>6. \A n \in 1 .. Len(w.list) : SubSeq(puzzles, 1, Len(w.list))[n] = puzzles[n]
      BY <3>2, <3>3, <3>4
    <3>7. QED
      BY <3>1, <3>3, <3>4, <3>5, <3>6, Zenon
  <2>3. QED
    BY <1>1, <1>2, <2>1, <2>2, GenerateStep
<1>4. CASE ~w.jump
  <2>1. /\ Play(at, Replies(w.puzzle, w.from)) /\ UNCHANGED <<current, fetches, solution>>
    BY <1>4 DEF ThemesArrive
  <2>2. /\ Replies(w.puzzle, w.from) \in Seq(MovesOf({w.puzzle}))
        /\ Len(Replies(w.puzzle, w.from)) <= 2
    BY <1>2, RepliesShort
  <2>3. at \in 0 .. Len(line)
    BY DEF IInv, BoardInv
  <2>4. QED
    BY <1>1, <1>2, <1>4, <2>1, <2>2, <2>3, PlayStep
<1>5. QED
  BY <1>3, <1>4

LEMMA ShownStep ==
  ASSUME IInv, RightMove \/ ViewSolution \/ SolutionMove
  PROVE  IInv'
<1>1. at \in 0 .. Len(line) /\ at \in Nat /\ 0 \in 0 .. Len(line)
  BY DEF IInv, BoardInv
<1>2. 1 \in 1 .. N /\ 2 \in 2 .. N /\ N \in Nat
  BY PuzzlesAssumption
<1>3. CASE RightMove
  <2>1. /\ HasPuzzle /\ Play(at, Replies(Puzzle, at))
        /\ UNCHANGED <<puzzles, served, current, fetches, waits, solution, crossed>>
    BY <1>3 DEF RightMove, Movable, list, calls
  <2>2. Puzzle \in 1 .. served
    BY <2>1, PuzzleTyped DEF IInv
  <2>3. Replies(Puzzle, at) \in Seq(MovesOf({Puzzle})) /\ Len(Replies(Puzzle, at)) <= 2
    BY <1>1, RepliesShort
  <2>4. QED
    BY <1>1, <2>1, <2>2, <2>3, PlayStep
<1>4. CASE ViewSolution
  <2>1. /\ HasPuzzle /\ Play(0, <<MoveOf(Puzzle, 1)>>)
        /\ solution' = [puzzle |-> Puzzle, next |-> 2]
        /\ UNCHANGED <<puzzles, served, current, fetches, waits, crossed>>
    BY <1>4 DEF ViewSolution
  <2>2. Puzzle \in 1 .. served
    BY <2>1, PuzzleTyped DEF IInv
  <2>3. MoveOf(Puzzle, 1) \in MovesOf({Puzzle})
    BY <1>2 DEF MovesOf
  <2>4. <<MoveOf(Puzzle, 1)>> \in Seq(MovesOf({Puzzle})) /\ Len(<<MoveOf(Puzzle, 1)>>) <= 2
    BY <2>3
  <2>5. solution' \in [puzzle : {Puzzle}, next : 2 .. N]
    BY <1>2, <2>1
  <2>6. QED
    BY <1>1, <2>1, <2>2, <2>4, <2>5, PlayStep
<1>5. CASE SolutionMove
  <2> DEFINE p == solution.puzzle
  <2> DEFINE m == MoveOf(solution.puzzle, solution.next)
  <2>1. /\ solution # None /\ Play(at, <<m>>)
        /\ solution' = IF solution.next = N THEN None ELSE [solution EXCEPT !.next = @ + 1]
        /\ UNCHANGED <<puzzles, served, current, fetches, waits, crossed>>
    BY <1>5 DEF SolutionMove, list
  <2>2. solution \in [puzzle : 1 .. served, next : 2 .. N]
    BY <2>1 DEF IInv, CallsInv
  <2>3. p \in 1 .. served /\ solution.next \in 2 .. N /\ m \in MovesOf({p})
    BY <1>2, <2>2 DEF MovesOf
  <2>4. <<m>> \in Seq(MovesOf({p})) /\ Len(<<m>>) <= 2
    BY <2>3
  <2>5. solution' = None \/ solution' \in [puzzle : {p}, next : 2 .. N]
    BY <1>2, <2>1, <2>2, <2>3
  <2>6. ~crossed => HasPuzzle /\ Puzzle = p
    BY <2>1 DEF IInv, Judged
  <2> HIDE DEF p, m
  <2>7. QED
    BY <1>1, <2>1, <2>3, <2>4, <2>5, <2>6, PlayStep
<1>6. QED
  BY <1>3, <1>4, <1>5

LEMMA SessionStep ==
  ASSUME IInv,
         \/ \E i \in DOMAIN puzzles : SelectPuzzle(i)
         \/ ClearSession \/ DeleteDatabase \/ Reload
  PROVE  IInv'
<1>1. CASE \E i \in DOMAIN puzzles : SelectPuzzle(i)
  <2>1. PICK i \in DOMAIN puzzles : SelectPuzzle(i)
    BY <1>1
  <2>2. /\ current' = i /\ solution' = None /\ setPuzzle(puzzles[i])
        /\ UNCHANGED <<puzzles, served, fetches, waits, crossed>>
    BY <2>1 DEF SelectPuzzle, GoesTo, list
  <2>3. Starts(puzzles[i])
    BY <2>2, SetTyped
  <2>4. puzzles[i] \in 1 .. served /\ i \in 1 .. (MaxPuzzles + 1) /\ puzzles # << >>
    <3>1. Len(puzzles) \in Nat /\ i \in 1 .. Len(puzzles) /\ puzzles[i] \in 1 .. served
      BY ElementOf, Zenon DEF IInv, ListInv
    <3>2. Len(puzzles) <= served /\ served \in 0 .. MaxPuzzles /\ MaxPuzzles \in Nat
      BY PuzzlesAssumption DEF IInv, ListInv
    <3>3. i \in 1 .. (MaxPuzzles + 1)
      BY <3>1, <3>2
    <3>4. QED
      BY <3>1, <3>3
  <2>5. ListInv' /\ CallsInv'
    BY <2>2, <2>4 DEF IInv, ListInv, CallsInv
  <2>6. BoardInv'
    BY <2>2, <2>3, <2>4, BoardOf DEF Starts, BoardInv
  <2>7. HasPuzzle' /\ Puzzle' = puzzles[i]
    BY <2>2 DEF HasPuzzle, Puzzle
  <2>8. Judged'
    BY <2>2, <2>3, <2>4, <2>7 DEF Judged, Starts
  <2>9. QED
    BY <2>5, <2>6, <2>8 DEF IInv
<1>2. CASE ClearSession \/ DeleteDatabase
  <2>1. ClearSession
    BY <1>2 DEF DeleteDatabase
  <2>2. /\ puzzles' = << >> /\ line' = << >> /\ at' = 0
        /\ crossed' = (crossed \/ solution # None)
        /\ UNCHANGED <<served, current, fetches, waits, solution>>
    BY <2>1 DEF ClearSession, Reset, calls
  <2>3. << >> \in Seq(1 .. served) /\ IsInjective(<< >>) /\ Len(<< >>) = 0
        /\ << >> \in Seq(MovesOf(1 .. served))
    BY DEF IsInjective
  <2>4. ListInv'
    BY <2>2, <2>3 DEF IInv, ListInv
  <2>5. CallsInv' /\ BoardInv'
    BY <2>2, <2>3 DEF IInv, CallsInv, BoardInv
  <2>6. ~crossed' => Judged'
    BY <2>2 DEF Judged
  <2>7. QED
    BY <2>4, <2>5, <2>6 DEF IInv
<1>3. CASE Reload
  <2>1. /\ current' = 1 /\ fetches' = << >> /\ waits' = {} /\ solution' = None
        /\ crossed' = (crossed \/ (puzzles # << >> /\ current # 1))
        /\ UNCHANGED <<puzzles, served, line, at>>
    BY <1>3 DEF Reload, list
  <2>2. << >> \in Seq(0 .. served) /\ 1 \in 1 .. (MaxPuzzles + 1)
    BY PuzzlesAssumption
  <2>3. ListInv' /\ CallsInv' /\ BoardInv'
    BY <2>1, <2>2 DEF IInv, ListInv, CallsInv, BoardInv
  <2>4. ~crossed' => Judged'
    BY <2>1 DEF IInv, Judged, HasPuzzle, Puzzle
  <2>5. QED
    BY <2>3, <2>4 DEF IInv
<1>4. QED
  BY <1>1, <1>2, <1>3

LEMMA NextStep ==
  ASSUME IInv, [Next]_vars
  PROVE  IInv'
<1>1. at \in 0 .. Len(line)
  BY DEF IInv, BoardInv
<1>2. CASE NewPuzzle
  BY <1>2, GenerateStep DEF NewPuzzle, list, IInv, ListInv
<1>3. ASSUME NEW c \in DOMAIN fetches, GetPuzzleFails(c)
      PROVE  IInv'
  <2>1. /\ fetches' = RemoveAt(fetches, c)
        /\ UNCHANGED <<puzzles, served, current, line, at, waits, solution, crossed>>
    BY <1>3 DEF GetPuzzleFails, list, board
  <2>2. fetches' \in Seq(0 .. served)
    BY <2>1, RemovedTyped DEF IInv, CallsInv
  <2>3. ListInv' /\ CallsInv' /\ BoardInv'
    BY <2>1, <2>2 DEF IInv, ListInv, CallsInv, BoardInv
  <2>4. ~crossed' => Judged'
    BY <2>1 DEF IInv, Judged, HasPuzzle, Puzzle
  <2>5. QED
    BY <2>3, <2>4 DEF IInv
<1>4. CASE \/ GetAHint \/ SelectDatabase \/ UNCHANGED vars
           \/ \E i \in 0 .. Len(line) : Navigate(i)
  BY <1>1, <1>4, QuietStep
     DEF GetAHint, SelectDatabase, Navigate, vars, list, board, calls
<1>5. QED
  BY <1>2, <1>3, <1>4, ArrivesStep, LastMoveStep, WrongStep, ThemesStep, ShownStep, SessionStep DEF Next

LEMMA Invariance == Spec => [](DoneInv /\ IInv)
<1>1. Init => DoneInv
  BY DEF Init, DoneInv, Completions
<1>2. ASSUME Init
      PROVE  IInv
  <2>1. /\ puzzles = << >> /\ served = 0 /\ current = 1 /\ line = << >> /\ at = 0
        /\ fetches = << >> /\ waits = {} /\ solution = None
    BY <1>2 DEF Init
  <2>2. /\ << >> \in Seq(1 .. served) /\ IsInjective(<< >>) /\ Len(<< >>) = 0
        /\ << >> \in Seq(0 .. served) /\ << >> \in Seq(MovesOf(1 .. served))
    BY DEF IsInjective
  <2>3. ListInv
    BY <2>1, <2>2, PuzzlesAssumption DEF ListInv
  <2>4. CallsInv /\ BoardInv /\ Judged
    BY <2>1, <2>2 DEF CallsInv, BoardInv, Judged
  <2>5. QED
    BY <2>3, <2>4 DEF IInv
<1>3. DoneInv /\ IInv /\ [Next]_vars => (DoneInv /\ IInv)'
  BY DoneStep, NextStep
<1>4. QED
  BY <1>1, <1>2, <1>3, PTL DEF Spec

-----------------------------------------------------------------------------
(* Theorems.                                                                *)

(* Whatever is got, played, shown or cleared, the list, the calls and the   *)
(* board keep their types: no puzzle is listed twice and the cursor is on   *)
(* the line.                                                                *)
THEOREM TypeCorrect == Spec => []TypeOK
<1>1. ASSUME DoneInv, IInv
      PROVE  TypeOK
  <2>1. ToSet(puzzles) \subseteq 1 .. served
    <3>1. \A j \in DOMAIN puzzles : puzzles[j] \in 1 .. served
      BY <1>1, ElementOf, Zenon DEF IInv, ListInv
    <3>2. QED
      BY <3>1 DEF ToSet
  <2>2. solution # None => solution.puzzle \in 1 .. served /\ solution.next \in 2 .. N
    BY <1>1 DEF IInv, CallsInv
  <2>3. QED
    BY <1>1, <2>1, <2>2 DEF IInv, ListInv, BoardInv, DoneInv, Completions, TypeOK
<1>2. QED
  BY <1>1, Invariance, PTL

(* Every move on the board is of the solution of the puzzle that is judged  *)
(* or a try at it, unless a call or a timer outlived what it was started    *)
(* for.                                                                     *)
THEOREM BoardOfCurrent == Spec => []BoardIsTheCurrent
<1>1. ASSUME IInv
      PROVE  BoardIsTheCurrent
  <2>1. SUFFICES ASSUME ~crossed
                 PROVE  /\ puzzles # << >> => HasPuzzle /\ line # << >>
                        /\ \A j \in DOMAIN line : HasPuzzle /\ line[j][1] = Puzzle
    BY DEF BoardIsTheCurrent
  <2>2. Judged
    BY <1>1, <2>1 DEF IInv
  <2>3. CASE puzzles = << >>
    BY <2>2, <2>3 DEF Judged
  <2>4. CASE puzzles # << >>
    <3>1. HasPuzzle /\ line # << >> /\ line \in Seq(MovesOf({Puzzle}))
      BY <2>2, <2>4 DEF Judged
    <3>2. \A j \in DOMAIN line : line[j] \in MovesOf({Puzzle})
      BY <3>1, ElementOf, Zenon
    <3>3. \A m \in MovesOf({Puzzle}) : m[1] = Puzzle
      BY DEF MovesOf, MoveOf
    <3>4. QED
      BY <3>1, <3>2, <3>3
  <2>5. QED
    BY <2>3, <2>4
<1>2. QED
  BY <1>1, Invariance, PTL

(* CountedOnce: what was missed or seen is never won later, and what was    *)
(* won is never missed later.                                               *)
THEOREM PuzzleCountsOnce == Spec => CountedOnce
<1>1. Init => DoneInv
  BY DEF Init, DoneInv, Completions
<1>2. DoneInv /\ [Next]_vars => DoneInv'
  BY DoneStep
<1>3. DoneInv /\ [Next]_vars =>
        [\A p \in Ids : done[p] # "incomplete" => done'[p] = done[p]]_vars
  BY DoneStep
<1>4. QED
  BY <1>1, <1>2, <1>3, PTL DEF Spec, CountedOnce

-----------------------------------------------------------------------------
(* Practice: the deck of a tree.                                            *)

(* The fold of a tree, unfolded: the deck after each of its positions.      *)
Pushes(t, w, b) == FoldLeft(LAMBDA cards, p : Pushed(cards, p, w), b, t)

LEMMA FoldedPushes ==
  ASSUME NEW n \in Nat, NEW t, DOMAIN t = 1 .. n, NEW w, NEW b
  PROVE  \E g : /\ g[0] = b /\ \A i \in 1 .. n : g[i] = Pushed(g[i - 1], t[i], w)
               /\ Pushes(t, w, b) = g[n]
<1> DEFINE D == 1 .. n
<1> DEFINE v(i) == t[i]
<1> DEFINE Rule(g) == [x \in SUBSET D |->
                        IF x = {} THEN b ELSE Pushed(g[x \ {Max(x)}], v(Max(x)), w)]
<1> DEFINE iter == CHOOSE g : g = Rule(g)
<1> DEFINE Obeys(k, h) == \A x \in SUBSET (1 .. k) :
                           h[x] = IF x = {} THEN b ELSE Pushed(h[x \ {Max(x)}], v(Max(x)), w)
<1>1. n \in Nat /\ DOMAIN t = D
  OBVIOUS
<1>2. Pushes(t, w, b) = iter[D]
  BY <1>1 DEF Pushes, FoldLeft, MapThenFoldSet
<1> HIDE DEF v
<1>3. \A k \in Nat : \E h : Obeys(k, h)
  <2> DEFINE E == {k \in Nat : \E h : Obeys(k, h)}
  <2>1. 0 \in E
    <3> DEFINE h == [x \in {{}} |-> b]
    <3>1. \A x \in SUBSET (1 .. 0) : x = {} /\ h[x] = b
      OBVIOUS
    <3>2. Obeys(0, h)
      BY <3>1
    <3>3. QED
      BY <3>2
  <2>2. ASSUME NEW k \in Nat, k \in E
        PROVE  k + 1 \in E
    <3>1. PICK h : Obeys(k, h)
      BY <2>2
    <3> DEFINE j == [x \in SUBSET (1 .. k + 1) |->
                      IF k + 1 \in x THEN Pushed(h[x \ {k + 1}], v(k + 1), w) ELSE h[x]]
    <3>2. ASSUME NEW x \in SUBSET (1 .. k + 1)
          PROVE  j[x] = IF x = {} THEN b ELSE Pushed(j[x \ {Max(x)}], v(Max(x)), w)
      <4>1. CASE k + 1 \in x
        <5>1. Max(x) = k + 1
          BY <4>1, MaxIs
        <5>2. x \ {k + 1} \in SUBSET (1 .. k + 1) /\ k + 1 \notin x \ {k + 1}
          OBVIOUS
        <5>3. j[x \ {k + 1}] = h[x \ {k + 1}]
          BY <5>2
        <5>4. j[x] = Pushed(h[x \ {k + 1}], v(k + 1), w)
          BY <4>1
        <5> HIDE DEF j
        <5>5. QED
          BY <4>1, <5>1, <5>3, <5>4
      <4>2. CASE k + 1 \notin x
        <5> DEFINE y == x \ {Max(x)}
        <5>1. x \in SUBSET (1 .. k)
          BY <4>2
        <5>2. y \in SUBSET (1 .. k + 1) /\ k + 1 \notin y
          BY <4>2
        <5>3. j[x] = h[x] /\ j[y] = h[y]
          BY <4>2, <5>2
        <5>4. h[x] = IF x = {} THEN b ELSE Pushed(h[y], v(Max(x)), w)
          BY <3>1, <5>1
        <5> HIDE DEF j, y
        <5>5. QED
          BY <5>3, <5>4 DEF y
      <4>3. QED
        BY <4>1, <4>2
    <3>3. Obeys(k + 1, j)
      BY <3>2
    <3>4. k + 1 \in Nat
      OBVIOUS
    <3> HIDE DEF Obeys
    <3>5. QED
      BY <3>3, <3>4, Zenon
  <2> HIDE DEF E
  <2>3. \A k \in Nat : k \in E
    BY <2>1, <2>2, NatSteps, Zenon
  <2>4. QED
    BY <2>3 DEF E
<1>4. PICK h : Obeys(n, h)
  BY <1>1, <1>3
<1>5. iter = Rule(iter)
  <2> DEFINE f == [x \in SUBSET D |-> h[x]]
  <2>1. \A x \in SUBSET D : x \ {Max(x)} \in SUBSET D
    OBVIOUS
  <2>2. \A x \in SUBSET D : f[x] = h[x] /\ f[x \ {Max(x)}] = h[x \ {Max(x)}]
    BY <2>1
  <2>3. \A x \in SUBSET D :
          f[x] = IF x = {} THEN b ELSE Pushed(f[x \ {Max(x)}], v(Max(x)), w)
    BY <1>4, <2>2
  <2>4. f = Rule(f)
    <3>1. f = [x \in SUBSET D |-> f[x]]
      OBVIOUS
    <3> HIDE DEF f
    <3>2. QED
      BY <2>3, <3>1
  <2> HIDE DEF f
  <2>5. QED
    BY <2>4
<1> HIDE DEF iter
<1>6. \A x \in SUBSET D :
        iter[x] = IF x = {} THEN b ELSE Pushed(iter[x \ {Max(x)}], v(Max(x)), w)
  BY <1>5
<1> DEFINE g == [i \in 0 .. n |-> iter[1 .. i]]
<1>7. \A i \in 0 .. n : g[i] = iter[1 .. i]
  OBVIOUS
<1>8. g[0] = b
  <2>1. 1 .. 0 = {} /\ 0 \in 0 .. n
    BY <1>1
  <2>2. QED
    BY <1>6, <1>7, <2>1
<1> HIDE DEF g
<1>9. ASSUME NEW i \in 1 .. n
      PROVE  g[i] = Pushed(g[i - 1], t[i], w)
  <2> DEFINE x == 1 .. i
  <2>1. x \in SUBSET D /\ x # {} /\ Max(x) = i
    <3>1. x \in SUBSET D /\ x \in SUBSET Nat /\ i \in x /\ \A y \in x : y <= i
      BY <1>1
    <3> HIDE DEF x
    <3>2. QED
      BY <3>1, MaxIs
  <2>2. x \ {i} = 1 .. i - 1 /\ i \in 0 .. n /\ i - 1 \in 0 .. n
    BY <1>1
  <2>3. g[i] = iter[x] /\ g[i - 1] = iter[x \ {i}]
    BY <1>7, <2>2
  <2>4. v(i) = t[i]
    BY DEF v
  <2> HIDE DEF x
  <2>5. iter[x] = Pushed(iter[x \ {Max(x)}], v(Max(x)), w)
    BY <1>6, <2>1
  <2>6. QED
    BY <2>1, <2>3, <2>4, <2>5
<1>10. Pushes(t, w, b) = g[n]
  <2>1. n \in 0 .. n
    BY <1>1
  <2>2. QED
    BY <1>2, <1>7, <2>1
<1>11. QED
  BY <1>8, <1>9, <1>10

-----------------------------------------------------------------------------
(* Decks.                                                                   *)

Ours(f, w) == (f \in WhiteMoves) = w

Distinct(c) == \A i, j \in DOMAIN c : c[i].fen = c[j].fen => i = j

OneSided(c, w) == \A i \in DOMAIN c : Ours(c[i].fen, w)

LEMMA CardsAre ==
  ASSUME NEW c \in Seq(Card)
  PROVE  /\ Len(c) \in Nat /\ DOMAIN c = 1 .. Len(c) /\ \A i \in 1 .. Len(c) : c[i] \in Card
         /\ c = << >> <=> Len(c) = 0
  BY LenProperties, ElementOfSeq, EmptySeq

LEMMA CardAdded ==
  ASSUME NEW c \in Seq(Card), NEW e \in Card
  PROVE  LET d == Append(c, e)
         IN  /\ d \in Seq(Card) /\ Len(d) = Len(c) + 1 /\ d[Len(c) + 1] = e
             /\ \A i \in 1 .. Len(c) : d[i] = c[i]
  BY AppendProperties, LenProperties

LEMMA FreshIs ==
  ASSUME NEW p \in [fen : Fens, answer : Answers]
  PROVE  Fresh(p) \in Card /\ Fresh(p).fen = p.fen /\ Fresh(p).due = TRUE /\ Fresh(p).reviewed = FALSE
  BY DEF Fresh, Card

(* What a deck holds after the first i positions of the tree.               *)
HoldsUpto(c, t, i, w) ==
  /\ c \in Seq(Card) /\ Distinct(c)
  /\ \A a \in DOMAIN c : \E k \in 1 .. i : c[a] = Fresh(t[k]) /\ Ours(t[k].fen, w)
  /\ \A k \in 1 .. i : Ours(t[k].fen, w) => \E a \in DOMAIN c : c[a].fen = t[k].fen

LEMMA PushedHolds ==
  ASSUME NEW t \in Seq([fen : Fens, answer : Answers]),
         \A i, j \in DOMAIN t : t[i].fen = t[j].fen => i = j,
         NEW w, NEW i \in Nat, i + 1 <= Len(t), NEW c, HoldsUpto(c, t, i, w)
  PROVE  HoldsUpto(Pushed(c, t[i + 1], w), t, i + 1, w)
<1> DEFINE p == t[i + 1]
<1> DEFINE d == Append(c, Fresh(p))
<1>1. /\ Len(t) \in Nat /\ DOMAIN t = 1 .. Len(t)
      /\ \A k \in 1 .. Len(t) : t[k] \in [fen : Fens, answer : Answers]
  BY LenProperties, ElementOfSeq
<1>2. /\ 1 .. i + 1 = 1 .. i \cup {i + 1} /\ i + 1 \in 1 .. Len(t) /\ i + 1 \notin 1 .. i
      /\ 1 .. i \subseteq 1 .. Len(t)
  BY <1>1
<1>3. CASE ~Ours(p.fen, w)
  <2>1. Pushed(c, p, w) = c
    BY <1>3 DEF Pushed, Ours
  <2> HIDE DEF p
  <2>2. QED
    BY <1>2, <1>3, <2>1 DEF HoldsUpto, p
<1>4. CASE Ours(p.fen, w)
  <2>1. Pushed(c, p, w) = d
    BY <1>4 DEF Pushed, Ours
  <2>2. p \in [fen : Fens, answer : Answers]
    BY <1>1, <1>2
  <2>3. Fresh(p) \in Card /\ Fresh(p).fen = p.fen
    BY <2>2, FreshIs
  <2>4. c \in Seq(Card) /\ Len(c) \in Nat /\ DOMAIN c = 1 .. Len(c)
    BY CardsAre DEF HoldsUpto
  <2>5. /\ d \in Seq(Card) /\ DOMAIN d = 1 .. Len(c) + 1 /\ d[Len(c) + 1] = Fresh(p)
        /\ \A a \in 1 .. Len(c) : d[a] = c[a]
    BY <2>3, <2>4, CardAdded, CardsAre
  <2>6. /\ \A a \in DOMAIN d : a \in DOMAIN c \/ a = Len(c) + 1
        /\ \A a \in DOMAIN c : a \in DOMAIN d /\ d[a] = c[a]
        /\ Len(c) + 1 \in DOMAIN d
    BY <2>4, <2>5
  <2> HIDE DEF d
  <2>7. \A a \in DOMAIN c : c[a].fen # p.fen
    <3>1. SUFFICES ASSUME NEW a \in DOMAIN c, c[a].fen = p.fen
                   PROVE  FALSE
      OBVIOUS
    <3>2. PICK k \in 1 .. i : c[a] = Fresh(t[k])
      BY DEF HoldsUpto
    <3>3. t[k] \in [fen : Fens, answer : Answers]
      BY <1>1, <1>2
    <3>4. t[k].fen = p.fen
      BY <3>1, <3>2, <3>3, FreshIs
    <3>5. k = i + 1
      BY <1>1, <1>2, <3>4
    <3>6. QED
      BY <1>2, <3>5
  <2>8. Distinct(d)
    <3>1. SUFFICES ASSUME NEW a \in DOMAIN d, NEW b \in DOMAIN d, d[a].fen = d[b].fen
                   PROVE  a = b
      BY DEF Distinct
    <3>2. CASE a \in DOMAIN c /\ b \in DOMAIN c
      BY <2>6, <3>1, <3>2 DEF HoldsUpto, Distinct
    <3>3. CASE a \notin DOMAIN c \/ b \notin DOMAIN c
      BY <2>3, <2>5, <2>6, <2>7, <3>1, <3>3
    <3>4. QED
      BY <3>2, <3>3
  <2>9. ASSUME NEW a \in DOMAIN d
        PROVE  \E k \in 1 .. i + 1 : d[a] = Fresh(t[k]) /\ Ours(t[k].fen, w)
    <3>1. CASE a \in DOMAIN c
      <4>1. PICK k \in 1 .. i : c[a] = Fresh(t[k]) /\ Ours(t[k].fen, w)
        BY <3>1 DEF HoldsUpto
      <4>2. QED
        BY <1>2, <2>6, <3>1, <4>1
    <3>2. CASE a = Len(c) + 1
      <4>1. i + 1 \in 1 .. i + 1
        BY <1>2
      <4>2. QED
        BY <1>4, <2>5, <3>2, <4>1
    <3>3. QED
      BY <2>6, <3>1, <3>2
  <2>10. ASSUME NEW k \in 1 .. i + 1, Ours(t[k].fen, w)
         PROVE  \E a \in DOMAIN d : d[a].fen = t[k].fen
    <3>1. CASE k \in 1 .. i
      <4>1. PICK a \in DOMAIN c : c[a].fen = t[k].fen
        BY <2>10, <3>1 DEF HoldsUpto
      <4>2. QED
        BY <2>6, <4>1
    <3>2. CASE k = i + 1
      BY <2>3, <2>5, <2>6, <3>2
    <3>3. QED
      BY <1>2, <3>1, <3>2
  <2>11. HoldsUpto(d, t, i + 1, w)
    BY <2>5, <2>8, <2>9, <2>10 DEF HoldsUpto
  <2>12. QED
    BY <2>1, <2>11
<1>5. QED
  BY <1>3, <1>4

(* The deck of a tree has one card for each position of the side.           *)
LEMMA BuildIs ==
  ASSUME Parameters, NEW h \in Games, NEW t \in Trees[h], NEW w
  PROVE  LET c == buildFromTree(t, w)
         IN  /\ c \in Seq(Card) /\ Distinct(c) /\ OneSided(c, w)
             /\ \A a \in DOMAIN c : c[a].due = TRUE /\ c[a].reviewed = FALSE
             /\ \A f : f \in FensOf(c) <=> f \in FensOf(t) /\ Ours(f, w)
<1>1. /\ t \in Seq([fen : Fens, answer : Answers])
      /\ \A i, j \in DOMAIN t : t[i].fen = t[j].fen => i = j
  BY DEF Parameters
<1> DEFINE n == Len(t)
<1>2. /\ n \in Nat /\ DOMAIN t = 1 .. n
      /\ \A k \in 1 .. n : t[k] \in [fen : Fens, answer : Answers]
  BY <1>1, LenProperties, ElementOfSeq
<1>3. PICK g : /\ g[0] = << >> /\ \A i \in 1 .. n : g[i] = Pushed(g[i - 1], t[i], w)
               /\ Pushes(t, w, << >>) = g[n]
  <2> HIDE DEF n
  <2>1. n \in Nat /\ DOMAIN t = 1 .. n
    BY <1>2
  <2>2. \A b : \E g : /\ g[0] = b /\ \A i \in 1 .. n : g[i] = Pushed(g[i - 1], t[i], w)
                      /\ Pushes(t, w, b) = g[n]
    BY <2>1, FoldedPushes
  <2>3. QED
    BY <2>2, Zenon
<1>4. buildFromTree(t, w) = g[n]
  BY <1>3 DEF buildFromTree, Pushes
<1> DEFINE E == {i \in Nat : i <= n => HoldsUpto(g[i], t, i, w)}
<1>5. 0 \in E
  <2>1. << >> \in Seq(Card) /\ DOMAIN << >> = {} /\ 1 .. 0 = {}
    BY EmptySeq
  <2>2. HoldsUpto(<< >>, t, 0, w)
    BY <2>1 DEF HoldsUpto, Distinct
  <2>3. QED
    BY <1>3, <2>2
<1>6. ASSUME NEW i \in Nat, i \in E
      PROVE  i + 1 \in E
  <2>1. SUFFICES ASSUME i + 1 <= n
                 PROVE  HoldsUpto(g[i + 1], t, i + 1, w)
    OBVIOUS
  <2>2. i <= n /\ i + 1 \in 1 .. n /\ (i + 1) - 1 = i
    BY <1>2, <2>1
  <2>3. HoldsUpto(g[i], t, i, w)
    BY <1>6, <2>2
  <2>4. g[i + 1] = Pushed(g[i], t[i + 1], w)
    BY <1>3, <2>2
  <2>5. HoldsUpto(Pushed(g[i], t[i + 1], w), t, i + 1, w)
    BY <1>1, <2>1, <2>3, PushedHolds
  <2>6. QED
    BY <2>4, <2>5
<1> HIDE DEF E
<1>7. \A i \in Nat : i \in E
  BY <1>5, <1>6, NatSteps, Zenon
<1> DEFINE c == g[n]
<1>8. HoldsUpto(c, t, n, w)
  BY <1>2, <1>7 DEF E
<1> HIDE DEF c, n
<1>9. ASSUME NEW a \in DOMAIN c
      PROVE  /\ c[a].due = TRUE /\ c[a].reviewed = FALSE
             /\ Ours(c[a].fen, w) /\ c[a].fen \in FensOf(t)
  <2>1. PICK k \in 1 .. n : c[a] = Fresh(t[k]) /\ Ours(t[k].fen, w)
    BY <1>8 DEF HoldsUpto
  <2>2. t[k] \in [fen : Fens, answer : Answers]
    BY <1>2
  <2>3. c[a].fen = t[k].fen /\ c[a].due = TRUE /\ c[a].reviewed = FALSE
    BY <2>1, <2>2, FreshIs
  <2>4. QED
    BY <1>2, <2>1, <2>3 DEF FensOf
<1>10. ASSUME NEW f \in FensOf(t), Ours(f, w)
       PROVE  f \in FensOf(c)
  <2>1. PICK k \in 1 .. n : t[k].fen = f
    BY <1>2 DEF FensOf
  <2>2. PICK a \in DOMAIN c : c[a].fen = t[k].fen
    BY <1>8, <1>10, <2>1 DEF HoldsUpto
  <2>3. QED
    BY <2>1, <2>2 DEF FensOf
<1>11. ASSUME NEW f \in FensOf(c)
       PROVE  f \in FensOf(t) /\ Ours(f, w)
  BY <1>9 DEF FensOf
<1>12. c \in Seq(Card) /\ Distinct(c) /\ OneSided(c, w)
  BY <1>8, <1>9 DEF HoldsUpto, OneSided
<1>13. QED
  BY <1>4, <1>9, <1>10, <1>11, <1>12 DEF c

LEMMA CardOfIs ==
  ASSUME NEW c, NEW f \in FensOf(c)
  PROVE  CardOf(c, f) \in DOMAIN c /\ c[CardOf(c, f)].fen = f
  BY DEF FensOf, CardOf

(* A card that has been put in place of the one at i.                       *)
LEMMA CardPut ==
  ASSUME NEW c \in Seq(Card), NEW i \in DOMAIN c, NEW e \in Card
  PROVE  LET d == [c EXCEPT ![i] = e]
         IN  /\ d \in Seq(Card) /\ DOMAIN d = DOMAIN c /\ d[i] = e
             /\ \A j \in DOMAIN c : j # i => d[j] = c[j]
<1> DEFINE d == [c EXCEPT ![i] = e]
<1>1. d \in Seq(Card)
  BY ExceptSeq
<1>2. QED
  BY <1>1

(* Syncing keeps what was learned of the positions that stay.               *)
LEMMA SyncedIs ==
  ASSUME Parameters, NEW h \in Games, NEW t \in Trees[h], NEW w,
         NEW old \in Seq(Card), Distinct(old)
  PROVE  LET d == Synced(old, t, w)
         IN  /\ d \in Seq(Card) /\ Distinct(d) /\ OneSided(d, w)
             /\ FensOf(d) = FensOf(buildFromTree(t, w))
             /\ \A f : f \in FensOf(d) <=> f \in FensOf(t) /\ Ours(f, w)
             /\ \A i \in DOMAIN old, j \in DOMAIN d :
                  d[j].fen = old[i].fen => d[j].due = old[i].due /\ d[j].reviewed = old[i].reviewed
<1> DEFINE new == buildFromTree(t, w)
<1> DEFINE m == Merged(old, new)
<1>1. /\ new \in Seq(Card) /\ Distinct(new) /\ OneSided(new, w)
      /\ \A f : f \in FensOf(new) <=> f \in FensOf(t) /\ Ours(f, w)
  BY BuildIs
<1>2. Synced(old, t, w) = IF old = << >> \/ FensOf(old) # FensOf(new) THEN m ELSE old
  BY DEF Synced
<1> HIDE DEF new
<1>3. /\ Len(new) \in Nat /\ DOMAIN new = 1 .. Len(new) /\ DOMAIN m = DOMAIN new
      /\ \A i \in DOMAIN old : old[i] \in Card
      /\ \A i \in DOMAIN new : new[i] \in Card
  BY <1>1, CardsAre DEF Merged
<1>4. ASSUME NEW i \in DOMAIN new
      PROVE  /\ m[i] \in Card /\ m[i].fen = new[i].fen
             /\ new[i].fen \in FensOf(old) => LET k == CardOf(old, new[i].fen)
                                              IN  /\ k \in DOMAIN old /\ old[k].fen = new[i].fen
                                                  /\ m[i].due = old[k].due
                                                  /\ m[i].reviewed = old[k].reviewed
  <2>1. CASE new[i].fen \in FensOf(old)
    <3> DEFINE k == CardOf(old, new[i].fen)
    <3>1. k \in DOMAIN old /\ old[k].fen = new[i].fen
      BY <2>1, CardOfIs
    <3>2. m[i] = [old[k] EXCEPT !.answer = new[i].answer]
      BY <2>1 DEF Merged
    <3> HIDE DEF k, m
    <3>3. old[k] \in Card /\ new[i] \in Card
      BY <1>3, <3>1
    <3>4. /\ m[i] \in Card /\ m[i].fen = old[k].fen /\ m[i].due = old[k].due
          /\ m[i].reviewed = old[k].reviewed
      BY <3>2, <3>3 DEF Card
    <3>5. QED
      BY <2>1, <3>1, <3>4 DEF k
  <2>2. CASE new[i].fen \notin FensOf(old)
    <3>1. m[i] = new[i]
      BY <2>2 DEF Merged
    <3>2. QED
      BY <1>3, <2>2, <3>1
  <2>3. QED
    BY <2>1, <2>2
<1> HIDE DEF m
<1>5. m \in Seq(Card)
  <2>1. m = [i \in 1 .. Len(new) |-> m[i]]
    BY <1>3 DEF m, Merged
  <2>2. \A i \in 1 .. Len(new) : m[i] \in Card
    BY <1>3, <1>4
  <2>3. m \in [1 .. Len(new) -> Card]
    BY <2>1, <2>2
  <2>4. QED
    BY <1>3, <2>3, SeqDef
<1>6. FensOf(m) = FensOf(new) /\ Distinct(m) /\ OneSided(m, w)
  BY <1>1, <1>3, <1>4 DEF FensOf, Distinct, OneSided
<1>7. ASSUME NEW i \in DOMAIN old, NEW j \in DOMAIN m, m[j].fen = old[i].fen
      PROVE  m[j].due = old[i].due /\ m[j].reviewed = old[i].reviewed
  <2>1. new[j].fen = old[i].fen /\ new[j].fen \in FensOf(old)
    BY <1>3, <1>4, <1>7 DEF FensOf
  <2> DEFINE k == CardOf(old, new[j].fen)
  <2>2. k \in DOMAIN old /\ old[k].fen = new[j].fen /\ m[j].due = old[k].due /\ m[j].reviewed = old[k].reviewed
    BY <1>3, <1>4, <2>1
  <2>3. k = i
    BY <2>1, <2>2 DEF Distinct
  <2>4. QED
    BY <2>2, <2>3
<1>8. CASE old = << >> \/ FensOf(old) # FensOf(new)
  <2>1. Synced(old, t, w) = m
    BY <1>2, <1>8
  <2>2. QED
    BY <1>1, <1>5, <1>6, <1>7, <2>1 DEF new
<1>9. CASE ~(old = << >> \/ FensOf(old) # FensOf(new))
  <2>1. Synced(old, t, w) = old /\ FensOf(old) = FensOf(new)
    BY <1>2, <1>9
  <2>2. OneSided(old, w)
    BY <1>1, <2>1 DEF OneSided, FensOf
  <2>3. \A i, j \in DOMAIN old : old[j].fen = old[i].fen => i = j
    BY DEF Distinct
  <2>4. QED
    BY <1>1, <2>1, <2>2, <2>3 DEF new
<1>10. QED
  BY <1>8, <1>9

-----------------------------------------------------------------------------
(* The invariant.                                                           *)

DeckInv ==
  /\ DOMAIN deck = Games /\ DOMAIN facing = Games
  /\ \A g \in Games : deck[g] \in Seq(Card) /\ Distinct(deck[g]) /\ OneSided(deck[g], facing[g])

TypeInv ==
  /\ game \in Games /\ tree \in Trees[game]
  /\ fen \in FensOf(tree) \cup {NoFen}
  /\ phase \in {"idle", "waiting", "correct", "incorrect"}
  /\ moved \in BOOLEAN

InStep == Mounted => \A f : f \in FensOf(Deck) <=> f \in FensOf(tree) /\ Ours(f, facing[game])

(* A right answer was to the card at the index.                             *)
AnswerInv ==
  ~moved /\ phase = "correct" => index \in DOMAIN Deck /\ Deck[index].fen = shown

(* A full session asks the first card that remains.                         *)
AskedInv ==
  ~moved /\ mode = "full" /\ phase = "waiting" =>
    remaining # << >> /\ Head(remaining) \in DOMAIN Deck /\ shown = Deck[Head(remaining)].fen

SessionInv == DeckInv /\ TypeInv /\ InStep /\ AnswerInv /\ AskedInv

Grades ==
  \A i \in DOMAIN Deck, j \in DOMAIN deck'[game] :
    /\ deck'[game][j].fen = Deck[i].fen
    /\ Deck[i].due /\ ~deck'[game][j].due
    /\ ~moved
    => Deck[i].fen \in {shown, fen}

Survives ==
  \A g \in Games : \A i \in DOMAIN deck[g] :
    deck[g][i].reviewed =>
      \/ \E j \in DOMAIN deck'[g] : deck'[g][j].fen = deck[g][i].fen /\ deck'[g][j].reviewed
      \/ deck[g][i].fen \notin FensOf(tree')
      \/ facing'[g] # facing[g]
      \/ ResetDeck

Steps == SessionInv' /\ Grades /\ Survives

LEMMA DeckIs ==
  ASSUME SessionInv
  PROVE  /\ Deck = deck[game] /\ Deck \in Seq(Card) /\ Distinct(Deck)
         /\ OneSided(Deck, facing[game]) /\ DOMAIN Deck = 1 .. Len(Deck)
         /\ Len(Deck) \in Nat /\ (Deck = << >> <=> Len(Deck) = 0)
<1>1. Deck = deck[game] /\ Deck \in Seq(Card) /\ Distinct(Deck) /\ OneSided(Deck, facing[game])
  BY DEF SessionInv, DeckInv, TypeInv, Deck
<1>2. QED
  BY <1>1, CardsAre

-----------------------------------------------------------------------------
(* Steps that leave the positions of the decks as they are.                 *)

SameCards ==
  /\ DOMAIN deck' = Games /\ facing' = facing
  /\ \A g \in Games :
       /\ deck'[g] \in Seq(Card) /\ DOMAIN deck'[g] = DOMAIN deck[g]
       /\ \A i \in DOMAIN deck[g] : /\ deck'[g][i].fen = deck[g][i].fen
                                    /\ deck[g][i].reviewed => deck'[g][i].reviewed

LEMMA SameDecks ==
  ASSUME SessionInv, UNCHANGED <<deck, facing>>
  PROVE  SameCards /\ Grades
<1>1. SameCards
  BY DEF SessionInv, DeckInv, SameCards
<1>2. \A i, j \in DOMAIN Deck : Deck[j].fen = Deck[i].fen => i = j
  BY DeckIs DEF Distinct
<1>3. deck'[game] = Deck
  BY DEF Deck
<1>4. Grades
  BY <1>2, <1>3 DEF Grades
<1>5. QED
  BY <1>1, <1>4

LEMMA CardReplaced ==
  ASSUME SessionInv, NEW k \in DOMAIN Deck, NEW e \in Card, e.fen = Deck[k].fen,
         Deck[k].reviewed => e.reviewed,
         deck' = [deck EXCEPT ![game] = [@ EXCEPT ![k] = e]], facing' = facing
  PROVE  /\ SameCards
         /\ e.due \/ moved \/ Deck[k].fen \in {shown, fen} => Grades
<1> DEFINE d == [Deck EXCEPT ![k] = e]
<1>1. d \in Seq(Card) /\ DOMAIN d = DOMAIN Deck /\ d[k] = e /\ \A j \in DOMAIN Deck : j # k => d[j] = Deck[j]
  BY DeckIs, CardPut
<1>2. /\ DOMAIN deck = Games /\ DOMAIN facing = Games /\ game \in Games
      /\ \A g \in Games : deck[g] \in Seq(Card)
  BY DEF SessionInv, DeckInv, TypeInv
<1>3. /\ DOMAIN deck' = Games /\ deck'[game] = d
      /\ \A g \in Games : g # game => deck'[g] = deck[g]
  BY <1>2 DEF Deck
<1> HIDE DEF d
<1>4. SameCards
  <2>1. SUFFICES ASSUME NEW g \in Games
                 PROVE  /\ deck'[g] \in Seq(Card) /\ DOMAIN deck'[g] = DOMAIN deck[g]
                        /\ \A i \in DOMAIN deck[g] :
                             /\ deck'[g][i].fen = deck[g][i].fen
                             /\ deck[g][i].reviewed => deck'[g][i].reviewed
    BY <1>3 DEF SameCards
  <2>2. CASE g = game
    BY <1>1, <1>3, <2>2 DEF Deck
  <2>3. CASE g # game
    BY <1>2, <1>3, <2>3
  <2>4. QED
    BY <2>2, <2>3
<1>5. ASSUME e.due \/ moved \/ Deck[k].fen \in {shown, fen}
      PROVE  Grades
  <2>1. SUFFICES ASSUME NEW i \in DOMAIN Deck, NEW j \in DOMAIN d, d[j].fen = Deck[i].fen,
                        Deck[i].due, ~d[j].due, ~moved
                 PROVE  Deck[i].fen \in {shown, fen}
    BY <1>3 DEF Grades
  <2>2. d[j].fen = Deck[j].fen /\ j \in DOMAIN Deck
    BY <1>1
  <2>3. i = j
    BY <2>1, <2>2, DeckIs DEF Distinct
  <2>4. j = k
    BY <1>1, <2>1, <2>3
  <2>5. QED
    BY <1>1, <1>5, <2>1, <2>3, <2>4
<1>6. QED
  BY <1>4, <1>5

LEMMA GradedIs ==
  ASSUME SessionInv, NEW k \in DOMAIN Deck, deck' = GradedAt(k), facing' = facing
  PROVE  SameCards /\ (moved \/ Deck[k].fen \in {shown, fen} => Grades)
<1> DEFINE e == [Deck[k] EXCEPT !.due = FALSE, !.reviewed = TRUE]
<1>1. Deck[k] \in Card
  BY DeckIs, CardsAre
<1>2. e \in Card /\ e.fen = Deck[k].fen /\ e.reviewed = TRUE
  BY <1>1 DEF Card
<1>3. deck' = [deck EXCEPT ![game] = [@ EXCEPT ![k] = e]]
  BY DEF GradedAt, Deck
<1> HIDE DEF e
<1>4. QED
  BY <1>2, <1>3, CardReplaced

(* What such a step keeps of the decks.                                     *)
LEMMA SameKeeps ==
  ASSUME SessionInv, SameCards
  PROVE  /\ DeckInv' /\ Survives
         /\ \A g \in Games : FensOf(deck'[g]) = FensOf(deck[g])
         /\ game' = game /\ tree' = tree /\ (Mounted' => Mounted) => InStep'
         /\ game' = game => DOMAIN Deck' = DOMAIN Deck /\ \A i \in DOMAIN Deck : Deck'[i].fen = Deck[i].fen
<1>1. DeckInv'
  BY DEF SessionInv, DeckInv, SameCards, Distinct, OneSided
<1>2. Survives
  BY DEF SameCards, Survives
<1>3. \A g \in Games : FensOf(deck'[g]) = FensOf(deck[g])
  BY DEF SameCards, FensOf
<1>4. ASSUME game' = game, tree' = tree, Mounted' => Mounted
      PROVE  InStep'
  <2>1. FensOf(Deck)' = FensOf(Deck)
    BY <1>3, <1>4 DEF SessionInv, TypeInv, Deck
  <2>2. FensOf(tree)' = FensOf(tree) /\ facing'[game'] = facing[game]
    BY <1>4 DEF SameCards, FensOf
  <2>3. QED
    BY <1>4, <2>1, <2>2 DEF SessionInv, InStep, Ours
<1>5. game' = game => DOMAIN Deck' = DOMAIN Deck /\ \A i \in DOMAIN Deck : Deck'[i].fen = Deck[i].fen
  BY DEF SameCards, Deck, SessionInv, TypeInv
<1>6. QED
  BY <1>1, <1>2, <1>3, <1>4, <1>5

(* A step that changes neither the session nor what it is about.            *)
LEMMA Keeps ==
  ASSUME SessionInv, SameCards, UNCHANGED <<game, tree, phase, shown, index, mode, remaining, moved>>,
         Mounted' => Mounted, fen' \in FensOf(tree) \cup {NoFen}
  PROVE  SessionInv'
<1>1. DeckInv' /\ InStep'
  BY SameKeeps
<1>2. DOMAIN Deck' = DOMAIN Deck /\ \A i \in DOMAIN Deck : Deck'[i].fen = Deck[i].fen
  BY SameKeeps
<1>3. FensOf(tree)' = FensOf(tree)
  BY DEF FensOf
<1>4. TypeInv'
  BY <1>3 DEF SessionInv, TypeInv
<1>5. AnswerInv'
  BY <1>2 DEF SessionInv, AnswerInv
<1>6. AskedInv'
  BY <1>2 DEF SessionInv, AskedInv
<1>7. QED
  BY <1>1, <1>4, <1>5, <1>6 DEF SessionInv

(* The next card, in the deck and the session of now.                       *)
LEMMA Renews ==
  ASSUME SessionInv, SameCards, UNCHANGED <<game, tree, panel>>, moved' \in BOOLEAN,
         NEW m, NEW rest, mode' = m, remaining' = rest, newPractice(m, rest),
         phase \in {"correct", "incorrect"} \/ Deck # << >>,
         phase = "correct" => moved' = moved
  PROVE  SessionInv'
<1> DEFINE d == deck'[game]
<1>1. /\ DeckInv' /\ InStep'
      /\ DOMAIN Deck' = DOMAIN Deck /\ \A i \in DOMAIN Deck : Deck'[i].fen = Deck[i].fen
  BY SameKeeps DEF Mounted
<1>2. Deck' = d /\ d \in Seq(Card) /\ game \in Games
  BY DEF Deck, SameCards, SessionInv, TypeInv
<1>3. d = << >> <=> Deck = << >>
  <2>1. Deck' = << >> <=> DOMAIN Deck' = {}
    BY <1>2, CardsAre
  <2>2. Deck = << >> <=> DOMAIN Deck = {}
    BY DeckIs
  <2>3. QED
    BY <1>1, <1>2, <2>1, <2>2
<1>4. FensOf(tree)' = FensOf(tree)
  BY DEF FensOf
<1> HIDE DEF d
<1>5. CASE d = << >>
  <2>1. UNCHANGED <<phase, shown, index, fen>>
    BY <1>5 DEF newPractice, practice, d
  <2>2. DOMAIN Deck = {} /\ phase \in {"correct", "incorrect"}
    BY <1>3, <1>5, DeckIs
  <2>3. phase = "correct" => moved'
    BY <2>2 DEF SessionInv, AnswerInv, TypeInv
  <2>4. TypeInv'
    BY <1>4, <2>1 DEF SessionInv, TypeInv
  <2>5. AnswerInv' /\ AskedInv'
    BY <2>1, <2>2, <2>3 DEF AnswerInv, AskedInv
  <2>6. QED
    BY <1>1, <2>4, <2>5 DEF SessionInv
<1>6. CASE d # << >>
  <2> DEFINE next == NextCard(d, m, rest)
  <2>1. \/ Idle /\ UNCHANGED fen
        \/ \E i \in next : fen' = OnBoard(d[i].fen, tree) /\ State("waiting", d[i].fen, 0)
    BY <1>6 DEF newPractice, d
  <2>2. CASE Idle /\ UNCHANGED fen
    <3>1. TypeInv'
      BY <1>4, <2>2 DEF SessionInv, TypeInv, Idle, State
    <3>2. AnswerInv' /\ AskedInv'
      BY <2>2 DEF AnswerInv, AskedInv, Idle, State
    <3>3. QED
      BY <1>1, <3>1, <3>2 DEF SessionInv
  <2>3. ASSUME NEW i \in next, fen' = OnBoard(d[i].fen, tree), State("waiting", d[i].fen, 0)
        PROVE  SessionInv'
    <3>1. fen' \in FensOf(tree) \cup {NoFen}
      BY <2>3 DEF OnBoard
    <3>2. TypeInv'
      BY <1>4, <2>3, <3>1 DEF SessionInv, TypeInv, State
    <3>3. AnswerInv'
      BY <2>3 DEF AnswerInv, State
    <3>4. ASSUME m = "full"
          PROVE  rest # << >> /\ Head(rest) \in DOMAIN d /\ shown' = d[Head(rest)].fen
      BY <2>3, <3>4 DEF NextCard, State
    <3>5. AskedInv'
      BY <1>2, <3>4 DEF AskedInv
    <3>6. QED
      BY <1>1, <3>2, <3>3, <3>5 DEF SessionInv
  <2>4. QED
    BY <2>1, <2>2, <2>3
<1>7. QED
  BY <1>5, <1>6

(* A sync that changes the deck is noted, and forgets no position that stays. *)
LEMMA Syncs ==
  ASSUME Parameters, SessionInv, NEW t \in Trees[game], SyncsDeck(game, t), game' = game, tree' = t,
         UNCHANGED <<phase, shown, index, mode, remaining>>, fen' \in FensOf(t) \cup {NoFen}
  PROVE  Steps
<1> DEFINE d == Synced(deck[game], t, white)
<1>1. /\ DOMAIN deck = Games /\ DOMAIN facing = Games /\ game \in Games
      /\ deck[game] \in Seq(Card) /\ Distinct(deck[game]) /\ OneSided(deck[game], facing[game])
      /\ \A g \in Games : deck[g] \in Seq(Card) /\ Distinct(deck[g]) /\ OneSided(deck[g], facing[g])
  BY DEF SessionInv, DeckInv, TypeInv
<1>2. /\ d \in Seq(Card) /\ Distinct(d) /\ OneSided(d, white)
      /\ \A f : f \in FensOf(d) <=> f \in FensOf(t) /\ Ours(f, white)
      /\ \A i \in DOMAIN deck[game], j \in DOMAIN d :
           d[j].fen = deck[game][i].fen => d[j].due = deck[game][i].due /\ d[j].reviewed = deck[game][i].reviewed
  BY <1>1, SyncedIs
<1>3. /\ DOMAIN deck' = Games /\ deck'[game] = d
      /\ \A g \in Games : g # game => deck'[g] = deck[g] /\ facing'[g] = facing[g]
      /\ DOMAIN facing' = Games /\ facing'[game] = white
      /\ moved' = (moved \/ d # deck[game])
  BY <1>1 DEF SyncsDeck
<1> HIDE DEF d
<1>4. DeckInv'
  <2>1. SUFFICES ASSUME NEW g \in Games
                 PROVE  deck'[g] \in Seq(Card) /\ Distinct(deck'[g]) /\ OneSided(deck'[g], facing'[g])
    BY <1>3 DEF DeckInv, Distinct, OneSided, Ours
  <2>2. QED
    BY <1>1, <1>2, <1>3
<1>5. TypeInv'
  <2>1. FensOf(tree)' = FensOf(t)
    BY DEF FensOf
  <2>2. moved' \in BOOLEAN
    BY <1>3 DEF SessionInv, TypeInv
  <2>3. QED
    BY <2>1, <2>2 DEF SessionInv, TypeInv
<1>6. InStep'
  <2>1. FensOf(Deck)' = FensOf(d) /\ FensOf(tree)' = FensOf(t)
    BY <1>3 DEF FensOf, Deck
  <2>2. QED
    BY <1>2, <1>3, <2>1 DEF InStep, Ours
<1>7. ~moved' => ~moved /\ Deck' = Deck
  BY <1>3 DEF SessionInv, TypeInv, Deck
<1>8. AnswerInv' /\ AskedInv'
  BY <1>7 DEF SessionInv, AnswerInv, AskedInv
<1>9. Grades
  BY <1>2, <1>3 DEF Grades, Deck
<1>10. Survives
  <2>1. SUFFICES ASSUME NEW g \in Games, NEW i \in DOMAIN deck[g], deck[g][i].reviewed,
                        deck[g][i].fen \in FensOf(tree'), facing'[g] = facing[g]
                 PROVE  \E j \in DOMAIN deck'[g] : deck'[g][j].fen = deck[g][i].fen /\ deck'[g][j].reviewed
    BY DEF Survives
  <2>2. CASE g # game
    BY <1>3, <2>1, <2>2
  <2>3. CASE g = game
    <3>1. Ours(deck[g][i].fen, white)
      BY <1>1, <1>3, <2>1, <2>3 DEF OneSided
    <3>2. deck[g][i].fen \in FensOf(d)
      BY <1>2, <2>1, <3>1
    <3>3. PICK j \in DOMAIN d : d[j].fen = deck[g][i].fen
      BY <3>2 DEF FensOf
    <3>4. d[j].reviewed = deck[g][i].reviewed
      BY <1>2, <2>3, <3>3
    <3>5. QED
      BY <1>3, <2>1, <2>3, <3>3, <3>4
  <2>4. QED
    BY <2>2, <2>3
<1>11. QED
  BY <1>4, <1>5, <1>6, <1>8, <1>9, <1>10 DEF Steps, SessionInv

-----------------------------------------------------------------------------
(* The steps.                                                               *)

LEMMA OnBoardIs ==
  ASSUME NEW f, NEW t
  PROVE  OnBoard(f, t) \in FensOf(t) \cup {NoFen}
  BY DEF OnBoard

(* Steps that touch no deck.                                                *)
LEMMA QuietSteps ==
  ASSUME SessionInv, UNCHANGED <<deck, facing, game, tree, phase, shown, index, mode, remaining, moved>>,
         Mounted' => Mounted, fen' \in FensOf(tree) \cup {NoFen}
  PROVE  Steps
<1>1. SameCards /\ Grades
  BY SameDecks
<1>2. SessionInv'
  BY <1>1, Keeps
<1>3. QED
  BY <1>1, <1>2, SameKeeps DEF Steps

LEMMA DueSteps ==
  ASSUME SessionInv, Due
  PROVE  Steps
<1>1. PICK k \in DOMAIN Deck : deck' = [deck EXCEPT ![game][k].due = TRUE]
  BY DEF Due
<1> DEFINE e == [Deck[k] EXCEPT !.due = TRUE]
<1>2. Deck[k] \in Card
  BY DeckIs, CardsAre
<1>3. e \in Card /\ e.fen = Deck[k].fen /\ e.reviewed = Deck[k].reviewed /\ e.due = TRUE
  BY <1>2 DEF Card
<1>4. deck' = [deck EXCEPT ![game] = [@ EXCEPT ![k] = e]]
  BY <1>1 DEF Deck
<1>5. facing' = facing
  BY DEF Due
<1> HIDE DEF e
<1>6. SameCards /\ Grades
  BY <1>3, <1>4, <1>5, CardReplaced
<1>7. SessionInv'
  <2>1. /\ UNCHANGED <<game, tree, phase, shown, index, mode, remaining, moved>> /\ Mounted' = Mounted
        /\ fen' = fen
    BY DEF Due, store, practice, session, Mounted
  <2>2. QED
    BY <1>6, <2>1, Keeps DEF SessionInv, TypeInv
<1>8. QED
  BY <1>6, <1>7, SameKeeps DEF Steps

LEMMA EditSteps ==
  ASSUME Parameters, SessionInv, NEW t \in Trees[game], Edit(t)
  PROVE  Steps
<1>1. /\ tree' = t /\ game' = game /\ UNCHANGED <<panel, phase, shown, index, mode, remaining>>
      /\ fen' \in FensOf(t) \cup {NoFen}
  BY OnBoardIs DEF Edit, practice, session
<1>2. CASE Mounted
  BY <1>1, <1>2, Syncs DEF Edit
<1>3. CASE ~Mounted
  <2>1. UNCHANGED <<deck, facing, moved>>
    BY <1>3 DEF Edit
  <2>2. SameCards /\ Grades
    BY <2>1, SameDecks
  <2>3. InStep'
    BY <1>1, <1>3 DEF InStep, Mounted
  <2>4. FensOf(tree)' = FensOf(t)
    BY <1>1 DEF FensOf
  <2>5. TypeInv'
    BY <1>1, <2>1, <2>4 DEF SessionInv, TypeInv
  <2>6. AnswerInv' /\ AskedInv'
    BY <1>1, <2>1 DEF SessionInv, AnswerInv, AskedInv, Deck
  <2>7. QED
    BY <2>2, <2>3, <2>5, <2>6, SameKeeps DEF Steps, SessionInv
<1>4. QED
  BY <1>2, <1>3

LEMMA OpensSteps ==
  ASSUME Parameters, SessionInv, NEW p, Opens(p)
  PROVE  Steps
<1>1. UNCHANGED <<game, tree, fen, phase, shown, index, mode, remaining>>
  BY DEF Opens, store, practice, session
<1>2. tree \in Trees[game] /\ fen' \in FensOf(tree) \cup {NoFen}
  BY <1>1 DEF SessionInv, TypeInv
<1>3. CASE ~Mounted
  BY <1>1, <1>2, <1>3, Syncs DEF Opens
<1>4. CASE Mounted
  BY <1>1, <1>2, <1>4, QuietSteps DEF Opens
<1>5. QED
  BY <1>3, <1>4

LEMMA SetPageSteps ==
  ASSUME Parameters, SessionInv, NEW g \in Games, SetPage(g)
  PROVE  Steps
<1>1. /\ game' = g /\ tree' = Stored[g] /\ fen' = NoFen /\ moved' = TRUE /\ ~Mounted'
      /\ UNCHANGED <<deck, facing, phase>>
  BY DEF SetPage, practice, Mounted
<1>2. SameCards /\ Grades
  BY <1>1, SameDecks
<1>3. TypeInv'
  BY <1>1 DEF SessionInv, TypeInv, Parameters
<1>4. InStep' /\ AnswerInv' /\ AskedInv'
  BY <1>1 DEF InStep, AnswerInv, AskedInv
<1>5. QED
  BY <1>2, <1>3, <1>4, SameKeeps DEF Steps, SessionInv

LEMMA StartSteps ==
  ASSUME SessionInv, startPractice \/ startFullPractice
  PROVE  Steps
<1>1. /\ UNCHANGED <<deck, facing, game, tree, panel>> /\ phase = "idle" /\ moved' \in BOOLEAN
      /\ Deck # << >>
  <2>1. CASE startPractice
    <3>1. Deck # << >>
      BY <2>1, DeckIs DEF startPractice
    <3>2. QED
      BY <2>1, <3>1 DEF startPractice, store, SessionInv, TypeInv
  <2>2. CASE startFullPractice
    BY <2>2 DEF startFullPractice, store
  <2>3. QED
    BY <2>1, <2>2
<1>2. PICK m, rest : mode' = m /\ remaining' = rest /\ newPractice(m, rest)
  BY DEF startPractice, startFullPractice, Session
<1>3. SameCards /\ Grades
  BY <1>1, SameDecks
<1>4. SessionInv'
  BY <1>1, <1>2, <1>3, Renews
<1>5. QED
  BY <1>3, <1>4, SameKeeps DEF Steps

LEMMA AnswerSteps ==
  ASSUME SessionInv, NEW a, Answer(a)
  PROVE  Steps
<1> DEFINE k == CardOf(Deck, fen)
<1>1. k \in DOMAIN Deck /\ Deck[k].fen = fen
  BY CardOfIs DEF Answer
<1>2. /\ UNCHANGED <<game, tree, panel, facing, mode, remaining>> /\ moved' \in BOOLEAN
      /\ moved' => moved
  BY DEF Answer, store, session, SessionInv, TypeInv
<1>3. \/ State("correct", Deck[k].fen, k) /\ fen' = NoFen /\ deck' = deck
      \/ /\ State("incorrect", Deck[k].fen, k) /\ fen' = fen
         /\ deck' = deck \/ deck' = GradedAt(k)
  BY DEF Answer
<1> HIDE DEF k
<1>4. SameCards /\ Grades
  <2>1. CASE deck' = deck
    BY <1>2, <2>1, SameDecks
  <2>2. CASE deck' = GradedAt(k)
    BY <1>1, <1>2, <2>2, GradedIs
  <2>3. QED
    BY <1>3, <2>1, <2>2
<1>5. FensOf(tree)' = FensOf(tree)
  BY <1>2 DEF FensOf
<1>6. TypeInv'
  BY <1>2, <1>3, <1>5 DEF SessionInv, TypeInv, State
<1>7. /\ DeckInv' /\ Survives /\ InStep'
      /\ DOMAIN Deck' = DOMAIN Deck /\ \A i \in DOMAIN Deck : Deck'[i].fen = Deck[i].fen
  BY <1>2, <1>4, SameKeeps DEF Mounted
<1>8. AnswerInv' /\ AskedInv'
  BY <1>1, <1>3, <1>7 DEF AnswerInv, AskedInv, State
<1>9. QED
  BY <1>4, <1>6, <1>7, <1>8 DEF Steps, SessionInv

(* The grade of a right answer, and the next card.                          *)
LEMMA GradesIndexSteps ==
  ASSUME SessionInv, phase = "correct", GradesIndex, newPractice(mode, remaining),
         UNCHANGED <<game, tree, panel, facing, mode, remaining, moved>>
  PROVE  Steps
<1>1. index \in DOMAIN Deck /\ deck' = GradedAt(index)
  BY DEF GradesIndex
<1>2. moved \/ Deck[index].fen \in {shown, fen}
  BY DEF SessionInv, AnswerInv, TypeInv
<1>3. SameCards /\ Grades
  BY <1>1, <1>2, GradedIs
<1>4. moved' \in BOOLEAN
  BY DEF SessionInv, TypeInv
<1>5. SessionInv'
  BY <1>3, <1>4, Renews
<1>6. QED
  BY <1>3, <1>5, SameKeeps DEF Steps

(* The next card without a grade.                                           *)
LEMMA LeavesSteps ==
  ASSUME SessionInv, phase \in {"correct", "incorrect"}, UNCHANGED deck,
         NEW rest, mode' = mode, remaining' = rest, newPractice(mode, rest),
         UNCHANGED <<game, tree, panel, facing, moved>>
  PROVE  Steps
<1>1. SameCards /\ Grades
  BY SameDecks
<1>2. moved' \in BOOLEAN
  BY DEF SessionInv, TypeInv
<1>3. \A m : mode' = m /\ newPractice(m, rest) => SessionInv'
  BY <1>1, <1>2, Renews
<1>4. QED
  BY <1>1, <1>3, SameKeeps DEF Steps

LEMMA handleQualityRatingSteps ==
  ASSUME SessionInv, handleQualityRating
  PROVE  Steps
BY GradesIndexSteps DEF handleQualityRating, store, session

LEMMA AfterCorrectSteps ==
  ASSUME SessionInv, AfterCorrect
  PROVE  Steps
<1>1. phase = "correct" /\ UNCHANGED <<game, tree, panel, facing, moved>>
  BY DEF AfterCorrect, store
<1>2. CASE UNCHANGED deck /\ Leaves
  BY <1>1, <1>2, LeavesSteps DEF Leaves, Session
<1>3. CASE GradesIndex /\ newPractice(mode, remaining) /\ UNCHANGED session
  BY <1>1, <1>3, GradesIndexSteps DEF session
<1>4. QED
  BY <1>2, <1>3 DEF AfterCorrect

LEMMA skipCardSteps ==
  ASSUME SessionInv, skipCard
  PROVE  Steps
<1>1. phase = "incorrect" /\ UNCHANGED deck /\ UNCHANGED <<game, tree, panel, facing, moved>>
  BY DEF skipCard, store
<1>2. \E rest : mode' = mode /\ remaining' = rest /\ newPractice(mode, rest)
  BY DEF skipCard, Leaves, Session, session
<1>3. QED
  BY <1>1, <1>2, LeavesSteps

LEMMA StopSteps ==
  ASSUME SessionInv, Stop
  PROVE  Steps
<1>1. UNCHANGED <<deck, facing, game, tree, panel, fen, moved>> /\ phase' = "idle"
  BY DEF Stop, store, Idle, State
<1>2. SameCards /\ Grades
  BY <1>1, SameDecks
<1>3. DeckInv' /\ Survives /\ InStep'
  BY <1>1, <1>2, SameKeeps DEF Mounted
<1>4. FensOf(tree)' = FensOf(tree)
  BY <1>1 DEF FensOf
<1>5. TypeInv' /\ AnswerInv' /\ AskedInv'
  BY <1>1, <1>4 DEF SessionInv, TypeInv, AnswerInv, AskedInv
<1>6. QED
  BY <1>2, <1>3, <1>5 DEF Steps, SessionInv

LEMMA ResetSteps ==
  ASSUME Parameters, SessionInv, ResetDeck
  PROVE  Steps
<1> DEFINE d == buildFromTree(tree, white)
<1>1. /\ UNCHANGED <<game, tree, panel, fen>> /\ phase' = "idle" /\ moved' = TRUE
      /\ deck' = [deck EXCEPT ![game] = d] /\ facing' = [facing EXCEPT ![game] = white]
  BY DEF ResetDeck, store, Idle, State
<1>2. /\ DOMAIN deck = Games /\ DOMAIN facing = Games /\ game \in Games /\ tree \in Trees[game]
      /\ \A g \in Games : deck[g] \in Seq(Card) /\ Distinct(deck[g]) /\ OneSided(deck[g], facing[g])
  BY DEF SessionInv, DeckInv, TypeInv
<1>3. /\ d \in Seq(Card) /\ Distinct(d) /\ OneSided(d, white)
      /\ \A i \in DOMAIN d : d[i].due = TRUE
      /\ \A f : f \in FensOf(d) <=> f \in FensOf(tree) /\ Ours(f, white)
  BY <1>2, BuildIs
<1> HIDE DEF d
<1>4. /\ DOMAIN deck' = Games /\ DOMAIN facing' = Games
      /\ deck'[game] = d /\ facing'[game] = white
      /\ \A g \in Games : g # game => deck'[g] = deck[g] /\ facing'[g] = facing[g]
  BY <1>1, <1>2
<1>5. DeckInv'
  <2>1. SUFFICES ASSUME NEW g \in Games
                 PROVE  deck'[g] \in Seq(Card) /\ Distinct(deck'[g]) /\ OneSided(deck'[g], facing'[g])
    BY <1>4 DEF DeckInv, Distinct, OneSided, Ours
  <2>2. QED
    BY <1>2, <1>3, <1>4
<1>6. FensOf(tree)' = FensOf(tree) /\ FensOf(Deck)' = FensOf(d)
  BY <1>1, <1>4 DEF FensOf, Deck
<1>7. TypeInv' /\ AnswerInv' /\ AskedInv'
  BY <1>1, <1>6 DEF SessionInv, TypeInv, AnswerInv, AskedInv
<1>8. InStep'
  BY <1>1, <1>3, <1>4, <1>6 DEF InStep, Ours
<1>9. Grades
  BY <1>3, <1>4 DEF Grades
<1>10. Survives
  BY DEF Survives
<1>11. QED
  BY <1>5, <1>7, <1>8, <1>9, <1>10 DEF Steps, SessionInv

LEMMA NextSteps ==
  ASSUME Parameters, SessionInv, [PracticeNext]_practiceVars
  PROVE  Steps
<1>1. fen \in FensOf(tree) \cup {NoFen}
  BY DEF SessionInv, TypeInv
<1>2. CASE UNCHANGED practiceVars
  BY <1>1, <1>2, QuietSteps DEF practiceVars, store, practice, session, Mounted
<1>3. CASE Due
  BY <1>3, DueSteps
<1>4. CASE \E t \in Trees[game] : Edit(t)
  BY <1>4, EditSteps
<1>5. CASE Flip
  BY <1>1, <1>5, QuietSteps DEF Flip, practice, session, Mounted
<1>6. CASE \E g \in Games : SetPage(g)
  BY <1>6, SetPageSteps
<1>7. CASE \E p \in {"train", "build", "other"} : Opens(p)
  BY <1>7, OpensSteps
<1>8. CASE \E f \in FensOf(tree) \cup {NoFen} : Navigates(f)
  BY <1>8, QuietSteps DEF Navigates, store, practice, session, Mounted
<1>9. CASE startPractice \/ startFullPractice
  BY <1>9, StartSteps
<1>10. CASE \E a \in Answers : Answer(a)
  BY <1>10, AnswerSteps
<1>11. CASE handleQualityRating
  BY <1>11, handleQualityRatingSteps
<1>12. CASE AfterCorrect
  BY <1>12, AfterCorrectSteps
<1>13. CASE skipCard
  BY <1>13, skipCardSteps
<1>14. CASE GoBack
  BY <1>14, OnBoardIs, QuietSteps DEF GoBack, store, practice, session, Mounted
<1>15. CASE Stop
  BY <1>15, StopSteps
<1>16. CASE ResetDeck
  BY <1>16, ResetSteps
<1>17. QED
  BY <1>2, <1>3, <1>4, <1>5, <1>6, <1>7, <1>8, <1>9, <1>10, <1>11, <1>12, <1>13, <1>14,
     <1>15, <1>16 DEF PracticeNext

LEMMA PracticeStarts ==
  ASSUME Parameters, PracticeInit
  PROVE  SessionInv
<1>1. DeckInv
  <2>1. << >> \in Seq(Card) /\ DOMAIN << >> = {}
    BY EmptySeq
  <2>2. QED
    BY <2>1 DEF PracticeInit, DeckInv, Distinct, OneSided
<1>2. TypeInv /\ InStep /\ AnswerInv /\ AskedInv
  BY DEF PracticeInit, Parameters, TypeInv, InStep, Mounted, AnswerInv, AskedInv
<1>3. QED
  BY <1>1, <1>2 DEF SessionInv

LEMMA SessionImplies ==
  ASSUME Parameters, SessionInv
  PROVE  PracticeTypeOK /\ FullAsksTheFirst
<1>1. ASSUME Mounted
      PROVE  FensOf(Deck) = FensOf(buildFromTree(tree, facing[game]))
  <2>1. game \in Games /\ tree \in Trees[game]
    BY DEF SessionInv, TypeInv
  <2>2. \A w : \A f : f \in FensOf(buildFromTree(tree, w)) <=> f \in FensOf(tree) /\ Ours(f, w)
    BY <2>1, BuildIs
  <2>3. \A f : f \in FensOf(Deck) <=> f \in FensOf(tree) /\ Ours(f, facing[game])
    BY <1>1 DEF SessionInv, InStep
  <2> DEFINE new == FensOf(buildFromTree(tree, facing[game]))
  <2>4. \A f : f \in FensOf(Deck) <=> f \in new
    BY <2>2, <2>3
  <2> HIDE DEF new
  <2>5. FensOf(Deck) = new
    BY <2>4
  <2>6. QED
    BY <2>5 DEF new
<1>2. PracticeTypeOK
  BY <1>1 DEF SessionInv, TypeInv, PracticeTypeOK
<1>3. FullAsksTheFirst
  BY DEF SessionInv, AskedInv, TypeInv, FullAsksTheFirst
<1>4. QED
  BY <1>2, <1>3

(* Every deck is a sequence of different positions of the side it was built *)
(* for, and a mounted panel's has all of the tree's (opening.ts:24-48).     *)
THEOREM PracticeInvariance == PracticeSpec => []SessionInv
<1>1. Parameters
  BY PracticeAssumption
<1>2. PracticeInit => SessionInv
  BY <1>1, PracticeStarts
<1>3. SessionInv /\ [PracticeNext]_practiceVars => SessionInv'
  BY <1>1, NextSteps DEF Steps
<1>4. QED
  BY <1>2, <1>3, PTL DEF PracticeSpec

(* PracticeTypeOK: the types, and that the deck of a panel on the screen    *)
(* has a card for each position of the tree of the side it was built for    *)
(* (PracticePanel.tsx:109-138).                                             *)
THEOREM PracticeTyped == PracticeSpec => []PracticeTypeOK
<1>1. SessionInv => PracticeTypeOK
  BY PracticeAssumption, SessionImplies
<1>2. QED
  BY <1>1, PracticeInvariance, PTL

(* FullAsksTheFirst: a full session asks the card that it will drop, unless *)
(* the deck has changed since it began (PracticePanel.tsx:211-276).         *)
THEOREM AsksTheFirst == PracticeSpec => []FullAsksTheFirst
<1>1. SessionInv => FullAsksTheFirst
  BY PracticeAssumption, SessionImplies
<1>2. QED
  BY <1>1, PracticeInvariance, PTL

(* GradesTheShown: a grade goes to the card that was answered, by its index *)
(* in a deck that has not changed since (PracticePanel.tsx:262-321).        *)
THEOREM GradesShown == PracticeSpec => GradesTheShown
<1>1. SessionInv /\ [PracticeNext]_practiceVars => [Grades]_practiceVars
  BY PracticeAssumption, NextSteps DEF Steps
<1>2. [Grades]_practiceVars <=>
        [\A i \in DOMAIN Deck, j \in DOMAIN deck'[game] :
           /\ deck'[game][j].fen = Deck[i].fen
           /\ Deck[i].due /\ ~deck'[game][j].due
           /\ ~moved
           => Deck[i].fen \in {shown, fen}]_practiceVars
  BY DEF Grades
<1>3. QED
  BY <1>1, <1>2, PracticeInvariance, PTL DEF PracticeSpec, GradesTheShown

(* ReviewsSurvive: what was learned of a position outlives every sync that  *)
(* keeps the position and the side (opening.ts:117-146).                    *)
THEOREM ReviewsKept == PracticeSpec => ReviewsSurvive
<1>1. SessionInv /\ [PracticeNext]_practiceVars => [Survives]_practiceVars
  BY PracticeAssumption, NextSteps DEF Steps
<1>2. [Survives]_practiceVars <=>
        [\A g \in Games : \A i \in DOMAIN deck[g] :
           deck[g][i].reviewed =>
             \/ \E j \in DOMAIN deck'[g] : deck'[g][j].fen = deck[g][i].fen /\ deck'[g][j].reviewed
             \/ deck[g][i].fen \notin FensOf(tree')
             \/ facing'[g] # facing[g]
             \/ ResetDeck]_practiceVars
  BY DEF Survives
<1>3. QED
  BY <1>1, <1>2, PracticeInvariance, PTL DEF PracticeSpec, ReviewsSurvive

=============================================================================
