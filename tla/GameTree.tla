------------------------------ MODULE GameTree ------------------------------
(* The game tree of a tab: apps/desktop/src/state/store/tree.ts and         *)
(* utils/treeReducer.ts.                                                    *)
(*                                                                          *)
(* A node's place is its path, the child indices (from 0) that lead to it   *)
(* from the root, and the tree is a function from paths to nodes. A         *)
(* position on the board is the line of moves that leads to it, so a node's *)
(* FEN is not stored. Every move is legal everywhere, down to MaxPly. A     *)
(* move has a name, `san`, and the squares it was given by, `move`: castling*)
(* has one name and two pairs of squares, the king's to the rook's from a   *)
(* PGN and the king's two steps from an engine. Which nodes carry a comment,*)
(* a score, shapes or an annotation is left out, and so are the headers that*)
(* hold no path.                                                            *)
EXTENDS Integers, FiniteSets, Sequences, SequencesExt, FiniteSetsExt

CONSTANTS
  Moves,       \* moves as the nodes hold them: records with `san` and `move`
  EngineMoves, \* those whose squares are an engine's
  Games,       \* trees of the games that are loaded or pasted
  NotedPaths,  \* paths noted in some tree: in a Start header, in a card
  MaxPly,      \* bound: the longest line
  MaxNodes,    \* bound: the number of nodes that additions stop at
  NoMove, NoPath, NoReport

(* The squares say what the move is called.                                 *)
ASSUME GameTreeAssumption ==
  /\ NoMove \notin Moves /\ EngineMoves \subseteq Moves
  /\ \A m, n \in Moves : m.move = n.move => m.san = n.san
  /\ MaxPly \in Nat /\ MaxNodes \in Nat \ {0}

VARIABLES
  root,          \* the tree: path -> the node's move
  position,      \* the cursor, a path that need not lead to a node
  start,         \* headers.start, where a repertoire begins, or NoPath
  dirty,         \* edited since the last save
  report         \* the plies of the main line a running report got, or NoReport

vars == <<root, position, start, dirty, report>>

-----------------------------------------------------------------------------
(* Nodes and paths.                                                         *)

defaultTree == [p \in {<< >>} |-> NoMove]

Paths(T) == DOMAIN T

(* With a node its parent and its elder siblings.                           *)
WellFormed(T) ==
  /\ << >> \in Paths(T)
  /\ \A p \in Paths(T) \ {<< >>} :
       /\ Front(p) \in Paths(T)
       /\ \A i \in 0 .. Last(p) : Append(Front(p), i) \in Paths(T)

TreeOf(T) ==
  /\ \A p \in Paths(T) : p \in Seq(Nat) /\ Len(p) <= MaxPly /\ T[p] \in Moves \cup {NoMove}
  /\ \A p \in Paths(T) : T[p] = NoMove <=> p = << >>
  /\ WellFormed(T)

ASSUME GamesAssumption ==
  /\ \A T \in Games : TreeOf(T) /\ IsFiniteSet(Paths(T))
  /\ NotedPaths \subseteq Seq(Nat)
  /\ \A p \in NotedPaths : Len(p) <= MaxPly
  /\ NoPath \notin NotedPaths

(* The tree with the nodes of N.                                            *)
Add(T, N) == [p \in Paths(T) \cup Paths(N) |-> IF p \in Paths(N) THEN N[p] ELSE T[p]]

Kids(T, p) == Cardinality({c \in Paths(T) : Len(c) = Len(p) + 1 /\ IsPrefix(p, c)})

InOrder(T, p) == [i \in 1 .. Kids(T, p) |-> i - 1]

(* The deepest node on the way along p: where p leaves the tree, its last   *)
(* node stands for what is missing.                                         *)
getNodeAtPath(T, p) ==
  CHOOSE q \in Paths(T) :
    /\ IsPrefix(q, p)
    /\ \A r \in Paths(T) : IsPrefix(r, p) => Len(r) <= Len(q)

Zeros(n) == [i \in 1 .. n |-> 0]

(* How far first children go on below a node.                               *)
MainDepth(T, p) == Max({n \in 0 .. MaxPly : p \o Zeros(n) \in Paths(T)})

MainEnd(T, p) == p \o Zeros(MainDepth(T, p))

LineOf(T, p) == [i \in 1 .. Len(p) |-> T[SubSeq(p, 1, i)].san]

Lines(T) == {LineOf(T, p) : p \in Paths(T)}

(* The tree in which the children of q are the old ones named by `order`,   *)
(* in that order: what splicing an array of children does to the paths.     *)
Reorder(T, q, order) ==
  LET n == Len(q) + 1
      Below(p) == Len(p) >= n /\ IsPrefix(q, p)
      Old(p) == IF Below(p) THEN [p EXCEPT ![n] = order[@ + 1]] ELSE p
      kept == {p \in Paths(T) : ~Below(p)}
      moved == {[p EXCEPT ![n] = i - 1] : p \in {r \in Paths(T) : Below(r)}, i \in DOMAIN order}
  IN  [p \in kept \cup {m \in moved : Old(m) \in Paths(T)} |-> T[Old(p)]]

(* Mutant: delete children[index], which leaves a hole.                     *)
SpliceLeavesHole(T, q, index) ==
  LET gone == IF index < 0 THEN Kids(T, q) + index ELSE index
  IN  [p \in {r \in Paths(T) : ~IsPrefix(Append(q, gone), r)} |-> T[p]]

(* children.splice(index, 1): a negative index counts from the end.         *)
Splice(T, q, index) ==
  LET gone == IF index < 0 THEN Kids(T, q) + index ELSE index
  IN  Reorder(T, q, RemoveAt(InOrder(T, q), gone + 1))

(* Mutant: children[v] in front, and the first child taken out.             *)
ToFrontTakesFirst(T, q, v) ==
  Reorder(T, q, <<v>> \o RemoveAt(InOrder(T, q), 1))

(* children.unshift(children.splice(v, 1)[0])                               *)
ToFront(T, q, v) ==
  Reorder(T, q, <<v>> \o RemoveAt(InOrder(T, q), v + 1))

(* children.push(node), and children.unshift(node) as a push that is moved. *)
Push(T, q, node) == Add(T, [p \in {Append(q, Kids(T, q))} |-> node])

Unshift(T, q, node) == ToFront(Push(T, q, node), q, Kids(T, q))

-----------------------------------------------------------------------------
(* Moves. The functions of the store that change a draft are functions of   *)
(* the store's state s = [root, position, dirty].                   *)

State == [root |-> root, position |-> position, dirty |-> dirty]

Becomes(s) ==
  /\ root' = s.root
  /\ position' = s.position
  /\ dirty' = s.dirty

SameName(T, q, m) == {i \in 0 .. Kids(T, q) - 1 : T[Append(q, i)].san = m.san}

(* makeMove(): from the cursor, or from the end of the main line (`last`).  *)
(* The cursor gets the child's index appended wherever the move was made.   *)
(* With a cursor off the tree the code throws where it looks for a position *)
(* that came three times, unless it found one before or was told not to look*)
(* (tree.ts:558-560, 609-626): such a move may not happen, here it may.     *)
Play(s, m, last, mainline, changePosition) ==
  LET from == IF last THEN MainEnd(s.root, << >>) ELSE s.position
      q == getNodeAtPath(s.root, from)
      known == SameName(s.root, q, m)
      index == IF known # {} THEN Min(known)
               ELSE IF mainline /\ ~last THEN 0 ELSE Kids(s.root, q)
  IN  [root |-> IF known # {} THEN s.root
                ELSE IF mainline THEN Unshift(s.root, q, m)
                ELSE Push(s.root, q, m),
       position |-> IF changePosition THEN from \o <<index>> ELSE s.position,
       dirty |-> s.dirty \/ known = {}]

(* Room for n more moves below the node that a path stands for.             *)
Room(p, n) ==
  /\ Len(getNodeAtPath(root, p)) + n <= MaxPly
  /\ Len(p) + n <= MaxPly
  /\ Cardinality(Paths(root)) + n <= MaxNodes

MakeMove(m, mainline, changePosition) ==
  /\ Room(position, 1)
  /\ Becomes(Play(State, m, FALSE, mainline, changePosition))
  /\ UNCHANGED <<start, report>>

AppendMove(m) ==
  /\ Room(MainEnd(root, << >>), 1)
  /\ Becomes(Play(State, m, TRUE, FALSE, TRUE))
  /\ UNCHANGED <<start, report>>

MakeMoves(ms, mainline) ==
  /\ Room(position, Len(ms))
  /\ Becomes(FoldLeft(LAMBDA s, m : Play(s, m, FALSE, mainline, TRUE),
                      [State EXCEPT !.dirty = TRUE], ms))
  /\ UNCHANGED <<start, report>>

-----------------------------------------------------------------------------
(* Edits of the tree.                                                       *)

(* deleteMove(): findIndex() gives -1 when the path leads to its own parent.*)
DeleteAt(path) ==
  LET node == getNodeAtPath(root, path)
      up == IF path = << >> THEN << >> ELSE Front(path)
      parent == getNodeAtPath(root, up)
      index == IF Len(node) > Len(parent) THEN Last(node) ELSE -1
  IN  /\ root' = IF Kids(root, parent) = 0 THEN root ELSE Splice(root, parent, index)
      /\ position' = IF IsPrefix(path, position) THEN up
                     ELSE IF IsPrefix(up, position) /\ Len(position) >= Len(path)
                     THEN [position EXCEPT ![Len(path)] = 0]
                     ELSE position
      /\ start' = IF start # NoPath /\ IsPrefix(path, start) THEN NoPath ELSE start
      /\ dirty' = TRUE
      /\ UNCHANGED <<report>>

DeleteMove == \E p \in Paths(root) \ {<< >>} : DeleteAt(p)

DeleteCurrent == DeleteAt(position)

LastNonZero(path) == Max({0} \cup {i \in DOMAIN path : path[i] # 0})

(* Mutant: the cursor is not told of the promotion.                         *)
PromoteLeavesCursor(s, path) ==
  LET i == LastNonZero(path)
  IN  IF i = 0 THEN s
      ELSE [s EXCEPT !.root = ToFront(@, SubSeq(path, 1, i - 1), path[i])]

(* promoteVariation() of a draft [root, position].                          *)
Promote(s, path) ==
  LET i == LastNonZero(path)
  IN  IF i = 0 THEN s
      ELSE [root |-> ToFront(s.root, SubSeq(path, 1, i - 1), path[i]),
            position |-> [path EXCEPT ![i] = 0]]

PromoteVariation(path) ==
  LET s == Promote([root |-> root, position |-> position], path)
  IN  /\ root' = s.root
      /\ position' = s.position
      /\ dirty' = TRUE
      /\ UNCHANGED <<start, report>>

(* promoteToMainline(): as often as the path has indices other than 0.      *)
PromoteToMainline(path) ==
  LET turns == Cardinality({i \in DOMAIN path : path[i] # 0})
      again(s, i) == Promote(s, IF i = 1 THEN path ELSE s.position)
      s == FoldLeft(again, [root |-> root, position |-> position], [i \in 1 .. turns |-> i])
  IN  /\ root' = s.root
      /\ position' = s.position
      /\ dirty' = TRUE
      /\ UNCHANGED <<start, report>>

SetStart(path) ==
  /\ start' = path
  /\ dirty' = TRUE
  /\ UNCHANGED <<root, position, report>>

(* setFen(), and setHeaders() with another FEN: a new root under the old    *)
(* headers.                                                                 *)
SetFen ==
  /\ root' = defaultTree
  /\ position' = << >>
  /\ dirty' = TRUE
  /\ UNCHANGED <<start, report>>

(* setAnnotation(), setComment(), setShapes(), setScore(), setResult(),     *)
(* setHeaders() and clearShapes() with shapes to clear.                     *)
Annotate ==
  /\ dirty' = TRUE
  /\ UNCHANGED <<root, position, start, report>>

save ==
  /\ dirty' = FALSE
  /\ UNCHANGED <<root, position, start, report>>

reset ==
  /\ root' = defaultTree
  /\ position' = << >>
  /\ start' = NoPath
  /\ dirty' = FALSE
  /\ UNCHANGED <<report>>

(* setState() with a file's game: the cursor goes to its Start header, which*)
(* need not lead to a node of the game. The text may hold a variation twice.*)
LoadGame(T, s) ==
  /\ root' = T
  /\ position' = IF s = NoPath THEN << >> ELSE s
  /\ start' = s
  /\ dirty' = FALSE
  /\ UNCHANGED <<report>>

(* setState() with the game that was typed, if it differs.                  *)
PasteGame(T, s) ==
  /\ T # root \/ s # start
  /\ root' = T
  /\ position' = << >>
  /\ start' = s
  /\ dirty' = TRUE
  /\ UNCHANGED <<report>>

-----------------------------------------------------------------------------
(* Navigation: the cursor and nothing else. A cursor that is off the tree   *)
(* may grow with every press of a key: MaxPly bounds it.                    *)

Moved(p) ==
  /\ Len(p) <= MaxPly
  /\ position' = p
  /\ UNCHANGED <<root, start, dirty, report>>

Back(p) == IF p = << >> THEN << >> ELSE Front(p)

(* In a drill the next move is the drill's (practicePath), and not beyond   *)
(* the position that is asked for: any child may be the one.                *)
goToNext ==
  \E index \in 0 .. Kids(root, getNodeAtPath(root, position)) - 1 :
     Moved(Append(position, index))

goToPrevious == Moved(Back(position))
goToStart == Moved(IF start = NoPath THEN << >> ELSE start)
goToEnd == Moved(MainEnd(root, << >>))

(* The path of a node, or of a card or an opening as it once was.           *)
goToMove == \E p \in Paths(root) \cup NotedPaths : Moved(p)

(* Out of a side line's first move, then up to where a side line began.     *)
goToBranchStart ==
  LET p == IF position # << >> /\ Last(position) # 0 THEN Front(position) ELSE position
  IN  Moved(SubSeq(p, 1, LastNonZero(p)))

goToBranchEnd ==
  Moved(position \o Zeros(MainDepth(root, getNodeAtPath(root, position))))

(* nextBranch() with step 1, previousBranch() with step -1. A cursor that   *)
(* has left the tree has no node to step from: the handler throws.          *)
StepBranch(step) ==
  LET parent == getNodeAtPath(root, Back(position))
      n == Kids(root, parent)
      index == Last(position)
      sibling == (index + n + step) % n
  IN  /\ position # << >>
      /\ index < n
      /\ Moved(IF Kids(root, Append(parent, index)) >= 2 /\ n <= 1
               THEN Append(position, sibling)
               ELSE Append(Front(position), sibling))

(* Down first children to the next node that does not have one child.       *)
nextBranching ==
  LET node == getNodeAtPath(root, position)
      stops == {n \in 1 .. MainDepth(root, node) : Kids(root, node \o Zeros(n)) # 1}
  IN  /\ Kids(root, node) > 0
      /\ Moved(position \o Zeros(Min(stops)))

previousBranching ==
  LET stops == {n \in 0 .. Len(position) - 1 :
                  n = 0 \/ Kids(root, getNodeAtPath(root, SubSeq(position, 1, n))) # 1}
  IN  /\ position # << >>
      /\ Moved(SubSeq(position, 1, Max(stops)))

(* The next annotated node down the line, or else on the main line: any of  *)
(* them may be the one.                                                     *)
goToAnnotation ==
  LET depth == MainDepth(root, getNodeAtPath(root, position))
  IN  \/ \E n \in 1 .. depth : Moved(position \o Zeros(n))
      \/ \E n \in 0 .. MainDepth(root, << >>) : Moved(Zeros(n))

-----------------------------------------------------------------------------
(* The report: the engine analyses a copy of the main line.                 *)

analyze ==
  /\ report = NoReport
  /\ report' = MainDepth(root, << >>)
  /\ UNCHANGED <<root, position, start, dirty>>

(* Mutant: a variation is added beside a move that is already there.        *)
AnalysedBlindly(k, pv) ==
  LET parent == Zeros(k - 1)
      first == Append(parent, Kids(root, parent))
      variation == [p \in {first \o Zeros(i) : i \in 0 .. Len(pv) - 1} |-> pv[Len(p) - k + 1]]
  IN  IF k = 0 THEN root ELSE Add(root, variation)

(* addAnalysis(): after a mistake at ply k the best line `pv` of the ply    *)
(* before is added beside it, to the main line there is now (k = 0: no      *)
(* mistake; at most one, a bound on what an engine says), unless a child    *)
(* has the same squares.                                                    *)
Analysed(k, pv) ==
  LET parent == Zeros(k - 1)
      first == Append(parent, Kids(root, parent))
      variation == [p \in {first \o Zeros(i) : i \in 0 .. Len(pv) - 1} |-> pv[Len(p) - k + 1]]
      existing == {i \in 0 .. Kids(root, parent) - 1 : root[Append(parent, i)].move = pv[1].move}
  IN  IF k = 0 \/ existing # {} THEN root ELSE Add(root, variation)

(* Mutant: the report does not mark the tab.                                *)
ReportArrivesUnmarked(k, pv) ==
  /\ report # NoReport
  /\ k <= Min({report, MainDepth(root, << >>)})
  /\ k # 0 => k + Len(pv) - 1 <= MaxPly /\ Cardinality(Paths(root)) + Len(pv) <= MaxNodes
  /\ root' = Analysed(k, pv)
  /\ report' = NoReport
  /\ UNCHANGED <<position, start, dirty>>

ReportArrives(k, pv) ==
  /\ report # NoReport
  /\ k <= Min({report, MainDepth(root, << >>)})
  /\ k # 0 => k + Len(pv) - 1 <= MaxPly /\ Cardinality(Paths(root)) + Len(pv) <= MaxNodes
  /\ root' = Analysed(k, pv)
  /\ dirty' = TRUE
  /\ report' = NoReport
  /\ UNCHANGED <<position, start>>

ReportFails ==
  /\ report # NoReport
  /\ report' = NoReport
  /\ UNCHANGED <<root, position, start, dirty>>

-----------------------------------------------------------------------------
(* The specification.                                                       *)

Init ==
  /\ root = defaultTree
  /\ position = << >>
  /\ start = NoPath
  /\ dirty = FALSE
  /\ report = NoReport

(* Lines of one or two moves.                                               *)
ShortLines(M) == {<<m>> : m \in M} \cup {<<m, n>> : m, n \in M}

Edit ==
  \/ \E m \in Moves, mainline, changePosition \in BOOLEAN :
       MakeMove(m, mainline, changePosition)
  \/ \E m \in Moves : AppendMove(m)
  \/ \E ms \in ShortLines(Moves), mainline \in BOOLEAN : MakeMoves(ms, mainline)
  \/ DeleteMove
  \/ DeleteCurrent
  \/ \E p \in Paths(root) :
       PromoteVariation(p) \/ PromoteToMainline(p) \/ SetStart(p)
  \/ SetFen
  \/ Annotate

Load == reset \/ \E T \in Games, s \in NotedPaths \cup {NoPath} : LoadGame(T, s)

Paste == \E T \in Games, s \in NotedPaths \cup {NoPath} : PasteGame(T, s)

Navigate ==
  \/ goToNext
  \/ goToPrevious
  \/ goToStart
  \/ goToEnd
  \/ goToMove
  \/ goToBranchStart
  \/ goToBranchEnd
  \/ \E step \in {1, -1} : StepBranch(step)
  \/ nextBranching
  \/ previousBranching
  \/ goToAnnotation

Report ==
  \/ analyze
  \/ \E k \in 0 .. MaxPly, pv \in ShortLines(EngineMoves) : ReportArrives(k, pv)
  \/ ReportFails

Next == Edit \/ save \/ Load \/ Paste \/ Navigate \/ Report

Spec == Init /\ [][Next]_vars

-----------------------------------------------------------------------------
(* Properties.                                                              *)

(* Types, and the shape of the tree, which every splice of an array of      *)
(* children must leave whole (tree.ts:516-659).                             *)
TypeOK ==
  /\ TreeOf(root)
  /\ dirty \in BOOLEAN
  /\ position \in Seq(Nat)
  /\ start = NoPath \/ start \in Seq(Nat)
  /\ report \in 0 .. MaxPly \cup {NoReport}

(* No two nodes stand for the same line.                                    *)
Twinless(T) == \A p, q \in Paths(T) : LineOf(T, p) = LineOf(T, q) => p = q

(* No two children of a node have the same squares.                         *)
SquaresDiffer(T) ==
  \A p, q \in Paths(T) \ {<< >>} : Front(p) = Front(q) /\ T[p].move = T[q].move => p = q

(* A move that is twice among a position's children, of which a repertoire  *)
(* drills one and does not see the other, is never made by playing, by      *)
(* promoting or by deleting: it comes with a loaded text that has it, or    *)
(* with a report that gives a castling by other squares than the child it   *)
(* repeats (tree.ts:556, 734-742).                                          *)
TwinsOnlyBy ==
  [][(root' # root /\ Twinless(root) /\ ~Twinless(root')) =>
       Load \/ Paste \/ (Report /\ SquaresDiffer(root'))]_vars

(* An edit of the tree or of its starting point leaves the tab dirty: only  *)
(* loading another game replaces them and leaves it clean (tree.ts:98-514). *)
EditsAreMarked ==
  [][root' # root \/ start' # start => dirty' \/ Load]_vars

(* A cursor that was beside or below the elder siblings of a deleted move   *)
(* is put on the first of them.                                             *)
DeleteBeside ==
  \E p \in Paths(root) \ {<< >>} :
    /\ Len(position) >= Len(p) /\ IsPrefix(Front(p), position) /\ ~IsPrefix(p, position)
    /\ DeleteAt(p)

(* The cursor is on a node, and leaves the tree only when a sibling of a    *)
(* move on its way is deleted, or when it goes where a Start header or an   *)
(* old path says, in a game that has no such node (tree.ts:251-260, 628-641,*)
(* chess.ts:473-474).                                                       *)
StraysOnlyBy ==
  [][(position \in Paths(root) /\ position' \notin Paths(root')) =>
       \/ DeleteBeside
       \/ goToStart /\ start \notin Paths(root)
       \/ goToMove /\ position' \in NotedPaths
       \/ Load /\ position' = start']_vars

(* What the tree means is the set of lines it holds, and whether they are   *)
(* saved (LineBook). Each operation does to it what its name says: playing, *)
(* analysing and promoting lose no line; deleting loses only continuations  *)
(* of one line, and all of them where no line has two nodes; a cleared board*)
(* is empty, and a loaded or typed game brings its lines and no other       *)
(* (tree.ts:516-797).                                                       *)
Book == INSTANCE LineBook WITH lines <- Lines(root), Books <- {Lines(T) : T \in Games}

KeepsLines ==
  /\ Book!Init
  /\ [][(root' # root \/ dirty' # dirty) =>
          \/ Book!Save
          \/ Book!Extend
          \/ Book!Delete /\ (DeleteMove \/ DeleteCurrent) /\ (Twinless(root) => Book!TakeOut)
          \/ Book!Clear /\ SetFen
          \/ Book!Open /\ Load
          \/ Book!Replace /\ Paste]_vars

=============================================================================
