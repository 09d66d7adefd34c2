------------------------------ MODULE Practice ------------------------------
(* Practising a repertoire: the deck of a game                              *)
(* (components/files/opening.ts), the practice panel that keeps it in step  *)
(* with the tree and shows its cards                                        *)
(* (components/panels/practice/PracticePanel.tsx), and the board that takes *)
(* the answers (Board.tsx).                                                 *)
(*                                                                          *)
(* A tree is what the deck sees of it: its positions in the order of        *)
(* treeIterator(), each with the first move. The schedule of a card is      *)
(* whether it is due and whether it has been reviewed. The specification's  *)
(* own names have a prefix, for the module that proves about it extends     *)
(* Puzzles too.                                                             *)
EXTENDS Integers, FiniteSets, Sequences, SequencesExt

CONSTANTS
  Games,    \* the games of the file, by number
  Fens, Answers,
  WhiteMoves,  \* the positions where White is to move
  Trees,    \* what the tree of each game can be edited to
  Stored,   \* the tree of each game in the file
  AutoGrade,   \* whether a right answer is graded by itself (auto difficulty)
  NoFen        \* no position

Card == [fen : Fens, answer : Answers, due : BOOLEAN, reviewed : BOOLEAN]

Parameters ==
  /\ WhiteMoves \subseteq Fens /\ AutoGrade \in BOOLEAN
  /\ \A g \in Games : Stored[g] \in Trees[g]
  /\ \A g \in Games : \A t \in Trees[g] :
       /\ t \in Seq([fen : Fens, answer : Answers])
       /\ \A i, j \in DOMAIN t : t[i].fen = t[j].fen => i = j

ASSUME PracticeAssumption == Parameters

VARIABLES
  game, tree, white,  \* the game of the tab, its tree, the orientation
  fen,      \* the position on the board, NoFen when the tree has no card for it
  panel,    \* "train" and "build" of the practice panel, or an "other" one
  facing,   \* the orientation the deck was built for last
  deck,     \* the deck of each game
  phase, shown, index,  \* practiceStateAtom: phase, currentFen, positionIndex
  mode, remaining,      \* practiceSessionStatsAtom
  moved     \* history: the deck is another since `index` or `remaining` was set

store == <<game, tree, white>>
practice == <<phase, shown, index>>
session == <<mode, remaining>>
practiceVars == <<store, fen, panel, facing, deck, practice, session, moved>>

Mounted == panel # "other"
Deck == deck[game]
FensOf(cards) == {cards[i].fen : i \in DOMAIN cards}
CardOf(cards, f) == CHOOSE i \in DOMAIN cards : cards[i].fen = f

-----------------------------------------------------------------------------
(* The deck.                                                                *)

Fresh(p) == [fen |-> p.fen, answer |-> p.answer, due |-> TRUE, reviewed |-> FALSE]

(* cards.push() of a position where the side to move is ours.               *)
Pushed(cards, p, w) ==
  IF (p.fen \in WhiteMoves) = w THEN Append(cards, Fresh(p)) ELSE cards

buildFromTree(t, w) == FoldLeft(LAMBDA cards, p : Pushed(cards, p, w), << >>, t)

(* Mutant: a synced deck starts over.                                       *)
MergedFresh(old, new) == new

(* Mutant: cards of positions that have gone stay.                          *)
MergedKeeping(old, new) ==
  LET Gone(c) == c.fen \notin FensOf(new) IN new \o SelectSeq(old, Gone)

Merged(old, new) ==
  [i \in DOMAIN new |-> IF new[i].fen \in FensOf(old)
                        THEN [old[CardOf(old, new[i].fen)] EXCEPT !.answer = new[i].answer]
                        ELSE new[i]]

(* The effect of the panel: a deck without cards is built, another one is   *)
(* replaced only when cards come or go.                                     *)
Synced(old, t, w) ==
  LET new == buildFromTree(t, w)
  IN IF old = << >> \/ FensOf(old) # FensOf(new) THEN Merged(old, new) ELSE old

SyncsDeck(g, t) ==
  /\ deck' = [deck EXCEPT ![g] = Synced(@, t, white)]
  /\ facing' = [facing EXCEPT ![g] = white]
  /\ moved' = (moved \/ deck'[g] # deck[g])

(* updateCardPerformance(): grade 1 or a better one, not due for a while.   *)
GradedAt(i) == [deck EXCEPT ![game][i].due = FALSE, ![game][i].reviewed = TRUE]

Due ==
  /\ \E i \in DOMAIN Deck : ~Deck[i].due /\ deck' = [deck EXCEPT ![game][i].due = TRUE]
  /\ UNCHANGED <<store, fen, panel, facing, practice, session, moved>>

-----------------------------------------------------------------------------
(* The tree, the file and the panels.                                       *)

OnBoard(f, t) == IF f \in FensOf(t) THEN f ELSE NoFen

(* A change of the tree; the panel syncs when it is there.                  *)
Edit(t) ==
  /\ t # tree /\ tree' = t
  /\ fen' = OnBoard(fen, t)
  /\ IF Mounted THEN SyncsDeck(game, t) ELSE UNCHANGED <<deck, facing, moved>>
  /\ UNCHANGED <<game, white, panel, practice, session>>

(* Turning the board is no change of the tree.                              *)
Flip ==
  /\ white' = ~white
  /\ UNCHANGED <<game, tree, fen, panel, facing, deck, practice, session, moved>>

(* Another game of the file; the info panel, that does it, is another panel.*)
SetPage(g) ==
  /\ ~Mounted /\ g # game
  /\ game' = g /\ tree' = Stored[g] /\ white' = TRUE /\ fen' = NoFen
  /\ moved' = TRUE
  /\ UNCHANGED <<panel, facing, deck, practice, session>>

Opens(p) ==
  /\ p # panel /\ panel' = p
  /\ IF ~Mounted THEN SyncsDeck(game, tree) ELSE UNCHANGED <<deck, facing, moved>>
  /\ UNCHANGED <<store, fen, practice, session>>

Navigates(f) ==
  /\ fen # f /\ fen' = f
  /\ UNCHANGED <<store, panel, facing, deck, practice, session, moved>>

-----------------------------------------------------------------------------
(* The session.                                                             *)

State(p, f, i) == phase' = p /\ shown' = f /\ index' = i
Idle == State("idle", NoFen, 0)

(* The first due card, or in a full session the first that remains; no card *)
(* ends the session, an empty deck changes nothing.                         *)
NextCard(cards, m, rest) ==
  IF m = "full"
  THEN IF rest # << >> /\ Head(rest) \in DOMAIN cards THEN {Head(rest)} ELSE {}
  ELSE {i \in DOMAIN cards : cards[i].due /\ \A j \in 1..(i - 1) : ~cards[j].due}

newPractice(m, rest) ==
  IF deck'[game] = << >> THEN UNCHANGED <<practice, fen>>
  ELSE LET next == NextCard(deck'[game], m, rest)
       IN \/ next = {} /\ Idle /\ UNCHANGED fen
          \/ \E i \in next : /\ fen' = OnBoard(deck'[game][i].fen, tree)
                             /\ State("waiting", deck'[game][i].fen, 0)

Session(m, rest) == mode' = m /\ remaining' = rest

startPractice ==
  /\ panel = "train" /\ phase = "idle"
  /\ \E i \in DOMAIN Deck : Deck[i].due
  /\ Session("anki", << >>)
  /\ UNCHANGED deck /\ newPractice("anki", << >>)
  /\ UNCHANGED <<store, panel, facing, moved>>

startFullPractice ==
  /\ panel = "train" /\ phase = "idle" /\ Deck # << >>
  /\ Session("full", [i \in DOMAIN Deck |-> i])
  /\ UNCHANGED deck /\ newPractice("full", remaining')
  /\ moved' = FALSE
  /\ UNCHANGED <<store, panel, facing>>

(* The board takes a move for an answer wherever a card is, whatever the    *)
(* phase; goToNext() after a wrong one is stopped by the practice path.     *)
Answer(a) ==
  /\ panel = "train" /\ fen \in FensOf(Deck)
  /\ LET i == CardOf(Deck, fen)
     IN IF a = Deck[i].answer
        THEN /\ State("correct", Deck[i].fen, i)
             /\ fen' = NoFen
             /\ UNCHANGED deck
        ELSE /\ State("incorrect", Deck[i].fen, i)
             /\ UNCHANGED fen
             /\ deck' = IF mode = "full" THEN deck ELSE GradedAt(i)
  /\ moved' = (moved /\ mode = "full")
  /\ UNCHANGED <<store, panel, facing, session>>

(* Mutant: the grade goes to the card that is next by now.                  *)
GradesFirst ==
  /\ Deck # << >>
  /\ deck' = GradedAt(1)

(* The card at the index of the answer, in the deck of now; it throws when  *)
(* there is none.                                                           *)
GradesIndex ==
  /\ index \in DOMAIN Deck
  /\ deck' = GradedAt(index)

(* The keys 1 to 4 and the buttons.                                         *)
handleQualityRating ==
  /\ Mounted /\ phase = "correct"
  /\ GradesIndex
  /\ newPractice(mode, remaining)
  /\ UNCHANGED <<store, panel, facing, session, moved>>

Rest == IF remaining = << >> THEN << >> ELSE Tail(remaining)

(* Mutant: the next card is taken from the session before this answer.      *)
LeavesStale == Session(mode, Rest) /\ newPractice(mode, remaining)

Leaves == Session(mode, Rest) /\ newPractice(mode, Rest)

(* The effect on a right answer, 300 ms later.                              *)
AfterCorrect ==
  /\ Mounted /\ phase = "correct"
  /\ \/ mode = "full" /\ UNCHANGED deck /\ Leaves
     \/ mode # "full" /\ AutoGrade /\ GradesIndex /\ newPractice(mode, remaining)
        /\ UNCHANGED session
  /\ UNCHANGED <<store, panel, facing, moved>>

skipCard ==
  /\ Mounted /\ phase = "incorrect"
  /\ UNCHANGED deck
  /\ IF mode = "full" /\ remaining # << >> THEN Leaves
     ELSE newPractice(mode, remaining) /\ UNCHANGED session
  /\ UNCHANGED <<store, panel, facing, moved>>

GoBack ==
  /\ panel = "train" /\ phase = "waiting" /\ fen # shown
  /\ fen' = OnBoard(shown, tree)
  /\ fen' # fen
  /\ UNCHANGED <<store, panel, facing, deck, practice, session, moved>>

Stop ==
  /\ panel = "train" /\ phase = "waiting" /\ fen = shown
  /\ Idle /\ Session("anki", << >>)
  /\ UNCHANGED <<store, fen, panel, facing, deck, moved>>

ResetDeck ==
  /\ panel = "train" /\ Deck # << >>
  /\ deck' = [deck EXCEPT ![game] = buildFromTree(tree, white)]
  /\ facing' = [facing EXCEPT ![game] = white]
  /\ Idle /\ Session("anki", << >>)
  /\ moved' = TRUE
  /\ UNCHANGED <<store, fen, panel>>

-----------------------------------------------------------------------------

PracticeInit ==
  /\ game \in Games /\ tree = Stored[game] /\ white = TRUE
  /\ fen = NoFen
  /\ panel = "other"
  /\ facing = [g \in Games |-> TRUE]
  /\ deck = [g \in Games |-> << >>]
  /\ phase = "idle" /\ shown = NoFen /\ index = 0
  /\ mode = "anki" /\ remaining = << >>
  /\ moved = FALSE

PracticeNext ==
  \/ Due
  \/ \E t \in Trees[game] : Edit(t)
  \/ Flip
  \/ \E g \in Games : SetPage(g)
  \/ \E p \in {"train", "build", "other"} : Opens(p)
  \/ \E f \in FensOf(tree) \cup {NoFen} : Navigates(f)
  \/ startPractice
  \/ startFullPractice
  \/ \E a \in Answers : Answer(a)
  \/ handleQualityRating
  \/ AfterCorrect
  \/ skipCard
  \/ GoBack
  \/ Stop
  \/ ResetDeck

PracticeSpec == PracticeInit /\ [][PracticeNext]_practiceVars

-----------------------------------------------------------------------------
(* Properties.                                                              *)

(* The types, and that the deck of a panel on the screen has the cards of   *)
(* the tree, of the side it was built for.                                  *)
PracticeTypeOK ==
  /\ game \in Games /\ tree \in Trees[game]
  /\ fen \in FensOf(tree) \cup {NoFen}
  /\ phase \in {"idle", "waiting", "correct", "incorrect"}
  /\ Mounted => FensOf(Deck) = FensOf(buildFromTree(tree, facing[game]))

(* A grade, by a key or after 300 ms, goes to the card that was answered,   *)
(* unless the deck was synced or another game was opened since              *)
(* (PracticePanel.tsx:262-321, Board.tsx:177-225).                          *)
GradesTheShown ==
  [][\A i \in DOMAIN Deck, j \in DOMAIN deck'[game] :
       /\ deck'[game][j].fen = Deck[i].fen
       /\ Deck[i].due /\ ~deck'[game][j].due
       /\ ~moved
       => Deck[i].fen \in {shown, fen}]_practiceVars

(* A full session shows the first of the cards that remain, so that the one *)
(* it drops was asked; unless the deck was synced since it began            *)
(* (PracticePanel.tsx:211-276, 336-358).                                    *)
FullAsksTheFirst ==
  mode = "full" /\ phase = "waiting" /\ ~moved =>
    remaining # << >> /\ shown = Deck[Head(remaining)].fen

(* What was learned of a position is lost only with the position, by a      *)
(* reset, or with the side the board shows (opening.ts:117-146).            *)
ReviewsSurvive ==
  [][\A g \in Games : \A i \in DOMAIN deck[g] :
       deck[g][i].reviewed =>
         \/ \E j \in DOMAIN deck'[g] : deck'[g][j].fen = deck[g][i].fen /\ deck'[g][j].reviewed
         \/ deck[g][i].fen \notin FensOf(tree')
         \/ facing'[g] # facing[g]
         \/ ResetDeck]_practiceVars

(* PracticePanel.tsx:122: "Sync existing deck with tree changes".           *)
AnswersFollowTree ==
  Mounted => \A i \in DOMAIN Deck :
    Deck[i].fen \in FensOf(tree) => Deck[i].answer = tree[CardOf(tree, Deck[i].fen)].answer

=============================================================================
