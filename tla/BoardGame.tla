----------------------------- MODULE BoardGame -----------------------------
(* The board of a game tab (components/boards/BoardGame.tsx): its commands, *)
(* the events and answers of the shell that come back late, and the user    *)
(* who leaves the tab while they are under way.                             *)
(*                                                                          *)
(* The game itself is what GameSession promises of it: moves by the side to *)
(* move, a result, an event for each. A result is the reason of its status; *)
(* a game of MaxPly moves is over on the board. The tree of a game tab is   *)
(* one line, Board.tsx lets nobody move before its end.                     *)
EXTENDS Integers, FiniteSets, Sequences, SequencesExt

CONSTANTS
  Moves,
  Sides,     \* the engine sides a game can be started with: sets of 0 and 1
  MaxPly,    \* bound: moves of a game
  MaxCalls,  \* bound: commands and answers under way
  MaxEvents, \* bound: events under way
  None

ASSUME BoardGameAssumption ==
  /\ Sides \subseteq SUBSET {0, 1}
  /\ MaxPly \in Nat \ {0} /\ MaxCalls \in Nat \ {0} /\ MaxEvents \in Nat \ {0}
  /\ None \notin BoundedSeq(Moves, MaxPly)
  /\ None \notin {"board", "resigned", "abandoned", "playing"}

VARIABLES
  where,     \* what is on the screen: this "game", the "analysis" of the same
             \* tab, or "elsewhere", another game tab
  phase,     \* currentGameStateAtom of this tab
  engines,   \* the players, set when a game is started
  tree,      \* the line in the store
  result,    \* headers.result
  listening, \* the listeners: "no", "joining" or "on"
  pending,   \* pendingMovesRef with its timer, or None
  calls, replies,  \* commands and answers under way; `store` says whether the
                   \* store they were made for is still the one on the screen
  events,    \* events under way
  game,      \* GameManager.games of this tab's id: a record or None
  astray     \* history: the view missed an event of its game or took an old one

view == <<where, phase, engines, tree, result, listening, pending>>
vars == <<view, calls, replies, events, game, astray>>

Lines == BoundedSeq(Moves, MaxPly)
Results == {"board", "resigned", "abandoned"}
Turn(line) == Len(line) % 2

-----------------------------------------------------------------------------
(* The view.                                                                *)

Call(cmd, line) == [cmd |-> cmd, line |-> line, store |-> TRUE]
Sends(c) == Cardinality(calls \cup replies) < MaxCalls /\ calls' = calls \cup {c}
Shell == <<events, game, astray>>

(* Mutant: a view that comes back to a running game only listens.           *)
MountsUnasked == listening' = "joining" /\ UNCHANGED calls

(* The effects of a view on a game that is played: three listen() calls and *)
(* get_game_state().                                                        *)
Mounts == listening' = "joining" /\ calls' = calls \cup {Call("state", << >>)}

(* Mutant: the effect has no cleanup.                                       *)
UnmountsDeaf == UNCHANGED listening /\ pending' = None

Unmounts == listening' = "no" /\ pending' = None

(* syncTreeWithMoves(): whatever the line of the tree was, it is `line` now;*)
(* appending its last move can end the game in the header.                  *)
Sync(line) ==
  /\ tree' = line
  /\ result' = IF Len(line) = MaxPly /\ tree # line THEN "board" ELSE result

StartGame(sides) ==
  /\ where = "game" /\ phase = "settingUp"
  /\ \A c \in calls \cup replies : c.cmd # "start"
  /\ Len(tree) < MaxPly
  /\ engines' = sides
  /\ Sends(Call("start", tree))
  /\ UNCHANGED <<where, phase, tree, result, listening, pending, replies, Shell>>

(* Board.tsx puts a move on its own tree before the shell hears of it.      *)
HumanMoves(m) ==
  /\ where = "game" /\ phase = "playing"
  /\ Len(tree) < MaxPly /\ Turn(tree) \notin engines
  /\ Sends(Call("move", <<m>>))
  /\ tree' = Append(tree, m)
  /\ result' = IF Len(tree') = MaxPly THEN "board" ELSE result
  /\ UNCHANGED <<where, phase, engines, listening, pending, replies, Shell>>

Commands(cmd) ==
  /\ where = "game" /\ phase = "playing"
  /\ Sends(Call(cmd, << >>))
  /\ UNCHANGED <<view, replies, Shell>>

TakesBack == Cardinality(engines) = 1 /\ Commands("takeBack")
Resigns == engines # {0, 1} /\ Commands("resign")
Aborts == engines = {0, 1} /\ Commands("abort")

NewGame ==
  /\ where = "game" /\ phase = "gameOver"
  /\ phase' = "settingUp"
  /\ tree' = << >> /\ result' = "*"
  /\ Unmounts
  /\ UNCHANGED <<where, engines, calls, replies, Shell>>

(* Another tab, or this tab as an analysis: the view and its store go.      *)
Leaves(to) ==
  /\ where = "game" /\ where' = to
  /\ Unmounts
  /\ calls' = {[c EXCEPT !.store = FALSE] : c \in calls}
  /\ replies' = {[r EXCEPT !.store = FALSE] : r \in replies}
  /\ UNCHANGED <<phase, engines, tree, result, Shell>>

(* changeTabType() sets up anew whatever is played.                         *)
Returns ==
  /\ where # "game" /\ where' = "game"
  /\ phase' = IF where = "analysis" THEN "settingUp" ELSE phase
  /\ IF phase' = "playing" THEN Mounts ELSE UNCHANGED <<listening, calls>>
  /\ UNCHANGED <<engines, tree, result, pending, replies, Shell>>

-----------------------------------------------------------------------------
(* The shell.                                                               *)

(* An event nobody listens to any more or yet, or one that an answer made   *)
(* before it can overwrite.                                                 *)
Emits(es) ==
  /\ Len(events) + Len(es) <= MaxEvents
  /\ events' = events \o es
  /\ astray' = \/ astray
               \/ \E r \in replies : r.cmd = "state"
               \/ listening = "joining" /\ ~\E c \in calls : c.cmd = "state"

Moved(line) == [over |-> None, line |-> line]
Over(line, why) == [over |-> why, line |-> line]

StatusOf(line) == IF Len(line) = MaxPly THEN "board" ELSE "playing"
EventsOf(line) == IF StatusOf(line) = "board" THEN <<Moved(line), Over(line, "board")>>
                  ELSE <<Moved(line)>>

Plays(m) ==
  LET line == Append(game.moves, m)
  IN /\ game' = [game EXCEPT !.moves = line, !.status = StatusOf(line)]
     /\ Emits(EventsOf(line))

Refused == UNCHANGED <<game, events, astray>>

ExecutesMove(c) ==
  IF game # None /\ game.status = "playing" /\ Turn(game.moves) \notin game.engines
  THEN Plays(Head(c.line)) ELSE Refused

(* Against one engine who is not to move two moves go, the status is not    *)
(* looked at.                                                               *)
TakenBack ==
  LET n == IF Cardinality(game.engines) = 1 /\ Turn(game.moves) \notin game.engines THEN 2 ELSE 1
  IN SubSeq(game.moves, 1, Len(game.moves) - n)

(* History: a take-back or a resignation came after the end of the game.    *)
Late == game.late \/ game.status # "playing"

ExecutesTakeBack ==
  IF game # None /\ game.moves # << >>
  THEN /\ game' = [game EXCEPT !.moves = TakenBack, !.status = "playing",
                               !.late = Late]
       /\ Emits(<<Moved(TakenBack)>>)
  ELSE Refused

ExecutesResign ==
  IF game # None
  THEN game' = [game EXCEPT !.status = "resigned", !.late = Late] /\ Emits(<<Over(game.moves, "resigned")>>)
  ELSE Refused

Answer(c, g) == [cmd |-> c.cmd, line |-> g.moves, status |-> g.status, store |-> c.store]

Fresh(c) == [moves |-> c.line, status |-> "playing", engines |-> engines, late |-> FALSE]

(* start_game() may fail after it has removed the game before; the events   *)
(* and answers of that one have the same id.                                *)
ExecutesStart(c) ==
  /\ \/ game' = Fresh(c) /\ replies' = replies \cup {Answer(c, Fresh(c))}
     \/ game' = None /\ UNCHANGED replies
  /\ astray' = (astray \/ events # << >> \/ \E r \in replies : r.cmd # "start")
  /\ UNCHANGED events

ExecutesAbort(c) ==
  /\ game' = None
  /\ replies' = replies \cup {[cmd |-> "abort", line |-> << >>, status |-> None, store |-> c.store]}
  /\ UNCHANGED <<events, astray>>

ExecutesState(c) ==
  /\ replies' = replies \cup (IF game = None THEN {} ELSE {Answer(c, game)})
  /\ Refused

Executes(c) ==
  /\ calls' = calls \ {c}
  /\ \/ c.cmd = "move" /\ ExecutesMove(c) /\ UNCHANGED replies
     \/ c.cmd = "takeBack" /\ ExecutesTakeBack /\ UNCHANGED replies
     \/ c.cmd = "resign" /\ ExecutesResign /\ UNCHANGED replies
     \/ c.cmd = "start" /\ ExecutesStart(c)
     \/ c.cmd = "abort" /\ ExecutesAbort(c)
     \/ c.cmd = "state" /\ ExecutesState(c)
  /\ UNCHANGED view

EngineMoves(m) ==
  /\ game # None /\ game.status = "playing" /\ Turn(game.moves) \in game.engines
  /\ Plays(m)
  /\ UNCHANGED <<view, calls, replies>>

(* The engine fails or the time of the side to move is up.                  *)
GameEnds ==
  /\ game # None /\ game.status = "playing"
  /\ game' = [game EXCEPT !.status = "abandoned"]
  /\ Emits(<<Over(game.moves, "abandoned")>>)
  /\ UNCHANGED <<view, calls, replies>>

-----------------------------------------------------------------------------
(* What comes back.                                                         *)

(* The atoms of the tab are those of the tab on the screen: setGameState    *)
(* after an await writes there, and this tab's phase stays when it is       *)
(* another's.                                                               *)
SetGameState(s) == phase' = IF where = "elsewhere" THEN phase ELSE s

(* A store that is not on the screen any more writes to the session storage *)
(* the next one reads; if that has been read already, nobody sees it.       *)
IntoStore(r, line) ==
  IF r.store \/ where = "elsewhere" THEN Sync(line) ELSE UNCHANGED <<tree, result>>

Ended(r) == r.status # "playing"

StartAnswered(r) ==
  /\ r.cmd = "start"
  /\ SetGameState("playing")
  /\ IF r.store \/ where = "elsewhere" THEN tree' = r.line ELSE UNCHANGED tree
  /\ IF where = "game" /\ phase # "playing" THEN Mounts ELSE UNCHANGED <<listening, calls>>
  /\ UNCHANGED <<result, pending>>

AbortAnswered(r) ==
  /\ r.cmd = "abort"
  /\ SetGameState("gameOver")
  /\ IF r.store \/ where = "elsewhere" THEN result' = "*" ELSE UNCHANGED result
  /\ Unmounts
  /\ UNCHANGED <<tree, calls>>

StateAnswered(r) ==
  /\ r.cmd = "state"
  /\ IF Ended(r)
     THEN /\ SetGameState("gameOver")
          /\ IF r.store \/ where = "elsewhere"
             THEN tree' = r.line /\ result' = r.status ELSE UNCHANGED <<tree, result>>
          /\ Unmounts
     ELSE IntoStore(r, r.line) /\ UNCHANGED <<phase, listening, pending>>
  /\ UNCHANGED calls

Answered(r) ==
  /\ replies' = replies \ {r}
  /\ StartAnswered(r) \/ AbortAnswered(r) \/ StateAnswered(r)
  /\ astray' = \/ astray
               \/ ~r.store /\ where = "game"
               \/ phase = "settingUp" /\ r.cmd # "start"
  /\ UNCHANGED <<where, engines, events, game>>

(* Mutant: the end of a game leaves the update that waits.                  *)
HearsOverLate(e) ==
  /\ phase' = "gameOver"
  /\ result' = e.over
  /\ listening' = "no"
  /\ UNCHANGED <<tree, pending>>

HearsOver(e) ==
  /\ phase' = "gameOver"
  /\ tree' = e.line /\ result' = e.over
  /\ Unmounts

Listens ==
  /\ listening = "joining" /\ listening' = "on"
  /\ UNCHANGED <<where, phase, engines, tree, result, pending, calls, replies, Shell>>

(* A move is shown 150 ms later, with those that came in between; the end   *)
(* of a game at once.                                                       *)
EventArrives ==
  /\ events # << >>
  /\ events' = Tail(events)
  /\ LET e == Head(events)
     IN \/ listening # "on" /\ UNCHANGED <<phase, tree, result, listening, pending>>
        \/ /\ listening = "on" /\ e.over = None
           /\ pending' = e.line
           /\ UNCHANGED <<phase, tree, result, listening>>
        \/ listening = "on" /\ e.over # None /\ HearsOver(e)
  /\ UNCHANGED <<where, engines, calls, replies, game, astray>>

ApplyPendingUpdates ==
  /\ pending # None
  /\ Sync(pending)
  /\ pending' = None
  /\ UNCHANGED <<where, phase, engines, listening, calls, replies, Shell>>

-----------------------------------------------------------------------------

Init ==
  /\ where = "game"
  /\ phase = "settingUp"
  /\ engines = {}
  /\ tree = << >> /\ result = "*"
  /\ listening = "no" /\ pending = None
  /\ calls = {} /\ replies = {} /\ events = << >>
  /\ game = None
  /\ astray = FALSE

Next ==
  \/ \E s \in Sides : StartGame(s)
  \/ \E m \in Moves : HumanMoves(m) \/ EngineMoves(m)
  \/ TakesBack \/ Resigns \/ Aborts \/ NewGame
  \/ \E to \in {"analysis", "elsewhere"} : Leaves(to)
  \/ Returns
  \/ \E c \in calls : Executes(c)
  \/ GameEnds
  \/ \E r \in replies : Answered(r)
  \/ Listens
  \/ EventArrives
  \/ ApplyPendingUpdates

Spec == Init /\ [][Next]_vars

-----------------------------------------------------------------------------
(* Properties.                                                              *)

(* Nothing is under way between the shell and the view.                     *)
Quiet == calls = {} /\ replies = {} /\ events = << >> /\ pending = None /\ listening # "joining"

(* What follows says nothing of a view that is astray, and none gets better:*)
(* the constraint of the run.                                               *)
Watched == ~astray

(* The types, and that a view listens only while it shows a game that is    *)
(* played.                                                                  *)
TypeOK ==
  /\ where \in {"game", "analysis", "elsewhere"}
  /\ phase \in {"settingUp", "playing", "gameOver"}
  /\ engines \in Sides \cup {{}}
  /\ tree \in Lines /\ result \in Results \cup {"*"}
  /\ pending \in Lines \cup {None}
  /\ \A e \in ToSet(events) : e.line \in Lines /\ e.over \in Results \cup {None}
  /\ game # None => game.moves \in Lines /\ game.status \in Results \cup {"playing"}
  /\ (listening # "no") <=> (where = "game" /\ phase = "playing")

(* However the moves of the human, take-backs, events, throttled updates    *)
(* and answers cross, the board of a game that is played shows its moves    *)
(* when all is quiet, unless an event was missed while the listeners were   *)
(* registered or a state taken before it was applied after it               *)
(* (BoardGame.tsx:160-207, 394-494).                                        *)
BoardCatchesUp ==
  Quiet /\ where = "game" /\ phase = "playing" /\ ~astray /\ game # None => tree = game.moves

(* A game shown as over is over, with the moves and the result shown,       *)
(* whatever is still under way; if it was not aborted, nor changed by a     *)
(* take-back or a resignation that came after its end                       *)
(* (BoardGame.tsx:446-462, 476-494, 539-545).                               *)
OverAgrees ==
  where = "game" /\ phase = "gameOver" /\ ~astray /\ game # None /\ ~game.late =>
    tree = game.moves /\ result = game.status

=============================================================================
