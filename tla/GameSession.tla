----------------------------- MODULE GameSession -----------------------------
(***************************************************************************)
(* One game of the desktop application against an engine                   *)
(* (apps/desktop/src-tauri/src/game.rs): the controller behind its RwLock, *)
(* the commands of the user interface, the game loop, and the engine task  *)
(* the loop spawns and joins.  The three run on different threads.         *)
(*                                                                         *)
(* A position is the sequence of moves that leads to it, and the rules of  *)
(* chess are a prefix-closed set of sequences: a move is legal if it       *)
(* extends the game to a member, and a game no move extends is over.       *)
(* Sections under the write lock contain no await, except in abort_game(); *)
(* every other section is one action, which needs the lock to be free.     *)
(*                                                                         *)
(* A definition commented "Faulty variant" is a plausible bug, there to    *)
(* check that the properties notice it; Next uses none of them.            *)
(***************************************************************************)
EXTENDS Naturals, Sequences

CONSTANTS
  Moves,        \* moves
  Lines,        \* the legal games: sequences of moves
  EngineSides,  \* which of the sides 0 (moves first) and 1 an engine plays
  HasClock,     \* the game has a time control
  HasBook       \* an opening book in the Polyglot format is loaded

ASSUME GameAssumption ==
  /\ Lines \subseteq Seq(Moves)
  /\ <<>> \in Lines
  /\ \A h \in Lines : h # <<>> => SubSeq(h, 1, Len(h) - 1) \in Lines
  /\ EngineSides \subseteq {0, 1}
  /\ HasClock \in BOOLEAN
  /\ HasBook \in BOOLEAN

VARIABLES
  listed,    \* GameManager.games holds the game
  locked,    \* abort_game() holds the controller's write lock
  moves,     \* controller.moves, and with it the position
  status,    \* controller.status, with the reason of the result
  thinking,  \* controller.engine_thinking
  shutdown,  \* shutdown_tx: "armed", or taken and "sent"
  notify,    \* move_notify's channel of capacity one holds a message
  loop,      \* where game_loop() is
  task,      \* where the engine task is, "none" without one
  snap,      \* the moves the engine task has read
  best,      \* the move it got, in a set of at most one
  gone,      \* the sides whose engine process has gone
  revived,   \* history: a take-back came after the loop was told to end
  disturbed  \* history: a take-back came since the engine task started

gameVars == <<moves, status, thinking>>
signalVars == <<shutdown, notify>>
taskVars == <<task, snap, best, disturbed>>
vars == <<listed, locked, gameVars, signalVars, loop, taskVars, gone, revived>>

Results == {"board", "timeout", "resigned", "abandoned"}
Running == {"spawned", "search", "apply", "book"}
Applying == {"apply", "book"}
Selecting == {"select", "pollTask", "pollNotify", "tick"}

Turn(h) == Len(h) % 2
EngineTurn(h) == Turn(h) \in EngineSides
Legal(h) == {m \in Moves : Append(h, m) \in Lines}

(* check_game_end(): checkmate, stalemate and the draws of the rules.       *)
StatusOf(h) == IF Legal(h) = {} THEN "board" ELSE "playing"
-----------------------------------------------------------------------------
Init ==
  /\ listed = TRUE
  /\ locked = FALSE
  /\ moves = <<>>
  /\ status = "playing"
  /\ thinking = FALSE
  /\ shutdown = "armed"
  /\ notify = FALSE
  /\ loop = "begin"
  /\ task = "none"
  /\ snap = <<>>
  /\ best = {}
  /\ gone = {}
  /\ revived = FALSE
  /\ disturbed = FALSE

(* A command finds the game in the map and gets the write lock.             *)
Command == listed /\ ~locked

Play(m) ==
  /\ moves' = Append(moves, m)
  /\ status' = StatusOf(moves')

(* Faulty variant: the loop is not told about the move.                     *)
MakeMoveSilently(m) ==
  /\ Command
  /\ ~EngineTurn(moves)
  /\ status = "playing"
  /\ m \in Legal(moves)
  /\ Play(m)
  /\ UNCHANGED <<listed, locked, thinking, signalVars, loop, taskVars, gone, revived>>

(* try_send() fails silently when the channel already holds a message.      *)
MakeMove(m) ==
  /\ Command
  /\ ~EngineTurn(moves)
  /\ status = "playing"
  /\ m \in Legal(moves)
  /\ Play(m)
  /\ notify' = (notify \/ status' = "playing")
  /\ UNCHANGED <<listed, locked, thinking, shutdown, loop, taskVars, gone, revived>>

(* A human against an engine who is to move takes back the engine's reply   *)
(* and the own move, otherwise one move; the status is not looked at.       *)
HumanAgainstEngine == \E s \in {0, 1} : EngineSides = {s}

MovesTakenBack == IF HumanAgainstEngine /\ ~EngineTurn(moves) THEN 2 ELSE 1

TakeBack ==
  /\ Command
  /\ moves # <<>>
  /\ moves' = SubSeq(moves, 1, Len(moves) - MovesTakenBack)
  /\ status' = StatusOf(moves')
  /\ thinking' = FALSE
  /\ notify' = (notify \/ (status' = "playing" /\ EngineTurn(moves')))
  /\ disturbed' = (task # "none" \/ loop = "failed")
  /\ revived' = (revived \/ shutdown = "sent" \/ loop \in {"leaving", "ended"})
  /\ UNCHANGED <<listed, locked, shutdown, loop, task, snap, best, gone>>

(* end_game() sets the result and fires the shutdown channel once.          *)
EndGame(result) ==
  /\ status' = result
  /\ shutdown' = "sent"

(* resign() does not look at the status either.                             *)
Resign ==
  /\ Command
  /\ EndGame("resigned")
  /\ UNCHANGED <<listed, locked, moves, thinking, notify, loop, taskVars, gone, revived>>

(* start_game() under the same id takes the old game out of the map.        *)
Replace ==
  /\ Command
  /\ listed' = FALSE
  /\ shutdown' = "sent"
  /\ UNCHANGED <<locked, gameVars, notify, loop, taskVars, gone, revived>>

(* abort_game() holds the write lock while it waits for the mutex of each   *)
(* engine, which the engine task holds from `position` to `bestmove`.       *)
Abort ==
  /\ Command
  /\ listed' = FALSE
  /\ locked' = TRUE
  /\ shutdown' = "sent"
  /\ UNCHANGED <<gameVars, notify, loop, taskVars, gone, revived>>

(* Faulty variant: the game is joined while its lock is held.               *)
AbortQuitAfterLoop ==
  /\ locked
  /\ loop = "ended"
  /\ gone' = EngineSides
  /\ locked' = FALSE
  /\ UNCHANGED <<listed, gameVars, signalVars, loop, taskVars, revived>>

AbortQuit ==
  /\ locked
  /\ task # "search"
  /\ gone' = EngineSides
  /\ locked' = FALSE
  /\ UNCHANGED <<listed, gameVars, signalVars, loop, taskVars, revived>>

(* maybe_start_engine() and spawn_engine_task().                            *)
MaybeStartEngine ==
  \/ /\ status = "playing" /\ EngineTurn(moves) /\ ~thinking /\ task = "none"
     /\ thinking' = TRUE
     /\ task' = "spawned"
     /\ disturbed' = FALSE
     /\ UNCHANGED <<snap, best>>
  \/ /\ ~(status = "playing" /\ EngineTurn(moves) /\ ~thinking /\ task = "none")
     /\ UNCHANGED <<thinking, taskVars>>

LoopMaybeStart ==
  /\ loop \in {"begin", "maybe"}
  /\ ~locked
  /\ MaybeStartEngine
  /\ loop' = "select"
  /\ UNCHANGED <<listed, locked, moves, status, signalVars, gone, revived>>

(* The select is biased: it polls shutdown, then the task, then the         *)
(* notifications, then the clock, while the other threads go on.            *)
LoopShutdown ==
  /\ loop = "select"
  /\ shutdown = "sent"
  /\ loop' = "leaving"
  /\ UNCHANGED <<listed, locked, gameVars, signalVars, taskVars, gone, revived>>

LoopPolls ==
  /\ \/ loop = "select" /\ shutdown = "armed" /\ loop' = "pollTask"
     \/ loop = "pollTask" /\ task \notin {"ok", "error"} /\ loop' = "pollNotify"
     \/ loop = "pollNotify" /\ ~notify /\ loop' \in {"tick", "select"}
  /\ UNCHANGED <<listed, locked, gameVars, signalVars, taskVars, gone, revived>>

NoTask ==
  /\ task' = "none"
  /\ UNCHANGED <<snap, best, disturbed>>

LoopTaskEnds ==
  /\ loop = "pollTask"
  /\ task \in {"ok", "error"}
  /\ loop' = IF task = "ok" THEN "maybe" ELSE "failed"
  /\ NoTask
  /\ UNCHANGED <<listed, locked, gameVars, signalVars, gone, revived>>

(* The side to move loses by abandonment, whatever the status is by now.    *)
LoopFailed ==
  /\ loop = "failed"
  /\ ~locked
  /\ thinking' = FALSE
  /\ EndGame("abandoned")
  /\ loop' = "leaving"
  /\ UNCHANGED <<listed, locked, moves, notify, taskVars, gone, revived>>

LoopNotified ==
  /\ loop = "pollNotify"
  /\ notify
  /\ notify' = FALSE
  /\ loop' = IF task = "none" THEN "maybe" ELSE "select"
  /\ UNCHANGED <<listed, locked, gameVars, shutdown, taskVars, gone, revived>>

(* Faulty variant: the clock is looked at before the status.                *)
LoopTimeoutAnyStatus ==
  /\ loop = "tick"
  /\ ~locked
  /\ HasClock
  /\ EndGame("timeout")
  /\ loop' = "leaving"
  /\ UNCHANGED <<listed, locked, moves, thinking, notify, taskVars, gone, revived>>

(* The clock of the side to move has run out: at any time, as far as the    *)
(* model is concerned.                                                      *)
LoopTimeout ==
  /\ loop = "tick"
  /\ ~locked
  /\ HasClock
  /\ status = "playing"
  /\ EndGame("timeout")
  /\ loop' = "leaving"
  /\ UNCHANGED <<listed, locked, moves, thinking, notify, taskVars, gone, revived>>

LoopTicked ==
  /\ loop = "tick"
  /\ ~locked
  /\ loop' = IF status = "playing" THEN "select" ELSE "leaving"
  /\ UNCHANGED <<listed, locked, gameVars, signalVars, taskVars, gone, revived>>

(* Outside the loop the task is aborted; it may still finish the step it is *)
(* in, and frees the engine's mutex.                                        *)
TaskAborted ==
  /\ loop \in {"leaving", "ended"}
  /\ task # "none"
  /\ NoTask
  /\ UNCHANGED <<listed, locked, gameVars, signalVars, loop, gone, revived>>

(* Then the engines are told to quit, under the read lock.                  *)
LoopQuit ==
  /\ loop = "leaving"
  /\ ~locked
  /\ task # "search"
  /\ gone' = EngineSides
  /\ loop' = "ended"
  /\ UNCHANGED <<listed, locked, gameVars, signalVars, taskVars, revived>>

(* The engine task tries the book on the position it finds, whose turn may  *)
(* have changed since it was spawned.                                       *)
TaskBookMove ==
  /\ task = "spawned"
  /\ HasBook
  /\ ~locked
  /\ \E m \in Legal(moves) : best' = {m}
  /\ snap' = moves
  /\ task' = "book"
  /\ UNCHANGED <<listed, locked, gameVars, signalVars, loop, gone, revived, disturbed>>

(* No book move: read the game, and take the mutex of the engine to move.   *)
TaskSnapshot ==
  /\ task = "spawned"
  /\ ~locked
  /\ task' = IF status # "playing" THEN "ok"
             ELSE IF EngineTurn(moves) THEN "search" ELSE "error"
  /\ snap' = moves
  /\ UNCHANGED <<listed, locked, gameVars, signalVars, loop, best, gone, revived, disturbed>>

TaskBestMove ==
  /\ task = "search"
  /\ Turn(snap) \notin gone
  /\ \E m \in Legal(snap) : best' = {m}
  /\ task' = "apply"
  /\ UNCHANGED <<listed, locked, gameVars, signalVars, loop, snap, gone, revived, disturbed>>

(* The pipe to the engine is closed.                                        *)
TaskDisconnected ==
  /\ task = "search"
  /\ Turn(snap) \in gone
  /\ task' = "error"
  /\ UNCHANGED <<listed, locked, gameVars, signalVars, loop, snap, best, gone, revived, disturbed>>

(* The move is dropped if the game is finished or the other side is to      *)
(* move, and fails the task if it is illegal in the position found now.     *)
Fresh == status = "playing" /\ Turn(moves) = Turn(snap)
FreshInAnyTurn == status = "playing"

(* Faulty variant: the move is played without a look at its legality.       *)
AppliedUnchecked(fresh) ==
  /\ task' = "ok"
  /\ \/ ~fresh /\ UNCHANGED <<moves, status>>
     \/ fresh /\ \E m \in best : Play(m)

Applied(fresh) ==
  \/ ~fresh /\ task' = "ok" /\ UNCHANGED <<moves, status>>
  \/ fresh /\ best \cap Legal(moves) = {} /\ task' = "error" /\ UNCHANGED <<moves, status>>
  \/ fresh /\ task' = "ok" /\ \E m \in best \cap Legal(moves) : Play(m)

(* Faulty variant: the other side's turn is not noticed.                    *)
TaskApplyInAnyTurn ==
  /\ task \in Applying
  /\ ~locked
  /\ thinking' = FALSE
  /\ Applied(FreshInAnyTurn)
  /\ UNCHANGED <<listed, locked, signalVars, loop, snap, best, gone, revived, disturbed>>

(* Faulty variant: engine_thinking is not reset.                            *)
TaskApplyKeepsThinking ==
  /\ task \in Applying
  /\ ~locked
  /\ Applied(Fresh)
  /\ UNCHANGED <<listed, locked, thinking, signalVars, loop, snap, best, gone, revived, disturbed>>

TaskApply ==
  /\ task \in Applying
  /\ ~locked
  /\ thinking' = FALSE
  /\ Applied(Fresh)
  /\ UNCHANGED <<listed, locked, signalVars, loop, snap, best, gone, revived, disturbed>>

(* The engine process of a side exits.                                      *)
EngineDies ==
  /\ \E side \in EngineSides \ gone : gone' = gone \cup {side}
  /\ UNCHANGED <<listed, locked, gameVars, signalVars, loop, taskVars, revived>>

LoopStep ==
  \/ LoopMaybeStart \/ LoopShutdown \/ LoopPolls \/ LoopTaskEnds \/ LoopFailed
  \/ LoopNotified \/ LoopTimeout \/ LoopTicked \/ LoopQuit

TaskStep == TaskBookMove \/ TaskSnapshot \/ TaskApply \/ TaskAborted

EngineStep == TaskBestMove \/ TaskDisconnected

Next ==
  \/ \E m \in Moves : MakeMove(m)
  \/ TakeBack \/ Resign \/ Replace \/ Abort \/ AbortQuit
  \/ LoopStep \/ TaskStep \/ EngineStep \/ EngineDies

Spec == Init /\ [][Next]_vars

(* Threads run what can run; an engine answers a search or exits.           *)
FairSpec ==
  /\ Spec
  /\ WF_vars(LoopStep) /\ WF_vars(TaskStep) /\ WF_vars(EngineStep) /\ WF_vars(AbortQuit)
-----------------------------------------------------------------------------
TypeOK ==
  /\ listed \in BOOLEAN
  /\ locked \in BOOLEAN
  /\ moves \in Lines
  /\ status \in {"playing"} \cup Results
  /\ thinking \in BOOLEAN
  /\ shutdown \in {"armed", "sent"}
  /\ notify \in BOOLEAN
  /\ loop \in {"begin", "maybe", "failed", "leaving", "ended"} \cup Selecting
  /\ task \in {"none", "ok", "error"} \cup Running
  /\ snap \in Lines
  /\ best \subseteq Moves
  /\ gone \subseteq EngineSides
  /\ revived \in BOOLEAN
  /\ disturbed \in BOOLEAN

(* Whenever a game in play says its engine is thinking, a task is at work   *)
(* on it or its failure is about to end the game: no path through the task  *)
(* or a take-back leaves engine_thinking set with nobody to reset it.       *)
ThinkingHasTask ==
  listed /\ status = "playing" /\ thinking /\ ~revived =>
    task \in Running \cup {"error"} \/ loop = "failed"

(* The loop leaves a listed game in play only if a take-back revived it     *)
(* after the loop was told to end.                                          *)
LoopOutlivesGame ==
  listed /\ status = "playing" /\ loop \in {"leaving", "ended"} => revived

(* A game in play on the engine's turn whose loop waits in its select is    *)
(* known to the loop: a task runs or has a result, or a message is waiting. *)
TurnIsKnown ==
  status = "playing" /\ EngineTurn(moves) /\ loop \in Selecting /\ shutdown = "armed" =>
    task # "none" \/ notify

(* A game in play is tended: somebody works on an engine's turn, the loop   *)
(* lives and knows of it (game.rs:1190-1330).                               *)
GameIsTended == ThinkingHasTask /\ LoopOutlivesGame /\ TurnIsKnown

(* A move the engine searched for is played for the side the engine plays,  *)
(* also when take-backs and human moves come in between (game.rs:1474-1482).*)
SearchedMovesOnItsTurn ==
  [][task = "apply" /\ task' = "ok" /\ moves' # moves => EngineTurn(moves)]_vars

(* A move computed or looked up for one position is played in another only  *)
(* if a take-back came during the task.                                     *)
StaleOnlyAfterTakeBack ==
  [][task' = "ok" /\ task \in Applying /\ moves' # moves => moves = snap \/ disturbed]_vars

(* Only an engine's side loses by abandonment, unless a take-back gave the  *)
(* turn to the human before the task's failure was charged.                 *)
OnlyEnginesAbandon ==
  [][loop = "failed" /\ loop' = "leaving" => EngineTurn(moves) \/ disturbed]_vars

(* A result is final, except for the three writers that do not look at the  *)
(* status: a take-back, a resignation, and a failed task already in hand.   *)
ResultIsFinal ==
  [][status # "playing" /\ status' # status
       => TakeBack \/ Resign \/ loop = "failed"]_vars

(* The moves of engines: searched for their side, and computed for the      *)
(* position they are played in unless a take-back came in between.          *)
EngineMovesAreFresh == SearchedMovesOnItsTurn /\ StaleOnlyAfterTakeBack

(* "Try polyglot book move first (only for engine turns with a loaded book)"*)
(* (game.rs:1373): a book move is played in an engine's turn. Nothing in    *)
(* try_polyglot_book_move() or after it looks whose turn it is: after a     *)
(* take-back that came before the task's first step, the book moves for the *)
(* human.                                                                   *)
BookMovesOnEngineTurns ==
  [][task = "book" /\ task' = "ok" /\ moves' # moves => EngineTurn(moves)]_vars

(* How games end: nobody but an engine's side is charged with a failure,    *)
(* and results last.                                                        *)
OutcomesStand == OnlyEnginesAbandon /\ ResultIsFinal

(* The engine's turn comes to an end: no notification is lost between the   *)
(* capacity-one channel, the running task and the take-backs.               *)
EngineToMove == listed /\ ~revived /\ status = "playing" /\ EngineTurn(moves)
EngineReplies == EngineToMove ~> ~EngineToMove

(* abort_game() ends, with its write lock and the engine's mutex, although  *)
(* the loop may be waiting for the lock and so cannot abort the task.       *)
AbortEnds == locked ~> ~locked
=============================================================================
