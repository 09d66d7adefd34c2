------------------------- MODULE GameSessionProofs -------------------------
(* Proofs about the desktop's game against an engine, for every set of      *)
(* moves, every prefix-closed set of games, every choice of engine sides,   *)
(* with and without a clock and a book.                                     *)
EXTENDS GameSession, Integers, SequenceTheorems, TLAPS

-----------------------------------------------------------------------------
(* Types.                                                                   *)

(* A start of a start of a sequence.                                        *)
LEMMA StartOfStart ==
  ASSUME NEW S, NEW s \in Seq(S), NEW n \in Nat, n <= Len(s), NEW m \in Nat, m <= n
  PROVE  Len(SubSeq(s, 1, n)) = n /\ SubSeq(SubSeq(s, 1, n), 1, m) = SubSeq(s, 1, m)
OBVIOUS

(* A take-back leads to a game that is legal as well.                       *)
LEMMA TakenBackIsLine ==
  ASSUME NEW h \in Lines, h # << >>, NEW k \in {1, 2}
  PROVE  SubSeq(h, 1, Len(h) - k) \in Lines
<1>1. h \in Seq(Moves) /\ Len(h) \in Nat \ {0}
  BY GameAssumption, EmptySeq
<1>2. PICK n \in Nat : n = Len(h) - 1
  BY <1>1
<1>3. SubSeq(h, 1, n) \in Lines
  BY <1>2, GameAssumption
<1>4. CASE k = 1
  BY <1>2, <1>3, <1>4
<1>5. CASE k = 2 /\ n = 0
  <2>1. Len(h) - k = -1
    BY <1>2, <1>5, <1>1
  <2>2. SubSeq(h, 1, -1) = << >>
    BY <1>1, SubSeqEmpty
  <2>3. QED
    BY <2>1, <2>2, GameAssumption
<1>6. CASE k = 2 /\ n # 0
  <2>1. PICK m \in Nat : m = n - 1 /\ m = Len(h) - k
    BY <1>1, <1>2, <1>6
  <2>2. Len(SubSeq(h, 1, n)) = n /\ SubSeq(SubSeq(h, 1, n), 1, m) = SubSeq(h, 1, m)
    BY <1>1, <1>2, <2>1, StartOfStart
  <2>3. SubSeq(h, 1, n) # << >>
    BY <1>6, <2>2, EmptySeq
  <2>4. SubSeq(SubSeq(h, 1, n), 1, n - 1) \in Lines
    BY <1>3, <2>2, <2>3, GameAssumption
  <2>5. QED
    BY <2>1, <2>2, <2>4
<1>7. QED
  BY <1>4, <1>5, <1>6

LEMMA InitType == Init => TypeOK
BY GameAssumption DEF Init, TypeOK

(* Every command, and every step of the loop and of the task, keeps them.   *)
LEMMA CommandType ==
  ASSUME TypeOK, (\E m \in Moves : MakeMove(m)) \/ TakeBack \/ Resign \/ Replace \/ Abort \/ AbortQuit
  PROVE  TypeOK'
<1>1. CASE \E m \in Moves : MakeMove(m)
  <2>1. PICK m \in Moves : MakeMove(m)
    BY <1>1
  <2>2. moves' \in Lines /\ status' \in {"playing", "board"}
    BY <2>1 DEF MakeMove, Play, Legal, StatusOf
  <2>3. QED
    BY <2>1, <2>2 DEF MakeMove, TypeOK, Results, taskVars
<1>2. CASE TakeBack
  <2>1. moves' \in Lines /\ status' \in {"playing", "board"}
    <3>1. MovesTakenBack \in {1, 2}
      BY DEF MovesTakenBack
    <3>2. QED
      BY <1>2, <3>1, TakenBackIsLine DEF TakeBack, TypeOK, StatusOf
  <2>2. QED
    BY <1>2, <2>1 DEF TakeBack, TypeOK, Results
<1>3. CASE Resign \/ Replace \/ Abort \/ AbortQuit
  BY <1>3 DEF Resign, Replace, Abort, AbortQuit, EndGame, TypeOK, Results, gameVars, signalVars, taskVars
<1>4. QED
  BY <1>1, <1>2, <1>3

LEMMA LoopType ==
  ASSUME TypeOK, LoopStep
  PROVE  TypeOK'
<1>1. CASE LoopMaybeStart
  BY <1>1 DEF LoopMaybeStart, MaybeStartEngine, TypeOK, Selecting, Running, signalVars, taskVars
<1>2. CASE LoopTaskEnds
  BY <1>2 DEF LoopTaskEnds, NoTask, TypeOK, Selecting, Running, gameVars, signalVars
<1>3. CASE LoopFailed \/ LoopTimeout
  BY <1>3 DEF LoopFailed, LoopTimeout, EndGame, TypeOK, Results, Selecting, taskVars
<1>4. CASE LoopShutdown \/ LoopPolls \/ LoopNotified \/ LoopTicked \/ LoopQuit
  BY <1>4 DEF LoopShutdown, LoopPolls, LoopNotified, LoopTicked, LoopQuit, TypeOK, Selecting,
              gameVars, signalVars, taskVars
<1>5. QED
  BY <1>1, <1>2, <1>3, <1>4 DEF LoopStep

LEMMA TaskType ==
  ASSUME TypeOK, TaskStep \/ EngineStep \/ EngineDies
  PROVE  TypeOK'
<1>1. CASE TaskApply
  <2>1. /\ moves' \in Lines /\ status' \in {"playing", "board"} \cup {status}
        /\ task' \in {"ok", "error"}
    BY <1>1 DEF TaskApply, Applied, Play, Legal, StatusOf, TypeOK
  <2>2. QED
    BY <1>1, <2>1 DEF TaskApply, TypeOK, Results, signalVars
<1>2. CASE TaskBookMove \/ TaskBestMove
  BY <1>2 DEF TaskBookMove, TaskBestMove, Legal, TypeOK, Running, gameVars, signalVars
<1>3. CASE TaskSnapshot \/ TaskDisconnected
  BY <1>3 DEF TaskSnapshot, TaskDisconnected, TypeOK, Running, gameVars, signalVars
<1>4. CASE TaskAborted \/ EngineDies
  BY <1>4 DEF TaskAborted, NoTask, EngineDies, TypeOK, gameVars, signalVars, taskVars
<1>5. QED
  BY <1>1, <1>2, <1>3, <1>4 DEF TaskStep, EngineStep

LEMMA StepType ==
  ASSUME TypeOK, [Next]_vars
  PROVE  TypeOK'
<1>1. CASE UNCHANGED vars
  BY <1>1 DEF vars, gameVars, signalVars, taskVars, TypeOK
<1>2. QED
  BY <1>1, CommandType, LoopType, TaskType DEF Next

(* TypeOK: the variables keep their types; in particular the moves of the   *)
(* controller are always a legal game, however take-backs and late best     *)
(* moves cross (game.rs:706, 1482).                                         *)
THEOREM TypeCorrect == Spec => []TypeOK
BY InitType, StepType, PTL DEF Spec

-----------------------------------------------------------------------------
(* The loop and the turn. GameIsTended needs what the end of a game leaves  *)
(* behind: a loop that was told to end can only meet a game in play again   *)
(* through a take-back, and a take-back that revives finds an ending loop.  *)

EndsAreRevived ==
  listed /\ status = "playing" /\ (shutdown = "sent" \/ loop \in {"leaving", "ended"})
    => revived

RevivedIsEnding == revived => shutdown = "sent" \/ loop \in {"leaving", "ended"}

UnlistedIsSent == ~listed => shutdown = "sent"

TurnInv ==
  /\ EndsAreRevived /\ RevivedIsEnding /\ UnlistedIsSent
  /\ ThinkingHasTask /\ TurnIsKnown

LEMMA InitTurn == Init => TurnInv
BY DEF Init, TurnInv, EndsAreRevived, RevivedIsEnding, UnlistedIsSent, ThinkingHasTask, TurnIsKnown,
       Selecting

LEMMA CommandTurn ==
  ASSUME TypeOK, TurnInv,
         (\E m \in Moves : MakeMove(m)) \/ TakeBack \/ Resign \/ Replace \/ Abort \/ AbortQuit
  PROVE  TurnInv'
<1> USE DEF TurnInv, EndsAreRevived, RevivedIsEnding, UnlistedIsSent, ThinkingHasTask, TurnIsKnown
<1>1. CASE \E m \in Moves : MakeMove(m)
  <2>1. /\ status = "playing"
        /\ status' = "playing" => notify'
        /\ UNCHANGED <<listed, thinking, shutdown, loop, task, revived>>
    BY <1>1 DEF MakeMove, taskVars
  <2>2. QED
    BY <2>1
<1>2. CASE TakeBack
  <2>1. /\ ~thinking'
        /\ status' = "playing" /\ EngineTurn(moves') => notify'
        /\ revived' <=> revived \/ shutdown = "sent" \/ loop \in {"leaving", "ended"}
        /\ UNCHANGED <<listed, shutdown, loop>>
    BY <1>2 DEF TakeBack
  <2>2. QED
    BY <2>1
<1>3. CASE Resign
  BY <1>3 DEF Resign, EndGame, taskVars
<1>4. CASE Replace \/ Abort
  BY <1>4 DEF Replace, Abort, gameVars, taskVars
<1>5. CASE AbortQuit
  BY <1>5 DEF AbortQuit, gameVars, signalVars, taskVars
<1>6. QED
  BY <1>1, <1>2, <1>3, <1>4, <1>5

LEMMA LoopTurn ==
  ASSUME TypeOK, TurnInv, LoopStep
  PROVE  TurnInv'
<1> USE DEF TurnInv, EndsAreRevived, RevivedIsEnding, UnlistedIsSent, ThinkingHasTask, TurnIsKnown
<1>1. CASE LoopMaybeStart
  BY <1>1 DEF LoopMaybeStart, MaybeStartEngine, TypeOK, Selecting, Running, signalVars, taskVars
<1>2. CASE LoopTaskEnds
  BY <1>2 DEF LoopTaskEnds, NoTask, Selecting, Running, gameVars, signalVars
<1>3. CASE LoopFailed \/ LoopTimeout
  BY <1>3 DEF LoopFailed, LoopTimeout, EndGame, Selecting, taskVars
<1>4. CASE LoopNotified
  BY <1>4 DEF LoopNotified, Selecting, gameVars, taskVars
<1>5. CASE LoopShutdown \/ LoopPolls \/ LoopTicked \/ LoopQuit
  BY <1>5 DEF LoopShutdown, LoopPolls, LoopTicked, LoopQuit, Selecting, gameVars, signalVars, taskVars
<1>6. QED
  BY <1>1, <1>2, <1>3, <1>4, <1>5 DEF LoopStep

LEMMA TaskTurn ==
  ASSUME TypeOK, TurnInv, TaskStep \/ EngineStep \/ EngineDies
  PROVE  TurnInv'
<1> USE DEF TurnInv, EndsAreRevived, RevivedIsEnding, UnlistedIsSent, ThinkingHasTask, TurnIsKnown
<1>1. CASE TaskApply
  <2>1. /\ task' \in {"ok", "error"}
        /\ status' = "playing" => status = "playing"
    BY <1>1 DEF TaskApply, Applied, Fresh, Play
  <2>2. QED
    BY <1>1, <2>1 DEF TaskApply, signalVars
<1>2. CASE TaskBookMove \/ TaskSnapshot
  BY <1>2 DEF TaskBookMove, TaskSnapshot, Running, gameVars, signalVars
<1>3. CASE TaskBestMove \/ TaskDisconnected
  BY <1>3 DEF TaskBestMove, TaskDisconnected, Running, gameVars, signalVars
<1>4. CASE TaskAborted
  BY <1>4 DEF TaskAborted, NoTask, Selecting, gameVars, signalVars
<1>5. CASE EngineDies
  BY <1>5 DEF EngineDies, gameVars, signalVars, taskVars
<1>6. QED
  BY <1>1, <1>2, <1>3, <1>4, <1>5 DEF TaskStep, EngineStep

LEMMA StepTurn ==
  ASSUME TypeOK, TurnInv, [Next]_vars
  PROVE  TurnInv'
<1>1. CASE UNCHANGED vars
  BY <1>1 DEF vars, gameVars, signalVars, taskVars, TurnInv, EndsAreRevived, RevivedIsEnding,
              UnlistedIsSent, ThinkingHasTask, TurnIsKnown
<1>2. QED
  BY <1>1, CommandTurn, LoopTurn, TaskTurn DEF Next

(* GameIsTended: no interleaving of commands, loop and engine task leaves a *)
(* game in play with an engine that seems to think and does not, a loop     *)
(* that has gone, or a turn the loop does not know of (game.rs:1190-1330).  *)
THEOREM GameTended == Spec => []GameIsTended
<1>1. Init => TypeOK /\ TurnInv
  BY InitType, InitTurn
<1>2. TypeOK /\ TurnInv /\ [Next]_vars => (TypeOK /\ TurnInv)'
  BY StepType, StepTurn
<1>3. TypeOK /\ TurnInv => GameIsTended
  BY DEF TypeOK, TurnInv, GameIsTended, EndsAreRevived, LoopOutlivesGame
<1>4. QED
  BY <1>1, <1>2, <1>3, PTL DEF Spec

-----------------------------------------------------------------------------
(* The engine task. As long as no take-back came in between, it works in a  *)
(* game whose turn is the engine's, in the position it has read.            *)

WorkIsForEngines ==
  (task \in Running \cup {"error"} \/ loop = "failed") /\ ~disturbed => EngineTurn(moves)

SnapIsCurrent == task \in {"search"} \cup Applying /\ ~disturbed => moves = snap

SnapIsEngines == task \in {"search", "apply"} => EngineTurn(snap)

FailedIsAlone == loop = "failed" => task = "none"

TaskInv == FailedIsAlone /\ WorkIsForEngines /\ SnapIsCurrent /\ SnapIsEngines

LEMMA InitTask == Init => TaskInv
BY DEF Init, TaskInv, FailedIsAlone, WorkIsForEngines, SnapIsCurrent, SnapIsEngines, Running, Applying

LEMMA CommandTask ==
  ASSUME TypeOK, TaskInv,
         (\E m \in Moves : MakeMove(m)) \/ TakeBack \/ Resign \/ Replace \/ Abort \/ AbortQuit
  PROVE  TaskInv'
<1> USE DEF TaskInv, FailedIsAlone, WorkIsForEngines, SnapIsCurrent, SnapIsEngines, Running, Applying
<1>1. CASE \E m \in Moves : MakeMove(m)
  BY <1>1 DEF MakeMove, taskVars
<1>2. CASE TakeBack
  BY <1>2 DEF TakeBack
<1>3. CASE Resign \/ Replace \/ Abort \/ AbortQuit
  BY <1>3 DEF Resign, Replace, Abort, AbortQuit, EndGame, gameVars, signalVars, taskVars
<1>4. QED
  BY <1>1, <1>2, <1>3

LEMMA LoopTask ==
  ASSUME TypeOK, TaskInv, LoopStep
  PROVE  TaskInv'
<1> USE DEF TaskInv, FailedIsAlone, WorkIsForEngines, SnapIsCurrent, SnapIsEngines, Running, Applying
<1>1. CASE LoopMaybeStart
  BY <1>1 DEF LoopMaybeStart, MaybeStartEngine, signalVars, taskVars
<1>2. CASE LoopTaskEnds
  BY <1>2 DEF LoopTaskEnds, NoTask, gameVars, signalVars
<1>3. CASE LoopFailed \/ LoopTimeout
  BY <1>3 DEF LoopFailed, LoopTimeout, taskVars
<1>4. CASE LoopShutdown \/ LoopPolls \/ LoopNotified \/ LoopTicked \/ LoopQuit
  BY <1>4 DEF LoopShutdown, LoopPolls, LoopNotified, LoopTicked, LoopQuit, gameVars, signalVars, taskVars
<1>5. QED
  BY <1>1, <1>2, <1>3, <1>4 DEF LoopStep

LEMMA TaskTask ==
  ASSUME TypeOK, TaskInv, TaskStep \/ EngineStep \/ EngineDies
  PROVE  TaskInv'
<1> USE DEF TaskInv, FailedIsAlone, WorkIsForEngines, SnapIsCurrent, SnapIsEngines, Running, Applying
<1>1. CASE TaskApply
  <2>1. task' = "ok" \/ (task' = "error" /\ moves' = moves)
    BY <1>1 DEF TaskApply, Applied
  <2>2. QED
    BY <1>1, <2>1 DEF TaskApply
<1>2. CASE TaskBookMove
  BY <1>2 DEF TaskBookMove, gameVars
<1>3. CASE TaskSnapshot
  BY <1>3 DEF TaskSnapshot, gameVars
<1>4. CASE TaskBestMove \/ TaskDisconnected
  BY <1>4 DEF TaskBestMove, TaskDisconnected, gameVars
<1>5. CASE TaskAborted
  BY <1>5 DEF TaskAborted, NoTask, gameVars
<1>6. CASE EngineDies
  BY <1>6 DEF EngineDies, gameVars, taskVars
<1>7. QED
  BY <1>1, <1>2, <1>3, <1>4, <1>5, <1>6 DEF TaskStep, EngineStep

LEMMA StepTask ==
  ASSUME TypeOK, TaskInv, [Next]_vars
  PROVE  TaskInv'
<1>1. CASE UNCHANGED vars
  BY <1>1 DEF vars, gameVars, taskVars, TaskInv, FailedIsAlone, WorkIsForEngines, SnapIsCurrent,
              SnapIsEngines, Running, Applying
<1>2. QED
  BY <1>1, CommandTask, LoopTask, TaskTask DEF Next

(* Only TaskApply plays a move for an engine.                               *)
LEMMA WhoApplies ==
  ASSUME Next, task \in Applying, task' = "ok"
  PROVE  TaskApply
BY DEF Applying, Next, MakeMove, TakeBack, Resign, Replace, Abort, AbortQuit, LoopStep, LoopMaybeStart,
       MaybeStartEngine, LoopShutdown, LoopPolls, LoopTaskEnds, NoTask, LoopFailed, LoopNotified,
       LoopTimeout, LoopTicked, LoopQuit, TaskStep, TaskBookMove, TaskSnapshot, TaskAborted,
       EngineStep, TaskBestMove, TaskDisconnected, EngineDies, gameVars, signalVars, taskVars

(* A result is replaced by a command or by a failure in hand.               *)
LEMMA WhoReplaces ==
  ASSUME Next, status # "playing", status' # status
  PROVE  TakeBack \/ Resign \/ loop = "failed"
BY DEF Next, MakeMove, Replace, Abort, AbortQuit, LoopStep, LoopMaybeStart, LoopShutdown, LoopPolls,
       LoopTaskEnds, LoopFailed, LoopNotified, LoopTimeout, LoopTicked, LoopQuit, TaskStep,
       TaskBookMove, TaskSnapshot, TaskApply, Applied, Fresh, TaskAborted, EngineStep, TaskBestMove,
       TaskDisconnected, EngineDies, gameVars

LEMMA TaskInvariant == Spec => [](TypeOK /\ TaskInv)
<1>1. Init => TypeOK /\ TaskInv
  BY InitType, InitTask
<1>2. TypeOK /\ TaskInv /\ [Next]_vars => (TypeOK /\ TaskInv)'
  BY StepType, StepTask
<1>3. QED
  BY <1>1, <1>2, PTL DEF Spec

(* EngineMovesAreFresh: a searched move is played for the engine's side,    *)
(* and every move of the task in the position it was computed for unless a  *)
(* take-back came during the task (game.rs:1384-1388, 1474-1482).           *)
THEOREM MovesFresh == Spec => EngineMovesAreFresh
<1> DEFINE OnTurn == task = "apply" /\ task' = "ok" /\ moves' # moves => EngineTurn(moves)
<1> DEFINE NotStale == task \in Applying /\ task' = "ok" /\ moves' # moves
                        => moves = snap \/ disturbed
<1>1. TaskInv /\ [Next]_vars => [OnTurn]_vars
  <2> SUFFICES ASSUME TaskInv, Next, task = "apply", task' = "ok", moves' # moves
               PROVE  EngineTurn(moves)
    OBVIOUS
  <2>1. Turn(moves) = Turn(snap)
    BY WhoApplies DEF Applying, TaskApply, Applied, Fresh
  <2>2. QED
    BY <2>1 DEF EngineTurn, TaskInv, SnapIsEngines
<1>2. TaskInv /\ [Next]_vars => [NotStale]_vars
  BY DEF TaskInv, SnapIsCurrent, Applying
<1>3. QED
  BY <1>1, <1>2, TaskInvariant, PTL
     DEF Spec, EngineMovesAreFresh, SearchedMovesOnItsTurn, StaleOnlyAfterTakeBack

(* OutcomesStand: only the side of an engine loses by abandonment, unless a *)
(* take-back gave the turn away before the failure was charged, and a       *)
(* result is replaced by a take-back, a resignation or such a failure only  *)
(* (game.rs:732, 789, 1429).                                                *)
THEOREM OutcomesKept == Spec => OutcomesStand
<1> DEFINE Charged == loop = "failed" /\ loop' = "leaving" => EngineTurn(moves) \/ disturbed
<1> DEFINE Final == status # "playing" /\ status' # status => TakeBack \/ Resign \/ loop = "failed"
<1>1. TaskInv /\ [Next]_vars => [Charged]_vars
  BY DEF TaskInv, WorkIsForEngines
<1>2. [Next]_vars => [Final]_vars
  BY WhoReplaces
<1>3. QED
  BY <1>1, <1>2, TaskInvariant, PTL DEF Spec, OutcomesStand, OnlyEnginesAbandon, ResultIsFinal
=============================================================================
