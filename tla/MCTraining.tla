----------------------------- MODULE MCTraining -----------------------------
(* Small instances of Puzzles and Practice in one run: a tab is of puzzles  *)
(* or has a repertoire to practise, and the two share nothing, so one of    *)
(* them acts and the other stays as it began.                               *)
EXTENDS Puzzles, MCPractice

VARIABLE kind

trainingVars == <<vars, practiceVars, kind>>

TrainingInit ==
  /\ kind \in {"puzzles", "practice"}
  /\ Init
  /\ PracticeInit
  /\ kind = "puzzles" => game = 0

TrainingNext ==
  \/ kind = "puzzles" /\ Next /\ UNCHANGED <<practiceVars, kind>>
  \/ kind = "practice" /\ PracticeNext /\ UNCHANGED <<vars, kind>>

TrainingSpec == TrainingInit /\ [][TrainingNext]_trainingVars

=============================================================================
