------------------------------ MODULE EvalCache ------------------------------
(***************************************************************************)
(* What the evaluation graph of a game promises its viewers                *)
(* (services/chess_coach/gateway/routes/eval_graph.py), without saying how *)
(* the evaluations are computed: the analyses table is a cache that only   *)
(* grows, and a view shows at least what was cached when it was opened and *)
(* nothing that is not cached when it is answered.                         *)
(***************************************************************************)
CONSTANTS Views, Games, Plies

VARIABLES
  rows,   \* the positions with an analyses row
  asked,  \* the game each unanswered view is about, in a set of at most one
  hit,    \* the plies that were cached when the unanswered view was opened
  shown   \* the plies the view's last answer has a score for

cacheVars == <<rows, asked, hit, shown>>

Cached(g) == {p \in Plies : <<g, p>> \in rows}

Init ==
  /\ rows = {}
  /\ asked = [v \in Views |-> {}]
  /\ hit = [v \in Views |-> {}]
  /\ shown = [v \in Views |-> {}]

(* A view whose every ply is cached is answered from the cache at once.     *)
AnswerHit(v, g) ==
  /\ asked[v] = {}
  /\ Cached(g) = Plies
  /\ shown' = [shown EXCEPT ![v] = Plies]
  /\ UNCHANGED <<rows, asked, hit>>

Ask(v, g) ==
  /\ asked[v] = {}
  /\ asked' = [asked EXCEPT ![v] = {g}]
  /\ hit' = [hit EXCEPT ![v] = Cached(g)]
  /\ shown' = [shown EXCEPT ![v] = {}]
  /\ UNCHANGED rows

Fill ==
  /\ rows \subseteq rows'
  /\ rows' \subseteq Games \X Plies
  /\ UNCHANGED <<asked, hit, shown>>

Answer(v, g) ==
  /\ asked[v] = {g}
  /\ asked' = [asked EXCEPT ![v] = {}]
  /\ shown' = [shown EXCEPT ![v] = Cached(g)]
  /\ hit[v] \subseteq Cached(g)
  /\ hit' = [hit EXCEPT ![v] = {}]
  /\ UNCHANGED rows

Next ==
  \/ \E v \in Views, g \in Games : AnswerHit(v, g) \/ Ask(v, g) \/ Answer(v, g)
  \/ Fill

Spec == Init /\ [][Next]_cacheVars
=============================================================================
