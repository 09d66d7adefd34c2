------------------------------ MODULE EvalGraph ------------------------------
(***************************************************************************)
(* The lazy evaluation graph                                               *)
(* (services/chess_coach/gateway/routes/eval_graph.py): a view of a game   *)
(* reads the analyses table, runs one task per missing ply, commits what   *)
(* they inserted, and reads again.  A task either leads, which is to run   *)
(* the analysis and insert its row on the view's own connection, or        *)
(* follows the future of the view that leads the same position.            *)
(*                                                                         *)
(* An action is what the event loop runs between two awaits, or one        *)
(* statement of a connection's thread together with the coroutine that     *)
(* waits for it.  SQLite has one writer: a connection owns the write lock  *)
(* from its first INSERT to its commit.                                    *)
(*                                                                         *)
(* A definition commented "Faulty variant" is a plausible bug, there to    *)
(* check that the properties notice it; Next uses none of them.            *)
(***************************************************************************)
CONSTANTS
  Views,   \* the clients; each has at most one request in flight
  Games,   \* games with positions in the database
  Plies,   \* the plies of a game
  NoView   \* nobody

ASSUME ViewAssumption == NoView \notin Views

VARIABLES
  pc,          \* where each view's coroutine is
  game,        \* the game it is about
  missing,     \* the plies its first read found no score for
  task,        \* the state of its task for each ply
  leader,      \* whose future a following task awaits
  inflight,    \* _inflight: the view whose future is registered for a key
  young,       \* leading tasks registered less than _DEDUP_TTL_S ago
  writer,      \* the view whose connection owns SQLite's write lock
  uncommitted, \* the plies inserted by a view and not committed yet
  rows,        \* the committed rows of the analyses table
  shown,       \* the plies each view's last answer has a score for
  outlived     \* history: keys some leading task of which outlived its TTL

requestVars == <<pc, game, missing, shown>>
taskVars == <<task, leader, inflight, young, outlived>>
dbVars == <<writer, uncommitted, rows>>
vars == <<requestVars, taskVars, dbVars>>

Keys == Games \X Plies

(* "heard": a follower was told the leader's row is stored.  "locked": the  *)
(* analysis succeeded and its INSERT gave up on the write lock.             *)
TaskStates == {"none", "analyse", "insert", "follow", "stored", "heard", "failed", "locked"}
Leading == {"analyse", "insert"}

Cached(g) == {p \in Plies : <<g, p>> \in rows}

(* _dedup_get(): a registered future that is neither stale nor done.        *)
Joinable(k) ==
  /\ inflight[k] # NoView
  /\ <<inflight[k], k[2]>> \in young
  /\ task[inflight[k]][k[2]] \in Leading
-----------------------------------------------------------------------------
Init ==
  /\ pc = [v \in Views |-> "idle"]
  /\ game \in [Views -> Games]
  /\ \A v, w \in Views : game[v] = game[w]
  /\ missing = [v \in Views |-> Plies]
  /\ task = [v \in Views |-> [p \in Plies |-> "none"]]
  /\ leader = [v \in Views |-> [p \in Plies |-> NoView]]
  /\ inflight = [k \in Keys |-> NoView]
  /\ young = {}
  /\ writer = NoView
  /\ uncommitted = [v \in Views |-> {}]
  /\ rows = {}
  /\ shown = [v \in Views |-> {}]
  /\ outlived = {}

(* Phase 1 finds every score: the answer needs nothing else.                *)
OpenHit(v, g) ==
  /\ pc[v] = "idle"
  /\ Cached(g) = Plies
  /\ game' = [game EXCEPT ![v] = g]
  /\ missing' = [missing EXCEPT ![v] = {}]
  /\ task' = [task EXCEPT ![v] = [p \in Plies |-> "none"]]
  /\ shown' = [shown EXCEPT ![v] = Plies]
  /\ UNCHANGED <<pc, leader, inflight, young, outlived, dbVars>>

OpenMiss(v, g) ==
  /\ pc[v] = "idle"
  /\ Cached(g) # Plies
  /\ game' = [game EXCEPT ![v] = g]
  /\ missing' = [missing EXCEPT ![v] = Plies \ Cached(g)]
  /\ task' = [task EXCEPT ![v] = [p \in Plies |-> "none"]]
  /\ shown' = [shown EXCEPT ![v] = {}]
  /\ pc' = [pc EXCEPT ![v] = "missing"]
  /\ UNCHANGED <<leader, inflight, young, outlived, dbVars>>

(* gather() starts the tasks one after another without an await between     *)
(* them: each takes the uncontended lock, looks its key up, and follows the *)
(* future it finds or registers its own.                                    *)
Start(v) ==
  LET Key(p) == <<game[v], p>>
      follows == {p \in missing[v] : Joinable(Key(p))}
      leads == missing[v] \ follows IN
  /\ pc[v] = "missing"
  /\ task' = [task EXCEPT ![v] =
                [p \in Plies |-> IF p \in follows THEN "follow"
                                 ELSE IF p \in leads THEN "analyse" ELSE "none"]]
  /\ leader' = [leader EXCEPT ![v] =
                  [p \in Plies |-> IF p \in follows THEN inflight[Key(p)] ELSE NoView]]
  /\ inflight' = [k \in Keys |-> IF k[1] = game[v] /\ k[2] \in leads THEN v ELSE inflight[k]]
  /\ young' = young \cup ({v} \X leads)
  /\ pc' = [pc EXCEPT ![v] = "gather"]
  /\ UNCHANGED <<game, missing, shown, outlived, dbVars>>

(* The TTL of a registered future runs out while its analysis still waits   *)
(* for the engine pool, or for the write lock.                              *)
Expire(v, p) ==
  /\ <<v, p>> \in young
  /\ young' = young \ {<<v, p>>}
  /\ outlived' = outlived \cup {<<game[v], p>>}
  /\ UNCHANGED <<requestVars, task, leader, inflight, dbVars>>

(* pool.analyze() returned a result with a PV.                              *)
Analysed(v, p) ==
  /\ task[v][p] = "analyse"
  /\ task' = [task EXCEPT ![v][p] = "insert"]
  /\ UNCHANGED <<requestVars, leader, inflight, young, outlived, dbVars>>

(* What a leading task's future tells the tasks that follow it.             *)
Heard(outcome) == IF outcome = "stored" THEN "heard" ELSE outcome

Follows(w, v, p) == task[w][p] = "follow" /\ leader[w][p] = v

Settle(v, p, outcome, told, popped) ==
  /\ task' = [w \in Views |->
                [task[w] EXCEPT ![p] = IF w = v THEN outcome
                                       ELSE IF Follows(w, v, p) /\ told THEN Heard(outcome)
                                       ELSE @]]
  /\ leader' = [w \in Views |->
                  [leader[w] EXCEPT ![p] = IF Follows(w, v, p) /\ told THEN NoView ELSE @]]
  /\ inflight' = [inflight EXCEPT ![<<game[v], p>>] = IF popped THEN NoView ELSE @]
  /\ young' = young \ {<<v, p>>}
  /\ UNCHANGED <<requestVars, outlived>>

(* Faulty variant: the entry is dropped on success only, not in a finally.  *)
ResolvePopsOnSuccess(v, p, outcome) == Settle(v, p, outcome, TRUE, outcome = "stored")

(* A leading task ends: it resolves its future, which ends its followers,   *)
(* and its `finally` drops whatever future is registered for the key.       *)
Resolve(v, p, outcome) == Settle(v, p, outcome, TRUE, TRUE)

(* pool.analyze() raised, or its result has no PV.                          *)
AnalysisFails(v, p) ==
  /\ task[v][p] = "analyse"
  /\ Resolve(v, p, "failed")
  /\ UNCHANGED dbVars

(* INSERT OR IGNORE on the view's connection.                               *)
Insert(v, p) ==
  /\ task[v][p] = "insert"
  /\ writer \in {NoView, v}
  /\ writer' = v
  /\ uncommitted' = [uncommitted EXCEPT ![v] = @ \cup {p}]
  /\ Resolve(v, p, "stored")
  /\ UNCHANGED rows

(* Faulty variant: no busy timeout.                                         *)
InsertWaitsForever(v, p) == FALSE /\ UNCHANGED vars

(* sqlite3's busy timeout: "database is locked", logged as a failed insert. *)
InsertLocked(v, p) ==
  /\ task[v][p] = "insert"
  /\ writer \notin {NoView, v}
  /\ Resolve(v, p, "locked")
  /\ UNCHANGED dbVars

Gathered(v) == \A p \in Plies : task[v][p] \notin Leading \cup {"follow"}

EndOfGather(v) ==
  /\ pc[v] = "gather"
  /\ Gathered(v)
  /\ uncommitted' = [uncommitted EXCEPT ![v] = {}]
  /\ pc' = [pc EXCEPT ![v] = "reread"]
  /\ UNCHANGED <<game, missing, shown, taskVars>>

ReleasedLock(v) == IF writer = v THEN NoView ELSE writer

(* Faulty variant: rows keyed by ply and not by game and ply.               *)
CommitKeysByPly(v) ==
  EndOfGather(v) /\ writer' = ReleasedLock(v) /\ rows' = rows \cup uncommitted[v]

(* Faulty variant: no commit, so closing the connection rolls back.         *)
CommitForgotten(v) ==
  EndOfGather(v) /\ writer' = ReleasedLock(v) /\ UNCHANGED rows

(* gather() returns when every task has ended, and only then is the         *)
(* connection's transaction committed.                                      *)
Commit(v) ==
  /\ EndOfGather(v)
  /\ rows' = rows \cup ({game[v]} \X uncommitted[v])
  /\ writer' = ReleasedLock(v)

(* Faulty variant: the answer forgets what the first read found.            *)
RereadMissingOnly(v) ==
  /\ pc[v] = "reread"
  /\ shown' = [shown EXCEPT ![v] = missing[v] \cap Cached(game[v])]
  /\ pc' = [pc EXCEPT ![v] = "idle"]
  /\ UNCHANGED <<game, missing, taskVars, dbVars>>

(* Phase 3, on a connection of its own; the plies Phase 1 found are kept.   *)
Reread(v) ==
  /\ pc[v] = "reread"
  /\ shown' = [shown EXCEPT ![v] = (Plies \ missing[v]) \cup (missing[v] \cap Cached(game[v]))]
  /\ pc' = [pc EXCEPT ![v] = "idle"]
  /\ UNCHANGED <<game, missing, taskVars, dbVars>>

(* POST /backfill-analyses fills the same table without the dedup; each of  *)
(* its transactions only inserts, and is short.                             *)
Backfill(k) ==
  /\ writer = NoView
  /\ k \notin rows
  /\ rows' = rows \cup {k}
  /\ UNCHANGED <<requestVars, taskVars, writer, uncommitted>>

TaskStep(v, p) ==
  Analysed(v, p) \/ AnalysisFails(v, p) \/ Insert(v, p) \/ InsertLocked(v, p)

ViewStep(v) == Start(v) \/ Commit(v) \/ Reread(v)

Next ==
  \/ \E v \in Views, g \in Games : OpenHit(v, g) \/ OpenMiss(v, g)
  \/ \E v \in Views : ViewStep(v)
  \/ \E v \in Views, p \in Plies : TaskStep(v, p) \/ Expire(v, p)
  \/ \E k \in Keys : Backfill(k)

Spec == Init /\ [][Next]_vars

(* The event loop runs what can run; every analyze() of the pool returns or *)
(* raises, and an INSERT gets the write lock or times out.                  *)
FairSpec ==
  /\ Spec
  /\ \A v \in Views : WF_vars(ViewStep(v))
  /\ \A v \in Views, p \in Plies : WF_vars(TaskStep(v, p))
-----------------------------------------------------------------------------
TypeOK ==
  /\ pc \in [Views -> {"idle", "missing", "gather", "reread"}]
  /\ game \in [Views -> Games]
  /\ missing \in [Views -> SUBSET Plies]
  /\ task \in [Views -> [Plies -> TaskStates]]
  /\ leader \in [Views -> [Plies -> Views \cup {NoView}]]
  /\ inflight \in [Keys -> Views \cup {NoView}]
  /\ young \subseteq Views \X Plies
  /\ writer \in Views \cup {NoView}
  /\ uncommitted \in [Views -> SUBSET Plies]
  /\ rows \subseteq Keys
  /\ shown \in [Views -> SUBSET Plies]
  /\ outlived \subseteq Keys

(* Whoever awaits a future awaits one that a task still runs for, of the    *)
(* same position: the TTL and the pops of other leaders' entries never      *)
(* leave a follower with a future nobody will resolve.                      *)
FollowersAreServed ==
  \A v \in Views, p \in Plies : task[v][p] = "follow" =>
    /\ leader[v][p] \in Views
    /\ task[leader[v][p]][p] \in Leading
    /\ game[leader[v][p]] = game[v]

(* A registered future is one a task still runs for: whatever the outcome   *)
(* of the analysis, no entry is left behind.                                *)
EntriesAreRunning ==
  \A k \in Keys : inflight[k] # NoView =>
    task[inflight[k]][k[2]] \in Leading /\ game[inflight[k]] = k[1]

Leads(v, k) == game[v] = k[1] /\ task[v][k[2]] \in Leading

(* As long as no analysis of a position outlives the TTL of its entry,      *)
(* concurrent views run at most one analysis of it at a time.               *)
OneAnalysisUnlessOutlived ==
  \A k \in Keys : k \notin outlived =>
    \A v, w \in Views : Leads(v, k) /\ Leads(w, k) => v = w

(* SQLite's write lock belongs to a view that still gathers and has         *)
(* inserted, and uncommitted rows to the owner of the lock: it is never     *)
(* left behind by an answered request, whatever failed in it.               *)
WriteLockIsInUse ==
  /\ writer # NoView => pc[writer] = "gather" /\ uncommitted[writer] # {}
  /\ \A v \in Views : uncommitted[v] # {} => writer = v

(* An answer shows every ply the view found in the cache and every ply it   *)
(* analysed and inserted itself.                                            *)
OwnResultsShown ==
  \A v \in Views : pc[v] = "idle" =>
    /\ Plies \ missing[v] \subseteq shown[v]
    /\ \A p \in Plies : task[v][p] = "stored" => p \in shown[v]

(* The dedup is sound: whoever waits is served, no entry is left behind and *)
(* no position is analysed twice at once (eval_graph.py:73-153).            *)
DedupIsSound == FollowersAreServed /\ EntriesAreRunning /\ OneAnalysisUnlessOutlived

(* The store is sound: no lock is left behind and a view shows what it      *)
(* found and what it stored (eval_graph.py:274-420).                        *)
StoreIsSound == WriteLockIsInUse /\ OwnResultsShown

(* Every view is answered: no cycle of views that follow each other's       *)
(* futures and wait for each other's write lock lasts.                      *)
EveryViewAnswered == \A v \in Views : pc[v] # "idle" ~> pc[v] = "idle"

(* The dedup, the tasks and the transactions implement a growing cache.     *)
Cache == INSTANCE EvalCache WITH
  asked <- [v \in Views |-> IF pc[v] = "idle" THEN {} ELSE {game[v]}],
  hit <- [v \in Views |-> IF pc[v] = "idle" THEN {} ELSE Plies \ missing[v]]

CacheSpec == Cache!Spec
-----------------------------------------------------------------------------
(* What docstrings and comments of the route say, and the code does not do. *)

(* "on cache miss the route computes the analysis inline, INSERTs it, and   *)
(* returns": a ply whose future reported a stored row is in the answer.     *)
HeardIsShown ==
  \A v \in Views : pc[v] = "idle" =>
    \A p \in Plies : task[v][p] = "heard" => p \in shown[v]

(* "otherwise, run Stockfish inline, INSERT the result, and return it": no  *)
(* analysis that succeeded is dropped.                                      *)
NoResultDropped == \A v \in Views, p \in Plies : task[v][p] # "locked"
=============================================================================
