--------------------------- MODULE EvalGraphProofs ---------------------------
(***************************************************************************)
(* Theorems about EvalGraph for every set of views, games and plies: the   *)
(* dedup's futures, the write lock, and the cache the route implements.    *)
(***************************************************************************)
EXTENDS EvalGraph, TLAPS

(* A task runs only while its view gathers, and an entry's age is kept for  *)
(* running leaders only.                                                    *)
RunningInGather ==
  \A v \in Views, p \in Plies :
    task[v][p] \in Leading \cup {"follow"} => pc[v] = "gather"

YoungLeads == \A v \in Views, p \in Plies : <<v, p>> \in young => task[v][p] \in Leading

(* What makes one analysis the only one: it stays registered and young.     *)
RegisteredUnlessOutlived ==
  \A v \in Views, p \in Plies :
    task[v][p] \in Leading /\ <<game[v], p>> \notin outlived =>
      inflight[<<game[v], p>>] = v /\ <<v, p>> \in young

DedupInv ==
  /\ TypeOK
  /\ RunningInGather
  /\ YoungLeads
  /\ FollowersAreServed
  /\ EntriesAreRunning
  /\ RegisteredUnlessOutlived

LEMMA KeyIsKey == ASSUME NEW g \in Games, NEW p \in Plies PROVE <<g, p>> \in Keys
BY DEF Keys

(* The end of a leading task keeps the dedup's invariant, whatever the      *)
(* outcome and whatever it does to the database.                            *)
LEMMA ResolveDedup ==
  ASSUME DedupInv, NEW v \in Views, NEW p \in Plies, task[v][p] \in Leading,
         NEW outcome \in {"stored", "failed", "locked"}, Resolve(v, p, outcome),
         writer' \in Views \cup {NoView},
         uncommitted' \in [Views -> SUBSET Plies],
         rows' \subseteq Keys
  PROVE  DedupInv'
<1> DEFINE k == <<game[v], p>>
<1>1. /\ TypeOK
      /\ game[v] \in Games
      /\ k \in Keys
      /\ UNCHANGED <<pc, game, missing, shown, outlived>>
  BY KeyIsKey DEF DedupInv, TypeOK, Resolve, Settle, requestVars
<1>2. \A w \in Views, q \in Plies :
        task'[w][q] = IF w = v /\ q = p THEN outcome
                      ELSE IF q = p /\ Follows(w, v, p) THEN Heard(outcome)
                      ELSE task[w][q]
  BY <1>1 DEF TypeOK, Resolve, Settle
<1>3. \A w \in Views, q \in Plies :
        leader'[w][q] = IF q = p /\ Follows(w, v, p) THEN NoView ELSE leader[w][q]
  BY <1>1 DEF TypeOK, Resolve, Settle
<1>4. /\ inflight' = [inflight EXCEPT ![k] = NoView]
      /\ young' = young \ {<<v, p>>}
  BY DEF Resolve, Settle
<1>5. Heard(outcome) \in TaskStates /\ outcome \in TaskStates
      /\ Heard(outcome) \notin Leading \cup {"follow"}
      /\ outcome \notin Leading \cup {"follow"}
  BY DEF Heard, TaskStates, Leading
<1>6. TypeOK'
  <2>1. task' \in [Views -> [Plies -> TaskStates]]
    <3>1. task' = [w \in Views |->
                [task[w] EXCEPT ![p] = IF w = v THEN outcome
                                       ELSE IF Follows(w, v, p) THEN Heard(outcome)
                                       ELSE @]]
      BY DEF Resolve, Settle
    <3>2. ASSUME NEW w \in Views
          PROVE  [task[w] EXCEPT ![p] = IF w = v THEN outcome
                                       ELSE IF Follows(w, v, p) THEN Heard(outcome)
                                       ELSE @] \in [Plies -> TaskStates]
      BY <1>1, <1>5 DEF TypeOK
    <3>3. QED
      BY <3>1, <3>2
  <2>2. leader' \in [Views -> [Plies -> Views \cup {NoView}]]
    BY <1>1 DEF TypeOK, Resolve, Settle
  <2>3. inflight' \in [Keys -> Views \cup {NoView}] /\ young' \subseteq Views \X Plies
    BY <1>1, <1>4 DEF TypeOK
  <2>4. QED
    BY <1>1, <2>1, <2>2, <2>3 DEF TypeOK
(* Tasks still running after the step were running before it.               *)
<1>7. \A w \in Views, q \in Plies :
        task'[w][q] \in Leading \cup {"follow"} =>
          task'[w][q] = task[w][q] /\ ~(w = v /\ q = p)
  BY <1>2, <1>5
<1>8. \A w \in Views, q \in Plies :
        task[w][q] \in Leading /\ ~(w = v /\ q = p) => task'[w][q] = task[w][q]
  BY <1>2 DEF Follows, Leading
<1>9. RunningInGather'
  BY <1>1, <1>7 DEF DedupInv, RunningInGather
<1>10. YoungLeads'
  BY <1>4, <1>8 DEF DedupInv, YoungLeads
<1>11. FollowersAreServed'
  <2>1. SUFFICES ASSUME NEW w \in Views, NEW q \in Plies, task'[w][q] = "follow"
                 PROVE  /\ leader'[w][q] \in Views
                        /\ task'[leader'[w][q]][q] \in Leading
                        /\ game'[leader'[w][q]] = game'[w]
    BY DEF FollowersAreServed
  <2>2. task[w][q] = "follow" /\ ~(q = p /\ Follows(w, v, p))
    BY <1>2, <1>5, <1>7, <2>1
  <2>3. leader'[w][q] = leader[w][q] /\ ~(leader[w][q] = v /\ q = p)
    BY <1>3, <2>2 DEF Follows
  <2>4. /\ leader[w][q] \in Views
        /\ task[leader[w][q]][q] \in Leading
        /\ game[leader[w][q]] = game[w]
    BY <2>2 DEF DedupInv, FollowersAreServed
  <2>5. QED
    BY <1>1, <1>8, <2>3, <2>4
<1>12. EntriesAreRunning'
  <2>1. SUFFICES ASSUME NEW j \in Keys, inflight'[j] # NoView
                 PROVE  task'[inflight'[j]][j[2]] \in Leading /\ game'[inflight'[j]] = j[1]
    BY DEF EntriesAreRunning
  <2>2. j # k /\ inflight'[j] = inflight[j] /\ inflight[j] # NoView
    BY <1>1, <1>4, <2>1 DEF TypeOK
  <2>3. /\ inflight[j] \in Views
        /\ task[inflight[j]][j[2]] \in Leading
        /\ game[inflight[j]] = j[1]
        /\ j = <<j[1], j[2]>> /\ j[2] \in Plies
    BY <1>1, <2>2 DEF DedupInv, EntriesAreRunning, TypeOK, Keys
  <2>4. ~(inflight[j] = v /\ j[2] = p)
    BY <2>2, <2>3
  <2>5. QED
    BY <1>1, <1>8, <2>2, <2>3, <2>4
<1>13. RegisteredUnlessOutlived'
  <2>1. SUFFICES ASSUME NEW w \in Views, NEW q \in Plies,
                        task'[w][q] \in Leading, <<game'[w], q>> \notin outlived'
                 PROVE  inflight'[<<game'[w], q>>] = w /\ <<w, q>> \in young'
    BY DEF RegisteredUnlessOutlived
  <2>2. /\ task[w][q] \in Leading /\ ~(w = v /\ q = p)
        /\ inflight[<<game[w], q>>] = w /\ <<w, q>> \in young
    BY <1>1, <1>7, <2>1 DEF DedupInv, RegisteredUnlessOutlived
  (* Had w led the key of v, v would be registered for it, and not w.       *)
  <2>3. <<game[w], q>> # k
    BY <1>1, <2>1, <2>2 DEF DedupInv, RegisteredUnlessOutlived
  <2>4. <<game[w], q>> \in Keys
    BY <1>1, KeyIsKey DEF TypeOK
  <2>5. QED
    BY <1>1, <1>4, <2>2, <2>3, <2>4 DEF TypeOK
<1>14. QED
  BY <1>6, <1>9, <1>10, <1>11, <1>12, <1>13 DEF DedupInv

LEMMA DedupInit == Init => DedupInv
<1>1. SUFFICES ASSUME Init PROVE DedupInv
  OBVIOUS
<1>2. TypeOK
  <2>1. task \in [Views -> [Plies -> TaskStates]]
    BY <1>1 DEF Init, TaskStates
  <2>2. leader \in [Views -> [Plies -> Views \cup {NoView}]]
    BY <1>1 DEF Init
  <2>3. QED
    BY <1>1, <2>1, <2>2 DEF Init, TypeOK
<1>3. \A v \in Views, p \in Plies : task[v][p] = "none"
  BY <1>1 DEF Init
<1>4. QED
  BY <1>1, <1>2, <1>3
     DEF DedupInv, Init, RunningInGather, YoungLeads, FollowersAreServed,
         EntriesAreRunning, RegisteredUnlessOutlived, Leading

(* A view that is opened has no task that runs, so nobody depends on it.    *)
LEMMA OpenDedup ==
  ASSUME DedupInv, NEW v \in Views, NEW g \in Games, NEW m \in SUBSET Plies,
         NEW s \in SUBSET Plies, NEW c \in {"idle", "missing"},
         pc[v] = "idle",
         pc' = [pc EXCEPT ![v] = c],
         game' = [game EXCEPT ![v] = g],
         missing' = [missing EXCEPT ![v] = m],
         task' = [task EXCEPT ![v] = [p \in Plies |-> "none"]],
         shown' = [shown EXCEPT ![v] = s],
         UNCHANGED <<leader, inflight, young, outlived, dbVars>>
  PROVE  DedupInv'
<1>1. TypeOK /\ UNCHANGED <<leader, inflight, young, outlived, writer, uncommitted, rows>>
  BY DEF DedupInv, dbVars
<1>2. [p \in Plies |-> "none"] \in [Plies -> TaskStates]
  BY DEF TaskStates
<1>3. TypeOK'
  BY <1>1, <1>2 DEF TypeOK
<1>4. /\ \A p \in Plies : task[v][p] \notin Leading \cup {"follow"}
      /\ \A p \in Plies : task'[v][p] = "none"
      /\ \A w \in Views : w # v => task'[w] = task[w] /\ game'[w] = game[w] /\ pc'[w] = pc[w]
  BY <1>1 DEF DedupInv, RunningInGather, TypeOK
<1>5. RunningInGather' /\ YoungLeads'
  BY <1>1, <1>4 DEF DedupInv, RunningInGather, YoungLeads, Leading
<1>6. FollowersAreServed'
  <2>1. SUFFICES ASSUME NEW w \in Views, NEW q \in Plies, task'[w][q] = "follow"
                 PROVE  /\ leader'[w][q] \in Views
                        /\ task'[leader'[w][q]][q] \in Leading
                        /\ game'[leader'[w][q]] = game'[w]
    BY DEF FollowersAreServed
  <2>2. w # v /\ task[w][q] = "follow"
    BY <1>4, <2>1
  <2>3. /\ leader[w][q] \in Views
        /\ task[leader[w][q]][q] \in Leading
        /\ game[leader[w][q]] = game[w]
    BY <2>2 DEF DedupInv, FollowersAreServed
  <2>4. leader[w][q] # v
    BY <1>4, <2>3
  <2>5. QED
    BY <1>1, <1>4, <2>2, <2>3, <2>4
<1>7. EntriesAreRunning'
  <2>1. SUFFICES ASSUME NEW j \in Keys, inflight[j] # NoView
                 PROVE  task'[inflight[j]][j[2]] \in Leading /\ game'[inflight[j]] = j[1]
    BY <1>1 DEF EntriesAreRunning
  <2>2. /\ task[inflight[j]][j[2]] \in Leading /\ game[inflight[j]] = j[1]
        /\ inflight[j] \in Views /\ j[2] \in Plies
    BY <1>1, <2>1 DEF DedupInv, EntriesAreRunning, TypeOK, Keys
  <2>3. inflight[j] # v
    BY <1>4, <2>2
  <2>4. QED
    BY <1>4, <2>2, <2>3
<1>8. RegisteredUnlessOutlived'
  <2>1. SUFFICES ASSUME NEW w \in Views, NEW q \in Plies,
                        task'[w][q] \in Leading, <<game'[w], q>> \notin outlived
                 PROVE  inflight[<<game'[w], q>>] = w /\ <<w, q>> \in young
    BY <1>1 DEF RegisteredUnlessOutlived
  <2>2. w # v
    BY <1>4, <2>1 DEF Leading
  <2>3. QED
    BY <1>4, <2>1, <2>2 DEF DedupInv, RegisteredUnlessOutlived
<1>9. QED
  BY <1>3, <1>5, <1>6, <1>7, <1>8 DEF DedupInv

(* A ply is led only if its key has no future to join: a leader of it that  *)
(* has not outlived its TTL would be registered, young and running.         *)
LEMMA StartDedup ==
  ASSUME DedupInv, NEW v \in Views, Start(v)
  PROVE  DedupInv'
<1> DEFINE follows == {p \in missing[v] : Joinable(<<game[v], p>>)}
           leads == missing[v] \ follows
<1>1. /\ TypeOK
      /\ missing[v] \subseteq Plies /\ game[v] \in Games
      /\ pc[v] = "missing" /\ pc' = [pc EXCEPT ![v] = "gather"]
      /\ UNCHANGED <<game, missing, shown, outlived, writer, uncommitted, rows>>
  BY DEF DedupInv, TypeOK, Start, dbVars
<1>2. /\ task' = [task EXCEPT ![v] =
                [p \in Plies |-> IF p \in follows THEN "follow"
                                 ELSE IF p \in leads THEN "analyse" ELSE "none"]]
      /\ leader' = [leader EXCEPT ![v] =
                  [p \in Plies |-> IF p \in follows THEN inflight[<<game[v], p>>] ELSE NoView]]
      /\ inflight' = [k \in Keys |-> IF k[1] = game[v] /\ k[2] \in leads THEN v ELSE inflight[k]]
      /\ young' = young \cup ({v} \X leads)
  BY DEF Start
<1>3. \A p \in Plies : <<game[v], p>> \in Keys
  BY <1>1, KeyIsKey
<1>4. TypeOK'
  <2>1. [p \in Plies |-> IF p \in follows THEN "follow"
                         ELSE IF p \in leads THEN "analyse" ELSE "none"] \in [Plies -> TaskStates]
    BY DEF TaskStates
  <2>2. [p \in Plies |-> IF p \in follows THEN inflight[<<game[v], p>>] ELSE NoView]
          \in [Plies -> Views \cup {NoView}]
    BY <1>1, <1>3 DEF TypeOK
  <2>3. inflight' \in [Keys -> Views \cup {NoView}] /\ young' \subseteq Views \X Plies
    BY <1>1, <1>2 DEF TypeOK
  <2>4. QED
    BY <1>1, <1>2, <2>1, <2>2, <2>3 DEF TypeOK
<1>5. /\ \A p \in Plies : task[v][p] \notin Leading \cup {"follow"}
      /\ \A p \in Plies : task'[v][p] = IF p \in follows THEN "follow"
                                        ELSE IF p \in leads THEN "analyse" ELSE "none"
      /\ \A w \in Views : w # v => task'[w] = task[w] /\ leader'[w] = leader[w]
      /\ \A w \in Views : w # v => pc'[w] = pc[w]
      /\ pc'[v] = "gather"
  BY <1>1, <1>2 DEF DedupInv, RunningInGather, TypeOK
<1>6. \A p \in follows :
        /\ inflight[<<game[v], p>>] \in Views \ {v}
        /\ task[inflight[<<game[v], p>>]][p] \in Leading
        /\ game[inflight[<<game[v], p>>]] = game[v]
  BY <1>1, <1>3, <1>5 DEF DedupInv, TypeOK, Joinable, EntriesAreRunning
<1>7. RunningInGather' /\ YoungLeads'
  BY <1>1, <1>2, <1>5 DEF DedupInv, RunningInGather, YoungLeads, Leading
<1>8. FollowersAreServed'
  <2>1. SUFFICES ASSUME NEW w \in Views, NEW q \in Plies, task'[w][q] = "follow"
                 PROVE  /\ leader'[w][q] \in Views
                        /\ task'[leader'[w][q]][q] \in Leading
                        /\ game[leader'[w][q]] = game[w]
    BY <1>1 DEF FollowersAreServed
  <2>2. CASE w = v
    <3>1. q \in follows
      BY <1>5, <2>1, <2>2
    <3>2. leader'[w][q] = inflight[<<game[v], q>>]
      BY <1>1, <1>2, <2>2, <3>1 DEF TypeOK
    <3>3. QED
      BY <1>5, <1>6, <2>2, <3>1, <3>2
  <2>3. CASE w # v
    <3>1. /\ leader[w][q] \in Views
          /\ task[leader[w][q]][q] \in Leading
          /\ game[leader[w][q]] = game[w]
      BY <1>5, <2>1, <2>3 DEF DedupInv, FollowersAreServed
    <3>2. leader[w][q] # v
      BY <1>5, <3>1
    <3>3. QED
      BY <1>5, <2>3, <3>1, <3>2
  <2>4. QED
    BY <2>2, <2>3
<1>9. EntriesAreRunning'
  <2>1. SUFFICES ASSUME NEW j \in Keys, inflight'[j] # NoView
                 PROVE  task'[inflight'[j]][j[2]] \in Leading /\ game[inflight'[j]] = j[1]
    BY <1>1 DEF EntriesAreRunning
  <2>2. j[2] \in Plies
    BY DEF Keys
  <2>3. CASE j[1] = game[v] /\ j[2] \in leads
    BY <1>2, <1>5, <2>2, <2>3 DEF Leading
  <2>4. CASE ~(j[1] = game[v] /\ j[2] \in leads)
    <3>1. inflight'[j] = inflight[j] /\ inflight[j] \in Views
      BY <1>1, <1>2, <2>1, <2>4 DEF TypeOK
    <3>2. task[inflight[j]][j[2]] \in Leading /\ game[inflight[j]] = j[1]
      BY <2>1, <3>1 DEF DedupInv, EntriesAreRunning
    <3>3. QED
      BY <1>5, <2>2, <3>1, <3>2
  <2>5. QED
    BY <2>3, <2>4
<1>10. RegisteredUnlessOutlived'
  <2>1. SUFFICES ASSUME NEW w \in Views, NEW q \in Plies,
                        task'[w][q] \in Leading, <<game[w], q>> \notin outlived
                 PROVE  inflight'[<<game[w], q>>] = w /\ <<w, q>> \in young'
    BY <1>1 DEF RegisteredUnlessOutlived
  <2>2. <<game[w], q>> \in Keys
    BY <1>1, KeyIsKey DEF TypeOK
  <2>3. CASE w = v
    <3>1. q \in leads
      BY <1>5, <2>1, <2>3 DEF Leading
    <3>2. QED
      BY <1>2, <2>2, <2>3, <3>1
  <2>4. CASE w # v
    <3>1. /\ task[w][q] \in Leading
          /\ inflight[<<game[w], q>>] = w /\ <<w, q>> \in young
      BY <1>5, <2>1, <2>4 DEF DedupInv, RegisteredUnlessOutlived
    <3>2. Joinable(<<game[w], q>>)
      BY <3>1, ViewAssumption DEF Joinable
    <3>3. ~(game[w] = game[v] /\ q \in leads)
      BY <3>2
    <3>4. QED
      BY <1>2, <2>2, <3>1, <3>3
  <2>5. QED
    BY <2>3, <2>4
<1>11. QED
  BY <1>4, <1>7, <1>8, <1>9, <1>10 DEF DedupInv

(* Steps of the dedup that leave what is registered as it is.               *)
LEMMA ExpireDedup ==
  ASSUME DedupInv, NEW v \in Views, NEW p \in Plies, Expire(v, p)
  PROVE  DedupInv'
<1>1. /\ TypeOK
      /\ young' = young \ {<<v, p>>}
      /\ outlived' = outlived \cup {<<game[v], p>>}
      /\ UNCHANGED <<pc, game, missing, shown, task, leader, inflight, writer, uncommitted, rows>>
  BY DEF DedupInv, Expire, requestVars, dbVars
<1>2. <<game[v], p>> \in Keys
  BY <1>1, KeyIsKey DEF TypeOK
<1>3. TypeOK'
  BY <1>1, <1>2 DEF TypeOK
<1>4. /\ RunningInGather'
      /\ YoungLeads'
      /\ FollowersAreServed'
      /\ EntriesAreRunning'
  BY <1>1 DEF DedupInv, RunningInGather, YoungLeads, FollowersAreServed, EntriesAreRunning
<1>5. RegisteredUnlessOutlived'
  BY <1>1 DEF DedupInv, RegisteredUnlessOutlived
<1>6. QED
  BY <1>3, <1>4, <1>5 DEF DedupInv

LEMMA AnalysedDedup ==
  ASSUME DedupInv, NEW v \in Views, NEW p \in Plies, Analysed(v, p)
  PROVE  DedupInv'
<1>1. /\ TypeOK
      /\ task[v][p] = "analyse"
      /\ task' = [task EXCEPT ![v][p] = "insert"]
      /\ UNCHANGED <<pc, game, missing, shown, leader, inflight, young, outlived,
                     writer, uncommitted, rows>>
  BY DEF DedupInv, Analysed, requestVars, dbVars
<1>2. TypeOK'
  BY <1>1 DEF TypeOK, TaskStates
<1>3. \A w \in Views, q \in Plies :
        /\ task'[w][q] \in Leading <=> task[w][q] \in Leading
        /\ task'[w][q] = "follow" <=> task[w][q] = "follow"
  BY <1>1 DEF TypeOK, Leading
<1>4. RunningInGather' /\ YoungLeads' /\ RegisteredUnlessOutlived'
  BY <1>1, <1>3 DEF DedupInv, RunningInGather, YoungLeads, RegisteredUnlessOutlived
<1>5. FollowersAreServed'
  BY <1>1, <1>3 DEF DedupInv, FollowersAreServed
<1>6. EntriesAreRunning'
  BY <1>1, <1>3 DEF DedupInv, EntriesAreRunning, TypeOK, Keys
<1>7. QED
  BY <1>2, <1>4, <1>5, <1>6 DEF DedupInv

(* Steps that leave the tasks alone and end no view that has one running.   *)
LEMMA QuietDedup ==
  ASSUME DedupInv, UNCHANGED <<game, missing, taskVars>>,
         pc' \in [Views -> {"idle", "missing", "gather", "reread"}],
         \A v \in Views : pc[v] = "gather" => pc'[v] = "gather" \/ Gathered(v),
         shown' \in [Views -> SUBSET Plies],
         writer' \in Views \cup {NoView},
         uncommitted' \in [Views -> SUBSET Plies],
         rows' \subseteq Keys
  PROVE  DedupInv'
<1>1. UNCHANGED <<game, missing, task, leader, inflight, young, outlived>>
  BY DEF taskVars
<1>2. TypeOK'
  BY <1>1 DEF DedupInv, TypeOK
<1>3. RunningInGather'
  BY <1>1 DEF DedupInv, RunningInGather, Gathered
<1>4. YoungLeads' /\ FollowersAreServed' /\ EntriesAreRunning' /\ RegisteredUnlessOutlived'
  BY <1>1 DEF DedupInv, YoungLeads, FollowersAreServed, EntriesAreRunning,
              RegisteredUnlessOutlived
<1>5. QED
  BY <1>2, <1>3, <1>4 DEF DedupInv

LEMMA CommitTypes ==
  ASSUME TypeOK, NEW v \in Views, Commit(v)
  PROVE  /\ pc[v] = "gather" /\ Gathered(v)
         /\ pc' = [pc EXCEPT ![v] = "reread"]
         /\ uncommitted' = [uncommitted EXCEPT ![v] = {}]
         /\ rows' = rows \cup ({game[v]} \X uncommitted[v])
         /\ writer' = IF writer = v THEN NoView ELSE writer
         /\ rows' \subseteq Keys
         /\ writer' \in Views \cup {NoView}
         /\ uncommitted' \in [Views -> SUBSET Plies]
         /\ UNCHANGED <<game, missing, shown, task, leader, inflight, young, outlived>>
BY DEF TypeOK, Commit, EndOfGather, ReleasedLock, taskVars, Keys

LEMMA DedupStep == DedupInv /\ [Next]_vars => DedupInv'
<1>1. SUFFICES ASSUME DedupInv, [Next]_vars PROVE DedupInv'
  OBVIOUS
<1>2. TypeOK
  BY <1>1 DEF DedupInv
<1>3. ASSUME NEW v \in Views, NEW g \in Games, OpenHit(v, g)
      PROVE  DedupInv'
  <2>1. /\ pc[v] = "idle"
        /\ pc' = [pc EXCEPT ![v] = "idle"]
        /\ game' = [game EXCEPT ![v] = g]
        /\ missing' = [missing EXCEPT ![v] = {}]
        /\ task' = [task EXCEPT ![v] = [p \in Plies |-> "none"]]
        /\ shown' = [shown EXCEPT ![v] = Plies]
        /\ UNCHANGED <<leader, inflight, young, outlived, dbVars>>
    BY <1>2, <1>3 DEF OpenHit, TypeOK
  <2>2. {} \in SUBSET Plies /\ Plies \in SUBSET Plies /\ "idle" \in {"idle", "missing"}
    OBVIOUS
  <2>3. QED
    BY <1>1, <2>1, <2>2, OpenDedup
<1>4. ASSUME NEW v \in Views, NEW g \in Games, OpenMiss(v, g)
      PROVE  DedupInv'
  <2>1. /\ pc[v] = "idle"
        /\ pc' = [pc EXCEPT ![v] = "missing"]
        /\ game' = [game EXCEPT ![v] = g]
        /\ missing' = [missing EXCEPT ![v] = Plies \ Cached(g)]
        /\ task' = [task EXCEPT ![v] = [p \in Plies |-> "none"]]
        /\ shown' = [shown EXCEPT ![v] = {}]
        /\ UNCHANGED <<leader, inflight, young, outlived, dbVars>>
    BY <1>4 DEF OpenMiss
  <2>2. Plies \ Cached(g) \in SUBSET Plies /\ {} \in SUBSET Plies /\ "missing" \in {"idle", "missing"}
    OBVIOUS
  <2>3. QED
    BY <1>1, <2>1, <2>2, OpenDedup
<1>5. ASSUME NEW v \in Views, Start(v) PROVE DedupInv'
  BY <1>1, <1>5, StartDedup
<1>6. ASSUME NEW v \in Views, Commit(v) PROVE DedupInv'
  <2>1. UNCHANGED <<game, missing, taskVars>> /\ shown' = shown
    BY <1>2, <1>6, CommitTypes DEF taskVars
  <2>2. /\ pc' \in [Views -> {"idle", "missing", "gather", "reread"}]
        /\ \A w \in Views : pc[w] = "gather" => pc'[w] = "gather" \/ Gathered(w)
        /\ shown' \in [Views -> SUBSET Plies]
    BY <1>2, <1>6, <2>1, CommitTypes DEF TypeOK
  <2>3. QED
    BY <1>1, <1>2, <1>6, <2>1, <2>2, CommitTypes, QuietDedup
<1>7. ASSUME NEW v \in Views, Reread(v) PROVE DedupInv'
  <2>1. UNCHANGED <<game, missing, taskVars, writer, uncommitted, rows>>
    BY <1>7 DEF Reread, dbVars
  <2>2. /\ pc' \in [Views -> {"idle", "missing", "gather", "reread"}]
        /\ \A w \in Views : pc[w] = "gather" => pc'[w] = "gather"
        /\ shown' \in [Views -> SUBSET Plies]
    BY <1>2, <1>7 DEF Reread, TypeOK
  <2>3. QED
    BY <1>1, <1>2, <2>1, <2>2, QuietDedup DEF TypeOK
<1>8. ASSUME NEW v \in Views, NEW p \in Plies, Analysed(v, p) PROVE DedupInv'
  BY <1>1, <1>8, AnalysedDedup
<1>9. ASSUME NEW v \in Views, NEW p \in Plies, AnalysisFails(v, p) PROVE DedupInv'
  BY <1>1, <1>2, <1>9, ResolveDedup DEF AnalysisFails, dbVars, TypeOK, Leading
<1>10. ASSUME NEW v \in Views, NEW p \in Plies, Insert(v, p) PROVE DedupInv'
  BY <1>1, <1>2, <1>10, ResolveDedup DEF Insert, TypeOK, Leading
<1>11. ASSUME NEW v \in Views, NEW p \in Plies, InsertLocked(v, p) PROVE DedupInv'
  BY <1>1, <1>2, <1>11, ResolveDedup DEF InsertLocked, dbVars, TypeOK, Leading
<1>12. ASSUME NEW v \in Views, NEW p \in Plies, Expire(v, p) PROVE DedupInv'
  BY <1>1, <1>12, ExpireDedup
<1>13. ASSUME NEW k \in Keys, Backfill(k) PROVE DedupInv'
  <2>1. UNCHANGED <<pc, game, missing, shown, taskVars, writer, uncommitted>>
        /\ rows' = rows \cup {k}
    BY <1>13 DEF Backfill, requestVars
  <2>2. QED
    BY <1>1, <1>2, <2>1, QuietDedup DEF TypeOK
<1>14. ASSUME UNCHANGED vars PROVE DedupInv'
  BY <1>1, <1>2, <1>14, QuietDedup DEF vars, requestVars, dbVars, TypeOK
<1>15. QED
  BY <1>1, <1>3, <1>4, <1>5, <1>6, <1>7, <1>8, <1>9, <1>10, <1>11, <1>12, <1>13, <1>14
     DEF Next, ViewStep, TaskStep
-----------------------------------------------------------------------------
(* What a view found stays cached until it is answered, and what it stored  *)
(* is in its transaction until the commit and in the table after it.        *)
FoundIsCached == \A v \in Views : pc[v] # "idle" => Plies \ missing[v] \subseteq Cached(game[v])

StoredIsKept ==
  \A v \in Views, p \in Plies : task[v][p] = "stored" =>
    \/ pc[v] = "gather" /\ p \in uncommitted[v]
    \/ pc[v] \in {"reread", "idle"} /\ <<game[v], p>> \in rows

StoreInv == WriteLockIsInUse /\ FoundIsCached /\ StoredIsKept /\ OwnResultsShown

LEMMA StoreInit == Init => StoreInv
BY DEF Init, StoreInv, WriteLockIsInUse, FoundIsCached, StoredIsKept, OwnResultsShown

LEMMA OpenStore ==
  ASSUME TypeOK, StoreInv, NEW v \in Views, NEW g \in Games,
         OpenHit(v, g) \/ OpenMiss(v, g)
  PROVE  StoreInv'
<1>1. /\ pc[v] = "idle"
      /\ game' = [game EXCEPT ![v] = g]
      /\ task' = [task EXCEPT ![v] = [p \in Plies |-> "none"]]
      /\ UNCHANGED <<writer, uncommitted, rows>>
  BY DEF OpenHit, OpenMiss, dbVars
<1>2. \A w \in Views \ {v} :
        /\ pc'[w] = pc[w] /\ game'[w] = game[w] /\ task'[w] = task[w]
        /\ missing'[w] = missing[w] /\ shown'[w] = shown[w]
  BY DEF OpenHit, OpenMiss, TypeOK
<1>3. \A p \in Plies : task'[v][p] = "none"
  BY <1>1 DEF TypeOK
<1>4. /\ pc'[v] = "idle" => missing'[v] = {} /\ shown'[v] = Plies
      /\ pc'[v] # "idle" => missing'[v] = Plies \ Cached(g)
      /\ game'[v] = g
  BY <1>1 DEF OpenHit, OpenMiss, TypeOK
<1>5. WriteLockIsInUse'
  BY <1>1, <1>2 DEF StoreInv, WriteLockIsInUse, TypeOK
<1>6. FoundIsCached'
  <2>1. Cached(g)' = Cached(g) /\ Plies \ (Plies \ Cached(g)) \subseteq Cached(g)
    BY <1>1 DEF Cached
  <2>2. \A w \in Views \ {v} : Cached(game[w])' = Cached(game[w])
    BY <1>1, <1>2 DEF Cached
  <2>3. QED
    BY <1>1, <1>2, <1>4, <2>1, <2>2 DEF StoreInv, FoundIsCached, Cached
<1>7. StoredIsKept'
  BY <1>1, <1>2, <1>3 DEF StoreInv, StoredIsKept
<1>8. OwnResultsShown'
  BY <1>2, <1>3, <1>4 DEF StoreInv, OwnResultsShown
<1>9. QED
  BY <1>5, <1>6, <1>7, <1>8 DEF StoreInv

(* Of the steps of a view's tasks only a successful insert stores anything. *)
LEMMA TaskStore ==
  ASSUME DedupInv, StoreInv, UNCHANGED requestVars,
         rows \subseteq rows',
         \A w \in Views, q \in Plies :
           task'[w][q] = "stored" /\ task[w][q] # "stored" =>
             pc[w] = "gather" /\ q \in uncommitted'[w],
         \A w \in Views : uncommitted[w] \subseteq uncommitted'[w],
         \A w \in Views, q \in Plies : task[w][q] = "stored" => task'[w][q] = "stored",
         WriteLockIsInUse'
  PROVE  StoreInv'
<1>1. UNCHANGED <<pc, game, missing, shown>>
  BY DEF requestVars
<1>2. \A w \in Views : Cached(game[w]) \subseteq Cached(game[w])'
  BY <1>1 DEF Cached
<1>3. FoundIsCached'
  BY <1>1, <1>2 DEF StoreInv, FoundIsCached, Cached
<1>4. StoredIsKept'
  BY <1>1 DEF StoreInv, StoredIsKept
<1>5. OwnResultsShown'
  BY <1>1 DEF StoreInv, OwnResultsShown
<1>6. QED
  BY <1>3, <1>4, <1>5 DEF StoreInv

(* The end of a leading task, of which the others' outcome is never         *)
(* "stored": a follower hears.                                              *)
LEMMA ResolveStored ==
  ASSUME TypeOK, NEW v \in Views, NEW p \in Plies, task[v][p] \in Leading,
         NEW outcome \in {"stored", "failed", "locked"}, Resolve(v, p, outcome)
  PROVE  /\ UNCHANGED requestVars
         /\ \A w \in Views, q \in Plies : task[w][q] = "stored" => task'[w][q] = "stored"
         /\ \A w \in Views, q \in Plies :
              task'[w][q] = "stored" /\ task[w][q] # "stored" =>
                w = v /\ q = p /\ outcome = "stored"
<1>1. \A w \in Views, q \in Plies :
        task'[w][q] = IF w = v /\ q = p THEN outcome
                      ELSE IF q = p /\ Follows(w, v, p) THEN Heard(outcome)
                      ELSE task[w][q]
  BY DEF TypeOK, Resolve, Settle
<1>2. QED
  BY <1>1 DEF Resolve, Settle, Follows, Leading, Heard

LEMMA StoreStep == DedupInv /\ StoreInv /\ [Next]_vars => StoreInv'
<1>1. SUFFICES ASSUME DedupInv, StoreInv, [Next]_vars PROVE StoreInv'
  OBVIOUS
<1>2. TypeOK
  BY <1>1 DEF DedupInv
<1>3. ASSUME NEW v \in Views, NEW g \in Games, OpenHit(v, g) \/ OpenMiss(v, g)
      PROVE  StoreInv'
  BY <1>1, <1>2, <1>3, OpenStore
<1>4. ASSUME NEW v \in Views, Start(v) PROVE StoreInv'
  <2>1. /\ pc[v] = "missing" /\ pc' = [pc EXCEPT ![v] = "gather"]
        /\ UNCHANGED <<game, missing, shown, writer, uncommitted, rows>>
        /\ \A w \in Views \ {v} : task'[w] = task[w]
        /\ \A p \in Plies : task'[v][p] # "stored"
    BY <1>2, <1>4 DEF Start, TypeOK, dbVars
  <2>2. WriteLockIsInUse'
    BY <1>1, <1>2, <2>1 DEF StoreInv, WriteLockIsInUse, TypeOK
  <2>3. FoundIsCached'
    BY <1>1, <1>2, <2>1 DEF StoreInv, FoundIsCached, Cached, TypeOK
  <2>4. StoredIsKept'
    BY <1>1, <1>2, <2>1 DEF StoreInv, StoredIsKept, TypeOK
  <2>5. OwnResultsShown'
    BY <1>1, <1>2, <2>1 DEF StoreInv, OwnResultsShown, TypeOK
  <2>6. QED
    BY <2>2, <2>3, <2>4, <2>5 DEF StoreInv
<1>5. ASSUME NEW v \in Views, Commit(v) PROVE StoreInv'
  <2>1. /\ pc[v] = "gather" /\ pc' = [pc EXCEPT ![v] = "reread"]
        /\ uncommitted' = [uncommitted EXCEPT ![v] = {}]
        /\ rows' = rows \cup ({game[v]} \X uncommitted[v])
        /\ writer' = IF writer = v THEN NoView ELSE writer
        /\ UNCHANGED <<game, missing, shown, task>>
    BY <1>2, <1>5, CommitTypes
  <2>2. WriteLockIsInUse'
    BY <1>1, <1>2, <2>1, ViewAssumption DEF StoreInv, WriteLockIsInUse, TypeOK
  <2>3. FoundIsCached'
    BY <1>1, <1>2, <2>1 DEF StoreInv, FoundIsCached, Cached, TypeOK
  <2>4. StoredIsKept'
    BY <1>1, <1>2, <2>1 DEF StoreInv, StoredIsKept, TypeOK
  <2>5. OwnResultsShown'
    BY <1>1, <1>2, <2>1 DEF StoreInv, OwnResultsShown, TypeOK
  <2>6. QED
    BY <2>2, <2>3, <2>4, <2>5 DEF StoreInv
<1>6. ASSUME NEW v \in Views, Reread(v) PROVE StoreInv'
  <2>1. /\ pc[v] = "reread" /\ pc' = [pc EXCEPT ![v] = "idle"]
        /\ shown' = [shown EXCEPT ![v] =
                       (Plies \ missing[v]) \cup (missing[v] \cap Cached(game[v]))]
        /\ UNCHANGED <<game, missing, task, writer, uncommitted, rows>>
    BY <1>6 DEF Reread, taskVars, dbVars
  <2>2. WriteLockIsInUse'
    BY <1>1, <1>2, <2>1 DEF StoreInv, WriteLockIsInUse, TypeOK
  <2>3. FoundIsCached'
    BY <1>1, <1>2, <2>1 DEF StoreInv, FoundIsCached, Cached, TypeOK
  <2>4. StoredIsKept'
    BY <1>1, <1>2, <2>1 DEF StoreInv, StoredIsKept, TypeOK
  <2>5. OwnResultsShown'
    BY <1>1, <1>2, <2>1 DEF StoreInv, OwnResultsShown, StoredIsKept, Cached, TypeOK
  <2>6. QED
    BY <2>2, <2>3, <2>4, <2>5 DEF StoreInv
<1>7. ASSUME NEW v \in Views, NEW p \in Plies, Analysed(v, p) PROVE StoreInv'
  <2>1. /\ UNCHANGED <<requestVars, writer, uncommitted, rows>>
        /\ \A w \in Views, q \in Plies : task'[w][q] = "stored" <=> task[w][q] = "stored"
    BY <1>2, <1>7 DEF Analysed, dbVars, TypeOK
  <2>2. WriteLockIsInUse'
    BY <1>1, <2>1 DEF StoreInv, WriteLockIsInUse, requestVars
  <2>3. QED
    BY <1>1, <2>1, <2>2, TaskStore
<1>8. ASSUME NEW v \in Views, NEW p \in Plies, AnalysisFails(v, p) \/ InsertLocked(v, p)
      PROVE  StoreInv'
  <2>1. /\ task[v][p] \in Leading
        /\ Resolve(v, p, "failed") \/ Resolve(v, p, "locked")
        /\ UNCHANGED <<writer, uncommitted, rows>>
    BY <1>8 DEF AnalysisFails, InsertLocked, dbVars, Leading
  <2>2. /\ UNCHANGED requestVars
        /\ \A w \in Views, q \in Plies : task'[w][q] = "stored" <=> task[w][q] = "stored"
    BY <1>2, <2>1, ResolveStored
  <2>3. WriteLockIsInUse'
    BY <1>1, <2>1, <2>2 DEF StoreInv, WriteLockIsInUse, requestVars
  <2>4. QED
    BY <1>1, <2>1, <2>2, <2>3, TaskStore
<1>9. ASSUME NEW v \in Views, NEW p \in Plies, Insert(v, p) PROVE StoreInv'
  <2>1. /\ task[v][p] \in Leading
        /\ Resolve(v, p, "stored")
        /\ writer \in {NoView, v} /\ writer' = v
        /\ uncommitted' = [uncommitted EXCEPT ![v] = @ \cup {p}]
        /\ rows' = rows
    BY <1>9 DEF Insert, Leading
  <2>2. /\ UNCHANGED requestVars
        /\ \A w \in Views, q \in Plies : task[w][q] = "stored" => task'[w][q] = "stored"
        /\ \A w \in Views, q \in Plies :
             task'[w][q] = "stored" /\ task[w][q] # "stored" => w = v /\ q = p
    BY <1>2, <2>1, ResolveStored
  <2>3. pc[v] = "gather" /\ p \in uncommitted'[v]
    BY <1>1, <1>2, <2>1 DEF DedupInv, RunningInGather, TypeOK
  <2>4. \A w \in Views : uncommitted[w] \subseteq uncommitted'[w]
    BY <1>2, <2>1 DEF TypeOK
  <2>5. WriteLockIsInUse'
    BY <1>1, <1>2, <2>1, <2>2, <2>3, ViewAssumption
       DEF StoreInv, WriteLockIsInUse, TypeOK, requestVars
  <2>6. QED
    BY <1>1, <2>1, <2>2, <2>3, <2>4, <2>5, TaskStore
<1>10. ASSUME NEW v \in Views, NEW p \in Plies, Expire(v, p) PROVE StoreInv'
  <2>1. UNCHANGED <<requestVars, task, writer, uncommitted, rows>>
    BY <1>10 DEF Expire, dbVars
  <2>2. WriteLockIsInUse'
    BY <1>1, <2>1 DEF StoreInv, WriteLockIsInUse, requestVars
  <2>3. QED
    BY <1>1, <2>1, <2>2, TaskStore
<1>11. ASSUME NEW k \in Keys, Backfill(k) PROVE StoreInv'
  <2>1. UNCHANGED <<requestVars, task, writer, uncommitted>> /\ rows \subseteq rows'
    BY <1>11 DEF Backfill, taskVars
  <2>2. WriteLockIsInUse'
    BY <1>1, <2>1 DEF StoreInv, WriteLockIsInUse, requestVars
  <2>3. QED
    BY <1>1, <2>1, <2>2, TaskStore
<1>12. ASSUME UNCHANGED vars PROVE StoreInv'
  <2>1. UNCHANGED <<requestVars, task, writer, uncommitted, rows>>
    BY <1>12 DEF vars, taskVars, dbVars
  <2>2. WriteLockIsInUse'
    BY <1>1, <2>1 DEF StoreInv, WriteLockIsInUse, requestVars
  <2>3. QED
    BY <1>1, <2>1, <2>2, TaskStore
<1>13. QED
  BY <1>1, <1>3, <1>4, <1>5, <1>6, <1>7, <1>8, <1>9, <1>10, <1>11, <1>12
     DEF Next, ViewStep, TaskStep
-----------------------------------------------------------------------------
LEMMA Inductive == Spec => [](DedupInv /\ StoreInv)
<1>1. Init => DedupInv /\ StoreInv
  BY DedupInit, StoreInit
<1>2. DedupInv /\ StoreInv /\ [Next]_vars => (DedupInv /\ StoreInv)'
  BY DedupStep, StoreStep
<1>3. QED
  BY <1>1, <1>2, PTL DEF Spec

(* The route's variables keep their types (eval_graph.py), in particular    *)
(* only positions of the games get rows.                                    *)
THEOREM TypeCorrect == Spec => []TypeOK
<1>1. DedupInv => TypeOK
  BY DEF DedupInv
<1>2. QED
  BY <1>1, Inductive, PTL

(* Whoever awaits a future of _inflight awaits one that a running leading   *)
(* task of the same position will resolve.                                  *)
THEOREM FuturesAreResolved == Spec => []FollowersAreServed
<1>1. DedupInv => FollowersAreServed
  BY DEF DedupInv
<1>2. QED
  BY <1>1, Inductive, PTL

(* _inflight holds no entry of a task that has ended.                       *)
THEOREM NoEntryLeftBehind == Spec => []EntriesAreRunning
<1>1. DedupInv => EntriesAreRunning
  BY DEF DedupInv
<1>2. QED
  BY <1>1, Inductive, PTL

(* At most one analysis of a position runs at a time, unless one of them    *)
(* has outlived the TTL of its entry: both leaders would be registered.     *)
THEOREM OneAnalysis == Spec => []OneAnalysisUnlessOutlived
<1>1. DedupInv => OneAnalysisUnlessOutlived
  <2>1. SUFFICES ASSUME DedupInv, NEW k \in Keys, k \notin outlived,
                        NEW v \in Views, NEW w \in Views, Leads(v, k), Leads(w, k)
                 PROVE  v = w
    BY DEF OneAnalysisUnlessOutlived
  <2>2. k[2] \in Plies /\ k = <<game[v], k[2]>> /\ k = <<game[w], k[2]>>
    BY <2>1 DEF Keys, Leads
  <2>3. inflight[k] = v /\ inflight[k] = w
    BY <2>1, <2>2 DEF DedupInv, RegisteredUnlessOutlived, Leads
  <2>4. QED
    BY <2>3
<1>2. QED
  BY <1>1, Inductive, PTL

(* SQLite's write lock is owned by a view that gathers and has inserted,    *)
(* and uncommitted rows belong to its owner.                                *)
THEOREM NoLockLeftBehind == Spec => []WriteLockIsInUse
<1>1. StoreInv => WriteLockIsInUse
  BY DEF StoreInv
<1>2. QED
  BY <1>1, Inductive, PTL

(* An answer shows what its view found in the cache and what it stored.     *)
THEOREM OwnResults == Spec => []OwnResultsShown
<1>1. StoreInv => OwnResultsShown
  BY DEF StoreInv
<1>2. QED
  BY <1>1, Inductive, PTL

(* The steps of the route are steps of the abstract cache, or leave it as   *)
(* it is: opening asks, committing fills, rereading answers.                *)
LEMMA CacheStep == DedupInv /\ StoreInv /\ [Next]_vars => [Cache!Next]_(Cache!cacheVars)
<1> DEFINE asked == [v \in Views |-> IF pc[v] = "idle" THEN {} ELSE {game[v]}]
           hit == [v \in Views |-> IF pc[v] = "idle" THEN {} ELSE Plies \ missing[v]]
<1>1. SUFFICES ASSUME DedupInv, StoreInv, [Next]_vars
               PROVE  Cache!Next \/ UNCHANGED <<rows, asked, hit, shown>>
  BY DEF Cache!cacheVars
<1>2. TypeOK /\ TypeOK'
  BY <1>1, DedupStep DEF DedupInv
<1>3. \A g \in Games : Cache!Cached(g) = Cached(g)
  BY DEF Cache!Cached, Cached
<1>4. ASSUME NEW v \in Views, NEW g \in Games, OpenHit(v, g)
      PROVE  Cache!AnswerHit(v, g)
  <2>1. /\ pc[v] = "idle" /\ pc' = pc
        /\ Cached(g) = Plies
        /\ shown' = [shown EXCEPT ![v] = Plies]
        /\ rows' = rows
        /\ game' = [game EXCEPT ![v] = g]
        /\ missing' = [missing EXCEPT ![v] = {}]
    BY <1>4 DEF OpenHit, dbVars
  <2>2. asked[v] = {} /\ asked' = asked /\ hit' = hit
    BY <1>2, <2>1 DEF TypeOK
  <2>3. QED
    BY <1>3, <2>1, <2>2 DEF Cache!AnswerHit
<1>5. ASSUME NEW v \in Views, NEW g \in Games, OpenMiss(v, g)
      PROVE  Cache!Ask(v, g)
  <2>1. /\ pc[v] = "idle" /\ pc' = [pc EXCEPT ![v] = "missing"]
        /\ shown' = [shown EXCEPT ![v] = {}]
        /\ rows' = rows
        /\ game' = [game EXCEPT ![v] = g]
        /\ missing' = [missing EXCEPT ![v] = Plies \ Cached(g)]
    BY <1>5 DEF OpenMiss, dbVars
  <2>2. Plies \ (Plies \ Cached(g)) = Cached(g)
    BY DEF Cached
  <2>3. /\ asked[v] = {}
        /\ asked' = [asked EXCEPT ![v] = {g}]
        /\ hit' = [hit EXCEPT ![v] = Cached(g)]
    BY <1>2, <2>1, <2>2 DEF TypeOK
  <2>4. QED
    BY <1>3, <2>1, <2>3 DEF Cache!Ask
<1>6. ASSUME NEW v \in Views, Start(v)
      PROVE  UNCHANGED <<rows, asked, hit, shown>>
  <2>1. /\ pc[v] = "missing" /\ pc' = [pc EXCEPT ![v] = "gather"]
        /\ UNCHANGED <<game, missing, shown, rows>>
    BY <1>6 DEF Start, dbVars
  <2>2. QED
    BY <1>2, <2>1 DEF TypeOK
<1>7. ASSUME NEW v \in Views, Commit(v)
      PROVE  Cache!Fill
  <2>1. /\ pc[v] = "gather" /\ pc' = [pc EXCEPT ![v] = "reread"]
        /\ UNCHANGED <<game, missing, shown>>
        /\ rows \subseteq rows'
    BY <1>2, <1>7, CommitTypes
  <2>2. asked' = asked /\ hit' = hit
    BY <1>2, <2>1 DEF TypeOK
  <2>3. rows' \subseteq Games \X Plies
    BY <1>2 DEF TypeOK, Keys
  <2>4. QED
    BY <2>1, <2>2, <2>3 DEF Cache!Fill
<1>8. ASSUME NEW v \in Views, NEW g \in Games, g = game[v], Reread(v)
      PROVE  Cache!Answer(v, g)
  <2>1. /\ pc[v] = "reread" /\ pc' = [pc EXCEPT ![v] = "idle"]
        /\ shown' = [shown EXCEPT ![v] =
                       (Plies \ missing[v]) \cup (missing[v] \cap Cached(game[v]))]
        /\ UNCHANGED <<game, missing, rows>>
    BY <1>8 DEF Reread, taskVars, dbVars
  <2>2. Plies \ missing[v] \subseteq Cached(game[v])
    BY <1>1, <2>1 DEF StoreInv, FoundIsCached
  <2>3. (Plies \ missing[v]) \cup (missing[v] \cap Cached(game[v])) = Cached(game[v])
    BY <2>2 DEF Cached
  <2>4. /\ asked[v] = {game[v]} /\ hit[v] = Plies \ missing[v]
        /\ asked' = [asked EXCEPT ![v] = {}]
        /\ hit' = [hit EXCEPT ![v] = {}]
    BY <1>2, <2>1 DEF TypeOK
  <2>5. QED
    BY <1>3, <1>8, <2>1, <2>2, <2>3, <2>4 DEF Cache!Answer
<1>9. ASSUME NEW v \in Views, NEW p \in Plies, TaskStep(v, p) \/ Expire(v, p)
      PROVE  UNCHANGED <<rows, asked, hit, shown>>
  <2>1. UNCHANGED <<requestVars, rows>>
    BY <1>9 DEF TaskStep, Analysed, AnalysisFails, Insert, InsertLocked, Expire,
                Resolve, Settle, dbVars
  <2>2. QED
    BY <2>1 DEF requestVars
<1>10. ASSUME NEW k \in Keys, Backfill(k)
       PROVE  Cache!Fill
  <2>1. UNCHANGED requestVars /\ rows' = rows \cup {k}
    BY <1>10 DEF Backfill
  <2>2. rows \subseteq rows' /\ rows' \subseteq Games \X Plies
    BY <1>2, <2>1 DEF TypeOK, Keys
  <2>3. asked' = asked /\ hit' = hit /\ shown' = shown
    BY <2>1 DEF requestVars
  <2>4. QED
    BY <2>2, <2>3 DEF Cache!Fill
<1>11. ASSUME UNCHANGED vars
       PROVE  UNCHANGED <<rows, asked, hit, shown>>
  BY <1>11 DEF vars, requestVars, dbVars
<1>12. /\ \A v \in Views, g \in Games :
            Cache!AnswerHit(v, g) \/ Cache!Ask(v, g) \/ Cache!Answer(v, g) => Cache!Next
       /\ Cache!Fill => Cache!Next
  BY DEF Cache!Next
<1>13. \A v \in Views : game[v] \in Games
  BY <1>2 DEF TypeOK
<1> HIDE DEF asked, hit
<1>14. ASSUME NEW v \in Views, NEW g \in Games, OpenHit(v, g) \/ OpenMiss(v, g)
       PROVE  Cache!Next
  BY <1>4, <1>5, <1>12, <1>14
<1>15. ASSUME NEW v \in Views, ViewStep(v)
       PROVE  Cache!Next \/ UNCHANGED <<rows, asked, hit, shown>>
  <2>1. CASE Start(v)
    BY <1>6, <2>1
  <2>2. CASE Commit(v)
    BY <1>7, <1>12, <2>2
  <2>3. CASE Reread(v)
    <3>1. PICK g \in Games : g = game[v]
      BY <1>13
    <3>2. Cache!Answer(v, g)
      BY <1>8, <2>3, <3>1
    <3>3. QED
      BY <1>12, <3>2
  <2>4. QED
    BY <1>15, <2>1, <2>2, <2>3 DEF ViewStep
<1>16. ASSUME NEW k \in Keys, Backfill(k)
       PROVE  Cache!Next
  BY <1>10, <1>12, <1>16
<1>17. QED
  BY <1>1, <1>9, <1>11, <1>14, <1>15, <1>16 DEF Next

(* The dedup's three properties together.                                   *)
THEOREM DedupSound == Spec => []DedupIsSound
  BY FuturesAreResolved, NoEntryLeftBehind, OneAnalysis, PTL DEF DedupIsSound

(* The store's two properties together.                                     *)
THEOREM StoreSound == Spec => []StoreIsSound
  BY NoLockLeftBehind, OwnResults, PTL DEF StoreIsSound

(* The route of the evaluation graph, with its futures, transactions and    *)
(* failures, implements a cache that only grows: an answer shows exactly    *)
(* what is cached when it is given, which includes all that was cached      *)
(* when the view was opened.                                                *)
THEOREM RouteImplementsCache == Spec => CacheSpec
<1>1. Init => Cache!Init
  BY DEF Init, Cache!Init
<1>2. QED
  BY <1>1, CacheStep, Inductive, PTL DEF Spec, CacheSpec, Cache!Spec
=============================================================================
