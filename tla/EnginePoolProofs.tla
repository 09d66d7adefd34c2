--------------------------- MODULE EnginePoolProofs ---------------------------
(***************************************************************************)
(* Theorems about EnginePool for every set of clients and engines, every   *)
(* number of workers and every set of multipv values.                      *)
(***************************************************************************)
EXTENDS EnginePool, FiniteSetTheorems, SequenceTheorems, TLAPS

(* A slot's lock can only be released by a request that works under it, and *)
(* Tail() of its queue is a queue only because that request is its head: so *)
(* the types and the ownership of the locks are one inductive invariant.    *)
LockInv == TypeOK /\ HolderHasLock

LEMMA SlotIsSlot ==
  ASSUME TypeOK, NEW r \in Reqs
  PROVE  /\ SlotOf(r) \in Slots
         /\ SlotOf(r)[1] \in Engines
BY DEF TypeOK, SlotOf, Slots, Jobs

LEMMA ZeroIsIndex == 0 \in Indices /\ MaxWorkers > 0
BY PoolAssumption DEF Indices

LEMMA OptionIsMultiPV ==
  ASSUME NEW j \in Jobs, NEW m \in MultiPVs
  PROVE  OptionAfter(j, m) \in MultiPVs
BY PoolAssumption DEF OptionAfter, Jobs

(* Every exit from the pool preserves the types of what it touches.         *)
LEMMA FinishTypes ==
  ASSUME TypeOK, NEW r \in Reqs, HasLock(r),
         NEW reply \in Failures \cup Results, Finish(r, reply)
  PROVE  /\ pc' \in [Reqs -> PCs]
         /\ resp' \in [Reqs -> Failures \cup Results]
         /\ permits' \in Nat
         /\ admission' \in Seq(Reqs)
         /\ queue' \in [Slots -> Seq(Reqs)]
         /\ UNCHANGED <<phase, cold, job, at, rr>>
<1>1. /\ SlotOf(r) \in Slots
      /\ queue[SlotOf(r)] # <<>>
  BY SlotIsSlot DEF HasLock
<1>2. queue' \in [Slots -> Seq(Reqs)]
  BY <1>1 DEF Finish, TypeOK
<1>3. resp' \in [Reqs -> Failures \cup Results]
  BY DEF Finish, TypeOK
<1>4. /\ pc' \in [Reqs -> PCs]
      /\ permits' \in Nat
      /\ admission' \in Seq(Reqs)
  <2>1. CASE job[r].kind = "info"
    BY <2>1 DEF Finish, TypeOK, semVars, PCs
  <2>2. CASE job[r].kind = "analyze" /\ admission = <<>>
    <3>1. /\ permits' = permits + 1
          /\ pc' = [pc EXCEPT ![r] = "idle"]
          /\ admission' = admission
      BY <2>2 DEF Finish
    <3>2. QED
      BY <3>1 DEF TypeOK, PCs
  <2>3. CASE job[r].kind = "analyze" /\ admission # <<>>
    <3>1. Head(admission) \in Reqs /\ Tail(admission) \in Seq(Reqs)
      BY <2>3 DEF TypeOK
    <3>2. QED
      BY <2>3, <3>1 DEF Finish, TypeOK, PCs, WithoutWoken
  <2>4. QED
    BY <2>1, <2>2, <2>3 DEF TypeOK, Jobs
<1>5. QED
  BY <1>2, <1>3, <1>4 DEF Finish

(* An exit leaves every other request that works under a lock at its head.  *)
LEMMA FinishHolders ==
  ASSUME LockInv, NEW r \in Reqs, pc[r] \in Working,
         NEW reply \in Failures \cup Results, Finish(r, reply)
  PROVE  HolderHasLock'
<1>1. SUFFICES ASSUME NEW q \in Reqs, pc'[q] \in Working
               PROVE  HasLock(q)'
  BY DEF HolderHasLock
<1>2. q # r /\ pc[q] = pc'[q]
  BY <1>1 DEF Finish, LockInv, TypeOK, Working, semVars
<1>3. HasLock(q) /\ HasLock(r)
  BY <1>1, <1>2 DEF LockInv, HolderHasLock
<1>4. SlotOf(q) # SlotOf(r)
  BY <1>2, <1>3 DEF HasLock
<1>5. /\ SlotOf(q)' = SlotOf(q)
      /\ queue'[SlotOf(q)] = queue[SlotOf(q)]
  BY <1>4, SlotIsSlot DEF Finish, SlotOf, LockInv, TypeOK
<1>6. QED
  BY <1>3, <1>5 DEF HasLock

LEMMA LockInvInit == Init => LockInv
<1>1. SUFFICES ASSUME Init PROVE TypeOK /\ HolderHasLock
  BY DEF LockInv
<1>2. HolderHasLock
  BY <1>1 DEF Init, HolderHasLock, Working
<1>3. job \in [Reqs -> Jobs]
  BY <1>1 DEF Init, Jobs
<1>4. resp \in [Reqs -> Failures \cup Results]
  BY <1>1 DEF Init, Failures, Reply
<1>5. /\ pc \in [Reqs -> PCs]
      /\ at \in [Reqs -> Indices]
      /\ permits \in Nat
      /\ rr \in [Engines -> Indices]
      /\ multipv \in [Slots -> MultiPVs]
  BY <1>1, ZeroIsIndex, PoolAssumption DEF Init, PCs
<1>6. /\ queue \in [Slots -> Seq(Reqs)]
      /\ searches \in [Slots -> Seq(Searches)]
      /\ admission \in Seq(Reqs)
  BY <1>1 DEF Init
<1>7. QED
  BY <1>1, <1>2, <1>3, <1>4, <1>5, <1>6 DEF TypeOK, Init

(* What a request that leaves the region of its slot's lock preserves, given *)
(* that the action it leaves by keeps the types of the slots.               *)
LEMMA FinishLockInv ==
  ASSUME LockInv, NEW r \in Reqs, pc[r] \in Working,
         NEW reply \in Failures \cup Results, Finish(r, reply),
         worker' \in [Slots -> {"none", "live", "dead"}],
         multipv' \in [Slots -> MultiPVs],
         searches' \in [Slots -> Seq(Searches)],
         acquired' \subseteq Engines
  PROVE  LockInv'
<1>1. HasLock(r)
  BY DEF LockInv, HolderHasLock
<1>2. HolderHasLock'
  BY FinishHolders
<1>3. /\ pc' \in [Reqs -> PCs]
      /\ resp' \in [Reqs -> Failures \cup Results]
      /\ permits' \in Nat
      /\ admission' \in Seq(Reqs)
      /\ queue' \in [Slots -> Seq(Reqs)]
      /\ UNCHANGED <<phase, cold, job, at, rr>>
  BY <1>1, FinishTypes DEF LockInv
<1>4. QED
  BY <1>2, <1>3 DEF LockInv, TypeOK

(* Actions of one request r that add to queues at most: the other holders   *)
(* stay where they are.                                                     *)
LEMMA OtherHolders ==
  ASSUME LockInv, NEW r \in Reqs,
         \A q \in Reqs \ {r} :
           pc'[q] = pc[q] /\ job'[q] = job[q] /\ at'[q] = at[q],
         \A s \in Slots : queue[s] # <<>> =>
           queue'[s] # <<>> /\ Head(queue'[s]) = Head(queue[s]),
         pc'[r] \in Working => HasLock(r)'
  PROVE  HolderHasLock'
<1>1. SUFFICES ASSUME NEW q \in Reqs, q # r, pc'[q] \in Working
               PROVE  HasLock(q)'
  BY DEF HolderHasLock
<1>2. HasLock(q) /\ SlotOf(q) \in Slots
  BY <1>1, SlotIsSlot DEF LockInv, HolderHasLock
<1>3. SlotOf(q)' = SlotOf(q)
  BY <1>1 DEF SlotOf
<1>4. QED
  BY <1>2, <1>3 DEF HasLock

LEMMA AppendKeepsHead ==
  ASSUME TypeOK, NEW t \in Slots, NEW r \in Reqs,
         queue' = [queue EXCEPT ![t] = Enqueue(@, r)]
  PROVE  /\ queue' \in [Slots -> Seq(Reqs)]
         /\ \A s \in Slots : queue[s] # <<>> =>
              queue'[s] # <<>> /\ Head(queue'[s]) = Head(queue[s])
<1>1. queue' \in [Slots -> Seq(Reqs)]
  BY DEF TypeOK, Enqueue
<1>2. ASSUME NEW s \in Slots, queue[s] # <<>>
      PROVE  queue'[s] # <<>> /\ Head(queue'[s]) = Head(queue[s])
  <2>1. CASE s = t
    BY <1>2, <2>1 DEF TypeOK, Enqueue
  <2>2. CASE s # t
    BY <1>2, <2>2 DEF TypeOK, Enqueue
  <2>3. QED
    BY <2>1, <2>2
<1>3. QED
  BY <1>1, <1>2

(* Launching a process, at boot or by a request, keeps the slots' types.    *)
LEMMA LaunchTypes ==
  ASSUME TypeOK, NEW s \in Slots, NEW j \in Jobs, Launch(s, j)
  PROVE  /\ worker' \in [Slots -> {"none", "live", "dead"}]
         /\ multipv' \in [Slots -> MultiPVs]
         /\ searches' \in [Slots -> Seq(Searches)]
         /\ acquired' \subseteq Engines
<1>1. OptionAfter(j, 1) \in MultiPVs
  BY OptionIsMultiPV, PoolAssumption
<1>2. s[1] \in Engines
  BY DEF Slots
<1>3. QED
  BY <1>1, <1>2 DEF Launch, TypeOK

LEMMA LockInvNext == LockInv /\ [Next]_vars => LockInv'
<1> SUFFICES ASSUME LockInv, [Next]_vars PROVE LockInv'
  OBVIOUS
<1>t. TypeOK /\ HolderHasLock
  BY DEF LockInv
<1>reply. \A st \in {"none", "info", "refused", "hung", "error"} :
            Reply(st) \in Failures \cup Results
  BY DEF Reply, Failures
<1>1. ASSUME NEW s \in Slots, Warmup(s) PROVE LockInv'
  <2>1. HolderHasLock'
    BY <1>t, <1>1 DEF Warmup, HolderHasLock, HasLock, SlotOf, reqVars
  <2>2. [kind |-> "info", engine |-> s[1], multipv |-> 1] \in Jobs
    BY DEF Jobs, Slots
  <2>3. /\ worker' \in [Slots -> {"none", "live", "dead"}]
        /\ multipv' \in [Slots -> MultiPVs]
        /\ searches' \in [Slots -> Seq(Searches)]
        /\ acquired' \subseteq Engines
    <3>1. CASE UNCHANGED slotVars
      BY <3>1, <1>t DEF slotVars, TypeOK
    <3>2. CASE Launch(s, [kind |-> "info", engine |-> s[1], multipv |-> 1])
      BY <3>2, <2>2, <1>t, LaunchTypes
    <3>3. QED
      BY <3>1, <3>2, <1>1 DEF Warmup
  <2>4. QED
    BY <2>1, <2>3, <1>t, <1>1 DEF Warmup, TypeOK, LockInv, reqVars, semVars
<1>2. ASSUME NEW s \in Slots, Crash(s) PROVE LockInv'
  <2>1. HolderHasLock'
    BY <1>t, <1>2 DEF Crash, HolderHasLock, HasLock, SlotOf, reqVars
  <2>2. TypeOK'
    BY <1>t, <1>2 DEF Crash, TypeOK, reqVars, semVars
  <2>3. QED
    BY <2>1, <2>2 DEF LockInv
<1>3. ASSUME NEW r \in Reqs, NEW j \in Jobs, Refuse(r, j) PROVE LockInv'
  <2>1. pc'[r] \notin Working
    BY <1>3 DEF Refuse, Working
  <2>2. HolderHasLock'
    BY <1>t, <1>3, <2>1, OtherHolders DEF Refuse, TypeOK
  <2>3. TypeOK'
    BY <1>t, <1>3, <1>reply DEF Refuse, TypeOK, semVars, slotVars
  <2>4. QED
    BY <2>2, <2>3 DEF LockInv
<1>4. ASSUME NEW r \in Reqs, NEW j \in Jobs, EnterAnalyze(r, j) PROVE LockInv'
  <2>1. pc' \in [Reqs -> PCs] /\ pc'[r] \notin Working
    <3>1. PICK p \in {"admitted", "admission"} : pc' = [pc EXCEPT ![r] = p]
      BY <1>4 DEF EnterAnalyze
    <3>2. QED
      BY <3>1, <1>t DEF Working, TypeOK, PCs
  <2>2. HolderHasLock'
    <3>1. \A q \in Reqs \ {r} : pc'[q] = pc[q]
      BY <1>t, <1>4 DEF EnterAnalyze, TypeOK
    <3>2. QED
      BY <1>t, <1>4, <2>1, <3>1, OtherHolders DEF EnterAnalyze, TypeOK
  <2>3. permits' \in Nat /\ admission' \in Seq(Reqs)
    <3>1. CASE permits > 0 /\ permits' = permits - 1 /\ UNCHANGED admission
      BY <3>1, <1>t DEF TypeOK
    <3>2. CASE admission' = Append(admission, r) /\ UNCHANGED permits
      BY <3>2, <1>t DEF TypeOK
    <3>3. QED
      BY <1>4, <3>1, <3>2 DEF EnterAnalyze, Enqueue
  <2>4. TypeOK'
    BY <1>t, <1>4, <1>reply, <2>1, <2>3 DEF EnterAnalyze, TypeOK, slotVars
  <2>5. QED
    BY <2>2, <2>4 DEF LockInv
<1>5. ASSUME NEW r \in Reqs, NEW j \in Jobs, EnterInfo(r, j) PROVE LockInv'
  <2>1. pc' \in [Reqs -> PCs] /\ pc'[r] \notin Working
    BY <1>5, <1>t DEF EnterInfo, Working, TypeOK, PCs
  <2>2. <<j.engine, 0>> \in Slots
    BY ZeroIsIndex DEF Slots, Jobs
  <2>3. /\ queue' \in [Slots -> Seq(Reqs)]
        /\ \A s \in Slots : queue[s] # <<>> =>
             queue'[s] # <<>> /\ Head(queue'[s]) = Head(queue[s])
    BY <1>5, <1>t, <2>2, AppendKeepsHead DEF EnterInfo
  <2>4. HolderHasLock'
    BY <1>t, <1>5, <2>1, <2>3, OtherHolders DEF EnterInfo, TypeOK
  <2>5. TypeOK'
    BY <1>t, <1>5, <1>reply, <2>1, <2>3, ZeroIsIndex
       DEF EnterInfo, TypeOK, semVars, slotVars
  <2>6. QED
    BY <2>4, <2>5 DEF LockInv
<1>6. ASSUME NEW r \in Reqs, PickSlot(r) PROVE LockInv'
  <2>1. pc' \in [Reqs -> PCs] /\ pc'[r] \notin Working
    BY <1>6, <1>t DEF PickSlot, Working, TypeOK, PCs
  <2>2. /\ job[r].engine \in Engines
        /\ rr[job[r].engine] \in Indices
        /\ <<job[r].engine, rr[job[r].engine]>> \in Slots
    BY <1>t DEF Slots, Jobs, TypeOK
  <2>3. /\ queue' \in [Slots -> Seq(Reqs)]
        /\ \A s \in Slots : queue[s] # <<>> =>
             queue'[s] # <<>> /\ Head(queue'[s]) = Head(queue[s])
    BY <1>6, <1>t, <2>2, AppendKeepsHead DEF PickSlot
  <2>4. HolderHasLock'
    BY <1>t, <1>6, <2>1, <2>3, OtherHolders DEF PickSlot, TypeOK
  <2>5. \A i \in Indices : NextCursor(i) \in Indices
    BY PoolAssumption DEF Indices, NextCursor
  <2>6. TypeOK'
    BY <1>t, <1>6, <2>1, <2>2, <2>3, <2>5 DEF PickSlot, TypeOK, semVars, slotVars
  <2>7. QED
    BY <2>4, <2>6 DEF LockInv
<1>7. ASSUME NEW r \in Reqs, AcquireFresh(r) PROVE LockInv'
  <2>1. HasLock(r)'
    BY <1>7 DEF AcquireFresh, HasLock, SlotOf
  <2>2. HolderHasLock'
    BY <1>t, <1>7, <2>1, OtherHolders DEF AcquireFresh, TypeOK
  <2>3. TypeOK'
    BY <1>t, <1>7 DEF AcquireFresh, TypeOK, PCs, semVars, slotVars
  <2>4. QED
    BY <2>2, <2>3 DEF LockInv
<1>8. ASSUME NEW r \in Reqs, AcquireReuse(r) PROVE LockInv'
  <2>1. HasLock(r)'
    BY <1>8 DEF AcquireReuse, HasLock, SlotOf
  <2>2. HolderHasLock'
    BY <1>t, <1>8, <2>1, OtherHolders DEF AcquireReuse, TypeOK
  <2>3. \A m \in MultiPVs : OptionAfter(job[r], m) \in MultiPVs
    BY <1>t, OptionIsMultiPV DEF TypeOK
  <2>4. multipv' \in [Slots -> MultiPVs]
    BY <1>t, <1>8, <2>3, SlotIsSlot DEF AcquireReuse, TypeOK
  <2>5. TypeOK'
    BY <1>t, <1>8, <2>4 DEF AcquireReuse, TypeOK, PCs, semVars
  <2>6. QED
    BY <2>2, <2>5 DEF LockInv
<1>9. ASSUME NEW r \in Reqs, StartEngine(r) PROVE LockInv'
  <2>1. HasLock(r)
    BY <1>t, <1>9 DEF StartEngine, HolderHasLock, Working
  <2>2. HolderHasLock'
    BY <1>t, <1>9, <2>1, OtherHolders DEF StartEngine, TypeOK, HasLock, SlotOf
  <2>3. SlotOf(r) \in Slots /\ job[r] \in Jobs
    BY <1>t, SlotIsSlot DEF TypeOK
  <2>4. /\ worker' \in [Slots -> {"none", "live", "dead"}]
        /\ multipv' \in [Slots -> MultiPVs]
        /\ searches' \in [Slots -> Seq(Searches)]
        /\ acquired' \subseteq Engines
    BY <1>t, <1>9, <2>3, LaunchTypes DEF StartEngine
  <2>5. TypeOK'
    BY <1>t, <1>9, <2>4 DEF StartEngine, TypeOK, PCs, semVars
  <2>6. QED
    BY <2>2, <2>5 DEF LockInv
<1>10. ASSUME NEW r \in Reqs, StartFails(r) PROVE LockInv'
  <2>1. pc[r] \in Working
    BY <1>10 DEF StartFails, Working
  <2>2. QED
    BY <1>10, <1>t, <1>reply, <2>1, FinishLockInv DEF StartFails, TypeOK, slotVars
<1>11. ASSUME NEW r \in Reqs, ReportInfo(r) PROVE LockInv'
  <2>1. pc[r] \in Working
    BY <1>11 DEF ReportInfo, Working
  <2>2. QED
    BY <1>11, <1>t, <1>reply, <2>1, FinishLockInv DEF ReportInfo, TypeOK, slotVars
<1>12. ASSUME NEW r \in Reqs, Go(r) PROVE LockInv'
  <2>1. HasLock(r)
    BY <1>t, <1>12 DEF Go, HolderHasLock, Working
  <2>2. HolderHasLock'
    BY <1>t, <1>12, <2>1, OtherHolders DEF Go, TypeOK, HasLock, SlotOf
  <2>3. SlotOf(r) \in Slots
    BY <1>t, SlotIsSlot
  <2>4. [fen |-> r, multipv |-> multipv[SlotOf(r)]] \in Searches
    BY <1>t, <2>3 DEF TypeOK, Searches
  <2>5. searches' \in [Slots -> Seq(Searches)]
    BY <1>t, <1>12, <2>3, <2>4 DEF Go, TypeOK
  <2>6. TypeOK'
    BY <1>t, <1>12, <2>5 DEF Go, TypeOK, PCs, semVars
  <2>7. QED
    BY <2>2, <2>6 DEF LockInv
<1>13. ASSUME NEW r \in Reqs, EngineGone(r) PROVE LockInv'
  <2>1. pc[r] \in Working
    BY <1>13 DEF EngineGone, Working
  <2>2. QED
    BY <1>13, <1>t, <1>reply, <2>1, FinishLockInv DEF EngineGone, TypeOK, slotVars
<1>14. ASSUME NEW r \in Reqs, Answer(r) PROVE LockInv'
  <2>1. pc[r] \in Working
    BY <1>14 DEF Answer, Working
  <2>2. SlotOf(r) \in Slots
    BY <1>t, SlotIsSlot
  <2>3. /\ Head(searches[SlotOf(r)]) \in Searches
        /\ Tail(searches[SlotOf(r)]) \in Seq(Searches)
    BY <1>t, <1>14, <2>2 DEF Answer, TypeOK
  <2>4. [status |-> "ok", fen |-> Head(searches[SlotOf(r)]).fen,
         pvs |-> Head(searches[SlotOf(r)]).multipv] \in Failures \cup Results
    BY <2>3 DEF Searches, Results
  <2>5. searches' \in [Slots -> Seq(Searches)]
    BY <1>t, <1>14, <2>2, <2>3 DEF Answer, TypeOK
  <2>6. PICK reply \in Failures \cup Results : Finish(r, reply)
    BY <1>14, <1>reply, <2>4 DEF Answer
  <2>7. QED
    BY <1>t, <1>14, <2>1, <2>5, <2>6, FinishLockInv DEF Answer, TypeOK
<1>15. ASSUME NEW r \in Reqs, Timeout(r) PROVE LockInv'
  <2>1. HasLock(r)
    BY <1>t, <1>15 DEF Timeout, HolderHasLock, Working
  <2>2. HolderHasLock'
    BY <1>t, <1>15, <2>1, OtherHolders DEF Timeout, TypeOK, HasLock, SlotOf
  <2>3. SlotOf(r) \in Slots
    BY <1>t, SlotIsSlot
  <2>4. /\ worker' \in [Slots -> {"none", "live", "dead"}]
        /\ searches' \in [Slots -> Seq(Searches)]
    BY <1>t, <1>15, <2>3 DEF Timeout, TypeOK
  <2>5. TypeOK'
    BY <1>t, <1>15, <2>4 DEF Timeout, TypeOK, PCs, semVars
  <2>6. QED
    BY <2>2, <2>5 DEF LockInv
<1>16. ASSUME NEW r \in Reqs, Reap(r) PROVE LockInv'
  <2>1. pc[r] \in Working
    BY <1>16 DEF Reap, Working
  <2>2. worker' \in [Slots -> {"none", "live", "dead"}]
    BY <1>t, <1>16, SlotIsSlot DEF Reap, TypeOK
  <2>3. QED
    BY <1>t, <1>16, <1>reply, <2>1, <2>2, FinishLockInv DEF Reap, TypeOK
<1>17. CASE Drain
  <2>1. HolderHasLock'
    BY <1>t, <1>17 DEF Drain, HolderHasLock, HasLock, SlotOf, reqVars
  <2>2. TypeOK'
    BY <1>t, <1>17 DEF Drain, TypeOK, reqVars, semVars, slotVars
  <2>3. QED
    BY <2>1, <2>2 DEF LockInv
<1>18. CASE Shutdown
  <2>1. HolderHasLock'
    BY <1>t, <1>18 DEF Shutdown, HolderHasLock, HasLock, SlotOf, reqVars
  <2>2. worker' \in [Slots -> {"none", "live", "dead"}]
    BY <1>t, <1>18 DEF Shutdown, TypeOK
  <2>3. TypeOK'
    BY <1>t, <1>18, <2>2 DEF Shutdown, TypeOK, reqVars, semVars
  <2>4. QED
    BY <2>1, <2>3 DEF LockInv
<1>19. CASE UNCHANGED vars
  <2>1. HolderHasLock'
    BY <1>t, <1>19 DEF vars, HolderHasLock, HasLock, SlotOf, reqVars
  <2>2. TypeOK'
    BY <1>t, <1>19 DEF vars, TypeOK, reqVars, semVars, slotVars
  <2>3. QED
    BY <2>1, <2>2 DEF LockInv
<1>20. QED
  BY <1>1, <1>2, <1>3, <1>4, <1>5, <1>6, <1>7, <1>8, <1>9, <1>10, <1>11, <1>12,
     <1>13, <1>14, <1>15, <1>16, <1>17, <1>18, <1>19
     DEF Next, Arrive, Handshake, Proceed, Stopped

LEMMA LockInvariant == Spec => []LockInv
<1>1. LockInv /\ [Next]_vars => LockInv'
  BY LockInvNext
<1>2. QED
  BY LockInvInit, <1>1, PTL DEF Spec

(* The variables always have the types the comments of pool.py give them.   *)
THEOREM TypeCorrect == Spec => []TypeOK
<1>1. LockInv => TypeOK
  BY DEF LockInv
<1>2. QED
  BY LockInvariant, <1>1, PTL

(* asyncio.Lock is held by whoever runs in the region of _EngineSlot.lock.  *)
THEOREM HolderOwnsLock == Spec => []HolderHasLock
<1>1. LockInv => HolderHasLock
  BY DEF LockInv
<1>2. QED
  BY LockInvariant, <1>1, PTL

LEMMA HoldersExclude == LockInv => SlotExclusion
BY DEF LockInv, HolderHasLock, SlotExclusion, HasLock

(* "the same slot is never touched by two coroutines concurrently", for     *)
(* every number of clients, slots and engines and whatever fails.           *)
THEOREM MutualExclusion == Spec => []SlotExclusion
BY LockInvariant, HoldersExclude, PTL

-----------------------------------------------------------------------------
(* Permits.  A permit is returned exactly once because the queue of _sem    *)
(* holds suspended analyses, each once: the permit of a request that leaves *)
(* goes to one that had none.                                               *)
SemInv == LockInv /\ AdmissionIsWaiting /\ NoIdlePermit /\ PermitsAccounted

LEMMA HoldersFinite ==
  IsFiniteSet(PermitHolders) /\ Cardinality(PermitHolders) \in Nat
BY PoolAssumption, FS_Subset, FS_CardinalityType DEF PermitHolders

(* Actions that leave the semaphore alone, admit nobody and dismiss nobody. *)
LEMMA PermitsStay ==
  ASSUME SemInv, UNCHANGED semVars,
         \A q \in Reqs : pc[q] = "admission" =>
           pc'[q] = "admission" /\ job'[q] = job[q],
         \A q \in Reqs : (pc'[q] \in Admitted /\ job'[q].kind = "analyze")
                      <=> (pc[q] \in Admitted /\ job[q].kind = "analyze")
  PROVE  AdmissionIsWaiting' /\ NoIdlePermit' /\ PermitsAccounted'
<1>1. PermitHolders' = PermitHolders
  BY DEF PermitHolders
<1>2. admission' = admission /\ permits' = permits
  BY DEF semVars
<1>3. AdmissionIsWaiting'
  <2>1. \A i \in 1 .. Len(admission) : admission[i] \in Reqs
    BY DEF SemInv, LockInv, TypeOK
  <2>2. QED
    BY <1>2, <2>1 DEF SemInv, AdmissionIsWaiting
<1>4. QED
  BY <1>1, <1>2, <1>3 DEF SemInv, NoIdlePermit, PermitsAccounted

(* One coroutine advances inside the region its permit, if any, covers.     *)
LEMMA AdvanceKeepsPermits ==
  ASSUME SemInv, NEW r \in Reqs, pc[r] \in Admitted,
         NEW to \in Admitted, pc' = [pc EXCEPT ![r] = to],
         UNCHANGED <<job, semVars>>
  PROVE  AdmissionIsWaiting' /\ NoIdlePermit' /\ PermitsAccounted'
<1>1. pc \in [Reqs -> PCs]
  BY DEF SemInv, LockInv, TypeOK
<1>2. pc[r] # "admission"
  BY DEF Admitted
<1>3. \A q \in Reqs : pc'[q] = IF q = r THEN to ELSE pc[q]
  BY <1>1
<1>4. QED
  BY <1>2, <1>3, PermitsStay

LEMMA FinishKeepsPermits ==
  ASSUME SemInv, NEW r \in Reqs, pc[r] \in Working, NEW reply, Finish(r, reply)
  PROVE  AdmissionIsWaiting' /\ NoIdlePermit' /\ PermitsAccounted'
<1>t. /\ pc \in [Reqs -> PCs]
      /\ job \in [Reqs -> Jobs]
      /\ job' = job
      /\ admission \in Seq(Reqs)
      /\ permits \in Nat
  BY DEF SemInv, LockInv, TypeOK, Finish
<1>r. pc[r] \in Admitted /\ pc[r] # "admission"
  BY DEF Working, Admitted
<1>1. CASE job[r].kind = "info"
  <2>1. pc' = [pc EXCEPT ![r] = "idle"] /\ UNCHANGED semVars
    BY <1>1 DEF Finish
  <2>2. \A q \in Reqs : pc'[q] = IF q = r THEN "idle" ELSE pc[q]
    BY <1>t, <2>1
  <2>3. QED
    BY <1>t, <1>r, <1>1, <2>1, <2>2, PermitsStay DEF Admitted
<1>2. CASE job[r].kind = "analyze" /\ admission = <<>>
  <2>1. /\ permits' = permits + 1
        /\ pc' = [pc EXCEPT ![r] = "idle"]
        /\ admission' = <<>>
    BY <1>2 DEF Finish
  <2>2. PermitHolders' = PermitHolders \ {r}
    BY <1>t, <2>1 DEF PermitHolders, Admitted
  <2>3. r \in PermitHolders
    BY <1>r, <1>2 DEF PermitHolders
  <2>4. Cardinality(PermitHolders') = Cardinality(PermitHolders) - 1
    BY <2>2, <2>3, HoldersFinite, FS_RemoveElement
  <2>5. PermitsAccounted'
    BY <1>t, <2>1, <2>4, HoldersFinite, PoolAssumption DEF SemInv, PermitsAccounted
  <2>6. AdmissionIsWaiting' /\ NoIdlePermit'
    BY <2>1 DEF AdmissionIsWaiting, NoIdlePermit
  <2>7. QED
    BY <2>5, <2>6
<1>3. CASE job[r].kind = "analyze" /\ admission # <<>>
  <2> DEFINE h == Head(admission)
  <2>1. /\ admission' = Tail(admission)
        /\ pc' = [pc EXCEPT ![r] = "idle", ![h] = "admitted"]
        /\ permits' = permits
    BY <1>3 DEF Finish, WithoutWoken
  <2>2. /\ h \in Reqs
        /\ h = admission[1]
        /\ 1 \in 1 .. Len(admission)
    BY <1>t, <1>3
  <2>3. pc[h] = "admission" /\ job[h].kind = "analyze" /\ h # r
    BY <1>r, <2>2 DEF SemInv, AdmissionIsWaiting
  <2> HIDE DEF h
  <2>4. \A q \in Reqs : pc'[q] = IF q = h THEN "admitted"
                                ELSE IF q = r THEN "idle" ELSE pc[q]
    BY <1>t, <2>1, <2>2, <2>3
  <2>5. PermitHolders' = (PermitHolders \ {r}) \cup {h}
    BY <1>t, <2>2, <2>3, <2>4 DEF PermitHolders, Admitted
  <2>6. r \in PermitHolders /\ h \notin PermitHolders
    BY <1>r, <1>3, <2>3 DEF PermitHolders, Admitted
  <2>7. Cardinality(PermitHolders') = Cardinality(PermitHolders)
    <3>1. /\ IsFiniteSet(PermitHolders \ {r})
          /\ Cardinality(PermitHolders \ {r}) = Cardinality(PermitHolders) - 1
      BY <2>6, HoldersFinite, FS_RemoveElement
    <3>2. Cardinality(PermitHolders') = Cardinality(PermitHolders \ {r}) + 1
      BY <2>5, <2>6, <3>1, FS_AddElement
    <3>3. QED
      BY <3>1, <3>2, HoldersFinite
  <2>8. PermitsAccounted'
    BY <2>1, <2>7 DEF SemInv, PermitsAccounted
  <2>9. NoIdlePermit'
    BY <1>3, <2>1 DEF SemInv, NoIdlePermit
  <2>10. /\ Len(admission') = Len(admission) - 1
         /\ \A i \in 1 .. Len(admission') :
              admission'[i] = admission[i + 1] /\ i + 1 \in 1 .. Len(admission)
    BY <1>t, <1>3, <2>1
  <2>11. ASSUME NEW i \in 1 .. Len(admission')
         PROVE  /\ pc'[admission'[i]] = "admission"
                /\ job'[admission'[i]].kind = "analyze"
    <3>1. /\ admission'[i] = admission[i + 1]
          /\ i + 1 \in 1 .. Len(admission)
          /\ i + 1 # 1
      BY <2>10, <2>11, <1>t
    <3>2. /\ admission[i + 1] \in Reqs
          /\ pc[admission[i + 1]] = "admission"
          /\ job[admission[i + 1]].kind = "analyze"
      BY <1>t, <3>1 DEF SemInv, AdmissionIsWaiting
    <3>3. admission[i + 1] # h /\ admission[i + 1] # r
      BY <1>r, <2>2, <3>1, <3>2 DEF SemInv, AdmissionIsWaiting
    <3>4. QED
      BY <1>t, <2>4, <3>1, <3>2, <3>3
  <2>12. ASSUME NEW i \in 1 .. Len(admission'), NEW k \in 1 .. Len(admission'),
                admission'[i] = admission'[k]
         PROVE  i = k
    <3>1. i + 1 = k + 1
      BY <2>10, <2>12 DEF SemInv, AdmissionIsWaiting
    <3>2. QED
      BY <3>1, <1>t, <2>10
  <2>13. AdmissionIsWaiting'
    BY <2>11, <2>12 DEF AdmissionIsWaiting
  <2>14. QED
    BY <2>8, <2>9, <2>13
<1>4. QED
  BY <1>1, <1>2, <1>3, <1>t DEF Jobs

LEMMA EnterKeepsPermits ==
  ASSUME SemInv, NEW r \in Reqs, NEW j \in Jobs, EnterAnalyze(r, j)
  PROVE  AdmissionIsWaiting' /\ NoIdlePermit' /\ PermitsAccounted'
<1>t. /\ pc \in [Reqs -> PCs]
      /\ job \in [Reqs -> Jobs]
      /\ admission \in Seq(Reqs)
      /\ permits \in Nat
  BY DEF SemInv, LockInv, TypeOK
<1>r. /\ pc[r] = "idle"
      /\ job' = [job EXCEPT ![r] = j]
      /\ j.kind = "analyze"
  BY DEF EnterAnalyze
<1>1. CASE permits > 0
  <2>1. /\ permits' = permits - 1
        /\ pc' = [pc EXCEPT ![r] = "admitted"]
        /\ admission' = admission
    BY <1>1, <1>t DEF EnterAnalyze
  <2>2. admission = <<>>
    BY <1>1 DEF SemInv, NoIdlePermit
  <2>3. PermitHolders' = PermitHolders \cup {r} /\ r \notin PermitHolders
    BY <1>t, <1>r, <2>1 DEF PermitHolders, Admitted
  <2>4. Cardinality(PermitHolders') = Cardinality(PermitHolders) + 1
    BY <2>3, HoldersFinite, FS_AddElement
  <2>5. PermitsAccounted'
    BY <1>t, <1>1, <2>1, <2>4, HoldersFinite, PoolAssumption DEF SemInv, PermitsAccounted
  <2>6. QED
    BY <2>1, <2>2, <2>5 DEF AdmissionIsWaiting, NoIdlePermit
<1>2. CASE permits = 0
  <2>1. /\ admission' = Append(admission, r)
        /\ pc' = [pc EXCEPT ![r] = "admission"]
        /\ permits' = permits
    BY <1>2, <1>t DEF EnterAnalyze, Enqueue
  <2>2. PermitHolders' = PermitHolders
    BY <1>t, <1>r, <2>1 DEF PermitHolders, Admitted
  <2>3. PermitsAccounted' /\ NoIdlePermit'
    BY <1>2, <2>1, <2>2 DEF SemInv, PermitsAccounted, NoIdlePermit
  <2>4. /\ Len(admission') = Len(admission) + 1
        /\ \A i \in 1 .. Len(admission) :
             admission'[i] = admission[i] /\ admission[i] \in Reqs
        /\ admission'[Len(admission) + 1] = r
    BY <1>t, <2>1
  <2>5. \A i \in 1 .. Len(admission) :
          /\ admission[i] # r
          /\ pc'[admission[i]] = "admission"
          /\ job'[admission[i]].kind = "analyze"
    BY <1>t, <1>r, <2>1, <2>4 DEF SemInv, AdmissionIsWaiting
  <2>6. pc'[r] = "admission" /\ job'[r].kind = "analyze"
    BY <1>t, <1>r, <2>1
  <2>7. \A i \in 1 .. Len(admission') :
          i \in 1 .. Len(admission) \/ i = Len(admission) + 1
    BY <1>t, <2>4
  <2>8. \A i \in 1 .. Len(admission') :
          pc'[admission'[i]] = "admission" /\ job'[admission'[i]].kind = "analyze"
    BY <2>4, <2>5, <2>6, <2>7
  <2>9. \A i, k \in 1 .. Len(admission') : admission'[i] = admission'[k] => i = k
    BY <2>4, <2>5, <2>7 DEF SemInv, AdmissionIsWaiting
  <2>10. QED
    BY <2>3, <2>8, <2>9 DEF AdmissionIsWaiting
<1>3. QED
  BY <1>1, <1>2, <1>t

LEMMA SemInvInit == Init => SemInv
<1>1. SUFFICES ASSUME Init PROVE SemInv
  OBVIOUS
<1>2. PermitHolders = {}
  BY <1>1 DEF Init, PermitHolders, Admitted
<1>3. PermitsAccounted
  BY <1>1, <1>2, FS_EmptySet, PoolAssumption DEF Init, PermitsAccounted
<1>4. AdmissionIsWaiting /\ NoIdlePermit
  BY <1>1 DEF Init, AdmissionIsWaiting, NoIdlePermit
<1>5. QED
  BY <1>1, <1>3, <1>4, LockInvInit DEF SemInv

LEMMA SemInvNext == SemInv /\ [Next]_vars => SemInv'
<1> SUFFICES ASSUME SemInv, [Next]_vars PROVE SemInv'
  OBVIOUS
<1>l. LockInv'
  BY LockInvNext DEF SemInv
<1>t. /\ pc \in [Reqs -> PCs]
      /\ job \in [Reqs -> Jobs]
  BY DEF SemInv, LockInv, TypeOK
<1> SUFFICES AdmissionIsWaiting' /\ NoIdlePermit' /\ PermitsAccounted'
  BY <1>l DEF SemInv
<1> DEFINE Goal == AdmissionIsWaiting' /\ NoIdlePermit' /\ PermitsAccounted'
<1>1. ASSUME NEW s \in Slots, Warmup(s) \/ Crash(s) PROVE Goal
  BY <1>1, PermitsStay DEF Warmup, Crash, reqVars
<1>2. ASSUME NEW r \in Reqs, NEW j \in Jobs, Refuse(r, j) PROVE Goal
  BY <1>2, <1>t, PermitsStay DEF Refuse, Admitted
<1>3. ASSUME NEW r \in Reqs, NEW j \in Jobs, EnterAnalyze(r, j) PROVE Goal
  BY <1>3, EnterKeepsPermits
<1>4. ASSUME NEW r \in Reqs, NEW j \in Jobs, EnterInfo(r, j) PROVE Goal
  <2>1. \A q \in Reqs : /\ pc'[q] = IF q = r THEN "lock" ELSE pc[q]
                        /\ job'[q] = IF q = r THEN j ELSE job[q]
    BY <1>4, <1>t DEF EnterInfo
  <2>2. /\ pc[r] = "idle"
        /\ j.kind # "analyze"
        /\ UNCHANGED semVars
    BY <1>4 DEF EnterInfo
  <2>3. QED
    BY <2>1, <2>2, PermitsStay DEF Admitted
<1>5. ASSUME NEW r \in Reqs, PickSlot(r) PROVE Goal
  BY <1>5, AdvanceKeepsPermits DEF PickSlot, Admitted
<1>6. ASSUME NEW r \in Reqs, AcquireFresh(r) \/ AcquireReuse(r) PROVE Goal
  BY <1>6, AdvanceKeepsPermits DEF AcquireFresh, AcquireReuse, Admitted
<1>7. ASSUME NEW r \in Reqs, StartEngine(r) \/ Go(r) \/ Timeout(r) PROVE Goal
  BY <1>7, AdvanceKeepsPermits DEF StartEngine, Go, Timeout, Admitted
<1>8. ASSUME NEW r \in Reqs,
             StartFails(r) \/ ReportInfo(r) \/ EngineGone(r) \/ Answer(r) \/ Reap(r)
      PROVE  Goal
  <2>1. pc[r] \in Working
    BY <1>8 DEF StartFails, ReportInfo, EngineGone, Answer, Reap, Working
  <2>2. \E reply : Finish(r, reply)
    BY <1>8 DEF StartFails, ReportInfo, EngineGone, Answer, Reap
  <2>3. QED
    BY <2>1, <2>2, FinishKeepsPermits
<1>9. CASE Drain \/ Shutdown \/ UNCHANGED vars
  BY <1>9, PermitsStay DEF Drain, Shutdown, vars, reqVars
<1>10. QED
  BY <1>1, <1>2, <1>3, <1>4, <1>5, <1>6, <1>7, <1>8, <1>9
     DEF Next, Arrive, Handshake, Proceed, Stopped

LEMMA SemInvariant == Spec => []SemInv
<1>1. SemInv /\ [Next]_vars => SemInv'
  BY SemInvNext
<1>2. QED
  BY SemInvInit, <1>1, PTL DEF Spec

(* No path through analyze() loses a permit of _sem or returns one twice.   *)
THEOREM PermitConservation == Spec => []PermitsAccounted
<1>1. SemInv => PermitsAccounted
  BY DEF SemInv
<1>2. QED
  BY SemInvariant, <1>1, PTL

(* No analysis is suspended on _sem while a permit is free.                 *)
THEOREM NoLostWakeup == Spec => []NoIdlePermit
<1>1. SemInv => NoIdlePermit
  BY DEF SemInv
<1>2. QED
  BY SemInvariant, <1>1, PTL

(* _sem suspends each analysis at most once and never an admitted one.      *)
THEOREM AdmissionWaits == Spec => []AdmissionIsWaiting
<1>1. SemInv => AdmissionIsWaiting
  BY DEF SemInv
<1>2. QED
  BY SemInvariant, <1>1, PTL

-----------------------------------------------------------------------------
(* Slot queues.  A lock loses no waiter: a request enters the queue of its  *)
(* slot once, keeps its place until it is the holder, and leaves from there.*)
Joined(s, r) == \E i \in 1 .. Len(queue[s]) : queue[s][i] = r

(* Actions that leave the locks alone and move nobody in or out of Queued.  *)
LEMMA QueuesStay ==
  ASSUME QueuesAreWaiters, queue' = queue,
         \A q \in Reqs : pc'[q] \in Queued <=> pc[q] \in Queued,
         \A q \in Reqs : pc[q] \in Queued => job'[q] = job[q] /\ at'[q] = at[q]
  PROVE  QueuesAreWaiters'
BY DEF QueuesAreWaiters, SlotOf

(* A request joins the queue of the slot it was given.                      *)
LEMMA QueueJoins ==
  ASSUME LockInv, QueuesAreWaiters,
         NEW r \in Reqs, pc[r] \notin Queued,
         NEW t \in Slots,
         queue' = [queue EXCEPT ![t] = Append(@, r)],
         pc' = [pc EXCEPT ![r] = "lock"],
         SlotOf(r)' = t,
         \A q \in Reqs \ {r} : job'[q] = job[q] /\ at'[q] = at[q]
  PROVE  QueuesAreWaiters'
<1>t. pc \in [Reqs -> PCs] /\ queue \in [Slots -> Seq(Reqs)]
  BY DEF LockInv, TypeOK
<1>1. \A q \in Reqs : pc'[q] = IF q = r THEN "lock" ELSE pc[q]
  BY <1>t
<1>2. \A q \in Reqs \ {r} : SlotOf(q)' = SlotOf(q)
  BY DEF SlotOf
<1>3. "lock" \in Queued
  BY DEF Queued
<1>4. \A s \in Slots : ~Joined(s, r)
  BY DEF QueuesAreWaiters, Joined
<1>5. ASSUME NEW s \in Slots, s # t
      PROVE  /\ \A i, k \in 1 .. Len(queue'[s]) : queue'[s][i] = queue'[s][k] => i = k
             /\ \A q \in Reqs : (pc'[q] \in Queued /\ SlotOf(q)' = s)
                  <=> \E i \in 1 .. Len(queue'[s]) : queue'[s][i] = q
  <2>1. queue'[s] = queue[s]
    BY <1>t, <1>5
  <2>2. ~ \E i \in 1 .. Len(queue[s]) : queue[s][i] = r
    BY <1>4 DEF Joined
  <2>3. QED
    BY <1>1, <1>2, <1>5, <2>1, <2>2 DEF QueuesAreWaiters
<1>6. /\ \A i, k \in 1 .. Len(queue'[t]) : queue'[t][i] = queue'[t][k] => i = k
      /\ \A q \in Reqs : (pc'[q] \in Queued /\ SlotOf(q)' = t)
           <=> \E i \in 1 .. Len(queue'[t]) : queue'[t][i] = q
  <2> DEFINE n == Len(queue[t])
  <2>1. /\ n \in Nat
        /\ Len(queue'[t]) = n + 1
        /\ \A i \in 1 .. n : queue'[t][i] = queue[t][i]
        /\ queue'[t][n + 1] = r
    BY <1>t
  <2>2. \A i \in 1 .. n : queue[t][i] # r
    BY <1>4 DEF Joined
  <2>3. \A i \in 1 .. n + 1 : i \in 1 .. n \/ i = n + 1
    BY <2>1
  <2>4. \A i \in 1 .. n : i \in 1 .. n + 1
    BY <2>1
  <2>5. \A i, k \in 1 .. n : queue[t][i] = queue[t][k] => i = k
    BY DEF QueuesAreWaiters
  <2>6. \A q \in Reqs : (pc[q] \in Queued /\ SlotOf(q) = t)
                    <=> \E i \in 1 .. n : queue[t][i] = q
    BY DEF QueuesAreWaiters
  <2>7. n + 1 \in 1 .. n + 1
    BY <2>1
  <2> HIDE DEF n
  <2>8. \A i, k \in 1 .. n + 1 : queue'[t][i] = queue'[t][k] => i = k
    BY <2>1, <2>2, <2>3, <2>5
  <2>9. ASSUME NEW q \in Reqs
        PROVE  (pc'[q] \in Queued /\ SlotOf(q)' = t)
                 <=> \E i \in 1 .. n + 1 : queue'[t][i] = q
    <3>1. CASE q = r
      BY <1>1, <1>3, <2>1, <2>7, <3>1
    <3>2. CASE q # r
      <4>1. (pc'[q] \in Queued /\ SlotOf(q)' = t)
              <=> \E i \in 1 .. n : queue[t][i] = q
        BY <1>1, <1>2, <2>6, <3>2
      <4>2. (\E i \in 1 .. n : queue[t][i] = q)
              <=> \E i \in 1 .. n + 1 : queue'[t][i] = q
        BY <2>1, <2>3, <2>4, <3>2
      <4>3. QED
        BY <4>1, <4>2
    <3>3. QED
      BY <3>1, <3>2
  <2>10. QED
    BY <2>1, <2>8, <2>9
<1>7. QED
  BY <1>5, <1>6 DEF QueuesAreWaiters

(* The holder leaves, and only the head of its slot's queue goes with it;   *)
(* the analysis that is woken by its permit was in no slot's queue.         *)
LEMMA QueueLeaves ==
  ASSUME SemInv, QueuesAreWaiters,
         NEW r \in Reqs, pc[r] \in Working, NEW reply, Finish(r, reply)
  PROVE  QueuesAreWaiters'
<1>t. /\ pc \in [Reqs -> PCs]
      /\ queue \in [Slots -> Seq(Reqs)]
      /\ admission \in Seq(Reqs)
      /\ job \in [Reqs -> Jobs]
      /\ SlotOf(r) \in Slots
  BY SlotIsSlot DEF SemInv, LockInv, TypeOK
<1> DEFINE t == SlotOf(r)
<1>1. /\ queue' = [queue EXCEPT ![t] = Tail(@)]
      /\ \A q \in Reqs : SlotOf(q)' = SlotOf(q)
  BY DEF Finish, SlotOf
<1>2. queue[t] # <<>> /\ Head(queue[t]) = r /\ pc[r] \in Queued
  BY DEF SemInv, LockInv, HolderHasLock, HasLock, Working, Queued
<1>3. \A q \in Reqs : pc'[q] \in Queued <=> (q # r /\ pc[q] \in Queued)
  <2>1. CASE pc' = [pc EXCEPT ![r] = "idle"]
    BY <1>t, <2>1 DEF Queued
  <2>2. CASE admission # <<>> /\ pc' = [pc EXCEPT ![r] = "idle", ![Head(admission)] = "admitted"]
    <3> DEFINE h == Head(admission)
    <3>1. h \in Reqs /\ h = admission[1] /\ 1 \in 1 .. Len(admission)
      BY <1>t, <2>2
    <3>2. pc[h] = "admission"
      BY <3>1 DEF SemInv, AdmissionIsWaiting
    <3>3. h # r
      BY <1>2, <3>2 DEF Queued
    <3> HIDE DEF h
    <3>4. \A q \in Reqs : pc'[q] = IF q = h THEN "admitted"
                                  ELSE IF q = r THEN "idle" ELSE pc[q]
      BY <1>t, <2>2, <3>1, <3>3 DEF h
    <3>5. QED
      BY <3>2, <3>4 DEF Queued
  <2>3. QED
    BY <2>1, <2>2 DEF Finish
<1> HIDE DEF t
<1>4. ASSUME NEW s \in Slots, s # t
      PROVE  /\ \A i, k \in 1 .. Len(queue'[s]) : queue'[s][i] = queue'[s][k] => i = k
             /\ \A q \in Reqs : (pc'[q] \in Queued /\ SlotOf(q)' = s)
                  <=> \E i \in 1 .. Len(queue'[s]) : queue'[s][i] = q
  <2>1. queue'[s] = queue[s]
    BY <1>t, <1>1, <1>4
  <2>2. SlotOf(r) # s
    BY <1>4 DEF t
  <2>3. \A i, k \in 1 .. Len(queue[s]) : queue[s][i] = queue[s][k] => i = k
    BY DEF QueuesAreWaiters
  <2>4. \A q \in Reqs : (pc[q] \in Queued /\ SlotOf(q) = s)
                    <=> \E i \in 1 .. Len(queue[s]) : queue[s][i] = q
    BY DEF QueuesAreWaiters
  <2>5. \A q \in Reqs : (pc'[q] \in Queued /\ SlotOf(q)' = s)
                    <=> (pc[q] \in Queued /\ SlotOf(q) = s)
    BY <1>1, <1>3, <2>2
  <2>6. QED
    BY <2>1, <2>3, <2>4, <2>5
<1>5. /\ \A i, k \in 1 .. Len(queue'[t]) : queue'[t][i] = queue'[t][k] => i = k
      /\ \A q \in Reqs : (pc'[q] \in Queued /\ SlotOf(q)' = t)
           <=> \E i \in 1 .. Len(queue'[t]) : queue'[t][i] = q
  <2> DEFINE n == Len(queue[t])
  <2>0. t \in Slots
    BY <1>t DEF t
  <2>1. /\ n \in Nat \ {0}
        /\ queue[t][1] = r
        /\ Len(queue'[t]) = n - 1
        /\ \A i \in 1 .. n - 1 : queue'[t][i] = queue[t][i + 1]
    BY <1>t, <1>1, <1>2, <2>0
  <2>2. \A i, k \in 1 .. n : queue[t][i] = queue[t][k] => i = k
    BY <2>0 DEF QueuesAreWaiters
  <2>3. \A q \in Reqs : (pc[q] \in Queued /\ SlotOf(q) = t)
                    <=> \E i \in 1 .. n : queue[t][i] = q
    BY <2>0 DEF QueuesAreWaiters
  <2> HIDE DEF n
  <2>4. \A i \in 1 .. n - 1 : i + 1 \in 1 .. n /\ i + 1 # 1
    BY <2>1
  <2>5. \A i \in 1 .. n : i = 1 \/ (i - 1 \in 1 .. n - 1 /\ (i - 1) + 1 = i)
    BY <2>1
  <2>6. \A i, k \in 1 .. n - 1 : queue'[t][i] = queue'[t][k] => i = k
    BY <2>1, <2>2, <2>4
  <2>7. ASSUME NEW q \in Reqs
        PROVE  (pc'[q] \in Queued /\ SlotOf(q)' = t)
                 <=> \E i \in 1 .. n - 1 : queue'[t][i] = q
    <3>1. 1 \in 1 .. n
      BY <2>1
    <3>2. CASE q = r
      <4>1. \A i \in 1 .. n - 1 : queue'[t][i] # r
        BY <2>1, <2>2, <2>4, <3>1
      <4>2. QED
        BY <1>3, <3>2, <4>1
    <3>3. CASE q # r
      <4>1. (pc'[q] \in Queued /\ SlotOf(q)' = t)
              <=> \E i \in 1 .. n : queue[t][i] = q
        BY <1>1, <1>3, <2>3, <3>3
      <4>2. ASSUME NEW i \in 1 .. n, queue[t][i] = q
            PROVE  \E k \in 1 .. n - 1 : queue'[t][k] = q
        <5>1. i - 1 \in 1 .. n - 1 /\ (i - 1) + 1 = i
          BY <2>1, <2>5, <3>3, <4>2
        <5>2. queue'[t][i - 1] = q
          BY <2>1, <4>2, <5>1
        <5>3. QED
          BY <5>1, <5>2
      <4>3. ASSUME NEW k \in 1 .. n - 1, queue'[t][k] = q
            PROVE  \E i \in 1 .. n : queue[t][i] = q
        BY <2>1, <2>4, <4>3
      <4>4. QED
        BY <4>1, <4>2, <4>3
    <3>4. QED
      BY <3>2, <3>3
  <2>8. QED
    BY <2>1, <2>6, <2>7
<1>6. QED
  BY <1>4, <1>5 DEF QueuesAreWaiters

LEMMA QueuesNext == SemInv /\ QueuesAreWaiters /\ [Next]_vars => QueuesAreWaiters'
<1> SUFFICES ASSUME SemInv, QueuesAreWaiters, [Next]_vars PROVE QueuesAreWaiters'
  OBVIOUS
<1>t. /\ pc \in [Reqs -> PCs]
      /\ job \in [Reqs -> Jobs]
      /\ at \in [Reqs -> Indices]
      /\ rr \in [Engines -> Indices]
      /\ admission \in Seq(Reqs)
      /\ LockInv
  BY DEF SemInv, LockInv, TypeOK
<1>1. ASSUME NEW s \in Slots, Warmup(s) \/ Crash(s) PROVE QueuesAreWaiters'
  BY <1>1, QueuesStay DEF Warmup, Crash, reqVars
<1>2. ASSUME NEW r \in Reqs, NEW j \in Jobs, Refuse(r, j) PROVE QueuesAreWaiters'
  BY <1>2, <1>t, QueuesStay DEF Refuse, Queued
<1>3. ASSUME NEW r \in Reqs, NEW j \in Jobs, EnterAnalyze(r, j) PROVE QueuesAreWaiters'
  <2>1. /\ pc[r] = "idle"
        /\ queue' = queue /\ at' = at
        /\ job' = [job EXCEPT ![r] = j]
        /\ \/ pc' = [pc EXCEPT ![r] = "admitted"]
           \/ pc' = [pc EXCEPT ![r] = "admission"]
    BY <1>3 DEF EnterAnalyze
  <2>2. QED
    BY <1>t, <2>1, QueuesStay DEF Queued
<1>4. ASSUME NEW r \in Reqs, NEW j \in Jobs, EnterInfo(r, j) PROVE QueuesAreWaiters'
  <2>1. <<j.engine, 0>> \in Slots
    BY ZeroIsIndex DEF Jobs, Slots
  <2>2. SlotOf(r)' = <<j.engine, 0>>
    BY <1>4, <1>t DEF EnterInfo, SlotOf
  <2>3. pc[r] \notin Queued
    BY <1>4 DEF EnterInfo, Queued
  <2>4. /\ queue' = [queue EXCEPT ![<<j.engine, 0>>] = Append(@, r)]
        /\ pc' = [pc EXCEPT ![r] = "lock"]
        /\ \A q \in Reqs \ {r} : job'[q] = job[q] /\ at'[q] = at[q]
    BY <1>4, <1>t DEF EnterInfo, Enqueue
  <2>5. QED
    BY <1>t, <2>1, <2>2, <2>3, <2>4, QueueJoins
<1>5. ASSUME NEW r \in Reqs, PickSlot(r) PROVE QueuesAreWaiters'
  <2> DEFINE t == <<job[r].engine, rr[job[r].engine]>>
  <2>1. job[r].engine \in Engines
    BY <1>t DEF Jobs
  <2>2. t \in Slots
    BY <1>t, <2>1 DEF Slots
  <2>3. SlotOf(r)' = t
    BY <1>5, <1>t DEF PickSlot, SlotOf
  <2>4. pc[r] \notin Queued
    BY <1>5 DEF PickSlot, Queued
  <2>5. /\ queue' = [queue EXCEPT ![t] = Append(@, r)]
        /\ pc' = [pc EXCEPT ![r] = "lock"]
        /\ \A q \in Reqs \ {r} : job'[q] = job[q] /\ at'[q] = at[q]
    BY <1>5, <1>t DEF PickSlot, Enqueue
  <2> HIDE DEF t
  <2>6. QED
    BY <1>t, <2>2, <2>3, <2>4, <2>5, QueueJoins
<1>6. ASSUME NEW r \in Reqs,
             \/ AcquireFresh(r) \/ AcquireReuse(r)
             \/ StartEngine(r) \/ Go(r) \/ Timeout(r)
      PROVE  QueuesAreWaiters'
  <2>1. /\ pc[r] \in Queued
        /\ queue' = queue /\ job' = job /\ at' = at
        /\ \E to \in Queued : pc' = [pc EXCEPT ![r] = to]
    BY <1>6 DEF AcquireFresh, AcquireReuse, StartEngine, Go, Timeout, Queued
  <2>2. QED
    BY <1>t, <2>1, QueuesStay
<1>7. ASSUME NEW r \in Reqs,
             StartFails(r) \/ ReportInfo(r) \/ EngineGone(r) \/ Answer(r) \/ Reap(r)
      PROVE  QueuesAreWaiters'
  <2>1. pc[r] \in Working
    BY <1>7 DEF StartFails, ReportInfo, EngineGone, Answer, Reap, Working
  <2>2. \E reply : Finish(r, reply)
    BY <1>7 DEF StartFails, ReportInfo, EngineGone, Answer, Reap
  <2>3. QED
    BY <2>1, <2>2, QueueLeaves
<1>8. CASE Drain \/ Shutdown \/ UNCHANGED vars
  BY <1>8, QueuesStay DEF Drain, Shutdown, vars, reqVars
<1>9. QED
  BY <1>1, <1>2, <1>3, <1>4, <1>5, <1>6, <1>7, <1>8
     DEF Next, Arrive, Handshake, Proceed, Stopped

(* The lock of a slot forgets no waiter and invents none: its queue holds   *)
(* the requests suspended on it or working in its region, each once.        *)
THEOREM QueuesHoldWaiters == Spec => []QueuesAreWaiters
<1>1. Init => QueuesAreWaiters
  BY DEF Init, QueuesAreWaiters, Queued
<1>2. SemInv /\ QueuesAreWaiters /\ [Next]_vars => QueuesAreWaiters'
  BY QueuesNext
<1>3. QED
  BY SemInvariant, <1>1, <1>2, PTL DEF Spec

-----------------------------------------------------------------------------
(* Replies.  That a reply is about the position asked for rests on every    *)
(* process being quiet when a request starts to search with it.             *)
DeadIsQuiet == \A s \in Slots : worker[s] # "live" => searches[s] = <<>>

ReplyInv == NoAbandonedSearch /\ AnswersOwnSearch /\ DeadIsQuiet

(* An action that lets every request in go() and every search stay as they  *)
(* are, and hands out no result.                                            *)
LEMMA SearchesStay ==
  ASSUME LockInv, ReplyInv,
         \A q \in Reqs : pc[q] = "go" =>
           pc'[q] = "go" /\ job'[q] = job[q] /\ at'[q] = at[q],
         \A s \in Slots : searches'[s] = searches[s] \/ searches'[s] = <<>>,
         \A s \in Slots : worker'[s] # "live" =>
           worker[s] # "live" \/ searches'[s] = <<>>,
         \A q \in Reqs : resp'[q] = resp[q] \/ resp'[q].status # "ok"
  PROVE  ReplyInv'
<1>1. ASSUME NEW s \in Slots, searches'[s] # <<>>
      PROVE  \E q \in Reqs : /\ pc'[q] = "go"
                             /\ SlotOf(q)' = s
                             /\ Len(searches'[s]) = 1
                             /\ searches'[s][1].fen = q
  <2>1. searches'[s] = searches[s] /\ searches[s] # <<>>
    BY <1>1
  <2>2. PICK q \in Reqs : /\ pc[q] = "go"
                          /\ SlotOf(q) = s
                          /\ Len(searches[s]) = 1
                          /\ searches[s][1].fen = q
    BY <2>1 DEF ReplyInv, NoAbandonedSearch
  <2>3. pc'[q] = "go" /\ SlotOf(q)' = s
    BY <2>2 DEF SlotOf
  <2>4. QED
    BY <2>1, <2>2, <2>3
<1>2. AnswersOwnSearch'
  BY DEF ReplyInv, AnswersOwnSearch
<1>3. DeadIsQuiet'
  BY DEF ReplyInv, DeadIsQuiet
<1>4. QED
  BY <1>1, <1>2, <1>3 DEF ReplyInv, NoAbandonedSearch

(* A request leaves its slot's region when the slot's process is quiet.     *)
LEMMA FinishQuiet ==
  ASSUME SemInv, ReplyInv, NEW r \in Reqs, pc[r] \in Working,
         NEW reply \in Failures \cup Results, Finish(r, reply),
         reply.status = "ok" => reply.fen = r,
         searches'[SlotOf(r)] = <<>>,
         \A s \in Slots \ {SlotOf(r)} :
           searches'[s] = searches[s] /\ worker'[s] = worker[s]
  PROVE  ReplyInv'
<1>1. ASSUME NEW s \in Slots, searches'[s] # <<>>
      PROVE  \E q \in Reqs : /\ pc'[q] = "go"
                             /\ SlotOf(q)' = s
                             /\ Len(searches'[s]) = 1
                             /\ searches'[s][1].fen = q
  <2>1. s # SlotOf(r) /\ searches'[s] = searches[s] /\ searches[s] # <<>>
    BY <1>1
  <2>2. PICK q \in Reqs : /\ pc[q] = "go"
                          /\ SlotOf(q) = s
                          /\ Len(searches[s]) = 1
                          /\ searches[s][1].fen = q
    BY <2>1 DEF ReplyInv, NoAbandonedSearch
  <2>3. q # r /\ SlotOf(q)' = s
    BY <2>1, <2>2 DEF SlotOf, Finish
  <2>4. pc'[q] = "go"
    <3>1. pc \in [Reqs -> PCs] /\ admission \in Seq(Reqs) /\ job[r] \in Jobs
      BY DEF SemInv, LockInv, TypeOK
    <3>2. CASE admission = <<>> \/ job[r].kind = "info"
      BY <2>2, <2>3, <3>1, <3>2 DEF Finish
    <3>3. CASE admission # <<>> /\ job[r].kind = "analyze"
      <4>1. /\ Head(admission) = admission[1]
            /\ 1 \in 1 .. Len(admission)
        BY <3>1, <3>3
      <4>2. Head(admission) # q
        BY <2>2, <4>1 DEF SemInv, AdmissionIsWaiting
      <4>3. pc' = [pc EXCEPT ![r] = "idle", ![Head(admission)] = "admitted"]
        BY <3>3 DEF Finish
      <4>4. QED
        BY <2>2, <2>3, <3>1, <4>2, <4>3
    <3>4. QED
      BY <3>1, <3>2, <3>3 DEF Jobs
  <2>5. QED
    BY <2>1, <2>2, <2>3, <2>4
<1>2. AnswersOwnSearch'
  BY DEF ReplyInv, AnswersOwnSearch, Finish, SemInv, LockInv, TypeOK
<1>3. DeadIsQuiet'
  BY DEF ReplyInv, DeadIsQuiet
<1>4. QED
  BY <1>1, <1>2, <1>3 DEF ReplyInv, NoAbandonedSearch

(* The process a request in its slot's region finds is quiet, unless the    *)
(* request itself is the one that made it search.                           *)
LEMMA OwnSearchOnly ==
  ASSUME LockInv, ReplyInv, NEW r \in Reqs, pc[r] \in Working
  PROVE  \/ searches[SlotOf(r)] = <<>>
         \/ /\ pc[r] = "go"
            /\ Len(searches[SlotOf(r)]) = 1
            /\ searches[SlotOf(r)][1].fen = r
<1>1. SUFFICES ASSUME searches[SlotOf(r)] # <<>>
               PROVE  /\ pc[r] = "go"
                      /\ Len(searches[SlotOf(r)]) = 1
                      /\ searches[SlotOf(r)][1].fen = r
  OBVIOUS
<1>2. SlotOf(r) \in Slots
  BY SlotIsSlot DEF LockInv
<1>3. PICK q \in Reqs : /\ pc[q] = "go"
                        /\ SlotOf(q) = SlotOf(r)
                        /\ Len(searches[SlotOf(r)]) = 1
                        /\ searches[SlotOf(r)][1].fen = q
  BY <1>1, <1>2 DEF ReplyInv, NoAbandonedSearch
<1>4. q = r
  BY <1>3, HoldersExclude DEF SlotExclusion, Working
<1>5. QED
  BY <1>3, <1>4

LEMMA ReplyInvInit == Init => ReplyInv
<1>1. SUFFICES ASSUME Init PROVE ReplyInv
  OBVIOUS
<1>2. NoAbandonedSearch
  BY <1>1 DEF Init, NoAbandonedSearch
<1>3. AnswersOwnSearch
  BY <1>1 DEF Init, AnswersOwnSearch, Reply
<1>4. DeadIsQuiet
  BY <1>1 DEF Init, DeadIsQuiet
<1>5. QED
  BY <1>2, <1>3, <1>4 DEF ReplyInv

LEMMA ReplyInvNext == SemInv /\ ReplyInv /\ [Next]_vars => ReplyInv'
<1> SUFFICES ASSUME SemInv, ReplyInv, [Next]_vars PROVE ReplyInv'
  OBVIOUS
<1>l. LockInv /\ TypeOK
  BY DEF SemInv, LockInv
<1>t. /\ pc \in [Reqs -> PCs]
      /\ job \in [Reqs -> Jobs]
      /\ at \in [Reqs -> Indices]
      /\ resp \in [Reqs -> Failures \cup Results]
      /\ searches \in [Slots -> Seq(Searches)]
      /\ worker \in [Slots -> {"none", "live", "dead"}]
  BY <1>l DEF TypeOK
<1>reply. \A st \in {"none", "info", "refused", "hung", "error"} :
            Reply(st).status # "ok" /\ Reply(st) \in Failures \cup Results
  BY DEF Reply, Failures
<1>1. ASSUME NEW s \in Slots, Warmup(s) \/ Crash(s) PROVE ReplyInv'
  <2>1. \A u \in Slots : searches'[u] = searches[u] \/ searches'[u] = <<>>
    BY <1>1, <1>t DEF Warmup, Crash, Launch, slotVars
  <2>2. \A u \in Slots : worker'[u] # "live" =>
          worker[u] # "live" \/ searches'[u] = <<>>
    BY <1>1, <1>t DEF Warmup, Crash, Launch, slotVars
  <2>3. UNCHANGED reqVars
    BY <1>1 DEF Warmup, Crash
  <2>4. QED
    BY <1>l, <2>1, <2>2, <2>3, SearchesStay DEF reqVars
<1>2. ASSUME NEW r \in Reqs, NEW j \in Jobs, Refuse(r, j) PROVE ReplyInv'
  BY <1>2, <1>l, <1>t, <1>reply, SearchesStay DEF Refuse, slotVars
<1>3. ASSUME NEW r \in Reqs, NEW j \in Jobs, EnterAnalyze(r, j) PROVE ReplyInv'
  <2>1. PICK p \in {"admitted", "admission"} : pc' = [pc EXCEPT ![r] = p]
    BY <1>3 DEF EnterAnalyze
  <2>2. QED
    BY <1>3, <1>l, <1>t, <1>reply, <2>1, SearchesStay DEF EnterAnalyze, slotVars
<1>4. ASSUME NEW r \in Reqs, NEW j \in Jobs, EnterInfo(r, j) PROVE ReplyInv'
  BY <1>4, <1>l, <1>t, <1>reply, SearchesStay DEF EnterInfo, slotVars
<1>5. ASSUME NEW r \in Reqs, PickSlot(r) PROVE ReplyInv'
  BY <1>5, <1>l, <1>t, SearchesStay DEF PickSlot, slotVars
<1>6. ASSUME NEW r \in Reqs, AcquireFresh(r) \/ AcquireReuse(r) PROVE ReplyInv'
  BY <1>6, <1>l, <1>t, SearchesStay DEF AcquireFresh, AcquireReuse, slotVars
<1>7. ASSUME NEW r \in Reqs, StartEngine(r) PROVE ReplyInv'
  BY <1>7, <1>l, <1>t, SearchesStay DEF StartEngine, Launch
<1>8. ASSUME NEW r \in Reqs, StartFails(r) \/ ReportInfo(r) \/ EngineGone(r)
      PROVE  ReplyInv'
  <2>1. pc[r] \in Working
    BY <1>8 DEF StartFails, ReportInfo, EngineGone, Working
  <2>2. PICK reply \in Failures \cup Results :
          Finish(r, reply) /\ reply.status # "ok"
    BY <1>8, <1>reply DEF StartFails, ReportInfo, EngineGone
  <2>3. UNCHANGED <<searches, worker>>
    BY <1>8 DEF StartFails, ReportInfo, EngineGone, slotVars
  <2>4. searches[SlotOf(r)] = <<>>
    <3>1. CASE StartFails(r) \/ ReportInfo(r)
      BY <3>1, <1>l, <2>1, OwnSearchOnly DEF StartFails, ReportInfo
    <3>2. CASE EngineGone(r)
      BY <3>2, <1>l, SlotIsSlot DEF EngineGone, ReplyInv, DeadIsQuiet
    <3>3. QED
      BY <1>8, <3>1, <3>2
  <2>5. QED
    BY <2>1, <2>2, <2>3, <2>4, FinishQuiet
<1>9. ASSUME NEW r \in Reqs, Go(r) PROVE ReplyInv'
  <2> DEFINE u == SlotOf(r)
  <2>1. /\ pc[r] \in Working
        /\ pc[r] = "engaged"
        /\ u \in Slots
        /\ SlotOf(r)' = u
    BY <1>9, <1>l, SlotIsSlot DEF Go, Working, SlotOf
  <2>2. searches[u] = <<>>
    BY <1>l, <2>1, OwnSearchOnly
  <2>3. searches' = [searches EXCEPT ![u] = <<[fen |-> r, multipv |-> multipv[u]]>>]
    BY <1>9, <2>2 DEF Go
  <2>4. \A q \in Reqs : pc'[q] = IF q = r THEN "go" ELSE pc[q]
    BY <1>9, <1>t DEF Go
  <2> HIDE DEF u
  <2>5. ASSUME NEW s \in Slots, searches'[s] # <<>>
        PROVE  \E q \in Reqs : /\ pc'[q] = "go"
                               /\ SlotOf(q)' = s
                               /\ Len(searches'[s]) = 1
                               /\ searches'[s][1].fen = q
    <3>1. CASE s = u
      BY <1>t, <2>1, <2>3, <2>4, <3>1
    <3>2. CASE s # u
      <4>1. searches'[s] = searches[s]
        BY <1>t, <2>3, <3>2
      <4>2. PICK q \in Reqs : /\ pc[q] = "go"
                              /\ SlotOf(q) = s
                              /\ Len(searches[s]) = 1
                              /\ searches[s][1].fen = q
        BY <2>5, <4>1 DEF ReplyInv, NoAbandonedSearch
      <4>3. pc'[q] = "go" /\ SlotOf(q)' = s
        BY <1>9, <2>4, <4>2 DEF Go, SlotOf
      <4>4. QED
        BY <4>1, <4>2, <4>3
    <3>3. QED
      BY <3>1, <3>2
  <2>6. DeadIsQuiet'
    BY <1>9, <1>t, <2>3 DEF Go, ReplyInv, DeadIsQuiet, u
  <2>7. AnswersOwnSearch'
    BY <1>9 DEF Go, ReplyInv, AnswersOwnSearch
  <2>8. QED
    BY <2>5, <2>6, <2>7 DEF ReplyInv, NoAbandonedSearch
<1>10. ASSUME NEW r \in Reqs, Answer(r) PROVE ReplyInv'
  <2>1. pc[r] \in Working /\ SlotOf(r) \in Slots
    BY <1>10, <1>l, SlotIsSlot DEF Answer, Working
  <2>2. /\ Len(searches[SlotOf(r)]) = 1
        /\ searches[SlotOf(r)][1].fen = r
        /\ searches[SlotOf(r)] \in Seq(Searches)
    BY <1>10, <1>l, <1>t, <2>1, OwnSearchOnly DEF Answer
  <2>3. /\ Head(searches[SlotOf(r)]).fen = r
        /\ Head(searches[SlotOf(r)]) \in Searches
        /\ Tail(searches[SlotOf(r)]) = <<>>
    <3> DEFINE q == searches[SlotOf(r)]
    <3>1. q \in Seq(Searches) /\ Len(q) = 1 /\ q[1].fen = r
      BY <2>2
    <3> HIDE DEF q
    <3>2. Head(q) = q[1] /\ q[1] \in Searches
      BY <3>1
    <3>3. Tail(q) \in Seq(Searches) /\ Len(Tail(q)) = 0
      BY <3>1
    <3>4. Tail(q) = <<>>
      BY <3>3, EmptySeq
    <3>5. QED
      BY <3>1, <3>2, <3>4 DEF q
  <2>4. [status |-> "ok", fen |-> Head(searches[SlotOf(r)]).fen,
         pvs |-> Head(searches[SlotOf(r)]).multipv] \in Failures \cup Results
    BY <2>3 DEF Searches, Results
  <2>5. PICK reply \in Failures \cup Results :
          Finish(r, reply) /\ (reply.status = "ok" => reply.fen = r)
    BY <1>10, <1>reply, <2>3, <2>4 DEF Answer
  <2>6. /\ searches'[SlotOf(r)] = <<>>
        /\ \A s \in Slots \ {SlotOf(r)} :
             searches'[s] = searches[s] /\ worker'[s] = worker[s]
    BY <1>10, <1>t, <2>1, <2>3 DEF Answer
  <2>7. QED
    BY <2>1, <2>5, <2>6, FinishQuiet
<1>11. ASSUME NEW r \in Reqs, Timeout(r) PROVE ReplyInv'
  <2> DEFINE u == SlotOf(r)
  <2>1. u \in Slots
    BY <1>l, SlotIsSlot
  <2>2. /\ searches' = [searches EXCEPT ![u] = <<>>]
        /\ worker' = [worker EXCEPT ![u] = "dead"]
        /\ \A q \in Reqs \ {r} : pc'[q] = pc[q]
    BY <1>11, <1>t DEF Timeout
  <2>3. \A q \in Reqs : SlotOf(q)' = SlotOf(q)
    BY <1>11 DEF Timeout, SlotOf
  <2> HIDE DEF u
  <2>4. ASSUME NEW s \in Slots, searches'[s] # <<>>
        PROVE  \E q \in Reqs : /\ pc'[q] = "go"
                               /\ SlotOf(q)' = s
                               /\ Len(searches'[s]) = 1
                               /\ searches'[s][1].fen = q
    <3>1. s # u /\ searches'[s] = searches[s]
      BY <1>t, <2>1, <2>2, <2>4
    <3>2. PICK q \in Reqs : /\ pc[q] = "go"
                            /\ SlotOf(q) = s
                            /\ Len(searches[s]) = 1
                            /\ searches[s][1].fen = q
      BY <2>4, <3>1 DEF ReplyInv, NoAbandonedSearch
    <3>3. q # r
      BY <3>1, <3>2 DEF u
    <3>4. QED
      BY <2>2, <2>3, <3>1, <3>2, <3>3
  <2>5. DeadIsQuiet'
    BY <1>t, <2>1, <2>2 DEF ReplyInv, DeadIsQuiet
  <2>6. AnswersOwnSearch'
    BY <1>11 DEF Timeout, ReplyInv, AnswersOwnSearch
  <2>7. QED
    BY <2>4, <2>5, <2>6 DEF ReplyInv, NoAbandonedSearch
<1>12. ASSUME NEW r \in Reqs, Reap(r) PROVE ReplyInv'
  <2>1. pc[r] \in Working /\ pc[r] = "reap" /\ SlotOf(r) \in Slots
    BY <1>12, <1>l, SlotIsSlot DEF Reap, Working
  <2>2. searches[SlotOf(r)] = <<>>
    BY <1>l, <2>1, OwnSearchOnly
  <2>3. PICK reply \in Failures \cup Results :
          Finish(r, reply) /\ reply.status # "ok"
    BY <1>12, <1>reply DEF Reap
  <2>4. /\ searches' = searches
        /\ \A s \in Slots \ {SlotOf(r)} : worker'[s] = worker[s]
    BY <1>12, <1>t DEF Reap
  <2>5. QED
    BY <2>1, <2>2, <2>3, <2>4, FinishQuiet
<1>13. CASE Drain \/ UNCHANGED vars
  BY <1>13, <1>l, SearchesStay DEF Drain, vars, reqVars, slotVars
<1>14. CASE Shutdown
  <2>1. \A s \in Slots : searches[s] = <<>>
    BY <1>14 DEF Shutdown, ReplyInv, NoAbandonedSearch
  <2>2. UNCHANGED <<reqVars, searches>>
    BY <1>14 DEF Shutdown
  <2>3. QED
    BY <1>l, <2>1, <2>2, SearchesStay DEF reqVars
<1>15. QED
  BY <1>1, <1>2, <1>3, <1>4, <1>5, <1>6, <1>7, <1>8, <1>9, <1>10, <1>11, <1>12,
     <1>13, <1>14
     DEF Next, Arrive, Handshake, Proceed, Stopped

LEMMA ReplyInvariant == Spec => []ReplyInv
<1>1. SemInv /\ ReplyInv /\ [Next]_vars => ReplyInv'
  BY ReplyInvNext
<1>2. QED
  BY ReplyInvInit, SemInvariant, <1>1, PTL DEF Spec

(* A reply of analyze() is always about the position that was asked for.    *)
THEOREM RepliesMatch == Spec => []AnswersOwnSearch
<1>1. ReplyInv => AnswersOwnSearch
  BY DEF ReplyInv
<1>2. QED
  BY ReplyInvariant, <1>1, PTL

(* No process searches on behalf of a request that has left the pool.       *)
THEOREM SearchesAreAwaited == Spec => []NoAbandonedSearch
<1>1. ReplyInv => NoAbandonedSearch
  BY DEF ReplyInv
<1>2. QED
  BY ReplyInvariant, <1>1, PTL

(* PoolAccounts: what locks, permits, queues and searches of the pool owe   *)
(* to each other, together.                                                 *)
THEOREM PoolIsAccounted == Spec => []PoolAccounts
<1>1. SemInv /\ QueuesAreWaiters /\ ReplyInv => PoolAccounts
  BY DEF PoolAccounts, LockInv, SemInv, ReplyInv
<1>2. QED
  BY <1>1, SemInvariant, QueuesHoldWaiters, ReplyInvariant, PTL

=============================================================================
