------------------------------ MODULE EnginePool ------------------------------
(***************************************************************************)
(* The gateway's pool of UCI engine processes                              *)
(* (services/chess_coach/engine_orch/pool.py), the UCI client each slot    *)
(* owns (libs/chess_coach/uci/engine.py) and the gate every engine route   *)
(* passes first (gateway/engine_availability.py).                          *)
(*                                                                         *)
(* The event loop runs one coroutine at a time, so an action is what a     *)
(* coroutine does between two awaits.  A request is identified with the    *)
(* position it asks about: a search for request r carries fen |-> r.       *)
(*                                                                         *)
(* asyncio.Semaphore and asyncio.Lock wake their waiters in FIFO order and *)
(* hand over to the woken waiter, so a lock is the sequence of its holder  *)
(* followed by its waiters.                                                *)
(*                                                                         *)
(* A definition commented "Faulty variant" is a plausible bug, there to    *)
(* check that the properties notice it; Next uses none of them.            *)
(***************************************************************************)
EXTENDS Naturals, Sequences, FiniteSets

CONSTANTS
  Reqs,        \* the clients; each has at most one request in flight
  Engines,     \* the engine ids of the specs given to the pool
  MaxWorkers,  \* slots per engine id, and permits of the one semaphore
  MultiPVs     \* the values of AnalysisRequest.multipv the clients use

ASSUME PoolAssumption ==
  /\ IsFiniteSet(Reqs)
  /\ Engines # {}
  /\ MaxWorkers \in Nat \ {0}
  /\ MultiPVs \subseteq Nat \ {0}
  /\ 1 \in MultiPVs

VARIABLES
  phase,      \* lifespan of the gateway around the pool
  cold,       \* slots warmup() has still to visit
  pc,         \* where each request's coroutine is
  job,        \* what each request asks for
  at,         \* index of the slot the request was given
  resp,       \* the last reply each client received
  permits,    \* _sem._value
  admission,  \* waiters of _sem
  queue,      \* slot.lock: holder, then waiters
  rr,         \* the round-robin cursor, modulo the ring's length
  worker,     \* slot.engine: "none", or the state of its process
  multipv,    \* the MultiPV option the slot's process was last given
  searches,   \* searches the slot's process has accepted and not reported
  acquired    \* history: the engine ids some slot has ever started

reqVars == <<pc, job, at, resp>>
semVars == <<permits, admission>>
slotVars == <<worker, multipv, searches, acquired>>
vars == <<phase, cold, reqVars, semVars, queue, rr, slotVars>>

Indices == 0 .. MaxWorkers - 1
Slots == Engines \X Indices

Jobs == [kind : {"analyze"}, engine : Engines, multipv : MultiPVs]
          \cup [kind : {"info"}, engine : Engines, multipv : {1}]

Searches == [fen : Reqs, multipv : MultiPVs]

(* What a client can be told: 200 with the result or the engine's metadata, *)
(* 503 from the availability gate, 500 for a hung engine, 500 for the rest. *)
Failures == [status : {"none", "info", "refused", "hung", "error"}]
Results == [status : {"ok"}, fen : Reqs, pvs : MultiPVs]
Reply(s) == [status |-> s]

PCs == {"idle", "admission", "admitted", "lock", "start", "engaged", "go", "reap"}

(* The request has been let past the semaphore; it owns, or waits for, a    *)
(* slot's lock; it runs in the region the slot's lock protects.             *)
Admitted == {"admitted", "lock", "start", "engaged", "go", "reap"}
Queued == {"lock", "start", "engaged", "go", "reap"}
Working == {"start", "engaged", "go", "reap"}

SlotOf(r) == <<job[r].engine, at[r]>>

(* is_available(): at least one slot of the ring has an engine object.      *)
Available(e) == \E i \in Indices : worker[<<e, i>>] # "none"

(* Faulty variant: the cursor runs past the ring.                           *)
NextCursorUnwrapped(i) == i + 1

(* The round-robin cursor's next index.                                     *)
NextCursor(i) == (i + 1) % MaxWorkers

(* asyncio.Lock: a coroutine joins the waiters at the end, and the one at   *)
(* the head runs.  Releasing it or the semaphore wakes the next waiter.     *)
Enqueue(q, r) == Append(q, r)

WithoutWoken(q) == Tail(q)

(* MultiPV is put into the options only when it is above 1; a process keeps *)
(* every option it was given until it is given another value.               *)
OptionAfter(j, current) == IF j.multipv > 1 THEN j.multipv ELSE current
-----------------------------------------------------------------------------
Init ==
  /\ phase = "warmup"
  /\ cold = Slots
  /\ pc = [r \in Reqs |-> "idle"]
  /\ job \in [Reqs -> {[kind |-> "info", engine |-> e, multipv |-> 1] : e \in Engines}]
  /\ \A r, q \in Reqs : job[r] = job[q]
  /\ at = [r \in Reqs |-> 0]
  /\ resp = [r \in Reqs |-> Reply("none")]
  /\ permits = MaxWorkers
  /\ admission = <<>>
  /\ queue = [s \in Slots |-> <<>>]
  /\ rr = [e \in Engines |-> 0]
  /\ worker = [s \in Slots |-> "none"]
  /\ multipv = [s \in Slots |-> 1]
  /\ searches = [s \in Slots |-> <<>>]
  /\ acquired = {}

(* A fresh process: UCI options at their defaults, plus what start() sends. *)
Launch(s, j) ==
  /\ worker' = [worker EXCEPT ![s] = "live"]
  /\ multipv' = [multipv EXCEPT ![s] = OptionAfter(j, 1)]
  /\ searches' = [searches EXCEPT ![s] = <<>>]
  /\ acquired' = acquired \cup {s[1]}

(* warmup() visits every slot before the server accepts a connection; a     *)
(* slot whose engine does not start is logged and left without an engine.   *)
Warmup(s) ==
  /\ phase = "warmup"
  /\ s \in cold
  /\ cold' = cold \ {s}
  /\ phase' = IF cold' = {} THEN "serving" ELSE "warmup"
  /\ \/ Launch(s, [kind |-> "info", engine |-> s[1], multipv |-> 1])
     \/ UNCHANGED slotVars
  /\ UNCHANGED <<reqVars, semVars, queue, rr>>

(* A route is called and its gate finds no slot with an engine: 503.        *)
Refuse(r, j) ==
  /\ phase = "serving"
  /\ pc[r] = "idle"
  /\ ~Available(j.engine)
  /\ job' = [job EXCEPT ![r] = j]
  /\ resp' = [resp EXCEPT ![r] = Reply("refused")]
  /\ UNCHANGED <<phase, cold, pc, at, semVars, queue, rr, slotVars>>

(* A route is called, passes the gate and enters analyze(): a permit if one *)
(* is free and nobody waits for it, otherwise the end of the FIFO.          *)
EnterAnalyze(r, j) ==
  /\ phase = "serving"
  /\ pc[r] = "idle"
  /\ j.kind = "analyze"
  /\ Available(j.engine)
  /\ job' = [job EXCEPT ![r] = j]
  /\ resp' = [resp EXCEPT ![r] = Reply("none")]
  /\ \/ /\ permits > 0
        /\ permits' = permits - 1
        /\ pc' = [pc EXCEPT ![r] = "admitted"]
        /\ UNCHANGED admission
     \/ /\ permits = 0
        /\ admission' = Enqueue(admission, r)
        /\ pc' = [pc EXCEPT ![r] = "admission"]
        /\ UNCHANGED permits
  /\ UNCHANGED <<phase, cold, at, queue, rr, slotVars>>

(* engine_info() takes slot 0's lock and no permit.                         *)
EnterInfo(r, j) ==
  /\ phase = "serving"
  /\ pc[r] = "idle"
  /\ j.kind = "info"
  /\ Available(j.engine)
  /\ job' = [job EXCEPT ![r] = j]
  /\ at' = [at EXCEPT ![r] = 0]
  /\ resp' = [resp EXCEPT ![r] = Reply("none")]
  /\ pc' = [pc EXCEPT ![r] = "lock"]
  /\ queue' = [queue EXCEPT ![<<j.engine, 0>>] = Enqueue(@, r)]
  /\ UNCHANGED <<phase, cold, semVars, rr, slotVars>>

(* _next_slot() and the request for that slot's lock.                       *)
PickSlot(r) ==
  LET e == job[r].engine IN
  /\ pc[r] = "admitted"
  /\ at' = [at EXCEPT ![r] = rr[e]]
  /\ rr' = [rr EXCEPT ![e] = NextCursor(@)]
  /\ queue' = [queue EXCEPT ![<<e, rr[e]>>] = Enqueue(@, r)]
  /\ pc' = [pc EXCEPT ![r] = "lock"]
  /\ UNCHANGED <<phase, cold, job, resp, semVars, slotVars>>

(* Faulty variant: a coroutine runs as soon as it is queued on the lock.    *)
LockIsQueued(r) == queue[SlotOf(r)] # <<>>

HasLock(r) == queue[SlotOf(r)] # <<>> /\ Head(queue[SlotOf(r)]) = r

(* _acquire() looks only at slot.engine: asyncio's Process has no poll(),   *)
(* so the getattr default answers "still running" for every process.        *)
NeedsNewEngine(s) == worker[s] = "none"

AcquireFresh(r) ==
  /\ pc[r] = "lock"
  /\ HasLock(r)
  /\ NeedsNewEngine(SlotOf(r))
  /\ pc' = [pc EXCEPT ![r] = "start"]
  /\ UNCHANGED <<phase, cold, job, at, resp, semVars, queue, rr, slotVars>>

(* Reuse: set_options() writes to the pipe and suppresses every error.      *)
AcquireReuse(r) ==
  LET s == SlotOf(r) IN
  /\ pc[r] = "lock"
  /\ HasLock(r)
  /\ ~NeedsNewEngine(s)
  /\ multipv' = [multipv EXCEPT ![s] =
                   IF worker[s] = "live" THEN OptionAfter(job[r], @) ELSE @]
  /\ pc' = [pc EXCEPT ![r] = "engaged"]
  /\ UNCHANGED <<phase, cold, job, at, resp, semVars, queue, rr,
                 worker, searches, acquired>>

(* UCIEngine.start() finished its handshake; only now is slot.engine set.   *)
StartEngine(r) ==
  /\ pc[r] = "start"
  /\ Launch(SlotOf(r), job[r])
  /\ pc' = [pc EXCEPT ![r] = "engaged"]
  /\ UNCHANGED <<phase, cold, job, at, resp, semVars, queue, rr>>

(* Faulty variant: the permit is returned and no waiter woken.              *)
FinishWakesNobody(r, reply) ==
  /\ resp' = [resp EXCEPT ![r] = reply]
  /\ queue' = [queue EXCEPT ![SlotOf(r)] = Tail(@)]
  /\ permits' = IF job[r].kind = "analyze" THEN permits + 1 ELSE permits
  /\ pc' = [pc EXCEPT ![r] = "idle"]
  /\ UNCHANGED <<phase, cold, job, at, rr, admission>>

(* Leaving both `async with` blocks, normally or by an exception: the       *)
(* slot's lock passes to its next waiter, and so does the permit.           *)
Finish(r, reply) ==
  /\ resp' = [resp EXCEPT ![r] = reply]
  /\ queue' = [queue EXCEPT ![SlotOf(r)] = Tail(@)]
  /\ \/ /\ job[r].kind = "info"
        /\ pc' = [pc EXCEPT ![r] = "idle"]
        /\ UNCHANGED semVars
     \/ /\ job[r].kind = "analyze"
        /\ admission = <<>>
        /\ permits' = permits + 1
        /\ pc' = [pc EXCEPT ![r] = "idle"]
        /\ UNCHANGED admission
     \/ /\ job[r].kind = "analyze"
        /\ admission # <<>>
        /\ admission' = WithoutWoken(admission)
        /\ pc' = [pc EXCEPT ![r] = "idle", ![Head(admission)] = "admitted"]
        /\ UNCHANGED permits
  /\ UNCHANGED <<phase, cold, job, at, rr>>

(* Faulty variant: a failed start does not return the permit.               *)
StartFailsKeepsPermit(r) ==
  /\ pc[r] = "start"
  /\ resp' = [resp EXCEPT ![r] = Reply("error")]
  /\ queue' = [queue EXCEPT ![SlotOf(r)] = Tail(@)]
  /\ pc' = [pc EXCEPT ![r] = "idle"]
  /\ UNCHANGED <<phase, cold, job, at, semVars, rr, slotVars>>

(* The binary is missing, or the process exits during the handshake.        *)
StartFails(r) ==
  /\ pc[r] = "start"
  /\ Finish(r, Reply("error"))
  /\ UNCHANGED slotVars

ReportInfo(r) ==
  /\ pc[r] = "engaged"
  /\ job[r].kind = "info"
  /\ Finish(r, Reply("info"))
  /\ UNCHANGED slotVars

(* position() and the command go() sends.                                   *)
Go(r) ==
  LET s == SlotOf(r) IN
  /\ pc[r] = "engaged"
  /\ job[r].kind = "analyze"
  /\ worker[s] = "live"
  /\ searches' = [searches EXCEPT ![s] =
                    Append(@, [fen |-> r, multipv |-> multipv[s]])]
  /\ pc' = [pc EXCEPT ![r] = "go"]
  /\ UNCHANGED <<phase, cold, job, at, resp, semVars, queue, rr,
                 worker, multipv, acquired>>

(* The pipe to the process is broken, or its stdout reached end of file.    *)
EngineGone(r) ==
  /\ pc[r] \in {"engaged", "go"}
  /\ job[r].kind = "analyze"
  /\ worker[SlotOf(r)] = "dead"
  /\ Finish(r, Reply("error"))
  /\ UNCHANGED slotVars

(* The lines up to the next `bestmove` are read and make the result; a      *)
(* position without a legal move has no PV, which analyze() raises on.      *)
Answer(r) ==
  LET s == SlotOf(r) IN
  /\ pc[r] = "go"
  /\ worker[s] = "live"
  /\ searches[s] # <<>>
  /\ \/ Finish(r, [status |-> "ok", fen |-> Head(searches[s]).fen,
                   pvs |-> Head(searches[s]).multipv])
     \/ Finish(r, Reply("error"))
  /\ searches' = [searches EXCEPT ![s] = Tail(@)]
  /\ UNCHANGED <<worker, multipv, acquired>>

(* Faulty variant: go() is awaited without a timeout.                       *)
TimeoutNeverFires(r) == FALSE /\ UNCHANGED vars

(* Faulty variant: a timed-out search is left running.                      *)
TimeoutKillsNothing(r) ==
  /\ pc[r] = "go"
  /\ Finish(r, Reply("hung"))
  /\ UNCHANGED slotVars

(* wait_for() gave up on go(): the process is killed, and then reaped while *)
(* slot.engine still refers to it.                                          *)
Timeout(r) ==
  LET s == SlotOf(r) IN
  /\ pc[r] = "go"
  /\ worker' = [worker EXCEPT ![s] = "dead"]
  /\ searches' = [searches EXCEPT ![s] = <<>>]
  /\ pc' = [pc EXCEPT ![r] = "reap"]
  /\ UNCHANGED <<phase, cold, job, at, resp, semVars, queue, rr, multipv, acquired>>

(* slot.engine = None and EngineHungError.                                  *)
Reap(r) ==
  /\ pc[r] = "reap"
  /\ worker' = [worker EXCEPT ![SlotOf(r)] = "none"]
  /\ Finish(r, Reply("hung"))
  /\ UNCHANGED <<multipv, searches, acquired>>

(* The process of a slot exits on its own at any time.                      *)
Crash(s) ==
  /\ phase # "stopped"
  /\ worker[s] = "live"
  /\ worker' = [worker EXCEPT ![s] = "dead"]
  /\ searches' = [searches EXCEPT ![s] = <<>>]
  /\ UNCHANGED <<phase, cold, reqVars, semVars, queue, rr, multipv, acquired>>

(* A signal: uvicorn stops accepting and waits for the requests in flight.  *)
Drain ==
  /\ phase = "serving"
  /\ phase' = "draining"
  /\ UNCHANGED <<cold, reqVars, semVars, queue, rr, slotVars>>

(* shutdown() quits every slot's engine in one TaskGroup.  Writing "quit"   *)
(* to a dead process raises, and the group then cancels the other quits     *)
(* before they escalate to kill(): a process that ignores "quit" survives.  *)
Shutdown ==
  LET live == {s \in Slots : worker[s] = "live"}
      dead == {s \in Slots : worker[s] = "dead"} IN
  /\ phase = "draining"
  /\ \A r \in Reqs : pc[r] = "idle"
  /\ phase' = "stopped"
  /\ \/ /\ dead = {}
        /\ worker' = [s \in Slots |-> "none"]
     \/ /\ dead # {}
        /\ \E obeys \in SUBSET live :
             worker' = [s \in Slots |-> IF s \in obeys THEN "dead" ELSE worker[s]]
  /\ UNCHANGED <<cold, reqVars, semVars, queue, rr, multipv, searches, acquired>>

Stopped == phase = "stopped" /\ UNCHANGED vars
-----------------------------------------------------------------------------
Arrive(r) == \E j \in Jobs : Refuse(r, j) \/ EnterAnalyze(r, j) \/ EnterInfo(r, j)

(* The handshake of UCIEngine.start(), which nothing bounds in time.        *)
Handshake(r) == StartEngine(r) \/ StartFails(r)

(* What the event loop alone makes a request's coroutine do.                *)
Proceed(r) ==
  \/ PickSlot(r) \/ AcquireFresh(r) \/ AcquireReuse(r) \/ ReportInfo(r)
  \/ Go(r) \/ EngineGone(r) \/ Timeout(r) \/ Reap(r)

Next ==
  \/ \E s \in Slots : Warmup(s) \/ Crash(s)
  \/ \E r \in Reqs : Arrive(r) \/ Handshake(r) \/ Proceed(r) \/ Answer(r)
  \/ Drain
  \/ Shutdown
  \/ Stopped

Spec == Init /\ [][Next]_vars

(* The event loop runs every coroutine that can run, and wait_for() fires:  *)
(* a request in go() leaves it by the timeout if the engine never answers.  *)
(* Nothing is assumed of the engines, which may hang at any point.          *)
FairSpec == Spec /\ \A r \in Reqs : WF_vars(Proceed(r))
-----------------------------------------------------------------------------
TypeOK ==
  /\ phase \in {"warmup", "serving", "draining", "stopped"}
  /\ cold \subseteq Slots
  /\ pc \in [Reqs -> PCs]
  /\ job \in [Reqs -> Jobs]
  /\ at \in [Reqs -> Indices]
  /\ resp \in [Reqs -> Failures \cup Results]
  /\ permits \in Nat
  /\ admission \in Seq(Reqs)
  /\ queue \in [Slots -> Seq(Reqs)]
  /\ rr \in [Engines -> Indices]
  /\ worker \in [Slots -> {"none", "live", "dead"}]
  /\ multipv \in [Slots -> MultiPVs]
  /\ searches \in [Slots -> Seq(Searches)]
  /\ acquired \subseteq Engines

(* At most one coroutine is between the acquisition of a slot's engine and  *)
(* the release of its lock, whatever mixture of analyze() and engine_info() *)
(* calls is in flight and however they fail: "the same slot is never        *)
(* touched by two coroutines concurrently".                                 *)
SlotExclusion ==
  \A r, q \in Reqs :
    r # q /\ pc[r] \in Working /\ pc[q] \in Working => SlotOf(r) # SlotOf(q)

PermitHolders == {r \in Reqs : pc[r] \in Admitted /\ job[r].kind = "analyze"}

(* Whoever runs in a slot's region is at the head of that slot's queue: the *)
(* lock is released by its holder only, on every way out.                   *)
HolderHasLock == \A r \in Reqs : pc[r] \in Working => HasLock(r)

(* The semaphore's queue holds suspended analyses only, each once: nobody   *)
(* is woken twice, and nobody who was woken keeps a place in the queue.     *)
AdmissionIsWaiting ==
  /\ \A i \in 1 .. Len(admission) :
       /\ pc[admission[i]] = "admission"
       /\ job[admission[i]].kind = "analyze"
  /\ \A i, k \in 1 .. Len(admission) : admission[i] = admission[k] => i = k

(* Every permit is either free or owned by one analysis in flight: no error *)
(* path (failed start, broken pipe, timeout) loses one or returns it twice, *)
(* so at most MaxWorkers analyses run, and after any failures the pool      *)
(* still admits MaxWorkers.                                                 *)
PermitsAccounted == permits + Cardinality(PermitHolders) = MaxWorkers

(* No analysis waits for a permit while one is free (no lost wake-up).      *)
NoIdlePermit == admission # <<>> => permits = 0

(* A 200 reply carries the search of the position the client asked about,   *)
(* never the output an earlier, abandoned search left in the pipe.          *)
AnswersOwnSearch == \A r \in Reqs : resp[r].status = "ok" => resp[r].fen = r

(* No process is left searching for a request that is gone: a slot has at   *)
(* most one unreported search, and the request it is for awaits it there.   *)
NoAbandonedSearch ==
  \A s \in Slots : searches[s] # <<>> =>
    \E r \in Reqs :
      /\ pc[r] = "go"
      /\ SlotOf(r) = s
      /\ Len(searches[s]) = 1
      /\ searches[s][1].fen = r

(* The wait queue of a slot holds exactly the requests that are suspended   *)
(* on its lock or inside its region, each once.                             *)
QueuesAreWaiters ==
  \A s \in Slots :
    /\ \A i, k \in 1 .. Len(queue[s]) : queue[s][i] = queue[s][k] => i = k
    /\ \A r \in Reqs :
         (pc[r] \in Queued /\ SlotOf(r) = s)
           <=> \E i \in 1 .. Len(queue[s]) : queue[s][i] = r

(* The books of the pool balance: locks, permits, the queues of the         *)
(* semaphore and of the slots, and searches all belong to requests in       *)
(* flight (pool.py:168-260, 399-460).                                       *)
PoolAccounts ==
  /\ HolderHasLock
  /\ AdmissionIsWaiting
  /\ PermitsAccounted
  /\ NoIdlePermit
  /\ NoAbandonedSearch
  /\ QueuesAreWaiters

(* If every handshake ends, by readyok or by the engine's exit, every       *)
(* request that got into the pool is answered: no lost wake-up in the       *)
(* semaphore or in a slot's lock, and no search without an end.             *)
HandshakesEnd == \A q \in Reqs : []<>(pc[q] # "start")
Answered == HandshakesEnd => \A r \in Reqs : pc[r] # "idle" ~> pc[r] = "idle"

(* A search ends even when the engine hangs in it: wait_for() bounds go().  *)
GoEnds == \A r \in Reqs : pc[r] = "go" ~> pc[r] = "idle"

-----------------------------------------------------------------------------
(* What comments and docstrings of the code say, and the code does not do.  *)

(* "A slot is reusable only if it has an engine AND a live subprocess":     *)
(* _acquire() never hands a request an engine whose process is dead.        *)
AcquireDeliversLiveEngine ==
  [][\A r \in Reqs : pc[r] = "lock" /\ pc'[r] = "engaged"
                       => worker[SlotOf(r)] = "live"]_vars

(* "return 503 if the engine was never acquired": no client is refused an   *)
(* engine that some slot has started before.                                *)
RefusedOnlyIfNeverAcquired ==
  [][\A r \in Reqs : resp[r].status # "refused" /\ resp'[r].status = "refused"
                       => job'[r].engine \notin acquired]_vars

(* multipv is the "Number of PVs to return": a result has no more lines.    *)
PVsAsRequested ==
  \A r \in Reqs : resp[r].status = "ok" => resp[r].pvs <= job[r].multipv
=============================================================================
