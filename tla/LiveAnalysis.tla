---------------------------- MODULE LiveAnalysis ----------------------------
(* The engine that follows the board of a tab: the listener of the desktop  *)
(* (components/boards/EvalListener.tsx), the process the shell keeps for it *)
(* (src-tauri/src/chess.rs) and the engine's output between them.           *)
(*                                                                          *)
(* One engine and one tab. A query is the position that is searched; threat *)
(* mode, which passes the turn in it, is left out. The go mode and the      *)
(* options of the engine stay as they are, no position ends the game. A     *)
(* process that fails to start, exits or is killed with its tab is left out.*)
EXTENDS Integers, FiniteSets, Sequences, SequencesExt

CONSTANTS
  Positions,
  Timely,   \* whether 50 ms are enough for an engine that was stopped to fall
            \* silent and for its lines to be read
  MaxStarts,\* bound: processes started
  MaxCalls, \* bound: calls of get_best_moves() asleep
  MaxUnderWay,  \* bound: lines of engines, events and replies on their way
  MaxHandlers,  \* bound: handlers that are listening, joining or leaving
  None

ASSUME LiveAnalysisAssumption ==
  /\ Timely \in BOOLEAN
  /\ MaxStarts \in Nat \ {0} /\ MaxCalls \in Nat \ {0}
  /\ MaxUnderWay \in Nat \ {0} /\ MaxHandlers \in Nat \ {0}
  /\ None \notin Positions /\ None \notin [q : Positions, on : BOOLEAN]

VARIABLES
  pos, enabled,  \* the board and the switch of the engine
  view,      \* what the effects of the listener ran for last
  handlers,  \* handlers of the event bestMovesPayload
  timer,     \* the throttled effect: [q, on] until its 50 ms are over
  calls,     \* calls of get_best_moves() asleep after their stop
  procs,     \* the EngineProcesses: options, last, running; what the engine
             \* searches, a stop it has not read, the lines it has written
  starts,    \* those whose start is awaited
  mapped,    \* the one in the map engine_processes, 0 before there is one
  events,    \* events emitted and not delivered
  reply,     \* the result of get_best_moves() that is on the way, at most one (a bound)
  wrote,     \* what the last step wrote into the view
  overtaken, \* history: the last command took hold before one that came earlier
  crossed    \* history: a call went on before the engine was silent

ui == <<pos, enabled, view, handlers, timer>>
shell == <<calls, procs, starts, mapped>>
history == <<overtaken, crossed>>
vars == <<ui, shell, events, reply, wrote, history>>

Current == [q |-> pos, on |-> enabled]
Views == [q : Positions, on : BOOLEAN]

UnderWay ==
  Len(FlattenSeq([p \in DOMAIN procs |-> procs[p].pipe])) + Len(events)
    + Cardinality({reply} \ {None})

RoomUnderWay == UnderWay < MaxUnderWay

-----------------------------------------------------------------------------
(* The user and the effects of the listener.                                *)

Unseen == UNCHANGED <<view, handlers, timer, shell, history, events, reply>> /\ wrote' = None

GoTo(p) == pos' = p /\ p # pos /\ UNCHANGED enabled /\ Unseen
ToggleEngine == enabled' = ~enabled /\ UNCHANGED pos /\ Unseen

(* Mutant: an effect that forgets its cleanup.                              *)
LeavingNot == handlers

Leaving == {[h EXCEPT !.at = "leaving"] : h \in handlers}

(* After a change both effects are cleaned up and run again: the listener   *)
(* goes when its listen() is through, the timer at once.                    *)
RunEffects ==
  /\ view # Current
  /\ Cardinality(handlers) < MaxHandlers
  /\ view' = Current
  /\ handlers' = Leaving \cup
                 (IF enabled THEN {[q |-> Current.q, at |-> "joining"]} ELSE {})
  /\ timer' = Current
  /\ wrote' = None
  /\ UNCHANGED <<pos, enabled, shell, history, events, reply>>

(* listen() resolves; a handler that was cleaned up in between leaves then. *)
Listens(h) ==
  /\ handlers' = (handlers \ {h}) \cup
                 (IF h.at = "joining" THEN {[h EXCEPT !.at = "listening"]} ELSE {})
  /\ h.at # "listening"
  /\ wrote' = None
  /\ UNCHANGED <<pos, enabled, view, timer, shell, history, events, reply>>

-----------------------------------------------------------------------------
(* The commands of the shell.                                               *)

(* Mutant: a search that was stopped is taken for one that runs.            *)
SameStopped(q) == procs[mapped].options = q

Same(q) == procs[mapped].options = q /\ procs[mapped].running

New(q) == [options |-> q, last |-> None, running |-> FALSE,
           search |-> None, stopping |-> FALSE, pipe |-> << >>]

Stop == procs' = [procs EXCEPT ![mapped].running = FALSE, ![mapped].stopping = TRUE]

(* get_best_moves() up to its first await: a call that finds no process     *)
(* begins to start one, a call for the running search returns its lines,    *)
(* any other stops the search and sleeps.                                   *)
get_best_moves(q) ==
  \/ /\ mapped = 0
     /\ Len(procs) < MaxStarts
     /\ procs' = Append(procs, New(q))
     /\ starts' = starts \cup {Len(procs')}
     /\ UNCHANGED <<calls, mapped, reply>>
  \/ /\ mapped # 0 /\ Same(q)
     /\ reply = None /\ RoomUnderWay
     /\ reply' = [q |-> q, lines |-> procs[mapped].last]
     /\ UNCHANGED shell
  \/ /\ mapped # 0 /\ ~Same(q)
     /\ Len(calls) < MaxCalls
     /\ Stop
     /\ calls' = Append(calls, q)
     /\ UNCHANGED <<starts, mapped, reply>>

(* Mutant: the flag is taken down and the engine is not told.               *)
stop_engineQuietly ==
  /\ IF mapped = 0 THEN UNCHANGED procs ELSE procs' = [procs EXCEPT ![mapped].running = FALSE]
  /\ UNCHANGED <<calls, starts, mapped, reply>>

(* A process that is being started is not in the map, and not stopped.      *)
stop_engine ==
  /\ IF mapped = 0 THEN UNCHANGED procs ELSE Stop
  /\ UNCHANGED <<calls, starts, mapped, reply>>

(* A sleeping call acts behind the commands that do not sleep, and a start  *)
(* that is awaited behind all.                                              *)
TimerFires ==
  /\ timer # None
  /\ IF timer.on THEN get_best_moves(timer.q) ELSE stop_engine
  /\ overtaken' = (starts # {} \/ (calls # << >> /\ calls' = calls))
  /\ timer' = None
  /\ wrote' = None
  /\ UNCHANGED <<pos, enabled, view, handlers, events, crossed>>

(* The rest of a first call: the engine is told to go, and its process put  *)
(* into the map, in the place of one that was put there meanwhile, which    *)
(* goes on with its own reader.                                             *)
Started(p) ==
  /\ procs' = [procs EXCEPT ![p].running = TRUE, ![p].search = procs[p].options]
  /\ starts' = starts \ {p}
  /\ mapped' = p
  /\ wrote' = None
  /\ UNCHANGED <<ui, calls, events, reply, history>>

Silent(e) == e.search = None /\ e.pipe = << >>

(* The rest of another call: new options and go, for the process that is in *)
(* the map by now. An engine that still searches does not take the go.      *)
(* Fifty milliseconds after its own stop, a call finds the engine silent    *)
(* unless another call has set it going since.                              *)
Wakes ==
  /\ calls # << >>
  /\ calls' = Tail(calls)
  /\ LET e == procs[mapped] IN
       /\ Timely => e.running \/ Silent(e)
       /\ procs' = [procs EXCEPT ![mapped] =
                      [options |-> Head(calls), last |-> None, running |-> TRUE,
                       search |-> IF e.search = None THEN Head(calls) ELSE e.search,
                       stopping |-> e.stopping /\ e.search # None, pipe |-> e.pipe]]
       /\ crossed' = (crossed \/ ~Silent(e))
  /\ wrote' = None
  /\ UNCHANGED <<ui, starts, mapped, events, reply, overtaken>>

-----------------------------------------------------------------------------
(* The engines and the loops that read their output.                        *)

Writes(p, kind, search, stopping) ==
  /\ procs[p].search # None
  /\ RoomUnderWay
  /\ procs' = [procs EXCEPT ![p].search = search, ![p].stopping = stopping,
                            ![p].pipe = Append(@, [kind |-> kind, q |-> procs[p].search])]
  /\ wrote' = None
  /\ UNCHANGED <<ui, calls, starts, mapped, events, reply, history>>

Info(p) == Writes(p, "info", procs[p].search, procs[p].stopping)

(* The search ends by itself or is stopped.                                 *)
BestMove(p) == Writes(p, "bestmove", None, FALSE)

StopsIdle(p) ==
  /\ procs[p].stopping /\ procs[p].search = None
  /\ procs' = [procs EXCEPT ![p].stopping = FALSE]
  /\ wrote' = None
  /\ UNCHANGED <<ui, calls, starts, mapped, events, reply, history>>

Emit(p, lines) ==
  events' = Append(events, [label |-> procs[p].options, lines |-> lines])

Read(p, last) ==
  procs' = [procs EXCEPT ![p].pipe = Tail(@), ![p].last = last]

(* A line is read under the options of now. An info line is dropped when    *)
(* its moves are illegal there or the rate limiter says so; a bestmove      *)
(* repeats the lines emitted last, if there were any.                       *)
ReadLine(p) ==
  /\ procs[p].pipe # << >>
  /\ LET line == Head(procs[p].pipe) last == procs[p].last IN
       \/ line.kind = "info" /\ Read(p, last) /\ UNCHANGED events
       \/ line.kind = "info" /\ Read(p, line.q) /\ Emit(p, line.q)
       \/ line.kind = "bestmove" /\ Read(p, last) /\ Emit(p, last)
  /\ wrote' = None
  /\ UNCHANGED <<ui, calls, starts, mapped, reply, history>>

-----------------------------------------------------------------------------
(* What comes back to the view.                                             *)

(* Mutant: the handler looks at the engine and the tab only.                *)
HandlesAny(h, e) == h.at \in {"listening", "leaving"}

Handles(h, e) == h.at \in {"listening", "leaving"} /\ h.q = e.label

(* Handlers with the event's query file the lines under it and give their   *)
(* score to the node that is current now; an event without lines makes them *)
(* throw before that. `leaving` handlers may be gone already.               *)
EventArrives ==
  /\ events # << >>
  /\ events' = Tail(events)
  /\ wrote' \in {[key |-> h.q, lines |-> Head(events).lines,
                  node |-> IF Head(events).lines = None THEN None ELSE pos] :
                   h \in {g \in handlers : Handles(g, Head(events))}} \cup
                (IF \E h \in handlers : h.at = "listening" /\ Handles(h, Head(events))
                 THEN {} ELSE {None})
  /\ UNCHANGED <<ui, shell, reply, history>>

(* The promise of get_best_moves() files its lines under the query it asked.*)
ReplyArrives ==
  /\ reply # None
  /\ reply' = None
  /\ wrote' = [key |-> reply.q, lines |-> reply.lines, node |-> None]
  /\ UNCHANGED <<ui, shell, events, history>>

-----------------------------------------------------------------------------

Init ==
  /\ pos \in Positions
  /\ enabled = FALSE
  /\ view = Current
  /\ handlers = {}
  /\ timer = None
  /\ calls = << >>
  /\ procs = << >> /\ starts = {} /\ mapped = 0
  /\ events = << >>
  /\ reply = None
  /\ wrote = None
  /\ overtaken = FALSE /\ crossed = FALSE

Next ==
  \/ \E p \in Positions : GoTo(p)
  \/ ToggleEngine
  \/ RunEffects
  \/ \E h \in handlers : Listens(h)
  \/ TimerFires
  \/ \E p \in starts : Started(p)
  \/ Wakes
  \/ \E p \in DOMAIN procs : Info(p) \/ BestMove(p) \/ StopsIdle(p) \/ ReadLine(p)
  \/ EventArrives
  \/ ReplyArrives

Spec == Init /\ [][Next]_vars

(* Effects run, timers fire, processes start, the loops read and events are *)
(* delivered; an engine that is told to stop stops. It need not say         *)
(* anything else.                                                           *)
FairSpec ==
  /\ Spec
  /\ WF_vars(RunEffects)
  /\ WF_vars(\E h \in handlers : Listens(h))
  /\ WF_vars(TimerFires)
  /\ WF_vars(\E p \in starts : Started(p))
  /\ WF_vars(Wakes)
  /\ SF_vars(\E p \in DOMAIN procs : procs[p].stopping /\ (BestMove(p) \/ StopsIdle(p)))
  /\ WF_vars(\E p \in DOMAIN procs : ReadLine(p))
  /\ WF_vars(EventArrives)
  /\ WF_vars(ReplyArrives)

-----------------------------------------------------------------------------
(* Properties.                                                              *)

TypeOK ==
  /\ view \in Views /\ timer \in Views \cup {None}
  /\ \A h \in handlers : h.q \in Positions /\ h.at \in {"joining", "listening", "leaving"}
  /\ \A i \in DOMAIN calls : calls[i] \in Positions
  /\ starts \subseteq DOMAIN procs /\ mapped \in (DOMAIN procs \ starts) \cup {0}
  /\ calls # << >> => mapped # 0
  /\ \A p \in DOMAIN procs :
       /\ procs[p].options \in Positions
       /\ {procs[p].last, procs[p].search} \subseteq Positions \cup {None}
  /\ \A e \in ToSet(events) : e.label \in Positions
  /\ \A h \in handlers : h.at # "leaving" => h.q = view.q /\ view.on

(* Lines filed under a query were computed for it, through the label of the *)
(* event, the handler's own query and a result handed out twice. The code   *)
(* sleeps to "give time for engine to stop and process previous lines"      *)
(* (chess.rs:346, 334-356); but two calls that overlap both stop the engine *)
(* before the first sets it going, and the second finds it searching.       *)
LinesBelong ==
  wrote # None => wrote.lines \in {None, wrote.key}

(* A node gets the score of another position only in the time between a     *)
(* move and the cleanup of the listeners of the position before             *)
(* (EvalListener.tsx:154-165).                                              *)
ScoresBelong ==
  wrote # None /\ wrote.node # None =>
    \/ wrote.key = wrote.node
    \/ view # Current
    \/ \E h \in handlers : h.at = "leaving" /\ h.q = wrote.key

(* Whatever is written belongs where it is written: the score to the node   *)
(* it is shown at, and the lines to the query they are filed under unless a *)
(* call went on while the engine was still searching or its lines unread    *)
(* (EvalListener.tsx:128-165, chess.rs:334-440).                            *)
ResultsBelong == (crossed \/ LinesBelong) /\ ScoresBelong

(* Once the effects have settled, the process of an engine that is switched *)
(* off is idle or about to be, unless the stop came while a call slept or a *)
(* process started: such a call or start sets the engine going behind the   *)
(* stop. A process that another start replaced is out of reach of any stop  *)
(* (EvalListener.tsx:226-231, chess.rs:290-301, 334-366).                   *)
OffIsQuiet ==
  ~enabled /\ view = Current /\ timer = None /\ ~overtaken /\ mapped # 0 =>
    procs[mapped].search = None \/ procs[mapped].stopping

(* Once the effects, the calls and the starts are through, an engine that is*)
(* on has a process that is set to the position on the board and taken to   *)
(* be searching it, whichever calls slept when the position was reached,    *)
(* unless the last call was answered by a search that a sleeping call       *)
(* replaced afterwards, or came while a process was started, which was set  *)
(* to its own position last (EvalListener.tsx:195-245, chess.rs:334-366).   *)
FollowsTheBoard ==
  enabled /\ view = Current /\ timer = None /\ calls = << >> /\ starts = {} /\ ~overtaken =>
    mapped # 0 /\ procs[mapped].options = pos /\ procs[mapped].running

(* So the board is caught up with in the end (EvalListener.tsx:195-245).    *)
Follows ==
  \A q \in Positions :
    Current = [q |-> q, on |-> TRUE] ~>
      \/ mapped # 0 /\ procs[mapped].options = q
      \/ Current # [q |-> q, on |-> TRUE]
      \/ overtaken

=============================================================================
