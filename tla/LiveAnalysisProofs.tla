------------------------- MODULE LiveAnalysisProofs -------------------------
(* Proofs about the engine that follows the board, for any positions, any   *)
(* number of processes, calls, lines, events and handlers under way, and    *)
(* whether or not the sleep of get_best_moves() is long enough.             *)
EXTENDS LiveAnalysis, SequenceTheorems, TLAPS

MaybePosition == Positions \cup {None}
Lines == [kind : {"info", "bestmove"}, q : Positions]
Process == [options : Positions, last : MaybePosition, running : BOOLEAN,
            search : MaybePosition, stopping : BOOLEAN, pipe : Seq(Lines)]
Emitted == [label : Positions, lines : MaybePosition]
Handlers == [q : Positions, at : {"joining", "listening", "leaving"}]

-----------------------------------------------------------------------------
(* Types, and the one relation between listeners and the view: a handler    *)
(* that stays is the view's.                                                *)

ViewType ==
  /\ pos \in Positions /\ enabled \in BOOLEAN
  /\ view \in Views /\ timer \in Views \cup {None}
  /\ handlers \subseteq Handlers
  /\ \A h \in handlers : h.at # "leaving" => h.q = view.q /\ view.on

ShellType ==
  /\ calls \in Seq(Positions)
  /\ procs \in Seq(Process)
  /\ starts \subseteq 1 .. Len(procs)
  /\ mapped \in (1 .. Len(procs) \ starts) \cup {0}
  /\ calls # << >> => mapped # 0

Types == ViewType /\ ShellType /\ events \in Seq(Emitted)

LEMMA InitTypes == Init => Types
<1> SUFFICES ASSUME Init PROVE Types
  OBVIOUS
<1>1. ViewType
  BY DEF Init, ViewType, Views, Current
<1>2. << >> \in Seq(Positions) /\ << >> \in Seq(Process) /\ << >> \in Seq(Emitted)
  BY EmptySeq
<1>3. ShellType /\ events \in Seq(Emitted)
  BY <1>2 DEF Init, ShellType
<1>4. QED
  BY <1>1, <1>3 DEF Types

LEMMA ViewStep ==
  ASSUME Types, [Next]_vars
  PROVE  ViewType'
<1> USE DEF Types, ViewType
<1>1. CASE (\E p \in Positions : GoTo(p)) \/ ToggleEngine
  BY <1>1 DEF GoTo, ToggleEngine, Unseen
<1>2. CASE RunEffects
  BY <1>2 DEF RunEffects, Leaving, Current, Views, Handlers
<1>3. CASE \E h \in handlers : Listens(h)
  <2>1. PICK h \in handlers : Listens(h)
    BY <1>3
  <2>2. \A g \in handlers' : g \in handlers \/ (h.at = "joining" /\ g = [h EXCEPT !.at = "listening"])
    BY <2>1 DEF Listens
  <2>3. \A g \in handlers' : g \in Handlers /\ (g.at # "leaving" => g.q = view.q /\ view.on)
    BY <2>2 DEF Handlers
  <2>4. QED
    BY <2>1, <2>3 DEF Listens
<1>4. CASE TimerFires
  BY <1>4 DEF TimerFires
<1>5. CASE UNCHANGED ui
  BY <1>5 DEF ui
<1>6. QED
  BY <1>1, <1>2, <1>3, <1>4, <1>5 DEF Next, Started, Wakes, Info, BestMove, Writes, StopsIdle,
     ReadLine, EventArrives, ReplyArrives, vars

(* A new process, or one of the processes with new fields, is a process.    *)
LEMMA NewTyped ==
  ASSUME NEW q \in Positions
  PROVE  New(q) \in Process
<1>1. << >> \in Seq(Lines)
  BY EmptySeq
<1>2. QED
  BY <1>1 DEF New, Process, MaybePosition

LEMMA ProcTyped ==
  ASSUME Types, NEW p \in 1 .. Len(procs)
  PROVE  /\ procs[p] \in Process
         /\ procs[p].options \in Positions /\ procs[p].last \in MaybePosition
         /\ procs[p].running \in BOOLEAN /\ procs[p].search \in MaybePosition
         /\ procs[p].stopping \in BOOLEAN /\ procs[p].pipe \in Seq(Lines)
<1>1. procs[p] \in Process
  BY ElementOfSeq DEF Types, ShellType
<1>2. QED
  BY <1>1 DEF Process

(* What a command makes of the processes: one more, or the process in the   *)
(* map stopped.                                                             *)
LEMMA StopShape ==
  ASSUME Types, mapped # 0, Stop
  PROVE  /\ mapped \in 1 .. Len(procs)
         /\ procs' = [procs EXCEPT ![mapped] =
                        [procs[mapped] EXCEPT !.running = FALSE, !.stopping = TRUE]]
<1>1. mapped \in 1 .. Len(procs)
  BY DEF Types, ShellType
<1>2. procs[mapped] \in Process /\ DOMAIN procs = 1 .. Len(procs)
  BY <1>1, ProcTyped, LenProperties DEF Types, ShellType
<1>3. QED
  BY <1>1, <1>2 DEF Stop, Process

LEMMA WakesShape ==
  ASSUME Types, Wakes
  PROVE  /\ mapped \in 1 .. Len(procs)
         /\ calls' \in Seq(Positions)
         /\ \E q \in Positions, s \in MaybePosition, b \in BOOLEAN :
              /\ s = IF procs[mapped].search = None THEN q ELSE procs[mapped].search
              /\ procs' = [procs EXCEPT ![mapped] =
                             [options |-> q, last |-> None, running |-> TRUE, search |-> s,
                              stopping |-> b, pipe |-> procs[mapped].pipe]]
<1>1. calls # << >> /\ mapped # 0 /\ mapped \in 1 .. Len(procs) /\ calls \in Seq(Positions)
  BY DEF Wakes, Types, ShellType
<1>2. Head(calls) \in Positions /\ Tail(calls) \in Seq(Positions)
  BY <1>1, HeadTailProperties
<1>3. procs[mapped].search \in MaybePosition /\ procs[mapped].stopping \in BOOLEAN
  BY <1>1, ProcTyped
<1>4. (IF procs[mapped].search = None THEN Head(calls) ELSE procs[mapped].search) \in MaybePosition
  BY <1>2, <1>3 DEF MaybePosition
<1>5. (procs[mapped].stopping /\ procs[mapped].search # None) \in BOOLEAN
  OBVIOUS
<1>6. QED
  BY <1>1, <1>2, <1>4, <1>5 DEF Wakes

LEMMA WritesShape ==
  ASSUME Types, NEW p \in 1 .. Len(procs), Info(p) \/ BestMove(p)
  PROVE  /\ UNCHANGED <<ui, calls, starts, mapped, events, reply, history>> /\ wrote' = None
         /\ procs[p].search # None
         /\ \E l \in Lines, s \in {procs[p].search, None}, b \in BOOLEAN :
              /\ l.q = procs[p].search
              /\ s # None => b = procs[p].stopping
              /\ procs' = [procs EXCEPT ![p] = [procs[p] EXCEPT !.search = s, !.stopping = b,
                             !.pipe = Append(procs[p].pipe, l)]]
<1> DEFINE L(k) == [kind |-> k, q |-> procs[p].search]
           P(k, s, b) == [procs EXCEPT ![p].search = s, ![p].stopping = b,
                                       ![p].pipe = Append(@, L(k))]
<1>1. procs[p] \in Process /\ procs[p].search \in MaybePosition /\ procs[p].stopping \in BOOLEAN
  BY ProcTyped
<1>2. procs[p].search # None
  BY DEF Info, BestMove, Writes
<1>3. L("info") \in Lines /\ L("bestmove") \in Lines
  BY <1>1, <1>2 DEF Lines, MaybePosition
<1>4. DOMAIN procs = 1 .. Len(procs)
  BY LenProperties DEF Types, ShellType
<1>5. \A k \in {"info", "bestmove"}, s \in MaybePosition, b \in BOOLEAN :
        P(k, s, b) = [procs EXCEPT ![p] = [procs[p] EXCEPT !.search = s, !.stopping = b,
                        !.pipe = Append(procs[p].pipe, L(k))]]
  BY <1>1, <1>4 DEF Process
<1>6. UNCHANGED <<ui, calls, starts, mapped, events, reply, history>> /\ wrote' = None
  BY DEF Info, BestMove, Writes
<1>7. CASE Info(p)
  <2>1. procs' = P("info", procs[p].search, procs[p].stopping)
    BY <1>7 DEF Info, Writes
  <2>2. procs' = [procs EXCEPT ![p] = [procs[p] EXCEPT !.search = procs[p].search,
                    !.stopping = procs[p].stopping, !.pipe = Append(procs[p].pipe, L("info"))]]
    BY <1>1, <1>5, <2>1
  <2>3. L("info").q = procs[p].search
    OBVIOUS
  <2> HIDE DEF L, P
  <2>4. QED
    BY <1>1, <1>2, <1>3, <1>6, <2>2, <2>3
<1>8. CASE BestMove(p)
  <2>1. procs' = P("bestmove", None, FALSE)
    BY <1>8 DEF BestMove, Writes
  <2>2. None \in MaybePosition
    BY DEF MaybePosition
  <2>3. QED
    BY <1>1, <1>2, <1>3, <1>5, <1>6, <2>1, <2>2
<1>9. QED
  BY <1>7, <1>8

LEMMA ReadShape ==
  ASSUME Types, NEW p \in 1 .. Len(procs), ReadLine(p)
  PROVE  /\ procs[p].pipe # << >>
         /\ \E last \in {procs[p].last, Head(procs[p].pipe).q} :
              /\ procs' = [procs EXCEPT ![p] =
                             [procs[p] EXCEPT !.pipe = Tail(procs[p].pipe), !.last = last]]
              /\ \/ events' = events
                 \/ events' = Append(events, [label |-> procs[p].options, lines |-> last])
<1>1. procs[p] \in Process /\ DOMAIN procs = 1 .. Len(procs)
  BY ProcTyped, LenProperties DEF Types, ShellType
<1>2. \A last : Read(p, last) =>
        procs' = [procs EXCEPT ![p] = [procs[p] EXCEPT !.pipe = Tail(procs[p].pipe), !.last = last]]
  BY <1>1 DEF Read, Process
<1>3. QED
  BY <1>2 DEF ReadLine, Emit

(* Those new records are processes.                                         *)
LEMMA StopTyped ==
  ASSUME Types, NEW p \in 1 .. Len(procs),
         procs' = [procs EXCEPT ![p] = [procs[p] EXCEPT !.running = FALSE, !.stopping = TRUE]]
  PROVE  procs' \in Seq(Process) /\ Len(procs') = Len(procs)
<1>1. [procs[p] EXCEPT !.running = FALSE, !.stopping = TRUE] \in Process
  BY ProcTyped DEF Process
<1>2. QED
  BY <1>1, ExceptSeq DEF Types, ShellType

LEMMA StartTyped ==
  ASSUME Types, NEW p \in starts, Started(p)
  PROVE  /\ procs' \in Seq(Process) /\ Len(procs') = Len(procs)
         /\ p \in 1 .. Len(procs)
         /\ procs' = [procs EXCEPT ![p] =
                        [procs[p] EXCEPT !.running = TRUE, !.search = procs[p].options]]
<1>1. p \in 1 .. Len(procs) /\ DOMAIN procs = 1 .. Len(procs)
  BY LenProperties DEF Types, ShellType
<1>2. procs[p] \in Process /\ procs[p].options \in Positions
  BY <1>1, ProcTyped
<1>3. procs' = [procs EXCEPT ![p] = [procs[p] EXCEPT !.running = TRUE, !.search = procs[p].options]]
  BY <1>1, <1>2 DEF Started, Process
<1>4. [procs[p] EXCEPT !.running = TRUE, !.search = procs[p].options] \in Process
  BY <1>2 DEF Process, MaybePosition
<1>5. QED
  BY <1>1, <1>3, <1>4, ExceptSeq DEF Types, ShellType

LEMMA WakesTyped ==
  ASSUME Types, Wakes
  PROVE  procs' \in Seq(Process) /\ Len(procs') = Len(procs) /\ calls' \in Seq(Positions)
<1>1. PICK r \in Process : procs' = [procs EXCEPT ![mapped] = r]
  BY WakesShape, ProcTyped DEF Process, MaybePosition
<1>2. QED
  BY <1>1, WakesShape, ExceptSeq DEF Types, ShellType

LEMMA LoopTyped ==
  ASSUME Types, NEW p \in 1 .. Len(procs), Info(p) \/ BestMove(p) \/ StopsIdle(p) \/ ReadLine(p)
  PROVE  /\ procs' \in Seq(Process) /\ Len(procs') = Len(procs)
         /\ events' \in Seq(Emitted)
<1>0. /\ procs[p] \in Process /\ procs[p].pipe \in Seq(Lines)
      /\ procs[p].search \in MaybePosition /\ procs[p].last \in MaybePosition
      /\ procs[p].options \in Positions /\ procs[p].stopping \in BOOLEAN
      /\ procs \in Seq(Process) /\ events \in Seq(Emitted)
  BY ProcTyped DEF Types, ShellType
<1>1. CASE Info(p) \/ BestMove(p)
  <2>1. PICK l \in Lines, s \in {procs[p].search, None}, b \in BOOLEAN :
          procs' = [procs EXCEPT ![p] = [procs[p] EXCEPT !.search = s, !.stopping = b,
                     !.pipe = Append(procs[p].pipe, l)]]
    BY <1>1, WritesShape
  <2>2. Append(procs[p].pipe, l) \in Seq(Lines)
    BY <1>0, AppendProperties
  <2>3. [procs[p] EXCEPT !.search = s, !.stopping = b, !.pipe = Append(procs[p].pipe, l)] \in Process
    BY <1>0, <2>2 DEF Process, MaybePosition
  <2>4. UNCHANGED events
    BY <1>1 DEF Info, BestMove, Writes
  <2>5. QED
    BY <1>0, <2>1, <2>3, <2>4, ExceptSeq
<1>2. CASE StopsIdle(p)
  <2>1. [procs[p] EXCEPT !.stopping = FALSE] \in Process
    BY <1>0 DEF Process
  <2>2. procs' = [procs EXCEPT ![p] = [procs[p] EXCEPT !.stopping = FALSE]] /\ UNCHANGED events
    BY <1>0, <1>2, LenProperties DEF StopsIdle
  <2>3. QED
    BY <1>0, <2>1, <2>2, ExceptSeq
<1>3. CASE ReadLine(p)
  <2>1. PICK last \in {procs[p].last, Head(procs[p].pipe).q} :
          /\ procs' = [procs EXCEPT ![p] =
                         [procs[p] EXCEPT !.pipe = Tail(procs[p].pipe), !.last = last]]
          /\ \/ events' = events
             \/ events' = Append(events, [label |-> procs[p].options, lines |-> last])
    BY <1>3, ReadShape
  <2>2. Tail(procs[p].pipe) \in Seq(Lines) /\ Head(procs[p].pipe) \in Lines
    BY <1>0, <1>3, ReadShape, HeadTailProperties
  <2>3. last \in MaybePosition
    BY <1>0, <2>2 DEF Lines, MaybePosition
  <2>4. [procs[p] EXCEPT !.pipe = Tail(procs[p].pipe), !.last = last] \in Process
    BY <1>0, <2>2, <2>3 DEF Process
  <2>5. PICK e \in Emitted : e = [label |-> procs[p].options, lines |-> last]
    BY <1>0, <2>3 DEF Emitted
  <2>6. Append(events, e) \in Seq(Emitted)
    BY <1>0, AppendProperties
  <2>7. events' \in Seq(Emitted)
    BY <1>0, <2>1, <2>5, <2>6
  <2>8. QED
    BY <1>0, <2>1, <2>4, <2>7, ExceptSeq
<1>4. QED
  BY <1>1, <1>2, <1>3

LEMMA ShellStep ==
  ASSUME Types, [Next]_vars
  PROVE  ShellType' /\ events' \in Seq(Emitted)
<1> USE DEF Types, ShellType
<1> None \notin Positions
  BY LiveAnalysisAssumption
<1>1. CASE TimerFires
  <2> UNCHANGED events
    BY <1>1 DEF TimerFires
  <2>1. CASE timer.on /\ get_best_moves(timer.q)
    <3>1. timer.q \in Positions
      BY <1>1 DEF TimerFires, ViewType, Views
    <3>2. CASE /\ mapped = 0
               /\ procs' = Append(procs, New(timer.q)) /\ starts' = starts \cup {Len(procs')}
               /\ UNCHANGED <<calls, mapped, reply>>
      <4>1. procs' \in Seq(Process) /\ Len(procs') = Len(procs) + 1
        BY <3>1, <3>2, NewTyped, AppendProperties
      <4>2. Len(procs) \in Nat
        BY LenProperties
      <4>3. starts' \subseteq 1 .. Len(procs') /\ mapped' = 0 /\ calls' = << >>
        <5>1. starts \subseteq 1 .. Len(procs) /\ calls = << >>
          BY <3>2
        <5>2. starts' = starts \cup {Len(procs')}
          BY <3>2
        <5>3. starts' \subseteq 1 .. Len(procs')
          <6>1. \A n \in Nat : \A S \in SUBSET (1 .. n) : S \cup {n + 1} \subseteq 1 .. (n + 1)
            OBVIOUS
          <6>2. starts \cup {Len(procs) + 1} \subseteq 1 .. (Len(procs) + 1)
            BY <4>2, <5>1, <6>1
          <6>3. QED
            BY <4>1, <5>2, <6>2
        <5>4. QED
          BY <3>2, <5>1, <5>3
      <4>4. mapped' \in (1 .. Len(procs') \ starts') \cup {0}
        BY <4>3
      <4>5. QED
        BY <4>1, <4>3, <4>4
    <3>3. CASE mapped # 0 /\ UNCHANGED shell
      BY <3>3 DEF shell
    <3>4. CASE /\ mapped # 0 /\ Stop /\ calls' = Append(calls, timer.q)
               /\ UNCHANGED <<starts, mapped, reply>>
      <4>1. calls' \in Seq(Positions)
        BY <3>1, <3>4, AppendProperties
      <4>2. procs' \in Seq(Process) /\ Len(procs') = Len(procs)
        BY <3>4, StopShape, StopTyped
      <4>3. QED
        BY <3>4, <4>1, <4>2
    <3>5. QED
      BY <2>1, <3>2, <3>3, <3>4 DEF get_best_moves
  <2>2. CASE stop_engine
    <3>1. CASE mapped = 0 /\ UNCHANGED procs
      BY <2>2, <3>1 DEF stop_engine
    <3>2. CASE mapped # 0 /\ Stop
      <4>1. procs' \in Seq(Process) /\ Len(procs') = Len(procs)
        BY <3>2, StopShape, StopTyped
      <4>2. QED
        BY <2>2, <3>2, <4>1 DEF stop_engine
    <3>3. QED
      BY <2>2, <3>1, <3>2 DEF stop_engine
  <2>3. QED
    BY <1>1, <2>1, <2>2 DEF TimerFires
<1>2. CASE \E p \in starts : Started(p)
  <2>1. PICK p \in starts : Started(p)
    BY <1>2
  <2>2. procs' \in Seq(Process) /\ Len(procs') = Len(procs)
    BY <2>1, StartTyped
  <2>3. QED
    BY <2>1, <2>2 DEF Started
<1>3. CASE Wakes
  <2>1. procs' \in Seq(Process) /\ Len(procs') = Len(procs) /\ calls' \in Seq(Positions)
    BY <1>3, WakesTyped
  <2>2. QED
    BY <1>3, <2>1, WakesShape DEF Wakes
<1>4. CASE \E p \in DOMAIN procs : Info(p) \/ BestMove(p) \/ StopsIdle(p) \/ ReadLine(p)
  <2>1. PICK p \in 1 .. Len(procs) : Info(p) \/ BestMove(p) \/ StopsIdle(p) \/ ReadLine(p)
    BY <1>4, LenProperties
  <2>2. procs' \in Seq(Process) /\ Len(procs') = Len(procs) /\ events' \in Seq(Emitted)
    BY <2>1, LoopTyped
  <2>3. UNCHANGED <<calls, starts, mapped>>
    BY <2>1 DEF Info, BestMove, Writes, StopsIdle, ReadLine
  <2>4. QED
    BY <2>2, <2>3
<1>5. CASE EventArrives
  <2>1. Tail(events) \in Seq(Emitted)
    BY <1>5, HeadTailProperties DEF EventArrives
  <2>2. QED
    BY <1>5, <2>1 DEF EventArrives, shell
<1>6. CASE UNCHANGED shell /\ UNCHANGED events
  BY <1>6 DEF shell
<1>7. QED
  BY <1>1, <1>2, <1>3, <1>4, <1>5, <1>6 DEF Next, GoTo, ToggleEngine, Unseen, RunEffects, Listens,
     ReplyArrives, vars

LEMMA TypesHold == Spec => []Types
<1>1. Types /\ [Next]_vars => Types'
  BY ViewStep, ShellStep DEF Types
<1>2. QED
  BY <1>1, InitTypes, PTL DEF Spec

(* TypeOK: positions where positions are expected, only handlers of the     *)
(* view's own position stay, and a call sleeps only when there is a process *)
(* in the map to wake up to (EvalListener.tsx:122-165, chess.rs:334-366).   *)
THEOREM TypeCorrect == Spec => []TypeOK
<1>1. Types => TypeOK
  <2> SUFFICES ASSUME Types PROVE TypeOK
    OBVIOUS
  <2>1. \A h \in handlers : h.q \in Positions /\ h.at \in {"joining", "listening", "leaving"}
    BY DEF Types, ViewType, Handlers
  <2>2. /\ DOMAIN procs = 1 .. Len(procs) /\ DOMAIN calls = 1 .. Len(calls)
        /\ DOMAIN events = 1 .. Len(events)
    BY LenProperties DEF Types, ShellType
  <2>3. /\ \A i \in DOMAIN calls : calls[i] \in Positions
        /\ \A i \in DOMAIN events : events[i] \in Emitted
    BY <2>2, ElementOfSeq DEF Types, ShellType
  <2>4. \A e \in ToSet(events) : e.label \in Positions
    BY <2>3 DEF ToSet, Emitted
  <2>5. \A p \in DOMAIN procs :
          /\ procs[p].options \in Positions
          /\ {procs[p].last, procs[p].search} \subseteq Positions \cup {None}
    BY <2>2, ProcTyped DEF MaybePosition
  <2>6. QED
    BY <2>1, <2>2, <2>3, <2>4, <2>5 DEF Types, ViewType, ShellType, TypeOK
<1>2. QED
  BY <1>1, TypesHold, PTL

-----------------------------------------------------------------------------
(* Where results belong. As long as every call found the engine silent when *)
(* it went on, what an engine searches and what waits in its pipe is for    *)
(* the options its process has, so that the label of an event is the        *)
(* position its lines were computed for.                                    *)

LinesOf(q) == [kind : {"info", "bestmove"}, q : {q}]

OwnProcess ==
  {r \in Process : /\ r.search \in {None, r.options}
                   /\ r.last \in {None, r.options}
                   /\ r.pipe \in Seq(LinesOf(r.options))}

OwnEvents == {e \in Emitted : e.lines \in {None, e.label}}

Own ==
  /\ procs \in Seq(OwnProcess)
  /\ events \in Seq(OwnEvents)
  /\ reply # None => reply.lines \in {None, reply.q}
  /\ LinesBelong

Belongs == (crossed \/ Own) /\ ScoresBelong

LEMMA InitBelongs == Init => Belongs
<1> SUFFICES ASSUME Init PROVE Belongs
  OBVIOUS
<1>1. << >> \in Seq(OwnProcess) /\ << >> \in Seq(OwnEvents)
  BY EmptySeq
<1>2. QED
  BY <1>1 DEF Init, Belongs, Own, LinesBelong, ScoresBelong

LEMMA OwnProcs ==
  ASSUME Types, Own, [Next]_vars, ~crossed'
  PROVE  procs' \in Seq(OwnProcess)
<1>1. procs \in Seq(OwnProcess) /\ DOMAIN procs = 1 .. Len(procs)
  BY LenProperties DEF Own
<1>2. \A p \in 1 .. Len(procs) :
        /\ procs[p] \in OwnProcess /\ procs[p] \in Process
        /\ procs[p].search \in {None, procs[p].options}
        /\ procs[p].last \in {None, procs[p].options}
        /\ procs[p].pipe \in Seq(LinesOf(procs[p].options))
        /\ procs[p].options \in Positions
  BY <1>1, ElementOfSeq DEF OwnProcess, Process
<1>3. ASSUME NEW p \in 1 .. Len(procs), NEW r \in OwnProcess, procs' = [procs EXCEPT ![p] = r]
      PROVE  procs' \in Seq(OwnProcess)
  BY <1>1, <1>3, ExceptSeq
<1>4. Stop /\ mapped # 0 => procs' \in Seq(OwnProcess)
  <2> SUFFICES ASSUME Stop, mapped # 0 PROVE procs' \in Seq(OwnProcess)
    OBVIOUS
  <2>1. mapped \in 1 .. Len(procs)
    BY StopShape
  <2>2. [procs[mapped] EXCEPT !.running = FALSE, !.stopping = TRUE] \in OwnProcess
    BY <1>2, <2>1 DEF OwnProcess, Process
  <2>3. QED
    BY <1>3, <2>1, <2>2, StopShape
<1>5. CASE TimerFires
  <2>1. CASE timer.on /\ get_best_moves(timer.q)
    <3>1. timer.q \in Positions
      BY <1>5 DEF TimerFires, Types, ViewType, Views
    <3>2. CASE procs' = Append(procs, New(timer.q))
      <4>1. << >> \in Seq(LinesOf(timer.q))
        BY EmptySeq
      <4>2. New(timer.q) \in OwnProcess
        BY <3>1, <4>1, NewTyped DEF OwnProcess, New
      <4>3. QED
        BY <1>1, <3>2, <4>2, AppendProperties
    <3>3. QED
      BY <1>1, <1>4, <2>1, <3>2 DEF get_best_moves, shell
  <2>2. CASE stop_engine
    BY <1>1, <1>4, <2>2 DEF stop_engine
  <2>3. QED
    BY <1>5, <2>1, <2>2 DEF TimerFires
<1>6. CASE \E p \in starts : Started(p)
  <2>1. PICK p \in starts : Started(p)
    BY <1>6
  <2>2. [procs[p] EXCEPT !.running = TRUE, !.search = procs[p].options] \in OwnProcess
    BY <1>2, <2>1, StartTyped DEF OwnProcess, Process, MaybePosition
  <2>3. QED
    BY <1>3, <2>1, <2>2, StartTyped
<1>7. CASE Wakes
  <2>1. PICK q \in Positions, s \in MaybePosition, b \in BOOLEAN :
          /\ s = IF procs[mapped].search = None THEN q ELSE procs[mapped].search
          /\ procs' = [procs EXCEPT ![mapped] =
                         [options |-> q, last |-> None, running |-> TRUE, search |-> s,
                          stopping |-> b, pipe |-> procs[mapped].pipe]]
    BY <1>7, WakesShape
  <2>2. mapped \in 1 .. Len(procs)
    BY <1>7, WakesShape
  <2>3. s = q /\ procs[mapped].pipe = << >>
    BY <1>7, <2>1 DEF Wakes, Silent
  <2>4. << >> \in Seq(LinesOf(q)) /\ << >> \in Seq(Lines)
    BY EmptySeq
  <2>5. [options |-> q, last |-> None, running |-> TRUE, search |-> s, stopping |-> b,
         pipe |-> procs[mapped].pipe] \in OwnProcess
    BY <2>3, <2>4 DEF OwnProcess, Process, MaybePosition
  <2>6. QED
    BY <1>3, <2>1, <2>2, <2>5
<1>8. CASE \E p \in DOMAIN procs : Info(p) \/ BestMove(p) \/ StopsIdle(p) \/ ReadLine(p)
  <2>1. PICK p \in 1 .. Len(procs) : Info(p) \/ BestMove(p) \/ StopsIdle(p) \/ ReadLine(p)
    BY <1>1, <1>8
  <2> DEFINE L == LinesOf(procs[p].options)
  <2>2. procs[p].pipe \in Seq(Lines) /\ procs[p].pipe \in Seq(L)
    BY <1>2, ProcTyped
  <2>3. CASE Info(p) \/ BestMove(p)
    <3>1. PICK l \in Lines, s \in {procs[p].search, None}, b \in BOOLEAN :
            /\ procs[p].search # None /\ l.q = procs[p].search
            /\ procs' = [procs EXCEPT ![p] = [procs[p] EXCEPT !.search = s, !.stopping = b,
                           !.pipe = Append(procs[p].pipe, l)]]
      BY <2>3, WritesShape
    <3>2. l \in L
      BY <1>2, <3>1 DEF Lines, LinesOf
    <3>3. Append(procs[p].pipe, l) \in Seq(Lines) /\ Append(procs[p].pipe, l) \in Seq(L)
      BY <2>2, <3>2, AppendProperties
    <3>4. [procs[p] EXCEPT !.search = s, !.stopping = b, !.pipe = Append(procs[p].pipe, l)]
            \in OwnProcess
      BY <1>2, <3>3 DEF OwnProcess, Process, MaybePosition
    <3>5. QED
      BY <1>3, <3>1, <3>4
  <2>4. CASE StopsIdle(p)
    <3>1. procs' = [procs EXCEPT ![p] = [procs[p] EXCEPT !.stopping = FALSE]]
      BY <1>1, <1>2, <2>4 DEF StopsIdle, Process
    <3>2. [procs[p] EXCEPT !.stopping = FALSE] \in OwnProcess
      BY <1>2 DEF OwnProcess, Process
    <3>3. QED
      BY <1>3, <3>1, <3>2
  <2>5. CASE ReadLine(p)
    <3>1. PICK last \in {procs[p].last, Head(procs[p].pipe).q} :
            /\ procs[p].pipe # << >>
            /\ procs' = [procs EXCEPT ![p] =
                           [procs[p] EXCEPT !.pipe = Tail(procs[p].pipe), !.last = last]]
      BY <2>5, ReadShape
    <3>2. /\ Tail(procs[p].pipe) \in Seq(Lines) /\ Tail(procs[p].pipe) \in Seq(L)
          /\ Head(procs[p].pipe) \in L
      BY <2>2, <3>1, HeadTailProperties
    <3>3. last \in {None, procs[p].options}
      BY <1>2, <3>2 DEF LinesOf
    <3>4. [procs[p] EXCEPT !.pipe = Tail(procs[p].pipe), !.last = last] \in OwnProcess
      BY <1>2, <3>2, <3>3 DEF OwnProcess, Process, MaybePosition
    <3>5. QED
      BY <1>3, <3>1, <3>4
  <2>6. QED
    BY <2>1, <2>3, <2>4, <2>5
<1>9. CASE UNCHANGED procs
  BY <1>1, <1>9
<1>10. QED
  BY <1>5, <1>6, <1>7, <1>8, <1>9 DEF Next, GoTo, ToggleEngine, Unseen, RunEffects, Listens,
     EventArrives, ReplyArrives, shell, vars

LEMMA OwnEventsStep ==
  ASSUME Types, Own, [Next]_vars
  PROVE  events' \in Seq(OwnEvents)
<1>1. events \in Seq(OwnEvents) /\ DOMAIN procs = 1 .. Len(procs) /\ procs \in Seq(OwnProcess)
  BY LenProperties DEF Own
<1>2. CASE \E p \in DOMAIN procs : ReadLine(p)
  <2>1. PICK p \in 1 .. Len(procs) : ReadLine(p)
    BY <1>1, <1>2
  <2>2. /\ procs[p].last \in {None, procs[p].options} /\ procs[p].options \in Positions
        /\ procs[p].pipe \in Seq(LinesOf(procs[p].options)) /\ procs[p].pipe # << >>
    <3>1. procs[p] \in OwnProcess
      BY <1>1, ElementOfSeq
    <3>2. QED
      BY <2>1, <3>1, ReadShape DEF OwnProcess, Process
  <2>3. Head(procs[p].pipe).q = procs[p].options
    <3>1. Head(procs[p].pipe) \in LinesOf(procs[p].options)
      BY <2>2, HeadTailProperties
    <3>2. QED
      BY <3>1 DEF LinesOf
  <2>4. PICK last \in {procs[p].last, Head(procs[p].pipe).q} :
          \/ events' = events
          \/ events' = Append(events, [label |-> procs[p].options, lines |-> last])
    BY <2>1 DEF ReadLine, Emit
  <2>5. PICK e \in OwnEvents : e = [label |-> procs[p].options, lines |-> last]
    BY <2>2, <2>3 DEF OwnEvents, Emitted, MaybePosition
  <2>6. Append(events, e) \in Seq(OwnEvents)
    BY <1>1, AppendProperties
  <2>7. QED
    BY <1>1, <2>4, <2>5, <2>6
<1>3. CASE EventArrives
  BY <1>1, <1>3, HeadTailProperties DEF EventArrives
<1>4. CASE UNCHANGED events
  BY <1>1, <1>4
<1>5. QED
  BY <1>2, <1>3, <1>4 DEF Next, GoTo, ToggleEngine, Unseen, RunEffects, Listens, TimerFires, Started,
     Wakes, Info, BestMove, Writes, StopsIdle, ReplyArrives, vars

LEMMA OwnReply ==
  ASSUME Types, Own, [Next]_vars
  PROVE  reply' # None => reply'.lines \in {None, reply'.q}
<1>1. CASE TimerFires
  <2>1. CASE /\ mapped # 0 /\ Same(timer.q)
             /\ reply' = [q |-> timer.q, lines |-> procs[mapped].last]
    <3>1. procs[mapped].last \in {None, procs[mapped].options}
      BY <2>1, ElementOfSeq DEF Types, ShellType, Own, OwnProcess
    <3>2. QED
      BY <2>1, <3>1 DEF Same
  <2>2. CASE UNCHANGED reply
    BY <2>2 DEF Own
  <2>3. QED
    BY <1>1, <2>1, <2>2 DEF TimerFires, get_best_moves, stop_engine
<1>2. CASE ReplyArrives
  BY <1>2 DEF ReplyArrives
<1>3. CASE UNCHANGED reply
  BY <1>3 DEF Own
<1>4. QED
  BY <1>1, <1>2, <1>3 DEF Next, GoTo, ToggleEngine, Unseen, RunEffects, Listens, Started, Wakes, Info,
     BestMove, Writes, StopsIdle, ReadLine, EventArrives, vars

(* Only an event and a reply write, each where it says.                     *)
LEMMA WrittenByEvent ==
  ASSUME Types, EventArrives, wrote' # None
  PROVE  /\ events # << >>
         /\ \E h \in handlers :
              /\ h.q = Head(events).label
              /\ wrote' = [key |-> h.q, lines |-> Head(events).lines,
                           node |-> IF Head(events).lines = None THEN None ELSE pos]
BY DEF EventArrives, Handles

LEMMA OwnWritten ==
  ASSUME Types, Own, [Next]_vars
  PROVE  LinesBelong'
<1>1. CASE EventArrives /\ wrote' # None
  <2>1. Head(events).lines \in {None, Head(events).label}
    BY <1>1, WrittenByEvent, HeadTailProperties DEF Own, OwnEvents
  <2>2. QED
    BY <1>1, <2>1, WrittenByEvent DEF LinesBelong
<1>2. CASE ReplyArrives
  BY <1>2 DEF ReplyArrives, LinesBelong, Own
<1>3. CASE wrote' = None
  BY <1>3 DEF LinesBelong
<1>4. CASE UNCHANGED vars
  BY <1>4 DEF vars, LinesBelong, Own
<1>5. QED
  BY <1>1, <1>2, <1>3, <1>4 DEF Next, GoTo, ToggleEngine, Unseen, RunEffects, Listens, TimerFires,
     Started, Wakes, Info, BestMove, Writes, StopsIdle, ReadLine

LEMMA ScoresStep ==
  ASSUME Types, ScoresBelong, [Next]_vars
  PROVE  ScoresBelong'
<1> USE DEF ScoresBelong
<1>1. CASE EventArrives /\ wrote' # None
  <2>1. PICK h \in handlers :
          wrote' = [key |-> h.q, lines |-> Head(events).lines,
                    node |-> IF Head(events).lines = None THEN None ELSE pos]
    BY <1>1, WrittenByEvent
  <2>2. wrote'.key = h.q /\ wrote'.node \in {None, pos}
    BY <2>1
  <2>3. UNCHANGED <<pos, view, enabled, handlers>>
    BY <1>1 DEF EventArrives, ui
  <2>4. view = Current /\ h.at # "leaving" => h.q = pos
    BY DEF Types, ViewType, Current
  <2>5. QED
    BY <2>2, <2>3, <2>4 DEF Current
<1>2. CASE ReplyArrives
  BY <1>2 DEF ReplyArrives
<1>3. CASE wrote' = None
  BY <1>3
<1>4. CASE UNCHANGED vars
  BY <1>4 DEF vars, ui, Current
<1>5. QED
  BY <1>1, <1>2, <1>3, <1>4 DEF Next, GoTo, ToggleEngine, Unseen, RunEffects, Listens, TimerFires,
     Started, Wakes, Info, BestMove, Writes, StopsIdle, ReadLine

(* A call that found the engine at work is not forgotten.                   *)
LEMMA CrossedStays ==
  ASSUME [Next]_vars, crossed
  PROVE  crossed'
BY DEF Next, GoTo, ToggleEngine, Unseen, RunEffects, Listens, TimerFires, Started, Wakes, Info,
   BestMove, Writes, StopsIdle, ReadLine, EventArrives, ReplyArrives, history, vars

(* ResultsBelong: lines are filed under the position they were computed for *)
(* unless a call went on before the engine was silent, and a score is not   *)
(* given to another position once the listeners of the one before are gone  *)
(* (EvalListener.tsx:128-165, chess.rs:334-440).                            *)
THEOREM ResultsInPlace == Spec => []ResultsBelong
<1>1. Types /\ Belongs /\ [Next]_vars => Belongs'
  <2> SUFFICES ASSUME Types, Belongs, [Next]_vars PROVE Belongs'
    OBVIOUS
  <2>1. ScoresBelong'
    BY ScoresStep DEF Belongs
  <2>2. ~crossed' => Own'
    BY CrossedStays, OwnProcs, OwnEventsStep, OwnReply, OwnWritten DEF Belongs, Own
  <2>3. QED
    BY <2>1, <2>2 DEF Belongs
<1>2. Belongs => ResultsBelong
  BY DEF Belongs, Own, ResultsBelong
<1>3. QED
  BY <1>1, <1>2, InitBelongs, TypesHold, PTL DEF Spec

-----------------------------------------------------------------------------
(* Switching off. Once the effect has run for an engine that is off, and    *)
(* its stop overtook no call and no start, none is under way and a search   *)
(* that goes on has been told to stop.                                      *)

Quiet == mapped # 0 => procs[mapped].search = None \/ procs[mapped].stopping

QuietInv ==
  /\ timer # None => timer = view
  /\ timer = None /\ ~view.on /\ ~overtaken => calls = << >> /\ starts = {} /\ Quiet

LEMMA QuietStep ==
  ASSUME Types, QuietInv, [Next]_vars
  PROVE  QuietInv'
<1> USE DEF QuietInv
<1> DOMAIN procs = 1 .. Len(procs) /\ (mapped # 0 => mapped \in 1 .. Len(procs))
  BY LenProperties DEF Types, ShellType
<1>1. CASE RunEffects
  <2>1. view' = Current /\ Current \in [q : Positions, on : BOOLEAN]
    BY <1>1 DEF RunEffects, Current, Types, ViewType
  <2>2. timer' = view' /\ timer' # None
    BY <1>1, <2>1, LiveAnalysisAssumption DEF RunEffects
  <2>3. QED
    BY <2>2
<1>2. CASE TimerFires
  <2>1. timer' = None /\ UNCHANGED view /\ timer = view
    BY <1>2 DEF TimerFires
  <2>2. CASE ~view.on /\ ~overtaken'
    <3>1. stop_engine /\ overtaken' = (starts # {} \/ (calls # << >> /\ calls' = calls))
      BY <1>2, <2>1, <2>2 DEF TimerFires
    <3>2. UNCHANGED <<calls, starts, mapped>>
      BY <3>1 DEF stop_engine
    <3>3. calls' = << >> /\ starts' = {}
      BY <2>2, <3>1, <3>2
    <3>4. Quiet'
      <4>1. CASE mapped = 0
        BY <3>2, <4>1 DEF Quiet
      <4>2. CASE mapped # 0
        <5>1. procs'[mapped].stopping
          BY <3>1, <4>2, StopShape, ProcTyped DEF stop_engine, Process
        <5>2. QED
          BY <3>2, <5>1 DEF Quiet
      <4>3. QED
        BY <4>1, <4>2
    <3>5. QED
      BY <2>1, <3>3, <3>4
  <2>3. QED
    BY <2>1, <2>2
<1>3. CASE (\E p \in starts : Started(p)) \/ Wakes
  BY <1>3 DEF Started, Wakes, ui, history
<1>4. CASE \E p \in DOMAIN procs : Info(p) \/ BestMove(p) \/ StopsIdle(p) \/ ReadLine(p)
  <2>1. PICK p \in 1 .. Len(procs) : Info(p) \/ BestMove(p) \/ StopsIdle(p) \/ ReadLine(p)
    BY <1>4
  <2>2. UNCHANGED <<timer, view, overtaken, calls, starts, mapped>>
    BY <2>1 DEF Info, BestMove, Writes, StopsIdle, ReadLine, ui, history
  <2>3. procs[p] \in Process
    BY <2>1, ProcTyped
  <2>4. Quiet => Quiet'
    <3>1. CASE Info(p) \/ BestMove(p)
      <4>1. PICK l \in Lines, s \in {procs[p].search, None}, b \in BOOLEAN :
              /\ l.q = procs[p].search
              /\ s # None => b = procs[p].stopping
              /\ procs' = [procs EXCEPT ![p] = [procs[p] EXCEPT !.search = s, !.stopping = b,
                             !.pipe = Append(procs[p].pipe, l)]]
        BY <3>1, WritesShape
      <4>2. /\ procs'[p].search = s /\ procs'[p].stopping = b
            /\ \A m \in 1 .. Len(procs) : m # p => procs'[m] = procs[m]
        BY <2>3, <4>1 DEF Process
      <4>3. QED
        BY <2>2, <4>1, <4>2 DEF Quiet
    <3>2. CASE StopsIdle(p)
      <4>1. /\ procs'[p].search = None
            /\ \A m \in 1 .. Len(procs) : m # p => procs'[m] = procs[m]
        BY <2>3, <3>2 DEF StopsIdle, Process
      <4>2. QED
        BY <2>2, <4>1 DEF Quiet
    <3>3. CASE ReadLine(p)
      <4>1. PICK last : procs' = [procs EXCEPT ![p] =
              [procs[p] EXCEPT !.pipe = Tail(procs[p].pipe), !.last = last]]
        BY <3>3, ReadShape
      <4>2. /\ procs'[p].search = procs[p].search /\ procs'[p].stopping = procs[p].stopping
            /\ \A m \in 1 .. Len(procs) : m # p => procs'[m] = procs[m]
        BY <2>3, <4>1 DEF Process
      <4>3. QED
        BY <2>2, <4>2 DEF Quiet
    <3>4. QED
      BY <2>1, <3>1, <3>2, <3>3
  <2>5. QED
    BY <2>2, <2>4
<1>5. CASE UNCHANGED <<timer, view, shell, overtaken>>
  BY <1>5 DEF shell, Quiet
<1>6. QED
  BY <1>1, <1>2, <1>3, <1>4, <1>5 DEF Next, GoTo, ToggleEngine, Unseen, Listens, EventArrives,
     ReplyArrives, ui, history, vars

(* OffIsQuiet: however moves, switches, starts and debounced calls cross,   *)
(* an engine whose stop came behind every call and start is idle or about   *)
(* to be (EvalListener.tsx:226-231, chess.rs:290-301, 334-366).             *)
THEOREM QuietWhenOff == Spec => []OffIsQuiet
<1>1. Init => QuietInv
  BY DEF Init, QuietInv, Quiet
<1>2. Types /\ QuietInv /\ [Next]_vars => QuietInv'
  BY QuietStep
<1>3. QuietInv => OffIsQuiet
  BY DEF QuietInv, Quiet, OffIsQuiet, Current
<1>4. QED
  BY <1>1, <1>2, <1>3, TypesHold, PTL DEF Spec

-----------------------------------------------------------------------------
(* Following the board. What was asked for last, if it overtook nothing, is *)
(* what the process is set to, or the last of the calls that sleep, or the  *)
(* only process that is being started.                                      *)

SetTo(q) == mapped # 0 /\ procs[mapped].options = q /\ procs[mapped].running

AsleepFor(q) == calls # << >> /\ calls[Len(calls)] = q

StartsFor(q) == calls = << >> /\ \E p \in starts : starts = {p} /\ procs[p].options = q

FollowInv ==
  timer = None /\ view.on /\ ~overtaken =>
    \/ starts = {} /\ calls = << >> /\ SetTo(view.q)
    \/ starts = {} /\ AsleepFor(view.q)
    \/ StartsFor(view.q)

(* The engine and the loop that reads it leave the process's settings.      *)
LEMMA LoopKeeps ==
  ASSUME Types, NEW p \in 1 .. Len(procs),
         Info(p) \/ BestMove(p) \/ StopsIdle(p) \/ ReadLine(p)
  PROVE  \A m \in 1 .. Len(procs) :
           procs'[m].options = procs[m].options /\ procs'[m].running = procs[m].running
<1> DOMAIN procs = 1 .. Len(procs)
  BY LenProperties DEF Types, ShellType
<1>1. procs[p] \in Process
  BY ProcTyped
<1>2. CASE Info(p) \/ BestMove(p)
  <2>1. PICK l \in Lines, s \in {procs[p].search, None}, b \in BOOLEAN :
          procs' = [procs EXCEPT ![p] = [procs[p] EXCEPT !.search = s, !.stopping = b,
                      !.pipe = Append(procs[p].pipe, l)]]
    BY <1>2, WritesShape
  <2>2. QED
    BY <1>1, <2>1 DEF Process
<1>3. CASE StopsIdle(p)
  BY <1>1, <1>3 DEF StopsIdle, Process
<1>4. CASE ReadLine(p)
  <2>1. PICK last : procs' = [procs EXCEPT ![p] =
          [procs[p] EXCEPT !.pipe = Tail(procs[p].pipe), !.last = last]]
    BY <1>4, ReadShape
  <2>2. QED
    BY <1>1, <2>1 DEF Process
<1>5. QED
  BY <1>2, <1>3, <1>4

(* The last of several calls is the last of those behind the first.         *)
LEMMA TailLast ==
  ASSUME NEW S, NEW s \in Seq(S), s # << >>, Len(s) # 1
  PROVE  Tail(s) # << >> /\ Tail(s)[Len(Tail(s))] = s[Len(s)]
<1> DEFINE t == Tail(s)
<1>1. Len(s) \in Nat /\ Len(s) # 0
  BY EmptySeq, LenProperties
<1>2. Len(t) = Len(s) - 1 /\ \A i \in 1 .. Len(t) : t[i] = s[i + 1]
  BY HeadTailProperties
<1> HIDE DEF t
<1>3. Len(t) \in 1 .. Len(t) /\ Len(t) + 1 = Len(s)
  BY <1>1, <1>2
<1>4. t # << >>
  BY <1>1, <1>2, Len(<< >>) = 0
<1>5. QED
  BY <1>2, <1>3, <1>4 DEF t

LEMMA FollowStep ==
  ASSUME Types, QuietInv, FollowInv, [Next]_vars
  PROVE  FollowInv'
<1> DOMAIN procs = 1 .. Len(procs) /\ Len(procs) \in Nat
  BY LenProperties DEF Types, ShellType
<1>0. /\ starts \subseteq 1 .. Len(procs) /\ mapped \in 0 .. Len(procs)
      /\ calls \in Seq(Positions) /\ (calls # << >> => mapped # 0)
  BY DEF Types, ShellType
<1>1. CASE RunEffects
  <2>1. timer' = Current /\ Current \in [q : Positions, on : BOOLEAN]
    BY <1>1 DEF RunEffects, Current, Types, ViewType
  <2>2. timer' # None
    BY <2>1, LiveAnalysisAssumption
  <2>3. QED
    BY <2>2 DEF FollowInv
<1>2. CASE TimerFires
  <2> SUFFICES ASSUME view.on, ~overtaken'
               PROVE  \/ (starts = {} /\ calls = << >> /\ SetTo(view.q))'
                      \/ (starts = {} /\ AsleepFor(view.q))'
                      \/ StartsFor(view.q)'
    BY <1>2 DEF FollowInv, TimerFires
  <2>1. timer = view /\ UNCHANGED view /\ get_best_moves(view.q)
    BY <1>2 DEF TimerFires, QuietInv
  <2>2. starts = {} /\ (calls = << >> \/ calls' # calls)
    BY <1>2 DEF TimerFires
  <2>3. CASE mapped = 0
    <3>1. procs' = Append(procs, New(view.q)) /\ starts' = {Len(procs')} /\ UNCHANGED calls
      BY <2>1, <2>2, <2>3 DEF get_best_moves
    <3>2. calls' = << >>
      BY <1>0, <2>3, <3>1
    <3>3. procs \in Seq(Process) /\ New(view.q) \in Process
      BY NewTyped DEF Types, ShellType, ViewType, Views
    <3>4. procs'[Len(procs')] = New(view.q)
      BY <3>1, <3>3, AppendProperties
    <3>5. procs'[Len(procs')].options = view.q
      BY <3>4 DEF New
    <3>6. QED
      BY <2>1, <3>1, <3>2, <3>5 DEF StartsFor
  <2>4. CASE mapped # 0 /\ Same(view.q)
    <3>1. UNCHANGED shell
      BY <2>1, <2>4 DEF get_best_moves
    <3>2. QED
      BY <2>1, <2>2, <2>4, <3>1 DEF shell, Same, SetTo
  <2>5. CASE mapped # 0 /\ ~Same(view.q)
    <3>1. calls' = Append(calls, view.q) /\ UNCHANGED starts
      BY <2>1, <2>5 DEF get_best_moves
    <3>2. view.q \in Positions
      BY DEF Types, ViewType, Views
    <3>3. calls' # << >> /\ calls'[Len(calls')] = view.q
      BY <1>0, <3>1, <3>2, AppendProperties, EmptySeq
    <3>4. QED
      BY <2>1, <2>2, <3>1, <3>3 DEF AsleepFor
  <2>6. QED
    BY <2>3, <2>4, <2>5
<1>3. ASSUME NEW p \in starts, Started(p)
      PROVE  FollowInv'
  <2>1. UNCHANGED <<timer, view, calls, overtaken>> /\ starts' = starts \ {p} /\ mapped' = p
    BY <1>3 DEF Started, ui, history
  <2>2. procs[p] \in Process /\ p \in 1 .. Len(procs)
    BY <1>0, ProcTyped
  <2>3. procs'[p].options = procs[p].options /\ procs'[p].running
    BY <1>3, <2>2 DEF Started, Process
  <2>4. StartsFor(view.q) => (starts = {} /\ calls = << >> /\ SetTo(view.q))'
    BY <2>1, <2>2, <2>3 DEF StartsFor, SetTo
  <2>5. QED
    BY <2>1, <2>4 DEF FollowInv
<1>4. CASE Wakes
  <2>1. UNCHANGED <<timer, view, starts, mapped, overtaken>> /\ calls # << >> /\ calls' = Tail(calls)
    BY <1>4 DEF Wakes, ui
  <2>2. Len(calls) \in Nat /\ Len(calls) > 0 /\ Head(calls) = calls[1]
    BY <1>0, <2>1, LenProperties, EmptySeq, HeadTailProperties
  <2>3. procs'[mapped].options = Head(calls) /\ procs'[mapped].running
    BY <1>0, <1>4, <2>1 DEF Wakes
  <2>4. CASE Len(calls) = 1
    <3>1. calls' = << >>
      BY <1>0, <2>1, <2>4, HeadTailProperties, EmptySeq
    <3>2. AsleepFor(view.q) => SetTo(view.q)'
      BY <1>0, <2>1, <2>2, <2>3, <2>4 DEF AsleepFor, SetTo
    <3>3. QED
      BY <2>1, <3>1, <3>2 DEF FollowInv, StartsFor
  <2>5. CASE Len(calls) # 1
    <3>1. calls' # << >> /\ calls'[Len(calls')] = calls[Len(calls)]
      BY <1>0, <2>1, <2>2, <2>5, TailLast
    <3>2. QED
      BY <2>1, <3>1 DEF FollowInv, StartsFor, AsleepFor
  <2>6. QED
    BY <2>4, <2>5
<1>5. CASE \E p \in DOMAIN procs : Info(p) \/ BestMove(p) \/ StopsIdle(p) \/ ReadLine(p)
  <2>1. PICK p \in 1 .. Len(procs) : Info(p) \/ BestMove(p) \/ StopsIdle(p) \/ ReadLine(p)
    BY <1>5
  <2>2. UNCHANGED <<timer, view, overtaken, calls, starts, mapped>>
    BY <2>1 DEF Info, BestMove, Writes, StopsIdle, ReadLine, ui, history
  <2>3. \A m \in 1 .. Len(procs) :
          procs'[m].options = procs[m].options /\ procs'[m].running = procs[m].running
    BY <2>1, LoopKeeps
  <2>4. QED
    BY <1>0, <2>2, <2>3 DEF FollowInv, SetTo, AsleepFor, StartsFor
<1>6. CASE UNCHANGED <<timer, view, shell, overtaken>>
  BY <1>6 DEF shell, FollowInv, SetTo, AsleepFor, StartsFor
<1>7. QED
  BY <1>1, <1>2, <1>3, <1>4, <1>5, <1>6 DEF Next, GoTo, ToggleEngine, Unseen, Listens,
     EventArrives, ReplyArrives, ui, history, vars

(* FollowsTheBoard: when the effects, the calls and the starts are through, *)
(* the process of an engine that is on is set to the board's position and   *)
(* runs, if the last command overtook none (EvalListener.tsx:195-245,       *)
(* chess.rs:334-366).                                                       *)
THEOREM FollowsWhenThrough == Spec => []FollowsTheBoard
<1>1. Init => QuietInv /\ FollowInv
  BY DEF Init, QuietInv, Quiet, FollowInv, Current
<1>2. Types /\ QuietInv /\ FollowInv /\ [Next]_vars => (QuietInv /\ FollowInv)'
  BY QuietStep, FollowStep
<1>3. FollowInv => FollowsTheBoard
  BY DEF FollowInv, SetTo, AsleepFor, StartsFor, FollowsTheBoard, Current
<1>4. QED
  BY <1>1, <1>2, <1>3, TypesHold, PTL DEF Spec
=============================================================================
