--------------------------- MODULE BoardGameProofs ---------------------------
(* That the board of a game tab keeps its types, catches up with the game   *)
(* that is played, and agrees with a game that is over: for any moves,      *)
(* sides, lengths of games and numbers of commands and events under way.    *)
EXTENDS BoardGame, TLAPS

-----------------------------------------------------------------------------
(* Types.                                                                   *)

Statuses == Results \cup {"playing"}
Commanded == {"start", "move", "takeBack", "resign", "abort", "state"}
Requests == [cmd : Commanded, line : Lines, store : BOOLEAN]
Replied == [cmd : {"start", "abort", "state"}, line : Lines, status : Statuses \cup {None},
            store : BOOLEAN]
Games == [moves : Lines, status : Statuses, engines : SUBSET {0, 1}, late : BOOLEAN]
Events == [over : Results \cup {None}, line : Lines]

ViewTyped ==
  /\ where \in {"game", "analysis", "elsewhere"}
  /\ phase \in {"settingUp", "playing", "gameOver"}
  /\ engines \in Sides \cup {{}}
  /\ tree \in Lines /\ result \in Results \cup {"*"}
  /\ pending \in Lines \cup {None}

ListensToPlay ==
  /\ listening \in {"no", "joining", "on"}
  /\ (listening # "no") <=> (where = "game" /\ phase = "playing")
  /\ pending # None => listening = "on"

WayTyped ==
  /\ calls \subseteq Requests
  /\ \A c \in calls : /\ c.cmd = "move" => Len(c.line) = 1
                      /\ c.cmd = "start" => Len(c.line) < MaxPly
  /\ replies \subseteq Replied
  /\ \A r \in replies : r.cmd # "abort" => r.status \in Statuses

ShellTyped ==
  /\ events \in Seq(Events)
  /\ game \in Games \cup {None}
  /\ game # None /\ game.status = "playing" => Len(game.moves) < MaxPly
  /\ astray \in BOOLEAN

TypeInv == ViewTyped /\ ListensToPlay /\ WayTyped /\ ShellTyped

-----------------------------------------------------------------------------
(* Lines and events.                                                        *)

LEMMA Bounds == MaxPly \in Nat /\ MaxPly >= 1 /\ None \notin Lines /\ None \notin Statuses
  BY BoardGameAssumption DEF Lines, Statuses, Results

LEMMA Lined ==
  ASSUME NEW l \in Lines
  PROVE  l \in Seq(Moves) /\ Len(l) \in Nat /\ Len(l) <= MaxPly
<1>1. PICK n \in 0 .. MaxPly : l \in [1 .. n -> Moves]
  BY DEF Lines, BoundedSeq, SeqOf
<1>2. QED
  BY <1>1, Bounds

LEMMA IsLine ==
  ASSUME NEW l \in Seq(Moves), Len(l) <= MaxPly
  PROVE  l \in Lines
<1>1. l \in [1 .. Len(l) -> Moves] /\ Len(l) \in 0 .. MaxPly
  BY Bounds
<1>2. QED
  BY <1>1 DEF Lines, BoundedSeq, SeqOf

LEMMA ShortLines == << >> \in Lines /\ \A m \in Moves : <<m>> \in Lines /\ Len(<<m>>) = 1
<1>1. << >> \in Seq(Moves) /\ Len(<< >>) <= MaxPly
  BY Bounds
<1>2. ASSUME NEW m \in Moves
      PROVE  <<m>> \in Lines /\ Len(<<m>>) = 1
  <2>1. <<m>> \in Seq(Moves) /\ Len(<<m>>) <= MaxPly /\ Len(<<m>>) = 1
    BY Bounds
  <2>2. QED
    BY <2>1, IsLine, Zenon
<1>3. << >> \in Lines
  BY <1>1, IsLine, Zenon
<1>4. QED
  BY <1>2, <1>3

LEMMA Longer ==
  ASSUME NEW l \in Lines, Len(l) < MaxPly, NEW m \in Moves
  PROVE  Append(l, m) \in Lines /\ Len(Append(l, m)) = Len(l) + 1
<1>1. l \in Seq(Moves) /\ Len(l) \in Nat
  BY Lined
<1>2. Append(l, m) \in Seq(Moves) /\ Len(Append(l, m)) = Len(l) + 1
  BY <1>1
<1>3. Len(Append(l, m)) <= MaxPly
  BY <1>1, <1>2, Bounds
<1>4. QED
  BY <1>2, <1>3, IsLine, Zenon

LEMMA Shorter ==
  ASSUME NEW l \in Lines, l # << >>, NEW n \in {1, 2}
  PROVE  SubSeq(l, 1, Len(l) - n) \in Lines /\ Len(SubSeq(l, 1, Len(l) - n)) < MaxPly
<1>1. l \in Seq(Moves) /\ Len(l) <= MaxPly /\ Len(l) \in Nat \ {0}
  BY Lined
<1>2. CASE Len(l) >= n
  <2>1. SubSeq(l, 1, Len(l) - n) \in Seq(Moves) /\ Len(SubSeq(l, 1, Len(l) - n)) = Len(l) - n
    BY <1>1, <1>2
  <2>2. Len(SubSeq(l, 1, Len(l) - n)) <= MaxPly /\ Len(SubSeq(l, 1, Len(l) - n)) < MaxPly
    BY <1>1, <2>1, Bounds
  <2>3. QED
    BY <2>1, <2>2, IsLine, Zenon
<1>3. CASE Len(l) < n
  <2>1. SubSeq(l, 1, Len(l) - n) = << >> /\ Len(<< >>) = 0
    BY <1>1, <1>3
  <2>2. SubSeq(l, 1, Len(l) - n) \in Lines
    BY <2>1, ShortLines, Zenon
  <2>3. Len(<< >>) < MaxPly
    BY Bounds
  <2>4. QED
    BY <2>1, <2>2, <2>3, Zenon
<1>4. QED
  BY <1>1, <1>2, <1>3

(* What the shell emits of the game as it is now.                           *)
LatestEvent == Over(game.moves, IF game.status = "playing" THEN None ELSE game.status)

LEMMA Emitted ==
  ASSUME events \in Seq(Events), NEW es \in Seq(Events), es # << >>, events' = events \o es
  PROVE  /\ events' \in Seq(Events) /\ events' # << >>
         /\ Last(events') = Last(es)
         /\ \A e \in ToSet(events') : e \in ToSet(events) \/ e \in ToSet(es)
<1>1. /\ events' \in Seq(Events) /\ Len(events') = Len(events) + Len(es)
      /\ \A i \in 1 .. Len(events') :
           events'[i] = IF i <= Len(events) THEN events[i] ELSE es[i - Len(events)]
  OBVIOUS
<1>2. Len(es) \in Nat \ {0} /\ Len(events) \in Nat
  OBVIOUS
<1>3. Last(events') = Last(es)
  BY <1>1, <1>2 DEF Last
<1>4. ASSUME NEW i \in 1 .. Len(events')
      PROVE  events'[i] \in ToSet(events) \/ events'[i] \in ToSet(es)
  <2>1. CASE i <= Len(events)
    BY <1>1, <1>2, <2>1 DEF ToSet
  <2>2. CASE ~(i <= Len(events))
    <3>1. i - Len(events) \in DOMAIN es /\ events'[i] = es[i - Len(events)]
      BY <1>1, <1>2, <2>2
    <3>2. QED
      BY <3>1 DEF ToSet
  <2>3. QED
    BY <2>1, <2>2
<1>5. QED
  BY <1>1, <1>2, <1>3, <1>4 DEF ToSet

LEMMA Heard ==
  ASSUME events \in Seq(Events), events # << >>
  PROVE  /\ Head(events) \in Events /\ Head(events) \in ToSet(events)
         /\ Tail(events) \in Seq(Events)
         /\ ToSet(Tail(events)) \subseteq ToSet(events)
         /\ IF Tail(events) = << >> THEN Last(events) = Head(events)
            ELSE Last(Tail(events)) = Last(events)
<1>1. Len(events) \in Nat \ {0} /\ Head(events) = events[1] /\ Len(Tail(events)) = Len(events) - 1
  OBVIOUS
<1>2. \A i \in 1 .. Len(Tail(events)) : Tail(events)[i] = events[i + 1] /\ i + 1 \in DOMAIN events
  BY <1>1
<1>3. ToSet(Tail(events)) \subseteq ToSet(events)
  BY <1>1, <1>2 DEF ToSet
<1>4. Head(events) \in Events /\ Head(events) \in ToSet(events) /\ Tail(events) \in Seq(Events)
  BY <1>1 DEF ToSet
<1>5. IF Tail(events) = << >> THEN Last(events) = Head(events)
      ELSE Last(Tail(events)) = Last(events)
  <2>1. Tail(events) \in Seq(Events)
    OBVIOUS
  <2>2. CASE Tail(events) = << >>
    <3>1. Len(<< >>) = 0
      OBVIOUS
    <3>2. Len(Tail(events)) = 0
      BY <2>2, <3>1, Zenon
    <3>3. Len(events) - 1 = 0 /\ Len(events) \in Nat
      BY <1>1, <3>2
    <3>4. Len(events) = 1
      BY <3>3
    <3>5. QED
      BY <1>1, <2>2, <3>4 DEF Last
  <2>3. CASE Tail(events) # << >>
    <3>1. Len(Tail(events)) \in Nat \ {0}
      BY <2>1, <2>3
    <3>2. QED
      BY <1>1, <1>2, <2>3, <3>1 DEF Last
  <2>4. QED
    BY <2>2, <2>3
<1>6. QED
  BY <1>3, <1>4, <1>5

-----------------------------------------------------------------------------
(* A step of the shell changes the game and emits what has become of it, or *)
(* leaves both alone.                                                       *)

(* The view has lost an event by this step.                                 *)
Misses == \/ \E r \in replies : r.cmd = "state"
          \/ listening = "joining" /\ ~\E c \in calls : c.cmd = "state"

Advances ==
  /\ game # None /\ game' \in Games /\ game'.engines = game.engines
  /\ game'.status = "playing" => Len(game'.moves) < MaxPly
  /\ ~game'.late => game.status = "playing" /\ ~game.late
  /\ events' \in Seq(Events) /\ events' # << >> /\ Last(events') = LatestEvent'
  /\ \A e \in ToSet(events') : e \in ToSet(events) \/ e.over = None \/ e = LatestEvent'
  /\ astray' = (astray \/ Misses)

LEMMA OverFields ==
  ASSUME NEW l, NEW w
  PROVE  Over(l, w).line = l /\ Over(l, w).over = w /\ Moved(l) = Over(l, None)
  BY DEF Over, Moved

LEMMA OverTyped ==
  ASSUME NEW l \in Lines, NEW w \in Results \cup {None}
  PROVE  Over(l, w) \in Events
  BY DEF Over, Events

LEMMA GameFields ==
  ASSUME TypeInv, game # None
  PROVE  /\ game \in Games /\ game.moves \in Lines /\ game.status \in Statuses
         /\ game.engines \in SUBSET {0, 1} /\ game.late \in BOOLEAN
         /\ game.status = "playing" => Len(game.moves) < MaxPly
  BY DEF TypeInv, ShellTyped, Games

LEMMA EmitsOne ==
  ASSUME TypeInv, NEW l \in Lines, NEW w \in Results \cup {None}, Emits(<<Over(l, w)>>)
  PROVE  /\ events' \in Seq(Events) /\ events' # << >>
         /\ Last(events') = Over(l, w)
         /\ \A e \in ToSet(events') : e \in ToSet(events) \/ e = Over(l, w)
         /\ astray' = (astray \/ Misses)
<1> DEFINE es == <<Over(l, w)>>
<1>1. es \in Seq(Events) /\ es # << >> /\ Last(es) = Over(l, w) /\ ToSet(es) = {Over(l, w)}
  BY OverTyped DEF Last, ToSet
<1>2. events \in Seq(Events) /\ events' = events \o es /\ astray' = (astray \/ Misses)
  BY DEF Emits, Misses, TypeInv, ShellTyped
<1> HIDE DEF es
<1>3. QED
  BY <1>1, <1>2, Emitted

LEMMA PlayingOn ==
  ASSUME TypeInv, NEW m \in Moves, game # None, game.status = "playing", Plays(m)
  PROVE  Advances
<1> DEFINE l == Append(game.moves, m)
<1>1. l \in Lines /\ Len(l) \in Nat /\ Len(l) <= MaxPly
  BY GameFields, Longer, Lined
<1>2. StatusOf(l) \in {"board", "playing"} /\ (StatusOf(l) = "playing" => Len(l) < MaxPly)
  BY <1>1, Bounds DEF StatusOf
<1>3. game' = [game EXCEPT !.moves = l, !.status = StatusOf(l)] /\ Emits(EventsOf(l))
  BY DEF Plays
<1> HIDE DEF l
<1>4. /\ game' \in Games /\ game'.engines = game.engines /\ game'.late = game.late
      /\ game'.moves = l /\ game'.status = StatusOf(l)
  BY <1>1, <1>2, <1>3, GameFields DEF Games, Statuses, Results
<1>5. LatestEvent' = Over(l, IF StatusOf(l) = "playing" THEN None ELSE "board")
  BY <1>2, <1>4 DEF LatestEvent
<1>6. CASE StatusOf(l) = "playing"
  <2>1. Emits(<<Over(l, None)>>)
    BY <1>3, <1>6, OverFields DEF EventsOf
  <2>2. QED
    BY <1>1, <1>2, <1>4, <1>5, <1>6, <2>1, EmitsOne DEF Advances, TypeInv, ShellTyped
<1>7. CASE StatusOf(l) = "board"
  <2> DEFINE es == <<Over(l, None), Over(l, "board")>>
  <2>1. Over(l, None) \in Events /\ Over(l, "board") \in Events
    BY <1>1, OverTyped DEF Results
  <2>2. /\ es \in Seq(Events) /\ es # << >> /\ Last(es) = Over(l, "board")
        /\ ToSet(es) = {Over(l, None), Over(l, "board")}
    BY <2>1 DEF Last, ToSet
  <2>3. events \in Seq(Events) /\ events' = events \o es /\ astray' = (astray \/ Misses)
    BY <1>3, <1>7, OverFields DEF EventsOf, Emits, Misses, TypeInv, ShellTyped
  <2> HIDE DEF es
  <2>4. /\ events' \in Seq(Events) /\ events' # << >> /\ Last(events') = Over(l, "board")
        /\ \A e \in ToSet(events') : e \in ToSet(events) \/ e \in ToSet(es)
    BY <2>2, <2>3, Emitted
  <2>5. Over(l, None).over = None
    BY OverFields
  <2>6. LatestEvent' = Over(l, "board")
    BY <1>5, <1>7
  <2>7. QED
    BY <1>2, <1>4, <1>7, <2>2, <2>3, <2>4, <2>5, <2>6 DEF Advances
<1>8. QED
  BY <1>2, <1>6, <1>7

LEMMA TakingBack ==
  ASSUME TypeInv, game # None, game.moves # << >>, ExecutesTakeBack
  PROVE  Advances
<1> DEFINE l == TakenBack
<1>1. l \in Lines /\ Len(l) < MaxPly
  BY GameFields, Shorter DEF TakenBack
<1>2. /\ game' = [game EXCEPT !.moves = l, !.status = "playing", !.late = Late]
      /\ Emits(<<Over(l, None)>>)
  BY OverFields DEF ExecutesTakeBack
<1> HIDE DEF l
<1>3. Late \in BOOLEAN /\ (~Late => ~game.late /\ game.status = "playing")
  BY GameFields DEF Late
<1>4. /\ game' \in Games /\ game'.engines = game.engines /\ game'.late = Late
      /\ game'.moves = l /\ game'.status = "playing"
  BY <1>1, <1>2, <1>3, GameFields DEF Games, Statuses
<1>5. LatestEvent' = Over(l, None)
  BY <1>4 DEF LatestEvent
<1>6. QED
  BY <1>1, <1>2, <1>3, <1>4, <1>5, EmitsOne, OverFields DEF Advances

LEMMA Ending ==
  ASSUME TypeInv, game # None, NEW w \in Results, NEW late \in BOOLEAN,
         ~late => ~game.late /\ game.status = "playing",
         game' = [game EXCEPT !.status = w, !.late = late], Emits(<<Over(game.moves, w)>>)
  PROVE  Advances
<1>1. w \in Statuses /\ w # "playing"
  BY DEF Statuses, Results
<1>2. /\ game' \in Games /\ game'.engines = game.engines /\ game'.late = late
      /\ game'.moves = game.moves /\ game'.status = w
  BY <1>1, GameFields DEF Games
<1>3. LatestEvent' = Over(game.moves, w)
  BY <1>1, <1>2 DEF LatestEvent
<1>4. QED
  BY <1>1, <1>2, <1>3, GameFields, EmitsOne DEF Advances

LEMMA GameSteps ==
  ASSUME TypeInv
  PROVE  /\ \A c \in calls : c.cmd = "move" /\ ExecutesMove(c) =>
              \/ Advances
              \/ /\ UNCHANGED <<game, events, astray>>
                 /\ game = None \/ game.status # "playing" \/ Turn(game.moves) \in game.engines
         /\ ExecutesTakeBack \/ ExecutesResign => Advances \/ UNCHANGED <<game, events, astray>>
         /\ \A m \in Moves : EngineMoves(m) => Advances
         /\ GameEnds => Advances
<1>1. ASSUME NEW c \in calls, c.cmd = "move", ExecutesMove(c)
      PROVE  \/ Advances
             \/ /\ UNCHANGED <<game, events, astray>>
                /\ game = None \/ game.status # "playing" \/ Turn(game.moves) \in game.engines
  <2>1. c.line \in Lines /\ Len(c.line) = 1
    BY <1>1 DEF TypeInv, WayTyped, Requests
  <2>2. Head(c.line) \in Moves
    BY <2>1, Lined
  <2>3. QED
    BY <1>1, <2>2, PlayingOn DEF ExecutesMove, Refused
<1>2. ASSUME ExecutesTakeBack
      PROVE  Advances \/ UNCHANGED <<game, events, astray>>
  BY <1>2, TakingBack DEF ExecutesTakeBack, Refused
<1>3. ASSUME ExecutesResign
      PROVE  Advances \/ UNCHANGED <<game, events, astray>>
  <2>1. CASE game # None
    <3>1. Late \in BOOLEAN /\ (~Late => ~game.late /\ game.status = "playing")
      BY <2>1, GameFields DEF Late
    <3>2. QED
      BY <1>3, <2>1, <3>1, Ending DEF ExecutesResign, Results
  <2>2. QED
    BY <1>3, <2>1 DEF ExecutesResign, Refused
<1>4. ASSUME GameEnds
      PROVE  Advances
  <2>1. game' = [game EXCEPT !.status = "abandoned", !.late = game.late]
    BY <1>4, GameFields DEF GameEnds, Games
  <2>2. QED
    BY <1>4, <2>1, GameFields, Ending DEF GameEnds, Results
<1>5. \A m \in Moves : EngineMoves(m) => Advances
  BY PlayingOn DEF EngineMoves
<1>6. QED
  BY <1>1, <1>2, <1>3, <1>4, <1>5

-----------------------------------------------------------------------------
(* The types are kept.                                                      *)

LEMMA CallFields ==
  ASSUME NEW cmd \in Commanded, NEW l \in Lines
  PROVE  /\ Call(cmd, l) \in Requests
         /\ Call(cmd, l).cmd = cmd /\ Call(cmd, l).line = l /\ Call(cmd, l).store = TRUE
  BY DEF Call, Requests

(* One more command.                                                        *)
LEMMA Asked ==
  ASSUME WayTyped, NEW cmd \in Commanded, NEW l \in Lines,
         cmd = "move" => Len(l) = 1, cmd = "start" => Len(l) < MaxPly,
         calls' = calls \cup {Call(cmd, l)}, UNCHANGED replies
  PROVE  WayTyped'
<1> DEFINE asked == Call(cmd, l)
<1>1. asked \in Requests /\ asked.cmd = cmd /\ asked.line = l
  BY CallFields
<1>2. calls' = calls \cup {asked}
  OBVIOUS
<1> HIDE DEF asked
<1>3. QED
  BY <1>1, <1>2 DEF WayTyped

LEMMA MountsTyped ==
  ASSUME WayTyped, Mounts
  PROVE  /\ listening' = "joining" /\ calls' = calls \cup {Call("state", << >>)}
         /\ UNCHANGED replies => WayTyped'
  BY Asked, ShortLines DEF Mounts, Commanded

LEMMA SyncTyped ==
  ASSUME NEW l \in Lines, tree \in Lines, result \in Results \cup {"*"}, Sync(l)
  PROVE  tree' = l /\ tree' \in Lines /\ result' \in Results \cup {"*"}
  BY DEF Sync, Results

LEMMA GameTyped ==
  ASSUME ShellTyped, Advances
  PROVE  ShellTyped'
  BY DEF ShellTyped, Advances, Misses

LEMMA AskingTyped ==
  ASSUME TypeInv,
         \/ \E sides \in Sides : StartGame(sides)
         \/ \E m \in Moves : HumanMoves(m)
         \/ TakesBack \/ Resigns \/ Aborts
  PROVE  TypeInv'
<1>1. ShellTyped'
  BY DEF TypeInv, ShellTyped, StartGame, HumanMoves, TakesBack, Resigns, Aborts, Commands, Shell, view
<1>2. ListensToPlay'
  BY DEF TypeInv, ListensToPlay, StartGame, HumanMoves, TakesBack, Resigns, Aborts, Commands, view
<1>3. CASE \E sides \in Sides : StartGame(sides)
  <2>1. PICK sides \in Sides : StartGame(sides)
    BY <1>3
  <2>2. calls' = calls \cup {Call("start", tree)} /\ UNCHANGED replies /\ Len(tree) < MaxPly
    BY <2>1 DEF StartGame, Sends
  <2>3. WayTyped'
    BY <2>2, Asked DEF TypeInv, ViewTyped, Commanded
  <2>4. ViewTyped'
    BY <2>1 DEF TypeInv, ViewTyped, StartGame
  <2>5. QED
    BY <1>1, <1>2, <2>3, <2>4 DEF TypeInv
<1>4. CASE \E m \in Moves : HumanMoves(m)
  <2>1. PICK m \in Moves : HumanMoves(m)
    BY <1>4
  <2>2. calls' = calls \cup {Call("move", <<m>>)} /\ UNCHANGED replies /\ Len(tree) < MaxPly
    BY <2>1 DEF HumanMoves, Sends
  <2>3. WayTyped'
    BY <2>2, Asked, ShortLines DEF TypeInv, Commanded
  <2>4. tree' \in Lines
    BY <2>1, <2>2, Longer DEF HumanMoves, TypeInv, ViewTyped
  <2>5. ViewTyped'
    BY <2>1, <2>4 DEF TypeInv, ViewTyped, HumanMoves, Results
  <2>6. QED
    BY <1>1, <1>2, <2>3, <2>5 DEF TypeInv
<1>5. CASE TakesBack \/ Resigns \/ Aborts
  <2>1. PICK cmd \in {"takeBack", "resign", "abort"} : Commands(cmd)
    BY <1>5 DEF TakesBack, Resigns, Aborts
  <2>2. calls' = calls \cup {Call(cmd, << >>)} /\ UNCHANGED <<view, replies>>
    BY <2>1 DEF Commands, Sends
  <2>3. WayTyped'
    BY <2>2, Asked, ShortLines DEF TypeInv, Commanded
  <2>4. ViewTyped'
    BY <2>2 DEF TypeInv, ViewTyped, view
  <2>5. QED
    BY <1>1, <1>2, <2>3, <2>4 DEF TypeInv
<1>6. QED
  BY <1>3, <1>4, <1>5

LEMMA MovingTyped ==
  ASSUME TypeInv,
         \/ NewGame \/ Returns \/ Listens \/ EventArrives \/ ApplyPendingUpdates
         \/ \E to \in {"analysis", "elsewhere"} : Leaves(to)
  PROVE  TypeInv'
<1>1. CASE NewGame
  BY <1>1, ShortLines
     DEF NewGame, Unmounts, Shell, TypeInv, ViewTyped, ListensToPlay, WayTyped, ShellTyped
<1>2. CASE \E to \in {"analysis", "elsewhere"} : Leaves(to)
  <2>1. PICK to \in {"analysis", "elsewhere"} : Leaves(to)
    BY <1>2
  <2>2. ViewTyped' /\ ListensToPlay' /\ ShellTyped'
    BY <2>1 DEF Leaves, Unmounts, Shell, TypeInv, ViewTyped, ListensToPlay, ShellTyped
  <2>3. /\ calls' = {[c EXCEPT !.store = FALSE] : c \in calls}
        /\ replies' = {[r EXCEPT !.store = FALSE] : r \in replies}
    BY <2>1 DEF Leaves
  <2>4. ASSUME NEW d \in calls'
        PROVE  \E c \in calls : d \in Requests /\ d.cmd = c.cmd /\ d.line = c.line
    <3>1. PICK c \in calls : d = [c EXCEPT !.store = FALSE]
      BY <2>3
    <3>2. c \in Requests
      BY DEF TypeInv, WayTyped
    <3>3. QED
      BY <3>1, <3>2 DEF Requests
  <2>5. ASSUME NEW d \in replies'
        PROVE  \E r \in replies : d \in Replied /\ d.cmd = r.cmd /\ d.status = r.status
    <3>1. PICK r \in replies : d = [r EXCEPT !.store = FALSE]
      BY <2>3
    <3>2. r \in Replied
      BY DEF TypeInv, WayTyped
    <3>3. QED
      BY <3>1, <3>2 DEF Replied
  <2>6. WayTyped'
    BY <2>4, <2>5 DEF TypeInv, WayTyped
  <2>7. QED
    BY <2>2, <2>6 DEF TypeInv
<1>3. CASE Returns
  <2>1. WayTyped'
    BY <1>3, MountsTyped DEF Returns, TypeInv, WayTyped
  <2>2. ListensToPlay'
    BY <1>3, MountsTyped DEF Returns, TypeInv, ViewTyped, ListensToPlay
  <2>3. ViewTyped' /\ ShellTyped'
    BY <1>3 DEF Returns, Shell, TypeInv, ViewTyped, ShellTyped
  <2>4. QED
    BY <2>1, <2>2, <2>3 DEF TypeInv
<1>4. CASE Listens
  BY <1>4 DEF Listens, Shell, TypeInv, ViewTyped, ListensToPlay, WayTyped, ShellTyped
<1>5. CASE EventArrives
  <2>1. events # << >> /\ events' = Tail(events) /\ UNCHANGED <<where, engines, calls, replies, game, astray>>
    BY <1>5 DEF EventArrives
  <2>2. Head(events) \in Events /\ Tail(events) \in Seq(Events)
    BY <2>1, Heard DEF TypeInv, ShellTyped
  <2>3. ShellTyped' /\ WayTyped'
    BY <2>1, <2>2 DEF TypeInv, ShellTyped, WayTyped
  <2>4. ViewTyped' /\ ListensToPlay'
    BY <1>5, <2>1, <2>2 DEF EventArrives, HearsOver, Unmounts, Events, TypeInv, ViewTyped, ListensToPlay
  <2>5. QED
    BY <2>3, <2>4 DEF TypeInv
<1>6. CASE ApplyPendingUpdates
  <2>1. tree' \in Lines /\ result' \in Results \cup {"*"}
    BY <1>6, SyncTyped DEF ApplyPendingUpdates, TypeInv, ViewTyped
  <2>2. QED
    BY <1>6, <2>1 DEF ApplyPendingUpdates, Shell, TypeInv, ViewTyped, ListensToPlay, WayTyped, ShellTyped
<1>7. QED
  BY <1>1, <1>2, <1>3, <1>4, <1>5, <1>6

LEMMA AnswerTyped ==
  ASSUME NEW c \in Requests, c.cmd \in {"start", "state"}, NEW g \in Games
  PROVE  /\ Answer(c, g) \in Replied /\ Answer(c, g).cmd = c.cmd /\ Answer(c, g).store = c.store
         /\ Answer(c, g).line = g.moves /\ Answer(c, g).status = g.status
         /\ g.status \in Statuses
  BY DEF Answer, Requests, Replied, Games

LEMMA FreshTyped ==
  ASSUME TypeInv, NEW c \in calls, c.cmd = "start"
  PROVE  /\ Fresh(c) \in Games /\ Fresh(c).moves = c.line /\ Fresh(c).status = "playing"
         /\ Fresh(c).engines = engines /\ Fresh(c).late = FALSE
         /\ Len(c.line) < MaxPly
  BY BoardGameAssumption DEF Fresh, TypeInv, WayTyped, ViewTyped, Requests, Games, Statuses

LEMMA ExecutingTyped ==
  ASSUME TypeInv, NEW c \in calls, Executes(c)
  PROVE  TypeInv'
<1>1. calls' = calls \ {c} /\ UNCHANGED view
  BY DEF Executes
<1>2. ViewTyped' /\ ListensToPlay'
  BY <1>1 DEF view, TypeInv, ViewTyped, ListensToPlay
<1>3. c \in Requests
  BY DEF TypeInv, WayTyped
<1>4. CASE c.cmd \in {"move", "takeBack", "resign"}
  <2>1. UNCHANGED replies /\ (Advances \/ UNCHANGED <<game, events, astray>>)
    BY <1>4, GameSteps DEF Executes
  <2>2. ShellTyped'
    BY <2>1, GameTyped DEF TypeInv, ShellTyped
  <2>3. WayTyped'
    BY <1>1, <2>1 DEF TypeInv, WayTyped
  <2>4. QED
    BY <1>2, <2>2, <2>3 DEF TypeInv
<1>5. CASE c.cmd = "start"
  <2>1. ExecutesStart(c)
    BY <1>5 DEF Executes
  <2>2. /\ game' \in {Fresh(c), None} /\ replies' \in {replies, replies \cup {Answer(c, Fresh(c))}}
        /\ astray' \in BOOLEAN /\ UNCHANGED events
    BY <2>1 DEF ExecutesStart, TypeInv, ShellTyped
  <2>3. ShellTyped'
    BY <1>5, <2>2, FreshTyped DEF TypeInv, ShellTyped
  <2>4. Answer(c, Fresh(c)) \in Replied /\ Answer(c, Fresh(c)).status \in Statuses
    BY <1>3, <1>5, FreshTyped, AnswerTyped
  <2>5. WayTyped'
    BY <1>1, <2>2, <2>4 DEF TypeInv, WayTyped
  <2>6. QED
    BY <1>2, <2>3, <2>5 DEF TypeInv
<1>6. CASE c.cmd = "abort"
  <2> DEFINE r == [cmd |-> "abort", line |-> << >>, status |-> None, store |-> c.store]
  <2>1. game' = None /\ replies' = replies \cup {r} /\ UNCHANGED <<events, astray>>
    BY <1>6 DEF Executes, ExecutesAbort
  <2>2. r \in Replied /\ r.cmd = "abort"
    BY <1>3, ShortLines DEF Requests, Replied
  <2> HIDE DEF r
  <2>3. WayTyped' /\ ShellTyped'
    BY <1>1, <2>1, <2>2 DEF TypeInv, WayTyped, ShellTyped
  <2>4. QED
    BY <1>2, <2>3 DEF TypeInv
<1>7. CASE c.cmd = "state"
  <2>1. /\ UNCHANGED <<game, events, astray>>
        /\ replies' = replies \cup (IF game = None THEN {} ELSE {Answer(c, game)})
    BY <1>7 DEF Executes, ExecutesState, Refused
  <2>2. game # None => Answer(c, game) \in Replied /\ Answer(c, game).status \in Statuses
    BY <1>3, <1>7, GameFields, AnswerTyped
  <2>3. WayTyped' /\ ShellTyped'
    BY <1>1, <2>1, <2>2 DEF TypeInv, WayTyped, ShellTyped
  <2>4. QED
    BY <1>2, <2>3 DEF TypeInv
<1>8. QED
  BY <1>4, <1>5, <1>6, <1>7 DEF Executes

LEMMA AnsweredTyped ==
  ASSUME TypeInv, NEW r \in replies, Answered(r)
  PROVE  TypeInv'
<1>1. r \in Replied /\ (r.cmd # "abort" => r.status \in Statuses)
  BY DEF TypeInv, WayTyped
<1>2. r.line \in Lines /\ (r.cmd = "state" /\ Ended(r) => r.status \in Results)
  BY <1>1 DEF Replied, Ended, Statuses
<1>3. ShellTyped'
  BY DEF Answered, TypeInv, ShellTyped
<1>4. replies' = replies \ {r} /\ UNCHANGED <<where, engines>>
  BY DEF Answered
<1>5. CASE StartAnswered(r)
  <2>1. WayTyped'
    <3>1. CASE Mounts
      <4>1. calls' = calls \cup {Call("state", << >>)}
        BY <3>1 DEF Mounts
      <4>2. Call("state", << >>) \in Requests /\ Call("state", << >>).cmd = "state"
        BY ShortLines, CallFields DEF Commanded
      <4>3. QED
        BY <1>4, <4>1, <4>2 DEF TypeInv, WayTyped
    <3>2. CASE UNCHANGED calls
      BY <1>4, <3>2 DEF TypeInv, WayTyped
    <3>3. QED
      BY <1>5, <3>1, <3>2 DEF StartAnswered
  <2>2. ViewTyped'
    BY <1>2, <1>4, <1>5 DEF StartAnswered, SetGameState, TypeInv, ViewTyped
  <2>3. ListensToPlay'
    BY <1>4, <1>5 DEF StartAnswered, SetGameState, Mounts, TypeInv, ViewTyped, ListensToPlay
  <2>4. QED
    BY <1>3, <2>1, <2>2, <2>3 DEF TypeInv
<1>6. CASE AbortAnswered(r)
  <2>1. WayTyped'
    BY <1>4, <1>6 DEF AbortAnswered, TypeInv, WayTyped
  <2>2. ViewTyped' /\ ListensToPlay'
    BY <1>4, <1>6 DEF AbortAnswered, SetGameState, Unmounts, TypeInv, ViewTyped, ListensToPlay
  <2>3. QED
    BY <1>3, <2>1, <2>2 DEF TypeInv
<1>7. CASE StateAnswered(r)
  <2>1. WayTyped'
    BY <1>4, <1>7 DEF StateAnswered, TypeInv, WayTyped
  <2>2. tree' \in Lines /\ result' \in Results \cup {"*"}
    BY <1>2, <1>7, SyncTyped DEF StateAnswered, IntoStore, TypeInv, ViewTyped
  <2>3. ViewTyped'
    BY <1>4, <1>7, <2>2 DEF StateAnswered, SetGameState, Unmounts, TypeInv, ViewTyped
  <2>4. ListensToPlay'
    BY <1>4, <1>7 DEF StateAnswered, SetGameState, Unmounts, TypeInv, ViewTyped, ListensToPlay
  <2>5. QED
    BY <1>3, <2>1, <2>3, <2>4 DEF TypeInv
<1>8. QED
  BY <1>5, <1>6, <1>7 DEF Answered

LEMMA NextTyped ==
  ASSUME TypeInv, [Next]_vars
  PROVE  TypeInv'
<1>1. ASSUME NEW m \in Moves, EngineMoves(m)
      PROVE  TypeInv'
  <2>1. Advances /\ UNCHANGED <<view, calls, replies>>
    BY <1>1, GameSteps DEF EngineMoves
  <2>2. QED
    BY <2>1, GameTyped DEF view, TypeInv, ViewTyped, ListensToPlay, WayTyped
<1>2. CASE GameEnds
  <2>1. Advances /\ UNCHANGED <<view, calls, replies>>
    BY <1>2, GameSteps DEF GameEnds
  <2>2. QED
    BY <2>1, GameTyped DEF view, TypeInv, ViewTyped, ListensToPlay, WayTyped
<1>3. CASE UNCHANGED vars
  BY <1>3 DEF vars, view, TypeInv, ViewTyped, ListensToPlay, WayTyped, ShellTyped
<1>4. QED
  BY <1>1, <1>2, <1>3, AskingTyped, MovingTyped, ExecutingTyped, AnsweredTyped DEF Next

-----------------------------------------------------------------------------
(* What ties the view to the game.                                          *)

StartIn(S) == \E c \in S : c.cmd = "start"
StateIn(S) == \E c \in S : c.cmd = "state"

(* A game is started once at a time, and nothing else is shown meanwhile.   *)
OneStart ==
  /\ \A c, d \in calls : c.cmd = "start" /\ d.cmd = "start" => c = d
  /\ \A c, d \in replies : c.cmd = "start" /\ d.cmd = "start" => c = d
  /\ ~(StartIn(calls) /\ StartIn(replies))

StartsSettingUp ==
  StartIn(calls) \/ StartIn(replies) => IF astray THEN phase # "playing" ELSE phase = "settingUp"

EnginesAgree == game # None /\ (phase = "playing" \/ StartIn(replies)) => game.engines = engines

Starts == OneStart /\ StartsSettingUp /\ EnginesAgree

(* The last word under way is of the game as it is.                         *)
EventsLatest ==
  /\ events # << >> => Last(events) = LatestEvent
  /\ events = << >> /\ pending # None => pending = game.moves /\ game.status = "playing"
  /\ \A r \in replies : r.cmd = "state" => r.line = game.moves /\ r.status = game.status
  /\ \A r \in replies : r.cmd # "abort"

EndsFinal ==
  ~game.late => \A e \in ToSet(events) : e.over # None => e.over = game.status /\ e.line = game.moves

(* The board has the moves of the game, or one more whose command is under  *)
(* way and will not be refused.                                             *)
InStep ==
  /\ game.status = "playing"
  /\ \/ tree = game.moves
     \/ Turn(game.moves) \notin game.engines /\ \E c \in calls : c.cmd = "move"

CatchingUp ==
  where = "game" /\ phase = "playing" =>
    \/ StateIn(calls) \/ StateIn(replies)
    \/ listening = "on" /\ (events # << >> \/ pending # None)
    \/ InStep

Agreeing ==
  phase = "gameOver" /\ where # "analysis" /\ ~game.late =>
    game.status # "playing" /\ tree = game.moves /\ result = game.status

Tied == game # None /\ ~astray => EventsLatest /\ EndsFinal /\ CatchingUp /\ Agreeing

TieInv == Starts /\ Tied

LEMMA InitTied == Init => TypeInv /\ TieInv
<1>1. ASSUME Init
      PROVE  TypeInv
  <2>1. ViewTyped /\ ListensToPlay
    BY <1>1, ShortLines DEF Init, ViewTyped, ListensToPlay
  <2>2. WayTyped
    BY <1>1 DEF Init, WayTyped
  <2>3. ShellTyped
    <3>1. events = << >> /\ game = None /\ astray = FALSE
      BY <1>1 DEF Init
    <3>2. << >> \in Seq(Events)
      OBVIOUS
    <3>3. QED
      BY <3>1, <3>2 DEF ShellTyped
  <2>4. QED
    BY <2>1, <2>2, <2>3 DEF TypeInv
<1>2. Init => TieInv
  BY DEF Init, TieInv, Starts, OneStart, StartsSettingUp, EnginesAgree, StartIn, Tied
<1>3. QED
  BY <1>1, <1>2

(* The game goes on: the calls that remain are the others.                  *)
LEMMA AdvancesTied ==
  ASSUME TypeInv, TieInv, Advances, UNCHANGED <<view, replies>>, calls' \subseteq calls,
         \A c \in calls : c.cmd \in {"start", "state"} => c \in calls'
  PROVE  TieInv'
<1>1. UNCHANGED <<where, phase, engines, tree, result, listening, pending>>
  BY DEF view
<1>2. Starts'
  BY <1>1 DEF TieInv, Starts, OneStart, StartsSettingUp, EnginesAgree, StartIn, Advances
<1>3. ASSUME ~astray'
      PROVE  EventsLatest' /\ EndsFinal' /\ CatchingUp' /\ Agreeing'
  <2>1. ~astray /\ ~Misses /\ game # None
    BY <1>3 DEF Advances
  <2>2. EventsLatest /\ EndsFinal /\ CatchingUp /\ Agreeing
    BY <2>1 DEF TieInv, Tied
  <2>3. EventsLatest'
    BY <1>1, <2>1, <2>2 DEF EventsLatest, Misses, Advances
  <2>4. EndsFinal'
    <3>1. ASSUME ~game'.late, NEW e \in ToSet(events'), e.over # None
          PROVE  e.over = game'.status /\ e.line = game'.moves
      <4>1. game.status = "playing" /\ ~game.late
        BY <3>1 DEF Advances
      <4>2. CASE e \in ToSet(events)
        <5>1. e.over = "playing"
          BY <2>2, <3>1, <4>1, <4>2 DEF EndsFinal
        <5>2. e \in Events
          BY <4>2 DEF ToSet, TypeInv, ShellTyped
        <5>3. QED
          BY <3>1, <5>1, <5>2 DEF Events, Results
      <4>3. CASE e = LatestEvent'
        <5>1. e = Over(game'.moves, IF game'.status = "playing" THEN None ELSE game'.status)
          BY <4>3 DEF LatestEvent
        <5>2. QED
          BY <3>1, <5>1, OverFields
      <4>4. QED
        BY <3>1, <4>2, <4>3 DEF Advances
    <3>2. QED
      BY <3>1 DEF EndsFinal
  <2>5. CatchingUp'
    BY <1>1, <2>1, <2>2 DEF CatchingUp, StateIn, Misses, Advances, TypeInv, ListensToPlay
  <2>6. Agreeing'
    BY <1>1, <2>2 DEF Agreeing, Advances
  <2>7. QED
    BY <2>3, <2>4, <2>5, <2>6
<1>4. QED
  BY <1>2, <1>3 DEF TieInv, Tied

LEMMA AskingTied ==
  ASSUME TypeInv, TieInv,
         \/ \E sides \in Sides : StartGame(sides)
         \/ \E m \in Moves : HumanMoves(m)
         \/ TakesBack \/ Resigns \/ Aborts
  PROVE  TieInv'
<1>1. CASE \E sides \in Sides : StartGame(sides)
  <2>1. PICK sides \in Sides : StartGame(sides)
    BY <1>1
  <2>2. /\ calls' = calls \cup {Call("start", tree)} /\ phase = "settingUp"
        /\ \A c \in calls \cup replies : c.cmd # "start"
        /\ UNCHANGED <<where, phase, tree, result, listening, pending, replies, events, game, astray>>
    BY <2>1 DEF StartGame, Sends, Shell
  <2>3. Starts'
    BY <2>2 DEF TieInv, Starts, OneStart, StartsSettingUp, EnginesAgree, StartIn
  <2>4. Tied'
    BY <2>2 DEF TieInv, Tied, EventsLatest, LatestEvent, EndsFinal, CatchingUp, Agreeing
  <2>5. QED
    BY <2>3, <2>4 DEF TieInv
<1>2. CASE \E m \in Moves : HumanMoves(m)
  <2>1. PICK m \in Moves : HumanMoves(m)
    BY <1>2
  <2> DEFINE asked == Call("move", <<m>>)
  <2>2. asked.cmd = "move"
    BY DEF Call
  <2>3. /\ calls' = calls \cup {asked} /\ phase = "playing" /\ where = "game" /\ Turn(tree) \notin engines
        /\ UNCHANGED <<where, phase, engines, listening, pending, replies, events, game, astray>>
    BY <2>1 DEF HumanMoves, Sends, Shell
  <2> HIDE DEF asked
  <2>4. Starts'
    BY <2>2, <2>3 DEF TieInv, Starts, OneStart, StartsSettingUp, EnginesAgree, StartIn
  <2>5. ASSUME game # None, ~astray
        PROVE  CatchingUp'
    <3>1. CatchingUp /\ game.engines = engines
      BY <2>3, <2>5 DEF TieInv, Tied, Starts, EnginesAgree
    <3>2. CASE InStep
      BY <2>2, <2>3, <3>1, <3>2 DEF InStep, CatchingUp
    <3>3. CASE ~InStep
      BY <2>3, <3>1, <3>3 DEF CatchingUp, StateIn
    <3>4. QED
      BY <3>2, <3>3
  <2>6. Tied'
    BY <2>3, <2>5 DEF TieInv, Tied, EventsLatest, LatestEvent, EndsFinal, Agreeing
  <2>7. QED
    BY <2>4, <2>6 DEF TieInv
<1>3. CASE TakesBack \/ Resigns \/ Aborts
  <2>1. PICK cmd \in {"takeBack", "resign", "abort"} : Commands(cmd)
    BY <1>3 DEF TakesBack, Resigns, Aborts
  <2> DEFINE asked == Call(cmd, << >>)
  <2>2. asked.cmd = cmd
    BY DEF Call
  <2>3. /\ calls' = calls \cup {asked}
        /\ UNCHANGED <<where, phase, engines, tree, result, listening, pending, replies, events,
                       game, astray>>
    BY <2>1 DEF Commands, Sends, Shell, view
  <2> HIDE DEF asked
  <2>4. Starts'
    BY <2>2, <2>3 DEF TieInv, Starts, OneStart, StartsSettingUp, EnginesAgree, StartIn
  <2>5. Tied'
    BY <2>3 DEF TieInv, Tied, EventsLatest, LatestEvent, EndsFinal, CatchingUp, InStep, StateIn, Agreeing
  <2>6. QED
    BY <2>4, <2>5 DEF TieInv
<1>4. QED
  BY <1>1, <1>2, <1>3

LEMMA MovingTied ==
  ASSUME TypeInv, TieInv, NewGame \/ Returns \/ Listens \/ ApplyPendingUpdates
  PROVE  TieInv'
<1>1. /\ UNCHANGED <<engines, replies, events, game, astray>>
      /\ StartIn(calls') => StartIn(calls)
      /\ \A c, d \in calls' : c.cmd = "start" /\ d.cmd = "start" => c \in calls /\ d \in calls
  <2>1. Call("state", << >>).cmd = "state"
    BY DEF Call
  <2>2. QED
    BY <2>1 DEF NewGame, Returns, Mounts, Listens, ApplyPendingUpdates, Shell, StartIn
<1>2. phase' = phase \/ phase' = "settingUp"
  BY DEF NewGame, Returns, Listens, ApplyPendingUpdates
<1>3. Starts'
  <2>1. StartsSettingUp'
    BY <1>1, <1>2 DEF TieInv, Starts, StartsSettingUp, StartIn
  <2>2. OneStart' /\ EnginesAgree'
    BY <1>1, <1>2 DEF TieInv, Starts, OneStart, EnginesAgree, StartIn
  <2>3. QED
    BY <2>1, <2>2 DEF Starts
<1>4. ASSUME game # None, ~astray
      PROVE  EventsLatest' /\ EndsFinal' /\ CatchingUp' /\ Agreeing'
  <2>1. EventsLatest /\ EndsFinal /\ CatchingUp /\ Agreeing
    BY <1>4 DEF TieInv, Tied
  <2>2. pending' \in {pending, None}
    BY DEF NewGame, Unmounts, Returns, Listens, ApplyPendingUpdates
  <2>3. EventsLatest' /\ EndsFinal'
    BY <1>1, <2>1, <2>2 DEF EventsLatest, LatestEvent, EndsFinal
  <2>4. CASE NewGame
    BY <2>3, <2>4 DEF NewGame, CatchingUp, Agreeing
  <2>5. CASE Returns
    <3>1. CASE phase' = "playing"
      <4>1. Call("state", << >>) \in calls' /\ Call("state", << >>).cmd = "state"
        BY <2>5, <3>1 DEF Returns, Mounts, Call
      <4>2. QED
        BY <2>3, <3>1, <4>1 DEF CatchingUp, StateIn, Agreeing
    <3>2. CASE phase' # "playing"
      BY <1>1, <2>1, <2>3, <2>5, <3>2 DEF Returns, CatchingUp, Agreeing, TypeInv, ViewTyped
    <3>3. QED
      BY <3>1, <3>2
  <2>6. CASE Listens
    BY <1>1, <2>1, <2>3, <2>6 DEF Listens, CatchingUp, StateIn, InStep, Agreeing
  <2>7. CASE ApplyPendingUpdates
    <3>1. /\ pending # None /\ tree' = pending /\ listening = "on" /\ where = "game" /\ phase = "playing"
          /\ UNCHANGED <<where, phase, listening, calls>>
      BY <2>7 DEF ApplyPendingUpdates, Sync, TypeInv, ListensToPlay
    <3>2. CatchingUp'
      BY <1>1, <2>1, <3>1 DEF CatchingUp, EventsLatest, InStep
    <3>3. QED
      BY <2>3, <3>1, <3>2 DEF Agreeing
  <2>8. QED
    BY <2>3, <2>4, <2>5, <2>6, <2>7
<1>5. QED
  BY <1>1, <1>3, <1>4 DEF TieInv, Tied

LEMMA LeavingTied ==
  ASSUME TypeInv, TieInv, NEW to \in {"analysis", "elsewhere"}, Leaves(to)
  PROVE  TieInv'
<1>1. /\ where = "game" /\ where' = to /\ pending' = None
      /\ calls' = {[c EXCEPT !.store = FALSE] : c \in calls}
      /\ replies' = {[r EXCEPT !.store = FALSE] : r \in replies}
      /\ UNCHANGED <<phase, engines, tree, result, events, game, astray>>
  BY DEF Leaves, Unmounts, Shell
<1>2. ASSUME NEW d \in calls'
      PROVE  \E c \in calls : d = [c EXCEPT !.store = FALSE] /\ d.cmd = c.cmd
  <2>1. PICK c \in calls : d = [c EXCEPT !.store = FALSE]
    BY <1>1
  <2>2. QED
    BY <2>1 DEF TypeInv, WayTyped, Requests
<1>3. ASSUME NEW d \in replies'
      PROVE  \E r \in replies : /\ d = [r EXCEPT !.store = FALSE]
                                /\ d.cmd = r.cmd /\ d.line = r.line /\ d.status = r.status
  <2>1. PICK r \in replies : d = [r EXCEPT !.store = FALSE]
    BY <1>1
  <2>2. QED
    BY <2>1 DEF TypeInv, WayTyped, Replied
<1>4. Starts'
  <2>1. OneStart
    BY DEF TieInv, Starts
  <2>2. ~(StartIn(calls') /\ StartIn(replies'))
    BY <1>2, <1>3, <2>1 DEF OneStart, StartIn
  <2>3. ASSUME NEW c \in calls', NEW d \in calls', c.cmd = "start", d.cmd = "start"
        PROVE  c = d
    <3>1. PICK a \in calls : c = [a EXCEPT !.store = FALSE] /\ c.cmd = a.cmd
      BY <1>2
    <3>2. PICK b \in calls : d = [b EXCEPT !.store = FALSE] /\ d.cmd = b.cmd
      BY <1>2
    <3>3. a = b
      BY <2>1, <2>3, <3>1, <3>2 DEF OneStart
    <3>4. QED
      BY <3>1, <3>2, <3>3
  <2>4. ASSUME NEW c \in replies', NEW d \in replies', c.cmd = "start", d.cmd = "start"
        PROVE  c = d
    <3>1. PICK a \in replies : c = [a EXCEPT !.store = FALSE] /\ c.cmd = a.cmd
      BY <1>3
    <3>2. PICK b \in replies : d = [b EXCEPT !.store = FALSE] /\ d.cmd = b.cmd
      BY <1>3
    <3>3. a = b
      BY <2>1, <2>4, <3>1, <3>2 DEF OneStart
    <3>4. QED
      BY <3>1, <3>2, <3>3
  <2>5. OneStart'
    BY <2>2, <2>3, <2>4 DEF OneStart
  <2>6. StartsSettingUp' /\ EnginesAgree'
    BY <1>1, <1>2, <1>3 DEF TieInv, Starts, StartsSettingUp, EnginesAgree, StartIn
  <2>7. QED
    BY <2>5, <2>6 DEF Starts
<1>5. ASSUME game # None, ~astray
      PROVE  EventsLatest' /\ EndsFinal' /\ CatchingUp' /\ Agreeing'
  <2>1. EventsLatest /\ EndsFinal /\ CatchingUp /\ Agreeing
    BY <1>5 DEF TieInv, Tied
  <2>2. EventsLatest'
    BY <1>1, <1>3, <2>1 DEF EventsLatest, LatestEvent
  <2>3. EndsFinal' /\ CatchingUp' /\ Agreeing'
    BY <1>1, <2>1 DEF EndsFinal, CatchingUp, Agreeing
  <2>4. QED
    BY <2>2, <2>3
<1>6. QED
  BY <1>1, <1>4, <1>5 DEF TieInv, Tied

LEMMA ArrivingTied ==
  ASSUME TypeInv, TieInv, EventArrives
  PROVE  TieInv'
<1> DEFINE e == Head(events)
<1>1. /\ events # << >> /\ events' = Tail(events)
      /\ UNCHANGED <<where, engines, calls, replies, game, astray>>
      /\ \/ listening # "on" /\ UNCHANGED <<phase, tree, result, listening, pending>>
         \/ /\ listening = "on" /\ e.over = None /\ pending' = e.line
            /\ UNCHANGED <<phase, tree, result, listening>>
         \/ /\ listening = "on" /\ e.over # None /\ pending' = None
            /\ phase' = "gameOver" /\ tree' = e.line /\ result' = e.over
  BY DEF EventArrives, HearsOver, Unmounts
<1>2. /\ e \in Events /\ e \in ToSet(events)
      /\ ToSet(events') \subseteq ToSet(events)
      /\ IF events' = << >> THEN Last(events) = e ELSE Last(events') = Last(events)
  BY <1>1, Heard DEF TypeInv, ShellTyped
<1> HIDE DEF e
<1>3. e.line \in Lines /\ e.line # None
  BY <1>2, Bounds DEF Events
<1>4. Starts'
  <2>1. CASE phase' = phase
    BY <1>1, <2>1 DEF TieInv, Starts, OneStart, StartsSettingUp, EnginesAgree, StartIn
  <2>2. CASE phase' # phase
    BY <1>1, <2>2 DEF TieInv, Starts, OneStart, StartsSettingUp, EnginesAgree, StartIn,
                      TypeInv, ListensToPlay
  <2>3. QED
    BY <2>1, <2>2
<1>5. ASSUME game # None, ~astray
      PROVE  EventsLatest' /\ EndsFinal' /\ CatchingUp' /\ Agreeing'
  <2>1. EventsLatest /\ EndsFinal /\ CatchingUp /\ Agreeing
    BY <1>5 DEF TieInv, Tied
  <2>2. events' = << >> /\ e.over = None => e.line = game.moves /\ game.status = "playing"
    <3>1. ASSUME events' = << >>, e.over = None
          PROVE  e.line = game.moves /\ game.status = "playing"
      <4>1. e = Over(game.moves, IF game.status = "playing" THEN None ELSE game.status)
        BY <1>1, <1>2, <2>1, <3>1 DEF EventsLatest, LatestEvent
      <4>2. game.status # None
        BY <1>5, GameFields, Bounds
      <4>3. QED
        BY <3>1, <4>1, <4>2, OverFields
    <3>2. QED
      BY <3>1
  <2>3. EventsLatest'
    <3>1. events' # << >> => Last(events') = LatestEvent'
      BY <1>1, <1>2, <2>1 DEF EventsLatest, LatestEvent
    <3>2. events' = << >> /\ pending' # None => pending' = game'.moves /\ game'.status = "playing"
      BY <1>1, <2>2 DEF TypeInv, ListensToPlay
    <3>3. QED
      BY <1>1, <2>1, <3>1, <3>2 DEF EventsLatest
  <2>4. EndsFinal'
    BY <1>1, <1>2, <2>1 DEF EndsFinal
  <2>5. CatchingUp'
    BY <1>1, <1>3, <2>1 DEF CatchingUp, StateIn, InStep, TypeInv, ListensToPlay
  <2>6. Agreeing'
    <3>1. CASE listening = "on" /\ e.over # None
      BY <1>1, <1>2, <2>1, <3>1 DEF EndsFinal, Agreeing, Events, Results
    <3>2. CASE ~(listening = "on" /\ e.over # None)
      BY <1>1, <2>1, <3>2 DEF Agreeing
    <3>3. QED
      BY <3>1, <3>2
  <2>7. QED
    BY <2>3, <2>4, <2>5, <2>6
<1>6. QED
  BY <1>1, <1>4, <1>5 DEF TieInv, Tied

LEMMA ExecutingTied ==
  ASSUME TypeInv, TieInv, NEW c \in calls, Executes(c)
  PROVE  TieInv'
<1>1. calls' = calls \ {c} /\ UNCHANGED <<where, phase, engines, tree, result, listening, pending>>
  BY DEF Executes, view
<1>2. c \in Requests
  BY DEF TypeInv, WayTyped
<1>3. CASE c.cmd \in {"move", "takeBack", "resign"}
  <2>1. /\ UNCHANGED replies
        /\ \/ Advances
           \/ /\ UNCHANGED <<game, events, astray>>
              /\ c.cmd = "move" =>
                   game = None \/ game.status # "playing" \/ Turn(game.moves) \in game.engines
    BY <1>3, GameSteps DEF Executes
  <2>2. CASE Advances
    BY <1>1, <1>3, <2>1, <2>2, AdvancesTied DEF view
  <2>3. CASE ~Advances
    <3>1. Starts'
      BY <1>1, <2>1, <2>3 DEF TieInv, Starts, OneStart, StartsSettingUp, EnginesAgree, StartIn
    <3>2. ASSUME game # None, ~astray
          PROVE  CatchingUp'
      <4>1. StateIn(calls) => StateIn(calls')
        BY <1>1, <1>3 DEF StateIn
      <4>2. InStep => InStep'
        BY <1>1, <2>1, <2>3, <3>2 DEF InStep
      <4>3. QED
        BY <1>1, <2>1, <2>3, <3>2, <4>1, <4>2 DEF TieInv, Tied, CatchingUp
    <3>3. Tied'
      BY <1>1, <2>1, <2>3, <3>2 DEF TieInv, Tied, EventsLatest, LatestEvent, EndsFinal, Agreeing
    <3>4. QED
      BY <3>1, <3>3 DEF TieInv
  <2>4. QED
    BY <2>2, <2>3
<1>4. CASE c.cmd = "start"
  <2>1. /\ \/ game' = Fresh(c) /\ replies' = replies \cup {Answer(c, Fresh(c))}
           \/ game' = None /\ UNCHANGED replies
        /\ astray' = (astray \/ events # << >> \/ \E r \in replies : r.cmd # "start")
        /\ UNCHANGED events
    BY <1>4 DEF Executes, ExecutesStart
  <2>2. /\ Fresh(c).engines = engines /\ Answer(c, Fresh(c)).cmd = "start"
    BY <1>2, <1>4, FreshTyped, AnswerTyped
  <2>3. /\ ~StartIn(replies) /\ ~StartIn(calls') /\ phase # "playing"
        /\ ~astray => phase = "settingUp"
    BY <1>1, <1>4 DEF TieInv, Starts, OneStart, StartsSettingUp, StartIn
  <2>4. Starts'
    BY <1>1, <2>1, <2>2, <2>3 DEF Starts, OneStart, StartsSettingUp, EnginesAgree, StartIn
  <2>5. ASSUME ~astray'
        PROVE  /\ phase' = "settingUp" /\ events' = << >> /\ pending' = None
               /\ \A r \in replies' : r.cmd = "start"
    BY <1>1, <2>1, <2>2, <2>3, <2>5 DEF TypeInv, ListensToPlay
  <2>6. events' = << >> => EndsFinal'
    BY DEF EndsFinal, ToSet
  <2>7. Tied'
    BY <2>5, <2>6 DEF Tied, EventsLatest, CatchingUp, Agreeing
  <2>8. QED
    BY <2>4, <2>7 DEF TieInv
<1>5. CASE c.cmd = "abort"
  <2> DEFINE r == [cmd |-> "abort", line |-> << >>, status |-> None, store |-> c.store]
  <2>1. game' = None /\ replies' = replies \cup {r} /\ UNCHANGED <<events, astray>>
    BY <1>5 DEF Executes, ExecutesAbort
  <2>2. r.cmd = "abort"
    OBVIOUS
  <2> HIDE DEF r
  <2>3. Starts' /\ Tied'
    BY <1>1, <2>1, <2>2 DEF TieInv, Starts, OneStart, StartsSettingUp, EnginesAgree, StartIn, Tied
  <2>4. QED
    BY <2>3 DEF TieInv
<1>6. CASE c.cmd = "state"
  <2>1. /\ UNCHANGED <<game, events, astray>>
        /\ replies' = replies \cup (IF game = None THEN {} ELSE {Answer(c, game)})
    BY <1>6 DEF Executes, ExecutesState, Refused
  <2>2. game # None => /\ Answer(c, game).cmd = "state" /\ Answer(c, game).line = game.moves
                       /\ Answer(c, game).status = game.status
    BY <1>2, <1>6, GameFields, AnswerTyped
  <2>3. Starts'
    <3>1. StartIn(replies') => StartIn(replies)
      BY <2>1, <2>2 DEF StartIn
    <3>2. \A r, d \in replies' : r.cmd = "start" /\ d.cmd = "start" => r \in replies /\ d \in replies
      BY <2>1, <2>2
    <3>3. QED
      BY <1>1, <2>1, <3>1, <3>2 DEF TieInv, Starts, OneStart, StartsSettingUp, EnginesAgree, StartIn
  <2>4. ASSUME game # None, ~astray
        PROVE  EventsLatest' /\ EndsFinal' /\ CatchingUp' /\ Agreeing'
    <3>1. EventsLatest /\ EndsFinal /\ CatchingUp /\ Agreeing
      BY <2>4 DEF TieInv, Tied
    <3>2. EventsLatest'
      BY <1>1, <2>1, <2>2, <2>4, <3>1 DEF EventsLatest, LatestEvent
    <3>3. StateIn(replies')
      BY <2>1, <2>2, <2>4 DEF StateIn
    <3>4. EndsFinal' /\ CatchingUp' /\ Agreeing'
      BY <1>1, <2>1, <3>1, <3>3 DEF EndsFinal, CatchingUp, Agreeing
    <3>5. QED
      BY <3>2, <3>4
  <2>5. QED
    BY <2>1, <2>3, <2>4 DEF TieInv, Tied
<1>7. QED
  BY <1>3, <1>4, <1>5, <1>6 DEF Executes

LEMMA AnsweredTied ==
  ASSUME TypeInv, TieInv, NEW r \in replies, Answered(r)
  PROVE  TieInv'
<1>1. /\ replies' = replies \ {r} /\ UNCHANGED <<where, engines, events, game>>
      /\ astray' = (astray \/ (~r.store /\ where = "game") \/ (phase = "settingUp" /\ r.cmd # "start"))
  BY DEF Answered
<1>2. ASSUME game # None, ~astray'
      PROVE  /\ ~astray /\ EventsLatest /\ EndsFinal /\ CatchingUp /\ Agreeing
             /\ where = "game" => r.store
             /\ phase = "settingUp" => r.cmd = "start"
  <2>1. ~astray /\ (where = "game" => r.store) /\ (phase = "settingUp" => r.cmd = "start")
    BY <1>1, <1>2
  <2>2. QED
    BY <1>2, <2>1 DEF TieInv, Tied
<1>3. pending' \in {pending, None} /\ game # None /\ ~astray' => EventsLatest' /\ EndsFinal'
  BY <1>1, <1>2 DEF EventsLatest, LatestEvent, EndsFinal
<1>4. CASE StartAnswered(r)
  <2>1. r.cmd = "start" /\ ~StartIn(replies') /\ ~StartIn(calls) /\ pending' = pending
    BY <1>1, <1>4 DEF StartAnswered, TieInv, Starts, OneStart, StartIn
  <2>2. ~StartIn(calls')
    <3>1. Call("state", << >>).cmd = "state"
      BY DEF Call
    <3>2. QED
      BY <1>4, <2>1, <3>1 DEF StartAnswered, Mounts, StartIn
  <2>3. Starts'
    BY <1>1, <2>1, <2>2 DEF TieInv, Starts, OneStart, StartsSettingUp, EnginesAgree, StartIn
  <2>4. ASSUME game # None, ~astray'
        PROVE  CatchingUp' /\ Agreeing'
    <3>1. phase = "settingUp"
      BY <1>2, <2>1, <2>4 DEF TieInv, Starts, StartsSettingUp, StartIn
    <3>2. CASE where = "game"
      <4>1. phase' = "playing"
        BY <1>4, <3>2 DEF StartAnswered, SetGameState
      <4>2. Call("state", << >>) \in calls' /\ Call("state", << >>).cmd = "state"
        BY <1>4, <3>1, <3>2 DEF StartAnswered, Mounts, Call
      <4>3. QED
        BY <4>1, <4>2 DEF CatchingUp, Agreeing, StateIn
    <3>3. CASE where # "game"
      BY <1>1, <1>4, <3>1, <3>3 DEF StartAnswered, SetGameState, CatchingUp, Agreeing
    <3>4. QED
      BY <3>2, <3>3
  <2>5. QED
    BY <1>1, <1>3, <2>1, <2>3, <2>4 DEF TieInv, Tied
<1>5. ASSUME r.cmd # "start", UNCHANGED calls, phase' \in {phase, "gameOver"}
      PROVE  Starts'
  <2>1. StartIn(calls') \/ StartIn(replies') => astray'
    BY <1>1, <1>5 DEF TieInv, Starts, StartsSettingUp, StartIn
  <2>2. OneStart' /\ EnginesAgree'
    BY <1>1, <1>5 DEF TieInv, Starts, OneStart, EnginesAgree, StartIn
  <2>3. StartsSettingUp'
    BY <1>1, <1>5, <2>1 DEF TieInv, Starts, StartsSettingUp, StartIn
  <2>4. QED
    BY <2>2, <2>3 DEF Starts
<1>6. CASE AbortAnswered(r)
  <2>1. r.cmd = "abort" /\ UNCHANGED calls /\ phase' \in {phase, "gameOver"}
    BY <1>6 DEF AbortAnswered, SetGameState
  <2>2. Starts'
    BY <1>5, <2>1
  <2>3. game = None \/ astray'
    BY <1>2, <2>1 DEF EventsLatest
  <2>4. QED
    BY <1>1, <2>2, <2>3 DEF TieInv, Tied
<1>7. CASE StateAnswered(r)
  <2>1. r.cmd = "state" /\ UNCHANGED calls /\ phase' \in {phase, "gameOver"} /\ pending' \in {pending, None}
    BY <1>7 DEF StateAnswered, SetGameState, Unmounts
  <2>2. Starts'
    BY <1>5, <2>1
  <2>3. ASSUME game # None, ~astray'
        PROVE  CatchingUp' /\ Agreeing'
    <3>1. /\ r.line = game.moves /\ r.status = game.status /\ phase # "settingUp"
          /\ where = "game" => r.store
      BY <1>2, <2>1, <2>3 DEF EventsLatest
    <3>2. CASE Ended(r)
      <4>1. /\ phase' = IF where = "elsewhere" THEN phase ELSE "gameOver"
            /\ where # "analysis" => tree' = game.moves /\ result' = game.status
            /\ game.status # "playing"
        BY <1>7, <3>1, <3>2 DEF StateAnswered, SetGameState, Ended, TypeInv, ViewTyped
      <4>2. QED
        BY <1>1, <4>1 DEF CatchingUp, Agreeing
    <3>3. CASE ~Ended(r)
      <4>1. game.status = "playing" /\ UNCHANGED phase /\ (where = "game" => tree' = game.moves)
        BY <1>7, <3>1, <3>3 DEF StateAnswered, IntoStore, Sync, Ended
      <4>2. QED
        BY <1>1, <1>2, <2>3, <4>1 DEF CatchingUp, InStep, Agreeing
    <3>4. QED
      BY <3>2, <3>3
  <2>4. QED
    BY <1>1, <1>3, <2>1, <2>2, <2>3 DEF TieInv, Tied
<1>8. QED
  BY <1>4, <1>6, <1>7 DEF Answered

LEMMA NextTied ==
  ASSUME TypeInv, TieInv, [Next]_vars
  PROVE  TieInv'
<1>1. ASSUME (\E m \in Moves : EngineMoves(m)) \/ GameEnds
      PROVE  TieInv'
  <2>1. Advances /\ UNCHANGED <<view, calls, replies>>
    BY <1>1, GameSteps DEF EngineMoves, GameEnds
  <2>2. QED
    BY <2>1, AdvancesTied
<1>2. CASE UNCHANGED vars
  BY <1>2 DEF vars, view, TieInv, Starts, OneStart, StartsSettingUp, EnginesAgree, StartIn, Tied,
              EventsLatest, LatestEvent, EndsFinal, CatchingUp, StateIn, InStep, Agreeing
<1>3. QED
  BY <1>1, <1>2, AskingTied, MovingTied, LeavingTied, ArrivingTied, ExecutingTied, AnsweredTied DEF Next

LEMMA Invariance == Spec => [](TypeInv /\ TieInv)
<1>1. TypeInv /\ TieInv /\ [Next]_vars => (TypeInv /\ TieInv)'
  BY NextTyped, NextTied
<1>2. QED
  BY <1>1, InitTied, PTL DEF Spec

-----------------------------------------------------------------------------
(* Theorems.                                                                *)

(* The view, the game and what is under way between them keep their types,  *)
(* and a view listens only while it shows a game that is played.            *)
THEOREM TypeCorrect == Spec => []TypeOK
<1>1. ASSUME TypeInv
      PROVE  TypeOK
  <2>1. \A e \in ToSet(events) : e \in Events
    BY <1>1 DEF TypeInv, ShellTyped, ToSet
  <2>2. game # None => game.moves \in Lines /\ game.status \in Results \cup {"playing"}
    BY <1>1, GameFields DEF Statuses
  <2>3. QED
    BY <1>1, <2>1, <2>2 DEF TypeInv, ViewTyped, ListensToPlay, Events, TypeOK
<1>2. QED
  BY <1>1, Invariance, PTL

(* When all is quiet, the board of a game that is played shows its moves.   *)
THEOREM CatchesUp == Spec => []BoardCatchesUp
<1>1. ASSUME TypeInv, TieInv
      PROVE  BoardCatchesUp
  <2>1. SUFFICES ASSUME Quiet, where = "game", phase = "playing", ~astray, game # None
                 PROVE  tree = game.moves
    BY DEF BoardCatchesUp
  <2>2. CatchingUp /\ calls = {} /\ replies = {} /\ events = << >> /\ pending = None
    BY <1>1, <2>1 DEF TieInv, Tied, Quiet
  <2>3. QED
    BY <2>1, <2>2 DEF CatchingUp, StateIn, InStep
<1>2. QED
  BY <1>1, Invariance, PTL

(* A game shown as over is over, with its moves and its result.             *)
THEOREM AgreesWhenOver == Spec => []OverAgrees
<1>1. ASSUME TypeInv, TieInv
      PROVE  OverAgrees
  BY <1>1 DEF TieInv, Tied, Agreeing, OverAgrees
<1>2. QED
  BY <1>1, Invariance, PTL

=============================================================================
