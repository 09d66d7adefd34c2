# chess-coach in TLA+

Specifications, model-checking runs and proofs about the concurrent core of
chess-coach. On the desktop: the game tree of a tab, the tabs and the way an
edit takes to the disk, the live analysis of a position, the board of a game
against an engine, practice of a repertoire, puzzles, and the game session of
the Tauri shell. Behind it: the Python gateway's pool of UCI engines and the
route that lazily fills and serves a game's evaluation graph.

`M.tla` modules hold the specifications, `MCM.tla` the small instances TLC
checks, `MProofs.tla` the theorems TLAPS checks (those of `Puzzles` and `Practice`
share a module), and each `.cfg` is one run:

    tlc -config MCWorkspace.cfg MCWorkspace.tla
    tlapm WorkspaceProofs.tla

`PROJECT.json` maps every definition to the lines of code it translates and
lists the runs, the faulty variants (mutants) each property notices, the
findings, the hazards and the theorems. A definition whose comment starts with
"Mutant" or "Faulty variant" is a plausible bug: substituted for the definition
it varies, it makes TLC report a property violated. No specification uses one.

## 1. The system

| Part | Source | State it keeps | Operations | What makes it correct | Module |
|---|---|---|---|---|---|
| Game tree | `state/store/tree.ts`, `utils/treeReducer.ts`, `ReportModal.tsx` | tree, cursor, start of a repertoire, dirty mark | play, append, delete, promote, set up, load, navigate, annotate, merge a report | the tree stays a tree, no line is lost, moves are twice only where they were read so, the cursor leaves the tree only in named cases, edits are marked | `GameTree`, `LineBook` |
| Tabs and session storage | `BoardsPage.tsx`, `utils/tabs.ts`, `debouncedStorage.ts`, `BoardAnalysis.tsx`, `ConfirmChangesModal.tsx` | tabs, the mounted store, pending writes, session entries, files | open, close, switch, copy, drag, edit, save, auto save, flush, reload | no edit is lost, clean means written, nothing is closed unasked | `Workspace` |
| Live analysis | `EvalListener.tsx`, `src-tauri/src/chess.rs`, `engine/process.rs` | listeners, throttled calls, a process per tab and engine | move on, switch, get_best_moves, stop, go, events | results belong to their position, off is quiet, the engine follows | `LiveAnalysis` |
| Game board | `BoardGame.tsx`, `BoardControls.tsx`, `Board.tsx` | phase, line, result, listeners, throttled update | start, move, take back, resign, abort, leave, return | the board is the game's when all is quiet, and of a game that is over always | `BoardGame` |
| Game session | `src-tauri/src/game.rs` | controller behind an RwLock, shutdown and notify channels, engine mutexes | start, move, take back, resign, abort, game loop, engine task | the engine moves on its turn and only then, results are final, nothing is stuck | `GameSession` |
| Practice | `PracticePanel.tsx`, `files/opening.ts`, `Board.tsx` | deck and review history of each game, session | sync, start, answer, grade, skip, reset | a grade goes to its card, history survives edits | `Practice` |
| Puzzles | `Puzzles.tsx`, `PuzzleBoard.tsx` | list, index, tree, timers | get, play, hint, solution, clear, reload | the board shows the puzzle that is judged | `Puzzles` |
| Engine pool | `engine_orch/pool.py`, `libs/.../uci/engine.py`, `gateway/engine_availability.py` | slots with a process, a semaphore, a lock per slot, a round-robin cursor | warmup, analyze, engine_info, shutdown | slots are exclusive, permits conserved, replies asked for, everybody answered | `EnginePool` |
| Evaluation graph | `routes/eval_graph.py` | `_inflight` futures with a TTL, one SQLite connection per request | read, gather, dedup, insert, commit, re-read | no dead future, one analysis per position, an answer shows what is stored | `EvalGraph`, `EvalCache` |
| Engine routes, backfill, lifespan | `routes/engines.py`, `analysis.py`, `backfill_analyses.py`, `app.py` | | gate, calls, rows of a backfill, warmup and shutdown | | in `EnginePool`, `EvalGraph` |
| Everything else | `PROJECT.json` | | | | section 7 |

How the parts interact. A tab is a record; what it shows is mounted only while
the tab is active and builds its tree store from the session storage. The live
analysis, the game board, the practice panel and the puzzles all write to that
store (`GameTree`), and most write after an `await`, when another store may be
mounted (`Workspace`). The shell is a multi-threaded tokio runtime: commands,
game loops and engine tasks meet at a game's `RwLock`, at the mutex of each
engine process and at two channels, and it reports by events that arrive later
than the answers of the commands or earlier. The gateway is one asyncio event
loop whose requests interleave only at awaits; the engine routes and the
evaluation graph share one pool, and the graph and the backfill share SQLite in
WAL mode through one connection per request.

What is hard: answers that come back to a store that has been replaced; pending
writes that a reload, a copy or a close overtakes; indices into lists that have
changed; lines of a search that was stopped; a take-back while an engine
searches; failures inside the pool's critical section; views that await each
other's futures while SQLite's write lock passes between their connections. The
hazards in `PROJECT.json` list them at their lines.

## 2. Modules

### GameTree and LineBook

A node's place is its path, the child indices that lead to it, and `root` is a
function from paths to moves. A move has a name, `san`, which says where it leads,
and the squares it was given by, `move`: castling is the king's move to the rook's
square in a text that was parsed and two steps of the king in an engine's line, so
that the two conversions of the code give one name and two moves. `position` is the cursor, a path that need not
lead to a node, `start` the header that says where a repertoire begins. Splices
of an array of children are renamings of paths. Every operation of the store
that changes the tree, the cursor, the start or the mark is an action, in the
order the code does it: `MakeMove` looks for the move among the children, adds
it or promotes it; `DeleteMove` removes the subtree and repairs the cursor by
the rule of the code, which is not the rule of the siblings (section 5).
`analyze`, `ReportArrives` and `ReportFails` are a report that takes minutes and
is merged into the main line there is when it ends; it compares squares
(`Analysed`), where playing a move compares names (`SameName`).

`Games` are the trees that texts parse to, whatever they are: with variations, a
variation that repeats a move among them. `LoadGame` is `setState` from the pages of
a file, where the cursor goes to the Start header, `PasteGame` the typed text, where
it goes to the root. `NotedPaths` are the paths that were noted elsewhere: the Start
header of a text, the path of a card or of an opening, which the tree need not have.

`LineBook` is what a tree promises whatever the order and the number of its
children: a set of lines closed under prefixes, that grows, loses continuations of
one line, is cleared, or is replaced by another book. `KeepsLines` is the refinement,
with the operations named that may take each kind of step; where no line has two
nodes, a deletion takes all continuations of its line (`TakeOut`).

Left out: FENs (a position is the line that leads to it), comments, scores,
shapes and annotations, the headers without a path, `practicePath`.

### Workspace

`tabs` and `active` are the atoms, `store` the tree store of the mounted panel,
`pend` and `sess` the pending writes and the session storage. Of a tree the
model keeps one bit, `last`: is it the tab's last tree? An edit makes the
mounted copy the last one and every other copy an old one, which is all the
properties tell apart. `saves` are calls of `saveToFile()`: `pgn` says whether
the game they took is still the last, `held` which store they will mark as clean
(`Live`: the mounted one), `at` whether they wait for a dialog or a write.
`Activate` is the common end of everything that changes the active tab: the old
panel unmounts, calls that held its store keep an orphan, the new one hydrates
from the storage as the step has left it. `DropTab` is the removal of a tab:
the code filters the list, which removes the one tab of that id (`TypeOK` has
that there is one). History: `saved` (is the last tree in the tab's file: yes,
no, unknown) and `clobbered` (a late save has set the tab back).

Left out: panes, titles, the home page's imports, `InfoPanel.setPage` and
`ImportModal`, which rewrite whichever tab is active after their awaits.

### LiveAnalysis

One engine and one tab. `pos` and `enabled` are the board and the switch, `view`
what the effects ran for last: between the two, React has not rendered yet.
`handlers` are the event handlers with their asynchronous `listen()` and
`unlisten()`, `timer` the 50 ms throttle, `calls` the calls of `get_best_moves()`
asleep between stop and go. `options`, `last` and `running` are the fields of the
`EngineProcess`, `search` and `stopping` the engine, `pipe` its unread lines,
`events` and `reply` what is on its way back. `wrote` is what the last step wrote
into the view, the observable the properties are about.

`procs` are all processes that were ever started. A first call awaits the start, the
options and the go before it puts its process into the map: `starts` are those, and
only `Started` makes one `mapped`, the one that later calls and stops find. A stop or
another first call in between finds none, and the second `Started` leaves the first
process running with nobody to stop it. Calls and stops come at any time while others
sleep: the debounce and the sleep are both 50 ms and no lock is held across either.

History: `overtaken`, the last command took hold while a call slept or a process
started, so that an older one acts after it; `crossed`, a call went on while the
engine still searched or its lines were unread. `Timely` says that 50 ms are enough
for an engine that was stopped and not set going again to fall silent; it restricts
nothing else, and no run of the table assumes it.

Left out: a start that fails, a process that exits, `kill_engines`, several engines
of a tab, cloud engines, threat mode and changes of the go mode or the options.

### BoardGame

The view of one tab over a game that does what `GameSession` promises of it: a
move by the side to move, a result, an event for each. `where` is what is on the
screen, `phase` the atom of the tab's game, `tree` and `result` the store,
`pending` the throttled update, `calls` and `replies` the commands and answers
under way, with the fact whether the store they were made for is still the one
on the screen, and `listening` the registration of the listeners. `Leaves` goes
to another view of the same tab or to another tab; `Returns` mounts again, asks
for the state and listens, in no order. History: `astray`, the view missed an
event or applied a state older than one it had, and `late` in a game, it changed
after its end. Neither gets better, so the run stops there (`Watched`).

### Practice

A tree is the sequence of its positions with the first move of each, as
`buildFromTree` sees it. `deck` is kept per game, `facing` is the orientation a
deck was built for, `phase`, `shown` and `index` are `practiceStateAtom`, `mode`
and `remaining` the session. `SyncsDeck` is the effect that compares the tree's
fingerprint, run by every action that changes what it depends on, as React runs
it. A card is due or not and reviewed or not: FSRS's dates are left out. History:
`moved`, the deck is another since `index` or `remaining` was set. The deck of a
tree is a fold over its positions (`Pushed`), as `buildFromTree` pushes its cards.
`PracticeInit`, `PracticeNext`, `PracticeSpec` and `PracticeTypeOK` have a prefix
because `PuzzlesPracticeProofs` extends `Puzzles` as well.

### Puzzles

`puzzles` and `done` are the session, `current` the index, `line` and `at` the
main line of the tree and the cursor on it, a move being `<<puzzle, number>>`.
`fetches` remember the length the list had when `get_puzzle()` was called, which
becomes the index of the answer; a wrong try is pushed as the code does, so it is
the next move of the main line when nothing follows the cursor, and a variation,
which is left out, when something does; it is the move `<<puzzle, 0>>`. `waits` are
last moves whose continuation waits for the themes, `solution` is the timer that
plays. History: `crossed`, a call or timer outlived what it was started for; the run
stops there.

### EnginePool

One request per client `r \in Reqs`, for the position also named `r`. `pc[r]`
follows a request through `analyze()` or `engine_info()`:

    idle -> admission -> admitted -> lock -> start -> engaged -> go -> idle
            semaphore    woken      slot   handshake           search  (reap: after
                                    lock                               a timeout)

`engine_info()` takes no permit: it starts at `lock`, and ends after `engaged`.
`permits` and `admission` are the `asyncio.Semaphore`, `queue[s]` an
`asyncio.Lock` with its owner at the head and its waiters behind it; a woken
waiter of the semaphore owns the permit before it runs, which is what CPython's
semaphore does. `rr` is the cursor, `worker[s]` the process of a slot ("dead":
it has exited and `slot.engine` does not know), `multipv[s]` the option it keeps
and `searches[s]` the searches it was sent and has not reported. `Finish` is
every way out: it releases the lock and, for an analysis, returns the permit or
hands it to the first waiter. `Warmup`, `Drain` and `Shutdown` are the lifespan:
the server answers the requests in flight before the pool is shut down.

An action is the code from one await that suspends to the next; `Arrive` and
`PickSlot` split a little finer than the event loop does, which adds
interleavings and removes none. Left out: unknown engine ids and validation (no
state), a client that disconnects (the routes do not cancel), lines of an engine
that do not parse, and the private pools of the verifier.

### EvalCache and EvalGraph

`EvalCache` is what a view of a game is promised: `rows` only grows (`Fill`),
a view is answered at once when everything is cached (`AnswerHit`), and
otherwise (`Ask`, `Answer`) with exactly what is cached when it is answered,
which includes all that was cached when it asked.

`EvalGraph` is the route. `pc[v]` follows a request: `missing` after Phase 1 read
the table, `gather` while its tasks run, `reread` before Phase 3. `task[v][p]` is
its task for a ply: it leads (`analyse`, `insert`) or follows the future of
`leader[v][p]`, and ends `stored`, `heard` (told so by its leader), `failed` or
`locked` (the insert timed out on the write lock). `inflight` is the dictionary
`_inflight`, `young` the leading tasks whose entry is not stale yet, `writer` the
connection that owns SQLite's write lock, `uncommitted` what it has inserted.
`Start` is the whole start of `gather()`: its tasks run one after another to
their first real await, and the dedup's lock, never contended, does not suspend.
`Settle` is the common exit of a leading task; it pops whatever entry its key
has, its own or the one of the leader that replaced a stale one, as
`_dedup_pop` does. `Commit` is the commit after the gather, of the only
transaction the connection has had.

The rate limiter and the 404 of an unknown game change nothing and are left out.
`Insert` joins the thread that inserts with the coroutine that resumes after it.
A backfill's transaction is one action per row.

The refinement: an unanswered view has `asked` its game and `hit` the plies that
it did not find missing; every action but `OpenHit`, `OpenMiss`, `Reread`,
`Commit` and `Backfill` is a stutter.

### GameSession

One controller. A position is the sequence of moves leading to it, and chess is
the constant `Lines`, a prefix-closed set of sequences: a game no move extends
is over. `locked` is the write lock across `abort_game()`'s awaits, the only ones
under it; every other locked section is one action. `loop` is where `game_loop`
is: the biased select polls shutdown (`select`), the task (`pollTask`), the
notifications (`pollNotify`) and the clock (`tick`), and the other threads run
between two polls. `task` is the engine task: `spawned` until it has read the
game, `search` while it holds the engine's mutex, `apply` until it has the write
lock again; `book` is the same with a move from the book, which is applied without
the look at the turn that a searched move gets. `snap` and `best` are what it read and
what it got, from the engine or the book. `gone` are the engines whose process has exited or was told to.

The clock may run out at any tick. Left out: `get_engine_logs`, which holds the
read lock while it waits for an engine's mutex and delays but changes nothing;
events; the clocks' values; the draw offers the code does not have. `start_game`
under the same id is `Replace` for the old game; the new one is another
instance. Killing the task with `abort()` may let it finish its current step
(`TaskAborted`).

`revived` and `disturbed` are history variables: a take-back came after the
loop was told to end, or during the engine's task. They name, inside the
properties, the exceptions the code has (section 5).

## 3. Runs

| Run | Instance | Shows |
|---|---|---|
| `tree_edits` | a pawn's move and castling by two pairs of squares, trees of up to 4 nodes and 3 plies, 2 games, 1 noted path, any cursor | `TwinsOnlyBy`, `EditsAreMarked`, `StraysOnlyBy`, `KeepsLines` (refinement of `LineBook`) |
| `workspace_tabs` | 2 tabs at a time, 1 save, failing writes | `EditsSurvive`, `CleanIsWritten`, `ClosesUnaskedOnlyUnflushed` |
| `workspace_auto_save` | 1 tab | finding, section 5 |
| `live_analysis` | 2 positions, 2 processes, 2 each of sleeping calls, of lines, events or replies under way, and of handlers, an engine that takes its time | `ResultsBelong`, `OffIsQuiet`, `FollowsTheBoard` |
| `board_game` | engine as White, Black or both, 2 moves, 2 calls, 2 events | `BoardCatchesUp`, `OverAgrees` |
| `game` | human first, 3 moves, games of 3 plies, clock and book | `GameIsTended`, `EngineMovesAreFresh`, `OutcomesStand`, `EngineReplies`, `AbortEnds` |
| `game_book_turn` | the same | finding, section 5 |
| `training` | a tab of 2 puzzles of 4 moves with 2 fetches, or of 2 games to practise, 3 positions and 4 trees for the first | `BoardIsTheCurrent`, `CountedOnce`, `FullAsksTheFirst`, `GradesTheShown`, `ReviewsSurvive` |
| `practice_sync` | the games of `training` | finding |
| `pool` | 3 clients, 1 slot | `SlotExclusion`, `PoolAccounts`, `AnswersOwnSearch`, `Answered`, `GoEnds` |
| `pool_crashed_reuse` | 2 clients | finding |
| `eval` | 2 views, 1 game of 2 plies | `DedupIsSound`, `StoreIsSound`, `CacheSpec` (refinement of `EvalCache`), `EveryViewAnswered` |

Every passing run also checks its module's `TypeOK` (`PracticeTypeOK`). `MCTraining`
joins two modules that share nothing: one of the two acts and the other stays as it
began. Spare configurations, kept because they answer a question:
`EnginePoolTwoSlots` and `EvalGraphThreeViews` are larger instances and
`LiveAnalysisFollows` checks liveness, which pass; `EnginePoolHungRefused`,
`EnginePoolStaleMultiPV`, `EvalGraphHeard`, `EvalGraphLocked` and
`LiveAnalysisOverlap` are expected to fail and show behaviours of section 5.

Bounds, and why they are enough.

* Tree: two names make every branch a main line and a variation, in both orders, and
  the two pairs of squares of one of them are castling. Four nodes hold a main line
  with a variation of two moves, and three plies a branch that is itself deleted
  under a cursor below it. Of the games one repeats a variation, and neither has the
  noted path. Additions stop at the bound, nothing else does. No report runs in a
  game that has a Start header (`Apart`): it neither reads nor writes the header,
  so the two cases are explored side by side and not multiplied; the proofs have no
  such limit.
* Tabs: two exist at a time, ids are used again, and edits are not counted, so
  the run is about any number of tabs opened one after another and edited any
  number of times. Three tabs would add a bystander. The proof has any number.
* Live analysis: two positions are the one that was left and the one that is
  searched; coming back is the first again. Two sleeping calls are the two that
  cross, two processes one that replaces the other. When both processes are there,
  the run has at most two of what sleeps, is under way or listens, and not two of one
  kind (`Crossings`). Three handlers would be two that leave at once, which file
  results under the same key.
* Board: two plies are a human move and a reply in either order, and with two
  events and two calls a command can overtake the event of the move before it.
* Practice: three positions, one of them the other side's, so that a deletion
  shifts an index and an edit can reorder, shorten or re-answer the deck. Four
  trees are one for each of those.
* Puzzles: two are the one left and the one got; four moves are two of the
  player's, a last one and one that is not. Lines longer than a puzzle with a try
  at its end (`Watched`) come only of a solution that plays on behind other moves.
* Game: three plies are a move, a reply and a move after it; every move differs
  from the one before, so some replies are legal after a take-back and some are
  not. The pool needs three clients, for one to work, one to wait and one to
  come between; two plies let two views lead one and follow the other.

Nothing else is bounded: no other variable counts without limit (a cursor off the
tree may grow with every key: `MaxPly` bounds it). Symmetry is used only
in runs without liveness. Runs in which the system may really stop (a game, a
window without tabs left to touch) do not check for deadlock; the others do.

## 4. Fairness

* Game: `WF` of the loop, of the task and of `AbortQuit` (threads), and of the
  engine, which answers a search or exits. The game's `wait_for_bestmove` has no
  timeout, so an engine that does neither leaves its task searching for ever,
  and `abort_game()` with it when the loop already waits for the lock.
* Pool: `WF(Proceed(r))`, the event loop runs a coroutine that can run and
  `wait_for()` fires. Nothing is assumed of an engine; `Answered` has the end of
  handshakes as its hypothesis, because nothing in the code bounds one.
* Evaluation graph: `WF(ViewStep(v))` and `WF(TaskStep(v, p))`. `analyze()` of
  the pool returns or raises (what `Answered` and `GoEnds` say), and an INSERT
  gets the write lock or fails with the busy timeout of sqlite3.

The other runs state no liveness: a user owes nothing, and what the timers and calls
owe is in the safety properties as "when all is through". For the live analysis
`FairSpec` says what brings that about: `WF` of the effects, of the registration of a
listener, of the timers, of a start that is awaited, of a call that wakes, of the
reading loop and of events and answers, each run by a runtime that does not forget it,
and `SF` that an engine told to stop stops. Under it the board is caught up with
(`Follows`, in the spare configuration `LiveAnalysisFollows`, with one process).

## 5. Where the code and its words differ

Runs that fail as expected, with the quotes in `PROJECT.json`:

* `_acquire` reuses a dead process, as the process object has no `poll()`.
* "Auto save to file after each move": a move made while the one before it is
  being written is marked as saved by that write and is not in the file until
  another move is made.
* "Try polyglot book move first (only for engine turns with a loaded book)": after a
  take-back between the loop's decision and the task's first step, the book moves for
  the human, as neither the lookup nor what applies its move looks at the turn.
* "Sync existing deck with tree changes": a promotion that changes the answer of
  a position keeps the old answer in the deck, which then grades the right move
  as wrong.

Behaviour the models show and the properties name as an exception, because the
code promises nothing else:

* Tree. Deleting a move beside the cursor's line sets the cursor's index to 0 at
  that level, so it jumps to another variation or off the tree; Delete at the
  root removes its last child (`splice(-1, 1)`); the start of a repertoire is not
  adjusted when children are reordered; a Start header or a card's path that the
  game does not have becomes the cursor (`StraysOnlyBy`). From such a cursor
  `isThreeFoldRepetition` throws unless it finds the repetition first, so that a move
  is not made; the model lets it be made.
  A report whose best move is castling adds a second O-O beside one that was read
  from a text, and a text may repeat a move in a variation; deleting one of two such
  nodes leaves its line in the tree (`TwinsOnlyBy`). No document or test claims
  otherwise.
* Tabs. The results of writes are not looked at, so a failed one marks the tab as
  saved; a file dialog outlives its tab and gives the file to the tab in its
  place; a save that comes back after its panel was left persists the tree that
  panel had over newer edits (`clobbered`); "Save and Close" acts on the active
  tab though another tab's close asked; a tab closed within the 300 ms debounce
  is not asked about; a tab with a file and no session entry cannot be closed
  (`closeTab` throws, and the model has no such step).
* Live analysis. A stop, or a call that the running search answers, takes hold at
  once; a call that sleeps or a process that starts acts after it, so an engine may be
  left searching while it is switched off or be set to the position before
  (`overtaken`). Two first calls start two processes, and the one that is replaced in
  the map is out of reach. The sleep is there to "give time for engine to stop and
  process previous lines", but of two calls that overlap both stop the engine before
  the first sets it going, and the second changes the options under that search: even
  if 50 ms always are enough (`LiveAnalysisOverlap`), lines of one position are filed
  under the other (`crossed`). The score of a node may
  come from the position before for as long as its listener has not left.
* Board. Events between an answer and the registration of the listeners are
  missed and an older answer may replace a newer state (`astray`); resigning or
  taking back after the end changes the game (`late`); an answer sets the state
  of whichever tab is shown.
* Practice. The index of the shown card and the remaining cards survive a sync
  or the opening of another game (`moved`); showing the other side rebuilds the
  deck without its history.
* Puzzles. A wrong try stays on the board, and is its main line when nothing follows
  the cursor. Two fetches at once, a list cleared during one, a solution that plays
  on, a last move whose themes come late and a reload put moves of one puzzle on
  the board of another (`crossed`).
* Gateway. After one timed-out search of a pool with one slot the gate refuses
  every request (`EnginePoolHungRefused`); `MultiPV` of an earlier request stays
  set (`EnginePoolStaleMultiPV`); a view may answer null for a ply its leader
  has stored and not committed (`EvalGraphHeard`), or lose an analysis to the
  write lock of a view that gathers (`EvalGraphLocked`); round robin queues an
  analysis behind a busy slot while another is free; a leader's cleanup removes
  the entry of the leader that replaced it.
* Game session. After a take-back a best move is played in another position, or a human loses by abandonment when the task
  spawned before it fails (`disturbed`); a take-back revives a game whose loop
  has ended (`revived`); a resignation replaces a result.

## 6. Proofs

All are for every value of the constants, under the named ASSUMEs of the
modules (markers differ from the values they mark, bounds are numbers, a pool
has at least one worker and finitely many clients).

`WorkspaceProofs`: any set of tabs, any number of saves. `IInv` is inductive and
gives `TypeOK` and `EditsSurvive`; with `SavedInv` it gives the rest.

1. `TabInv`: the tabs are distinct and the active one is among them. The work is
   in the sequences: what `RemoveAt` and `InsertAt` do element by element, and
   that a dragged tab permutes the bar (`MovedFrom`, `MovedTo`).
2. `StorageInv`: for every tab that no late save has set back, mounted or not,
   a reader of the storage gets the last tree. An edit makes the session old and
   the pending write new in one step, a flush moves one to the other, and only a
   write that ends for an orphaned store adds to `clobbered`.
3. `StoreInv`: a call that still holds the mounted store belongs to the active
   tab, so that leaving the tab orphans it. Without it a late write could claim
   a store it does not have. `MountedLast` then follows through every mount from
   2 (`Activated`).
4. `SavedInv`: a tab whose last tree is known not to be in its file is marked
   wherever its next mount may look, and a tab that is not a board has nothing to
   save. What clears a mark is the end of a write, after which the file is not
   known to lack the tree. `CleanIsWritten` follows. A tab that closes is the lone
   home page another opens in place of, one the modal asked about, or one whose
   session entry is clean: hence `ClosesUnaskedOnlyUnflushed`.

`LiveAnalysisProofs`: any positions and bounds, any number of processes, calls and
handlers, timely or not.

1. `Types`: a call sleeps only while there is a process in the map, and a process
   that is being started is not in it.
2. `Belongs` gives `ResultsBelong`: unless a call went on too early, each engine
   searches what its process is set to, if anything, and its unread lines, the
   events and the answer carry the label of the position they were computed for. It
   holds of processes that were replaced as well, whose readers go on.
3. `QuietInv` gives `OffIsQuiet`: unless the last command was overtaken, a
   command that switched the engine off has left no call asleep and no process
   starting behind it, and the process in the map idle or with a stop to read.
4. `FollowInv` gives `FollowsTheBoard`: the position that was asked for last is the
   one the process is set to, or that of the last sleeping call, which wakes last, or
   of the only process that is being started.

`GameSessionProofs`: any legal games (`Lines`), engine sides, with or without
clock and book. `TurnInv` gives `GameIsTended`: the loop of a game in play lives
or its end was told and then revived, a thinking engine has a task, and on the
engine's turn somebody is told. `TaskInv` gives `EngineMovesAreFresh` and
`OutcomesStand`: the position a task read is the current one unless a take-back
came since, hence at most one failure, charged to the engine.

`EnginePoolProofs`: any clients and engines, any number of workers.

1. `LockInv` (`TypeOK` and `HolderHasLock`) is inductive. The two need each
   other: an exit takes the tail of a slot's queue, which is a queue because the
   request that leaves is its head. `SlotExclusion` follows, as a queue has one
   head.
2. `SemInv` adds the semaphore's accounting to it. An exit either frees its
   permit, when nobody waits, or passes it to the first waiter, who is then a
   holder instead.
3. `QueuesAreWaiters` is inductive with `SemInv`: a request joins the queue of
   the slot it was given once, and leaves it as its head; the analysis that an
   exit wakes was in the semaphore's queue, hence in no slot's.
4. `ReplyInv` adds what a slot's process searches for: a timeout kills the
   process before the lock is released, which is what keeps a late bestmove from
   the next request. `AnswersOwnSearch` and `PoolAccounts` follow.

`EvalGraphProofs`: any views, games and plies.

1. Types, and `DedupInv`: followers and entries have a running leader of the
   same position in a view that gathers. The heart is that a leading task is
   registered, and young, as long as its key has not outlived a TTL: hence
   `DedupIsSound`.
2. `StoreInv`: the lock's owner gathers and has inserted; what a view found at
   first stays cached; what it stored is uncommitted until its commit and cached
   after it. `StoreIsSound` follows.
3. `RouteImplementsCache`: with `StoreInv`, every step of the route is a step of
   `EvalCache` or a stutter, so `Spec => CacheSpec`.

`GameTreeProofs`: any moves, any number of nodes, plies and children. `IInv` is
inductive: the nodes are finitely many paths, closed under prefixes and with the
children of each numbered without a gap (`Tree`), and the cursor and the start are paths, which need not
lead to a node. Of the games nothing is assumed but that they are finite trees. That
trees have no twins is not an invariant, because the code makes them: each lemma says
what an operation does to a tree without twins. The work is in the operations on trees, and each has its lemmas:

1. Splices rename paths. A reordering of the children of a node sends every path
   of the new tree to the path it had (`Was`), which keeps its moves, so the tree
   stays a tree, without twins if it had none, and with the same lines. A deletion
   leaves the lines that do not continue the deleted node's (`Book!Delete`);
   without twins it leaves no other (`Book!TakeOut`), while with them a line may have
   been there twice.
2. Folds. `makeMoves()` plays one move after another, and `promoteToMainline()`
   promotes as often as it has to. The fold of the library is unfolded from the
   set it is defined over (`FoldedPlays`, `FoldedTurns`), and what each play or
   promotion keeps is then carried along it by induction over a set of numbers.
3. `TwinsOnly`, `EditsMarked`, `StraysOnly` follow from `IInv` and the step of each
   action. A report's move that has other squares than every child is a twin only
   where two children then have one name and different squares
   (`TwinlessSquares`, `PushedSquares`). `LinesKept` and `ImplementsBook` go through
   the same cases: the set of lines of the new tree contains the old one, lacks
   continuations of one line, or comes from another game.

`BoardGameProofs`: any moves, sides, lengths of games, commands and events under
way.

1. `TypeInv`, where a view listens exactly while it shows a game that is played,
   and only then has a throttled update.
2. `TieInv`: a game is started once at a time (`Starts`), and, unless the view is
   astray, the last event under way is the game's latest, the end of a game that
   nothing changed after it is final, a board that is behind has something under
   way that will tell it (`CatchingUp`), and a game shown as over is over
   (`Agreeing`). `BoardCatchesUp` is `CatchingUp` with nothing under way;
   `OverAgrees` needs no quiet, as `Agreeing` has none.

`PuzzlesPracticeProofs`, Puzzles: any number of puzzles, calls and moves.
`TypeCorrect` needs that the session's list has no puzzle twice and that calls
remember lengths that the list has had. `BoardOfCurrent` adds `Judged`: unless a
call or timer outlived what it was started for, the main line, tries included, and the
solution that plays are of the current puzzle. A reply has at most two moves, so its fold
is written out (`FoldedShort`).
`PuzzleCountsOnce`: every write of a completion looks at it first.

`PuzzlesPracticeProofs`, Practice: any games, trees, positions and answers.
`SessionInv` is inductive.

1. `BuildIs`, by induction along the fold of a tree: the deck of a tree has one
   card for each of its positions of the side, all new. `SyncedIs`: a sync has the
   same positions, and what was learned of those that stay.
2. `DeckInv`: a deck has no position twice and only those of the side it was
   built for. Without the side a sync could drop a reviewed card of a position
   that is still there, which `ReviewsSurvive` excludes.
3. `AnswerInv` and `AskedInv`: unless the deck has changed, the index of a right
   answer is the card that was shown, and the card on the screen in a full
   session is the one the session drops. `GradesTheShown` and `FullAsksTheFirst`
   follow; every step is one that keeps the positions of the decks in place
   (`SameCards`) or a sync or reset that is noted in `moved`.

Induction. The induction theorems of the library take an operator as their
parameter, which the provers cannot instantiate. Where a proof follows a fold or
the prefixes of a path it uses a set of numbers in its place: the least number
that is not in the set (`MinOf`) leads to a contradiction (`NatSteps`). No module
with a theorem declares a RECURSIVE operator.

Only model-checked: all liveness (`Answered`, `GoEnds`, `EveryViewAnswered`,
`EngineReplies`, `AbortEnds`, and `Follows` of the spare configuration), since TLAPS proves neither properties
under fairness nor ENABLED. Every invariant and action property of a run that
passes is a theorem.

## 7. Not modelled

* `services/coach/api.ts`, `bindings/generated.ts`, `routeTree.gen.ts`: one typed
  fetch or invocation per route or command, or generated; no state.
* Settings, engines, databases, files, accounts, profile, coach, training and
  import pages: forms and tables over a request each. Most lines of the
  user interface, also in the files that are modelled, are markup, styles and
  translations, which no property is about: this is what keeps the share of mapped
  lines low. `hooks/useGameTimer.ts` is used by nothing.
* `RepertoireInfo.tsx` and `utils/repertoire.ts`: coverage of a repertoire, whose
  late answers are dropped by a version kept in a ref. It needs the position
  search it asks, which is next.
* `src-tauri/src/db/`: the position search (line cache, collision locks, permits,
  one memory-mapped index for all files) and the move encoding.
* Training cards, game import, narration, repertoire books, migrations, PDF
  import, authentication, knowledge base: sequential code over SQLite, files or
  external services; their hazards are listed with a note.
* Player profile and evaluation verifier: statistics over floating-point numbers.

Plan, in this order: the position search with an abstract specification "a
search returns what its file contains", and the coverage over it; `kill_engines`
and processes that exit in `LiveAnalysis`; a composition of `GameSession`
with `BoardGame` in place of the game the board assumes, and of the evaluation
graph with the pool; the transactional parts of the gateway under partial failure.
