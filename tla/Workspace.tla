----------------------------- MODULE Workspace -----------------------------
(* The tabs of the desktop and the way an edit takes to the disk:           *)
(* components/tabs/BoardsPage.tsx, utils/tabs.ts, state/atoms.ts,           *)
(* state/store/debouncedStorage.ts, components/boards/BoardAnalysis.tsx and *)
(* components/tabs/ConfirmChangesModal.tsx.                                 *)
(*                                                                          *)
(* Only the panel of the active tab is mounted. Its tree store persists     *)
(* every change through a debounced session storage, from which the next    *)
(* mount of the tab starts. Saving to a file is asynchronous. Of the tree a *)
(* place holds, the model keeps whether it is the tab's last one.           *)
EXTENDS Integers, FiniteSets, Sequences, SequencesExt

CONSTANTS
  TabIds,     \* what genID() may return; more tabs than these are not open at once
  MaxSaves,   \* bound: the calls of saveToFile() in flight
  MayFail,    \* whether a write may fail
  NoTab, NoEntry, Live

ASSUME WorkspaceAssumption ==
  /\ NoTab \notin TabIds
  /\ MaxSaves \in Nat
  /\ MayFail \in BOOLEAN
  /\ NoEntry \notin [last : BOOLEAN, dirty : BOOLEAN]
  /\ Live \notin BOOLEAN

VARIABLES
  tabs, active,  \* tabsAtom and activeTabAtom
  type,          \* "new", or "board" for a tab with a tree
  origin,        \* the kind of the tab's gameOrigin; a database game is as a "file"
  store,         \* the tree store of the mounted panel
  effect,        \* the auto save effect is due to run
  pend, sess,    \* pendingWrites and sessionStorage
  saves,         \* calls of saveToFile() in flight
  modal,         \* the modal for unsaved changes is open
  saved,         \* history: is the last tree in the tab's file: yes, no, unknown
  clobbered      \* history: tabs whose entry a late save has set back

history == <<saved, clobbered>>
vars == <<tabs, active, type, origin, store, effect, pend, sess, saves, modal, history>>

Entry(l, d) == [last |-> l, dirty |-> d]
Entries == [last : BOOLEAN, dirty : BOOLEAN]
Origins == {"none", "temp_file", "file"}
Persistent(t) == origin[t] # "none"

Open == ToSet(tabs)
(* genID() returns what no tab has and no call remembers.                   *)
Used == Open \cup {s.tab : s \in saves}

-----------------------------------------------------------------------------
(* Storage and mounting.                                                    *)

(* Mutant: pending writes are not looked at.                                *)
getItemStored(P, S, t) == S[t]

getItem(P, S, t) == IF P[t] # NoEntry THEN P[t] ELSE S[t]

(* createTreeStore(): the stored tree, or a default one.                    *)
Hydrated(P, S, t) ==
  LET item == getItem(P, S, t)
  IN  IF item = NoEntry THEN Entry(TRUE, FALSE) ELSE item

(* A save keeps the store it was called with, mounted or not.               *)
Orphaned(calls) ==
  {IF s.tab = active /\ s.held = Live THEN [s EXCEPT !.held = store.last] ELSE s : s \in calls}

(* Another tab becomes active: its panel mounts, after the tab's type and   *)
(* the storage have been written.                                           *)
Activate(t, calls) ==
  /\ active' = t
  /\ IF t = active
     THEN store' = store /\ saves' = calls /\ effect' = effect
     ELSE /\ saves' = Orphaned(calls)
          /\ store' = IF t # NoTab /\ type'[t] = "board" THEN Hydrated(pend', sess', t)
                      ELSE NoEntry
          /\ effect' = (store' # NoEntry)

setItem(t, item) ==
  /\ pend' = [pend EXCEPT ![t] = item]
  /\ UNCHANGED sess

flush ==
  /\ \E t \in TabIds : pend[t] # NoEntry
  /\ sess' = [t \in TabIds |-> getItem(pend, sess, t)]
  /\ pend' = [t \in TabIds |-> NoEntry]
  /\ UNCHANGED <<tabs, active, type, origin, store, effect, saves, modal, history>>

(* The page is left and loaded again: pending writes are flushed, what only *)
(* memory held is gone.                                                     *)
Reload ==
  /\ sess' = [t \in TabIds |-> getItem(pend, sess, t)]
  /\ pend' = [t \in TabIds |-> NoEntry]
  /\ store' = IF active # NoTab /\ type[active] = "board" THEN Hydrated(pend, sess, active)
              ELSE NoEntry
  /\ saves' = {}
  /\ modal' = FALSE
  /\ effect' = (store' # NoEntry)
  /\ UNCHANGED <<tabs, active, type, origin, history>>

-----------------------------------------------------------------------------
(* Tabs.                                                                    *)

(* A tab of its own, or in the place of a lone tab that shows the home page.*)
WithTab(t, newType) ==
  IF Len(tabs) = 1 /\ type[tabs[1]] = "new" /\ newType # "new" THEN <<t>>
  ELSE Append(tabs, t)

(* createTab() without a game; with no tab left an effect calls it.         *)
NewTab(t) ==
  /\ t \notin Used
  /\ tabs' = WithTab(t, "new")
  /\ type' = [type EXCEPT ![t] = "new"]
  /\ UNCHANGED <<origin, pend, sess, modal, history>>
  /\ Activate(t, saves)

(* createTab() with a game: the tree is in the session before the tab is.   *)
OpenGame(t, kind) ==
  /\ t \notin Used
  /\ tabs # << >>
  /\ tabs' = WithTab(t, "board")
  /\ type' = [type EXCEPT ![t] = "board"]
  /\ origin' = [origin EXCEPT ![t] = kind]
  /\ sess' = [sess EXCEPT ![t] = Entry(TRUE, FALSE)]
  /\ UNCHANGED <<pend, modal, history>>
  /\ Activate(t, saves)

(* A card of the home page turns the tab into a board.                      *)
ChooseBoard ==
  /\ active # NoTab
  /\ type[active] = "new"
  /\ type' = [type EXCEPT ![active] = "board"]
  /\ store' = Hydrated(pend, sess, active)
  /\ effect' = TRUE
  /\ UNCHANGED <<tabs, active, origin, pend, sess, saves, modal, history>>

(* selectTab(), cycleTabs() and a press on a tab.                           *)
Select(t) ==
  /\ t # active
  /\ UNCHANGED <<tabs, type, origin, pend, sess, modal, history>>
  /\ Activate(t, saves)

(* onDragEnd of the tab bar.                                                *)
DragTab(i, j) ==
  /\ i # j
  /\ tabs' = InsertAt(RemoveAt(tabs, i), j, tabs[i])
  /\ UNCHANGED <<active, type, origin, store, effect, pend, sess, saves, modal, history>>

(* renameTab(): a new record of the tab, on which saveFile depends.         *)
renameTab(t) ==
  /\ effect' = (effect \/ (t = active /\ store # NoEntry))
  /\ UNCHANGED <<tabs, active, type, origin, store, pend, sess, saves, modal, history>>

(* duplicateTab(): the copy has what the session holds.                     *)
duplicateTab(t, id) ==
  /\ id \notin Used
  /\ tabs' = Append(tabs, id)
  /\ type' = [type EXCEPT ![id] = type[t]]
  /\ origin' = [origin EXCEPT ![id] = origin[t]]
  /\ sess' = [sess EXCEPT ![id] = IF sess[t] = NoEntry THEN NoEntry ELSE Entry(TRUE, sess[t].dirty)]
  /\ saved' = [saved EXCEPT ![id] = IF pend[t] = NoEntry THEN saved[t] ELSE "unknown"]
  /\ UNCHANGED <<pend, modal, clobbered>>
  /\ Activate(id, saves)

(* Mutant: the first tab, be it the closed one.                             *)
AfterClosingFirst(t) == IF t # active THEN active ELSE tabs[1]

findIndex(t) == CHOOSE i \in DOMAIN tabs : tabs[i] = t

(* The tab that is active when t is gone.                                   *)
AfterClosing(t) ==
  LET index == findIndex(t)
  IN  CASE t # active -> active
        [] t = active /\ Len(tabs) = 1 -> NoTab
        [] t = active /\ Len(tabs) > 1 /\ index = Len(tabs) -> tabs[index - 1]
        [] OTHER -> tabs[index + 1]

(* Its entry in the session stays, and nothing reads it again.              *)
DropTab(t, calls) ==
  /\ tabs' = RemoveAt(tabs, findIndex(t))
  /\ type' = [type EXCEPT ![t] = "unused"]
  /\ origin' = [origin EXCEPT ![t] = "none"]
  /\ pend' = [pend EXCEPT ![t] = NoEntry]
  /\ sess' = [sess EXCEPT ![t] = NoEntry]
  /\ saved' = [saved EXCEPT ![t] = "yes"]
  /\ clobbered' = clobbered \ {t}
  /\ Activate(AfterClosing(t), calls)

(* Mutant: changes are only asked about in the active tab.                  *)
AsksActiveOnly(t) == Persistent(t) /\ t = active /\ sess[t] # NoEntry /\ sess[t].dirty

Asks(t) == Persistent(t) /\ sess[t] # NoEntry /\ sess[t].dirty

(* closeTab(value): whether to ask is read from the session. A persistent   *)
(* tab without an entry makes the handler throw.                            *)
closeTab(t) ==
  /\ Persistent(t) => sess[t] # NoEntry
  /\ IF Asks(t)
     THEN /\ modal' = ~modal
          /\ UNCHANGED <<tabs, active, type, origin, store, effect, pend, sess, saves, history>>
     ELSE /\ UNCHANGED modal
          /\ DropTab(t, saves)

-----------------------------------------------------------------------------
(* Saving.                                                                  *)

(* saveToFile() up to its first await: the game as it is now.               *)
Call(user) ==
  [tab |-> active, pgn |-> store.last, held |-> Live,
   at |-> IF origin[active] = "file" \/ (origin[active] = "temp_file" /\ ~user)
          THEN "write" ELSE "dialog"]

userSaveFile ==
  /\ store # NoEntry
  /\ Cardinality(saves) < MaxSaves
  /\ saves' = saves \cup {Call(TRUE)}
  /\ UNCHANGED <<tabs, active, type, origin, store, effect, pend, sess, modal, history>>

(* The effect of BoardAnalysis, which runs when `dirty` or the tab changes. *)
AutoSave ==
  /\ effect
  /\ effect' = FALSE
  /\ IF store # NoEntry /\ Persistent(active) /\ store.dirty
     THEN Cardinality(saves) < MaxSaves /\ saves' = saves \cup {Call(FALSE)}
     ELSE UNCHANGED saves
  /\ UNCHANGED <<tabs, active, type, origin, store, pend, sess, modal, history>>

(* The modal of the active tab: close without saving, or save and close,    *)
(* which closes without waiting for the save.                               *)
CloseWithoutSaving ==
  /\ modal /\ store # NoEntry
  /\ modal' = FALSE
  /\ DropTab(active, saves)

SaveAndClose ==
  /\ modal /\ store # NoEntry
  /\ Cardinality(saves) < MaxSaves
  /\ modal' = FALSE
  /\ DropTab(active, saves \cup {Call(TRUE)})

CancelModal ==
  /\ modal /\ store # NoEntry
  /\ modal' = FALSE
  /\ UNCHANGED <<tabs, active, type, origin, store, effect, pend, sess, saves, history>>

(* Mutant: a cancelled dialog falls through to save().                      *)
DialogCancelledSaves(s) ==
  /\ s.at = "dialog"
  /\ saves' = saves \ {s}
  /\ IF s.held = Live
     THEN /\ store' = [store EXCEPT !.dirty = FALSE]
          /\ setItem(s.tab, [store EXCEPT !.dirty = FALSE])
     ELSE UNCHANGED <<store, pend, sess>>
  /\ UNCHANGED <<tabs, active, type, origin, effect, modal, history>>

DialogCancelled(s) ==
  /\ s.at = "dialog"
  /\ saves' = saves \ {s}
  /\ UNCHANGED <<tabs, active, type, origin, store, effect, pend, sess, modal, history>>

(* setCurrentTab() binds whichever tab is active now to the chosen file.    *)
DialogChosen(s) ==
  /\ s.at = "dialog"
  /\ saves' = (saves \ {s}) \cup {[s EXCEPT !.at = "write"]}
  /\ origin' = IF active = NoTab THEN origin ELSE [origin EXCEPT ![active] = "file"]
  /\ saved' = IF active \in {NoTab, s.tab} THEN saved ELSE [saved EXCEPT ![active] = "unknown"]
  /\ effect' = (store # NoEntry)
  /\ UNCHANGED <<tabs, active, type, store, pend, sess, modal, clobbered>>

(* The write has ended, well or not: save() marks the store that the call   *)
(* was made with, and the store persists itself.                            *)
WriteEnds(s, ok) ==
  LET content == IF s.held = Live THEN store.last ELSE s.held
  IN  /\ s.at = "write"
      /\ saves' = saves \ {s}
      /\ store' = IF s.held = Live THEN Entry(content, FALSE) ELSE store
      /\ IF s.tab \in Open
         THEN /\ setItem(s.tab, Entry(content, FALSE))
              /\ saved' = [saved EXCEPT ![s.tab] = IF ok /\ s.pgn /\ content THEN "yes"
                                                 ELSE "unknown"]
              /\ clobbered' = IF content THEN clobbered ELSE clobbered \cup {s.tab}
         ELSE UNCHANGED <<pend, sess, saved, clobbered>>
      /\ UNCHANGED <<tabs, active, type, origin, effect, modal>>

-----------------------------------------------------------------------------
(* Editing: a change of the tree (GameTree).                                *)

(* What is stored of the tab, or on its way to a file, is no longer its     *)
(* last tree.                                                               *)
Changes(dirty) ==
  /\ store # NoEntry
  /\ store' = Entry(TRUE, dirty)
  /\ pend' = [pend EXCEPT ![active] = Entry(TRUE, dirty)]
  /\ sess' = [sess EXCEPT ![active] = IF @ = NoEntry THEN NoEntry ELSE Entry(FALSE, @.dirty)]
  /\ saves' = {IF s.tab # active THEN s
                ELSE [s EXCEPT !.pgn = FALSE, !.held = IF @ = Live THEN Live ELSE FALSE] :
                s \in saves}
  /\ clobbered' = clobbered \ {active}
  /\ UNCHANGED <<tabs, active, type, origin, modal>>

Edit ==
  /\ Changes(TRUE)
  /\ effect' = (effect \/ ~store.dirty)
  /\ saved' = [saved EXCEPT ![active] = "no"]

(* addGame(): the tree is reset and the new game appended to the file.      *)
addGame ==
  /\ active # NoTab /\ origin[active] \in {"file", "temp_file"}
  /\ Changes(FALSE)
  /\ effect' = TRUE
  /\ saved' = [saved EXCEPT ![active] = "yes"]

-----------------------------------------------------------------------------

Init ==
  \E t \in TabIds :
    /\ tabs = <<t>>
    /\ active = t
    /\ type = [u \in TabIds |-> IF u = t THEN "new" ELSE "unused"]
    /\ origin = [u \in TabIds |-> "none"]
    /\ store = NoEntry
    /\ effect = FALSE
    /\ pend = [u \in TabIds |-> NoEntry]
    /\ sess = [u \in TabIds |-> NoEntry]
    /\ saves = {}
    /\ modal = FALSE
    /\ saved = [u \in TabIds |-> "yes"]
    /\ clobbered = {}

Next ==
  \/ \E t \in TabIds : NewTab(t) \/ \E kind \in Origins : OpenGame(t, kind)
  \/ ChooseBoard
  \/ \E t \in Open : Select(t) \/ renameTab(t) \/ closeTab(t)
  \/ \E t \in Open, id \in TabIds : duplicateTab(t, id)
  \/ \E i, j \in DOMAIN tabs : DragTab(i, j)
  \/ Edit
  \/ addGame
  \/ userSaveFile
  \/ AutoSave
  \/ CloseWithoutSaving
  \/ SaveAndClose
  \/ CancelModal
  \/ \E s \in saves :
       \/ DialogCancelled(s)
       \/ DialogChosen(s)
       \/ \E ok \in {TRUE, ~MayFail} : WriteEnds(s, ok)
  \/ flush
  \/ Reload

Spec == Init /\ [][Next]_vars

-----------------------------------------------------------------------------
(* Properties.                                                              *)

(* Types; there is an active tab as long as there are tabs, it is one of    *)
(* them, and it is the one whose panel is mounted (BoardsPage.tsx:49-74).   *)
TypeOK ==
  /\ Open \subseteq TabIds /\ IsInjective(tabs)
  /\ IF tabs = << >> THEN active = NoTab ELSE active \in Open
  /\ \A t \in TabIds : pend[t] \in Entries \cup {NoEntry} /\ sess[t] \in Entries \cup {NoEntry}
  /\ store \in Entries \cup {NoEntry}
  /\ store # NoEntry <=> active # NoTab /\ type[active] = "board"
  /\ \A t \in TabIds : origin[t] \in Origins
  /\ \A s \in saves : s.tab \in TabIds /\ s.held \in BOOLEAN \cup {Live}
  /\ \A s \in saves : s.held = Live => s.tab = active

(* Unsaved changes of a tab with a file or database game leave without a    *)
(* question only in the 300 ms before the session learns of them            *)
(* (BoardsPage.tsx:51-55, debouncedStorage.ts:22-31).                       *)
ClosesUnaskedOnlyUnflushed ==
  [][\A t \in Open \ ToSet(tabs') :
       Persistent(t) /\ Hydrated(pend, sess, t).dirty => modal \/ pend[t] # NoEntry]_vars

(* What the storage has of a tab is its last tree.                          *)
StoredLast(t) == Hydrated(pend, sess, t).last

(* Whatever tab is shown, hidden, copied or reloaded, its next mount starts *)
(* from its last edit, unless the save of an earlier mount came back late   *)
(* and persisted the tree that mount had (debouncedStorage.ts:53-62,        *)
(* tabs.ts:238).                                                            *)
EditsSurvive ==
  /\ \A t \in Open \ clobbered : StoredLast(t)
  /\ store # NoEntry /\ active \notin clobbered => store.last

(* A tab of a file that shows no unsaved changes has been written as it is, *)
(* unless it was edited during the write, the write failed, a file dialog   *)
(* of another tab has given it its file, or it is the copy of a tab that    *)
(* the session did not know yet (tabs.ts:164-240, BoardsPage.tsx:112-130).  *)
CleanIsWritten ==
  store # NoEntry /\ Persistent(active) /\ ~store.dirty /\ active \notin clobbered
    => saved[active] # "no"

(* Auto save, as its setting describes it: with no write under way and the  *)
(* effect settled, the last move of a tab with a file is in the file.       *)
AutoSavesEachMove ==
  store # NoEntry /\ Persistent(active) /\ ~effect /\ saves = {}
    => saved[active] = "yes"

=============================================================================
