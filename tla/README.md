# Remin: a TLA+ verification project

Remin keeps a terminal workspace (windows, tabs, split panes, notes, command
history, scrollback) alive across restarts. This directory models the parts
of it that decide whether a user's work survives: the domain model, the SQLite
checkpoint, the life of workspaces and snapshots in the database, the autosave
pipeline, the single-instance lock, the shell history mirror, the note tabs, and
the widgets of the main window, which must mirror all of these.
Paths below are relative to the repository root. `PROJECT.json` maps every
definition to the lines it models and lists runs, mutants, hazards and theorems.

## 1. Inventory

| Part | State | Operations | Talks to |
|---|---|---|---|
| Pane tree (`src/core/pane`) | binary tree of panes, split kinds, ratios | leaf, split, remove with promotion, ratio | owned by a tab |
| WorkspaceCore (`src/core/workspace_core.cpp`) | open workspace: windows, tabs, trees, three focus fields, `ws_dirty_` | add, remove, rename, focus, split, checkpoint, open, close, snapshots, history | storage (calls), event callback |
| SqliteStorage (`src/storage`) | one connection; tables `workspaces`, `snapshots`, `scrollbacks`, `closed_windows`, history annotations | one transaction (`checkpoint`), single statements for the rest | SQLite |
| Autosaver (`src/core/autosave.cpp`) | `pending_`: key to kind and time of last activity | note_*_activity, due, flush, flush_now | workspace provider (callback) |
| Application timer (`src/gui/application.cpp`) | 250 ms GLib timeout | tick | autosaver, badge |
| WorkspaceSession, WorkspaceLock | open database, lock file descriptor | constructor, acquire, release | other processes through `flock` |
| SessionController (`src/gui/session`) | bindings between tabs, panes and notes; settings | new tab, note, close, settings, history | core, autosaver, storage |
| MainWindow (`src/gui/window/main_window.cpp`) | tab views and the two vectors by kind, `Gtk::Stack` with index names, row of tabs, active index, find bar, sidebar pages | tab open/close/switch/restore, capture of the runtime state, close handler, window list | controller, core, tab views |
| Terminal tab view | Paned widgets, `panes_`, clicked pane, divider positions | split, close, click, drag, rebuild, restore | core tree, terminal panes |
| Terminal pane | VTE widget, shell process, remembered directory | spawn, capture, restore, terminate | the shell, cwd resolution |
| Note tab view, editor and preview | buffer, modified flag, file watcher; search, highlight and preview timers; preview layout | typing, paste, find, replace, save, reload, render, image paste | files, clipboard, controller |
| Directory tree | root, expanded set, selection, filter, rows, monitor | click, filter, create, rename, delete, refresh | file system, note saves |
| Commands page and history sidebar | rows, buttons, bound tracker and pane, window rows | bind, refresh, rebuild on idle, pin, insert | history trackers, panes, core |
| History tracker and watcher (`src/gui/terminal`) | per-pane list of commands, inotify thread | sync, reload, callbacks | shell history files, two threads |
| CLI and dispatcher | short-lived process | same core calls, no lock | storage |
| IPC, PTY, shell, event loop | sockets and ptys | thin system call wrappers | kernel |
| Markdown engine | document tree, layout boxes | parse, style, lay out, draw | Pango, Cairo |
| PDF export | blocks, pages, anchors, outline | lay out twice, paginate, number the contents | Markdown engine |

What is hard here, and where:

- **Crashes and partial failures.** A checkpoint is a series of statements
  over several tables; the process may die, or a statement fail, between any two.
  The same terminal contents are stored twice (JSON and blob table).
- **Several processes** share one database and one lock file per workspace; the
  CLI takes no lock.
- **Two threads** share a `PaneHistoryTracker`, while the shell writes the file.
- **Re-entrance and order on the main loop.** The autosaver calls a provider
  that dirties the workspace again; a poll opens modal prompts on top of the
  dialogs of the user; callbacks keep raw pointers to tabs that close.
- **State that is checked early and used late**: the workspace loaded before the
  lock, a file size taken before the mutex, a stamp remembered by a watcher.
- **Widgets that copy the core.** Tabs, panes, rows and highlights are copies,
  brought up to date by idle callbacks, debounced timers and signal handlers that
  run in the middle of another handler.

What makes each part correct: trees keep every pane, its order and no dangling
split (pane tree, core); a checkpoint is all or nothing, reported truthfully,
and numbered uniquely while no snapshot is restored (storage); both copies of a
terminal agree (store); what is dirty is scheduled and gets saved (autosaver); one live
instance per workspace, and only it writes (session); the cache equals the file when
syncs do not overlap, pins survive reloads, and nobody hangs (history); typed
text is saved, still there, or given up by a choice (notes); what is on the screen
is what the core holds once the callbacks have run, a row acts on the thing it was
made for, and a restart brings back the tabs, the dividers and the directories
(widgets); every block of a note is on one page, and the contents name the right one
(PDF export).

## 2. Modules

| Module | Models | State and actions |
|---|---|---|
| `PaneTree` | `src/core/pane/pane.hpp`, `remove_pane_from_tree`, the JSON form of a tree | operators on trees as functions from positions to labels, and when such a function is a tree (`GoodTree`); no state |
| `SeqFilter` | `std::remove_if` with `erase`, loops that copy some elements of a vector | the operator `Only`; no state |
| `WorkspaceCore` | the structural mutators of `src/core/workspace_core.cpp` | fields of `Workspace`, `Window`, `Tab`; one action per public method, called with any id |
| `AtomicStore` | what a checkpoint promises | abstract: the current image, its contents, the list of images; one atomic step |
| `SqliteStorage` | `WorkspaceCore::checkpoint`, `SqliteStorage::checkpoint`, the RAII transaction | `committed` (file), `working` (this connection), the program counter of the call, the generation and the dirty flag of the open workspace; one action per statement, its failure, COMMIT and its failures, crash, foreign writer; taking and restoring a snapshot, reopening |
| `WorkspaceStore` | create, open, close, rename, delete, capture, checkpoint, snapshots, closed windows | the four tables and `ws_current_`; one action per operation, each of which may fail |
| `Autosave` | `src/core/autosave.cpp`, the 250 ms timer, the provider, the badge | `pending_` with ages; activity, time, tick, flush_now, exit |
| `WorkspaceSession` | the constructor of `WorkspaceSession`, `WorkspaceLock`, the CLI's creation | per process program counter; `flock` holder per workspace |
| `HistorySync` | `PaneHistoryTracker`, `HistoryFileWatcher`, the pin menu, the idle callback | one pane; the steps of `sync()` between its locks, for two threads |
| `NoteTab` | `NoteTabView`, the close guard and `open_note_from_path` of `MainWindow`, `write_note_file` | buffer, flag, files, watcher, stack of modal dialogs, last checkpoint |
| `MainWindow` | `main_window.cpp`: tabs, stack, row of tabs, find bar, capture, close handler, restore; the core calls they make | `ws` (core), `tabs_`, `term_tabs_`, `note_tabs_`, stack children, `active_tab_`; one action per handler, with the visible-child handler inside it; quit and start |
| `TerminalTab` | `terminal_tab_view.cpp` | core tree of the tab, built tree, `panes_`, positions, focus; split, close, click, drag, size allocation, idle restore, other tabs' effects on the shared focus |
| `TerminalPane` | `terminal_pane.cpp`, `core/terminal/cwd.hpp` | shell process, tracked pid, OSC 7 report, remembered and saved directory over any number of runs |
| `NoteEditor` | `note_editor.cpp` | text with marks and tags, search state, three debounce timers, paste flag |
| `NotePreview` | `markdown_preview.cpp`, preview and image parts of `note_tab_view.cpp` | source, dirty flag and layout; toggle, render, draw, resize, theme, scroll sync; image files |
| `DirectoryTree` | `directory_tree_panel.cpp` | file system, `State`, rows, monitor and debounce; the panel's commands and other programs |
| `CommandsPage` | `commands_page.cpp`, `update_history_sidebar` and what triggers it | histories, page bindings, rows, buttons, menu |
| `Sidebar` | sidebar pages and windows list of `main_window.cpp` | page, view, search, scheduled fill, rows, menu |
| `PdfExport` | `markdown_pdf_export.cpp`, `headings()`, rows and block positions of `layout_document` | a note as a sequence of nodes, the file written; export in two passes |
| `MCWidgets` | the nine modules above for TLC | `part`: which of them runs |
| `*_proofs` | lemmas and theorems about the module of that name; `Widgets_proofs` about the autosaver and the parts of the window, `Operators_proofs` about `PaneTree` and `SeqFilter` | see section 5 |

`WorkspaceCore` and `TerminalTab` extend `PaneTree`; `MainWindow`, `CommandsPage`,
`HistorySync` and `PdfExport` extend `SeqFilter`; the proofs about them extend `Operators_proofs`.
`SqliteStorage` refines `AtomicStore` (`Atomic == INSTANCE ... WITH`, property `ImplementsAtomicStore`). The other
modules meet at the checkpoint: `SqliteStorage` shows that it is atomic and
reported truthfully, and `WorkspaceStore`, `Autosave`, `WorkspaceSession` and
`NoteTab` take it as one step that succeeds or fails. `MainWindow` and
`TerminalPane` take a capture with its checkpoint as one step that succeeds.
`Autosave` and the widget modules name their variables and specifications differently
(`TabInit`, `PageNext`, ...), so that one module can extend them all; they share no
state, and what one of them needs of another (the focus of other tabs in
`TerminalTab`, the panes of a tab in `CommandsPage`) is an action of its own.

Abstractions. Names, titles, geometry, colours and timestamps are left out. Pane
and note contents are version numbers or members of a small set. Ids are model
values never issued twice (`Id::generate`). A history file is a sequence of
whole records. In `NoteTab` mtime and size are one stamp, new at each write; the
title, cursor and scroll position are left out, and `persist_open_windows` is on.
A note's text is a sequence of pieces in `NoteEditor` (a plain one, an opening tag
with and without its ">", a closing tag) and a value in `NotePreview`, where a layout
is the tuple of inputs it was made from. A divider position is the ratio position /
size. A path of `DirectoryTree` is a sequence of names.
External behaviour modelled from its use: SQLite's transactions (`SqliteStorage`
header), `flock`, GTK's modal grab, the shell that writes HISTFILE, the text
buffer, the search context's background scan, size allocations, `GtkStack`, which
shows its first child when it had none.

## 3. Runs

| Run | Module | Bounds | Shows |
|---|---|---|---|
| `workspace_core` | MCWorkspaceCore | 2 windows, 2 tabs, 3 panes | no one-sided splits, pane ids distinct over all tabs, layout order kept by every split and removal |
| `checkpoint` | MCSqliteStorage | 2 panes, 3 checkpoints, `WalMode = FALSE` (a failed COMMIT may or may not leave the transaction open, so this includes what WAL mode does) | all or nothing, reported failures never appear, the dirty flag cleared only by a commit, generations unique and the saved row moving forward between two calls of `restore_snapshot`, refines `AtomicStore` |
| `workspace_store` | MCWorkspaceStore | 2 workspaces, 2 panes, 2 contents, 2 snapshot rows | blob and JSON agree, panes not shared, snapshot lists resolve |
| `autosave` | Autosave | 1 pane, 1 note, 4 edits, 2 failures | unsaved structure is scheduled and eventually saved |
| `session_lock` | MCWorkspaceSession | 3 processes, 3 workspaces, 3 versions | one instance per workspace, no stale lock, only the holder writes |
| `history_sync` | HistorySync | 2 commands, 3 records, 2 of them there at the start, 2 appends, 1 truncation, 1 commit, 1 pin | no self-deadlock, pins survive, exact without overlap, every sync returns |
| `note_tab` | NoteTab | 1 file, 2 texts, 2 notes, 2 writes, 1 restart | typed text kept, no callback after close, one prompt, changes noticed |
| `widgets` | MCWidgets | see below | each part of the window agrees with what it mirrors |

`widgets` checks nine modules that share no state in one run: `part` is chosen in
the initial state and only that part moves, so the reachable states are the sum of
the parts' and not their product. `WindowTypeOK`, `TabTypeOK`, `TreeTypeOK` and
`EditorTypeOK` hold in the same run; they are the base of the proofs and
not listed among its properties. The parts:

| Part | Bounds | Properties |
|---|---|---|
| `window`, `find` | 3 windows, 2 terminal tabs, 1 note tab, at most 3 tabs; all windows and restarts with the find bar at rest, or the find bar with the windows fixed and no quit | `TabStripInStep`: stack names, row of tabs, vectors by kind and active index agree after every handler. `WindowMirrored`: the views of a window are tabs of it in the core's order. `RestartKeepsTabs`: quit and start lose no tab and show the same one |
| `tab` | 4 pane ids, at most 3 panes, 2 ratios, restored nested splits | `LayoutShown`: the widgets have the shape of the core's tree, every leaf is live, hooked and watched. `ShellsSurvive`: no rebuild starts a second process in a pane that stays. `DividerStored`: a divider is stored where it is shown |
| `pane` | 3 directories, one of them unmountable, any number of runs | `DirectoryKept`: a capture that finds no shell to ask keeps the saved directory |
| `filter`, `pin` | 2 panes, 2 tabs, 2 commands, 2 records, 1 pin; with searches, or with the menu | `RowsActOnTheirPane`: drawn rows belong to the pane a click and a pin go to |
| `sidebar` | 2 windows, 2 search texts, 2 rows | `WindowRowsCurrent`: the newest fill is of the current search, its windows exist and have rows; rows of earlier fills are outside it |
| `tree`, `rename` | 5 paths over 3 levels, directories only on the first and files only on the last, 2 filtered names; with every root, filter and restart and one file on the last level, or with renames of directories that have entries, the root fixed and no filter | `RowsReflectState`: rows render the expanded set and the selection. `ListingFresh`: the watched root lists its entries unless a refresh is due |
| `search`, `paste` | 3 pieces of text, a view of 2, 1 paste | `EditorInStep`: tags and the shown position are those of the current matches (`HighlightsCurrent`, `PositionRight`), and no edit is left without a timer (`PreviewCaughtUp`) |
| `preview`, `images` | 2 texts, 2 widths, 2 folders, numbers up to 2; 1 image in a fixed folder with the preview open, or 3 images with it at rest | `PreviewDrawn`: once nothing is due, the canvas shows the text at its width. `PastesKept`: no paste replaces an image a note refers to |
| `pdf` | notes of 4 nodes out of 9 kinds, a page of 5, rows of 1, one block of 6 | `PagesComplete`: pages hold every block once, in order, fit, and end with a heading only if it is alone there or another heading or a break follows (section 4). `ContentsRight`: contents name the final pages, the outline follows the sections |

Violation runs, each a disagreement between a written statement and the code
(details and quotes under "findings"):

| Run | Statement | What the code does |
|---|---|---|
| `notes_saved` | notes autosave through the pipeline | note entries are dropped unsaved; only a workspace entry writes |
| `runs_on_latest` | never restore a stale image | the workspace is loaded before the lock is taken |
| `history_lost` | sync reads new content | a stale size triggers a reload that can count an unread record as read |
| `preview_live` | the preview is live | a reload from disk changes the text without rendering it |

Why the bounds suffice. Two ids of a kind show aliasing between them; three
panes give a split under a split, which is where promotion happens; three
checkpoints give a failed one between two good ones, with a crash anywhere; three
processes give one that holds, one that waits and one that exits; two appends and
one truncation give each branch of `sync()` against a write in each gap. In
`note_tab` one external write, one of the editor's own and one restart meet in
every order with each dialog. In `widgets` three tabs give one on each side of the
one that closes, three panes a split under a split on either side, two panes in two
tabs every way the commands page can be bound to the wrong one, a view of two
pieces in a text of three a match outside it, a tree of three levels a row whose
parent is a row; `LastNumber = 2` stands for 999, so the run passes the edge. Four
nodes give a filled page, two headings in a row and a block that does not fit, a
contents before a page boundary, and a level that comes back in a later section.
Symmetry is over model values that no property names. Each property has a mutant: a
plausible bug in a mapped definition that makes TLC report that property.

Deadlock is checked where the system never stops: the core, the store, the
checkpoint, the session and the autosaver (which has an explicit
exited state). In `history_sync`, `note_tab` and `widgets` the bounds let everything
come to rest, as a program does whose user has left.

Fairness. `Autosave`: weak fairness of time and of the timer tick, since a GLib
timeout stays attached until its callback returns false. `HistorySync`: weak
fairness of both threads' `sync()` steps (the kernel schedules them and the mutex
is released), of the watcher's loop and of the idle source; `MaxCommits` bounds
the typing that would starve an idle source. `NoteTab`: weak fairness of the
poll, a GLib timeout whose callback always returns true. No user action is fair.

Conditions to read with the results. `EditsKept` stops at a failed write (the
result of `write_note_file` is ignored and the flag cleared) and at an orderly
restart, which brings the text back without its modified mark; text that auto-reload replaces, or that a
crash takes, counts as given up. `ChangeNoticed` starts with `triggered_` clear
and accepts an unrealized widget: `reload_from_disk` and `prompt_reload` have
early returns that leave the latch set, after which changes are swallowed.
`SerialExact` holds as long as no sync overlaps another or a write, and collapses
repeats only in what the shell appended: `initial_load` reads the file as it is.
`PinsKept` leaves out the time from a merge that `sync()` did not report to the next
callback. `DirtyIsScheduled` and
`StructureEventuallySaved` hold until the first failed checkpoint: a failed one is
not rescheduled. `RestartKeepsTabs` speaks of an orderly quit with
`persist_open_windows` on. `DividerStored` leaves out the dividers whose first side
is a split (they write into the split of their leftmost pane). `ListingFresh` is
about the root the monitor was started for. `PreviewDrawn` leaves out a text that
was reloaded (`preview_live`), `PastesKept` the images past number 999.
`WindowRowsCurrent` leaves out the rows of earlier fills. `GenerationsUnique` and
`SavedMovesForward` hold between two calls of `restore_snapshot`. No property rests on the
find bar of `MainWindow` or the scroll synchronisation of `NotePreview`: their state is there
so that the handlers that also touch the tabs or the layout are whole.

## 4. Divergences met while modelling, without a run of their own

- `split_pane` on a tab that does not hold the window's focused pane announces a
  pane it never inserts (`workspace_core.cpp:333`; `workspace-model.md:59`).
- With a rollback journal, a COMMIT that returns SQLITE_BUSY leaves the
  transaction open after `checkpoint()` (`sqlite_db.hpp:33,77`). The run and the
  theorems include that.
- An empty pane tree comes back from JSON as a pane with an empty id
  (`serialization.cpp:76`).
- The badge says "saved" after a failed checkpoint (`autosave.cpp:77`).
- On reopening, a blob overrides a row whose last capture was empty
  (`workspace_core.cpp:48`; `docs/usage/workspaces.md:54`).
- `restore_snapshot` takes the generation back to that of the row it loads
  (`workspace_core.cpp:567`), so the next checkpoint can save a smaller generation than
  the saved one and store a second row under a number
  (`workspace-persistence-pipeline.md:384`, "monotonically increasing"). Rows of
  `create_snapshot` repeat the current number (`workspace_core.cpp:550`). `GenerationsUnique`
  and `SavedMovesForward` are therefore scoped to the checkpoints between two restores,
  and `AtomicStore` orders images by capture, not by generation.
- `restore_snapshot` replaces the open workspace, and `restore_workspace` with
  `persist_open_windows` off empties it (`main_window.cpp:574`), without `mark_dirty()`:
  with the flag clear, the saved row can differ from the open workspace.
  `DirtyUntilCommitted` is about the changes that do call it. `persist()`, which only a
  unit test calls, clears the flag whatever `save_workspace` did.
- `sync()` can merge the same bytes twice when two threads overlap, and can
  return false although entries were added: `before_count` is taken in its first
  critical section, and a reload between that and the merge hides the growth
  (`pane_history_tracker.hpp:25`, "Returns true if new entries were added"). No
  callback is queued then, and the pins in what was merged wait for the next one.
- `file_matches_snapshot` (`note_tab_view.cpp:577`), meant to skip the prompt for
  the editor's own write, has no caller: Ctrl+S is followed by "File changed on
  disk" within 1.5 s.
- Save As in `close_keep_note` closes the tab although the write failed
  (`main_window.cpp:1668`, "closed only after a successful save").
- `store_closed_window` binds the state JSON to the `workspace_id` column
  (`storage.cpp:389`), so the windows list never shows a closed window
  (`main_window.cpp:144`, "for the History panel's Windows mode").
- `restore_state` clears the modified flag (`note_tab_view.cpp:745`;
  `workspace-persistence-pipeline.md:558`, "resync dirty-dot"), so closing a
  restored unsaved note asks nothing. Its preview and split are not restored, and
  its scroll position is set before there is a range to scroll
  (`workspace-persistence-pipeline.md:309`, `:557`).

Tabs and windows:

- Closing any tab shows the first one: refilling the stack makes GTK show its first
  child, whose handler sets `active_tab_` before the fallback is reached
  (`main_window.cpp:1762`, "fall back to the last remaining tab").
- `restore_workspace` indexes `term_tabs_` with an index into `tabs_`.
- Deleting the current window leaves its views open; `new_note_tab` does not set
  `window_id_`.
- The windows list is never emptied: the loop stops at the search entry, which is the
  first child (`main_window.cpp:1157`, "but clear the rest"), so each fill adds
  rows. `WindowRowsCurrent` is therefore about the newest fill.
- Opening the sidebar refreshes the commands only (`main_window.cpp:2406`, "Refresh
  the active sidebar content").
- The commands page does not follow a tab switch or close, and keeps pointers to the
  tracker and pane of a closed tab. Clear History clears the core's lists, which
  the page does not show.

Terminals:

- A split goes to the clicked pane only while the core's focus is in that tab
  (`terminal_tab_view.cpp:399`, "so split targets THIS pane"); `split()` gives the new
  pane the focus (`:287`) and `rebuild()` forgets it.
- `initialize_fresh()` starts a second shell in a pane whose constructor started one
  (`terminal_pane.hpp:27`, "exactly once"); `on_spawned` may reach a destroyed pane.
- The close handler ends the shells one after the other before the last
  capture, so this capture works from the remembered directory only.
- Cancel in the custom split dialog leaves the dialog open.

Notes and files:

- Pasting protection is a 50 ms timer (`note_editor.cpp:363`), so a late clipboard
  is treated as typing; loading a text that ends in an opening tag adds a closing one.
- A preview opened under the dark theme starts light, and keeps the folder the note
  had when it was opened; image references dangle after Save As to another folder.
- The image after `asset-999.png` is `asset-1000.png`, which the pattern does not
  match: the next paste overwrites it (`markdown_document.cpp:70`). Deleting the newest
  image frees its number.
- `rename_item` moves the path itself in the expanded set and selection, not what is
  below it; `apply_state` restores the root without its monitor, label and search
  entry.
- `layout_document` counts the headings it visits ("maps 1:1 onto ast.headings()",
  `markdown_layout.cpp:223`), but flattens a quote without visiting the heading in it:
  every later heading gets the anchor of an earlier one, and the contents name other
  pages. A title "a 2" has the anchor that a second "a" gets (`markdown_ast.cpp:444`).
  `ContentsRight` is about notes with neither.
- A heading whose next block does not fit moves to the next page, but only one block
  moves: of two headings in a row the first stays at the page end
  (`markdown_pdf_export.cpp:118`, "heading + content move together").
- The outline takes the latest heading one level up (`markdown_pdf_export.cpp:221`, "below
  their current section heading"), which after a skipped level belongs to an earlier
  section or is missing.
- A note of page breaks alone is a page that draws the first of them
  (`markdown_pdf_export.hpp:38`, "the preview marker is never drawn in the PDF").

## 5. Proofs

TLC covers the instances above; TLAPS proves the following for all values of the
constants, from the named assumptions of each module only.

**`SqliteStorage_proofs`** (both journal modes, any set of panes): `TypeCorrect`,
`AtomicCheckpoint`, `ReportedTruthfully`, `DirtyClearedByCommit`, `UniqueGenerations`,
`MovesForward` and `Refinement` (the safety part of `AtomicStore`). None of the
invariants is inductive alone. `IInv == TypeOK /\ CallInv /\ OrderInv /\ Safety`:
`CallInv` says what the transaction has written when the call stands at each
statement, that outside a transaction the connection sees the file, and that a call
about to return true has committed its image; `OrderInv` orders capture times, and
pairs of line and generation, where `line` counts how often `restore_snapshot` was
followed by a save: the open workspace and the image being written are past everything
in the file, and the image is not among the failed ones.

**`WorkspaceSession_proofs`** (any number of processes): `MutualExclusion`,
`NoStaleLocks`, `WritesUnderLock`. `IInv` adds that a process past the open step
has a workspace and that a running process holds the lock of its own.

**`HistorySync_proofs`** (files of any length, any number of commits, events and pins):

- `NeverSelfDeadlocked`. `IInv` adds `LoadedFirst`: until `initial_load()` is done only
  GTK is inside the tracker, and registration with the watcher comes after it. This
  order of calls is all that protects the nested lock in `sync()`.
- `HistoryTypes`, and `PinsSurvive` (`PinsKept`), inductive relative to it: a reload and
  a reported merge queue a callback, `Idle` pins the newest entry of every pinned
  command, which exists when any entry does (`NewestExists`), and what pinning and
  unpinning one command do to the flags of the others is nothing (`OthersKeepPins`).
  A first form of `PinsKept` asked that the page be up to date instead of excluding
  unreported merges; the attempt to prove it gave a counterexample with one more
  append than the run had, which is the divergence named in section 4.
- `SerialReadsExact` (`SerialExact`). `SerialInv` says where a sync that nothing overlaps
  can stand: at most one thread is past `stat()`, the size it saw is the file's, its
  chunk is the part of the file the cache has not read, and the cache `Reads` the first
  `last_known_size_` records. That merging a chunk record by record extends what is read
  (`ReadsChunk`) is by induction on the chunk.

**`NoteTab_proofs`**: `TypeCorrect`, `NoCallbackAfterClose`, `SinglePrompt`,
`NoEditLost`. `IInv` describes the stack of dialogs (at most one dialog of the
user, the poll's prompt only in front of it), and `Latched`: while the prompt is
open `triggered_` stands and the note keeps its path, so neither `poll_file` nor
`start_watcher` can open another. `Bound` and `Watching` say that a conflict
prompt and a running timer have a path. `EditsKept` is inductive relative to it.

**`Operators_proofs`** (trees and sequences of any size). What `InsertAt`, `Promote` and
a ratio do to a tree, used for the trees of the core and for the one a tab shows. The
work is in `Promote`, where a subtree is moved up by one: the relation `Origin` ties every
node of the new tree to the node it was, and carries children to children. Order is then
kept in two cases, inside the moved subtree and against the rest (`BeforeInside`,
`BeforeOutside`). That nothing lies under a leaf, for which one would use induction on
paths, follows from a shortest counterexample (`LeastExists`). What filtering does to an
append, a removal, a second filter and a concatenation (`OnlyAppend` to
`RemoveAtIsOnly`): `Only` is a recursive function in place of `SelectSeq`, which the
prover cannot unfold, and the lemmas are by induction on the sequence (`SeqInduct`) or on
a number (`CountUp`), which take the property as a set. `UptoFacts` is about the sequence
of the first `k` indices, over which the records read of a history file and the places of
headings in a note are filters.

**`WorkspaceCore_proofs`** (any sets of ids): `TypeCorrect`,
`StructureSound` (`TreesWellFormed`) and the action property `LayoutStable`
(`LayoutOrderKept`). `IInv` is `TypeOK`, `TreesInv` (every tree is a function on
paths, well formed, no pane twice in it or in two tabs, every pane issued) and
`TabsOwned` (a tab is in one window). That ids are *issued* is what keeps a new pane
from meeting an old one; that panes are unique is what lets `remove_pane` of a pane
name one leaf.

**`WorkspaceStore_proofs`**: `TypeCorrect`, `OnePaneOneWorkspace`,
`SnapshotListsHold`, `CopiesAgree`. The blob table has no workspace column, so
`CopiesAgree` rests on `OnePaneOneWorkspace`: a checkpoint of one workspace writes
blobs of its own panes only. `IInv` adds `SnapshotListsResolve`, since restoring a
snapshot makes its list the workspace's own, and that a closed core holds nothing.

**`Widgets_proofs`** holds the autosaver and the parts of the window, each about its
own specification:

- `AutosaveTypes`, `Scheduled`, `NothingForgotten` (`Autosave`): the invariant adds
  that what waits in the core is marked dirty (`UnsavedIsDirty`) and that the structure
  never waits in a widget.
- `TabTypes`, `LayoutProjected`, `DividersPersisted` and the action property
  `ShellsKept` (`TerminalTab`: `LayoutShown`, `DividerStored`, `ShellsSurvive`). The
  tree of the tab is a `GoodTree` that is finite and has a pane at every leaf. The
  invariant says that the built tree and `panes_` mirror it and that the remembered
  focus is a live pane. A split and a close both end in
  `rebuild()`, and a pane that stays is found in `panes_` by the lemmas on `InsertAt`
  and `Promote`. A divider is stored under its leftmost leaf: such a leaf exists because
  the tree is finite, and two dividers with leaves as first sides have different ones
  because panes are unique. The trees a tab is restored from are assumed to be such
  trees, which is what `StructureSound` proves of those the core saves.

- `NewestFillCurrent` (`Sidebar`: `WindowRowsCurrent`): inductive once the counts of
  rows are known to be numbers.
- `PaneKeepsDirectory` (`TerminalPane`, an action property): from `CwdCached`, that
  `cached_cwd_` is the directory saved last while the pane exists.
- `PastesNeverOverwrite`, `PreviewCatchesUp` (`NotePreview`): the number after the
  largest one in the folder is new (`MaxFacts`); `PreviewInv` relates the layout, the
  drawn text and the timer that is due. `Draft` and `Widths` are assumed not empty,
  since a layout is made of some text at some width.
- `EditorShowsTheText` (`NoteEditor`, the three parts of `EditorInStep`): `EditorInv`
  adds `IsBuffer` (marks inside the text, preserved by insertion, deletion,
  auto-closing and painting) and `MatchKnown`: the current match is a match of the
  text *as it is now*, and an index kept with it is that match's rank. What is typed,
  pasted and loaded is assumed to be made of the five pieces.
- `RowsRenderState`, `ListingCatchesUp` (`DirectoryTree`): `TreeInv` adds `FsGood`
  (every entry is in a directory that exists), `RowsGood` (every row is below the
  root, its flags agree, its parent has a row) and `UpToDate`. A rename is the hard
  step: a renamed path differs from the old one in one name, so `Moved` is injective
  on the paths that exist because whatever lies above an entry exists
  (`AncestorsExist`, again by a shortest counterexample), and it commutes with taking
  the parent (`MovedUp`). `Paths` is assumed to be a set of sequences of `Names`,
  closed under parents.

- `WindowTypes`, `StripInStep`, `ViewsMirrorCore` and the action property
  `TabsSurviveRestart` (`MainWindow`: `TabStripInStep`, `WindowMirrored`,
  `RestartKeepsTabs`), for any number of windows and tabs. The vectors are filters of
  `tabs_` and the views of a window a filter of its tabs, so the proof rests on the
  lemmas on `Only`. `WindowInv` says that ids occur once in
  `tabs_` and in a window (else an index removes more than its tab), that
  the strip is in step, the core mirrored whether or not the program is up, and `Parked`:
  while it is down, the tab that was on the screen is the saved tab focus, or the
  command line has moved the window focus.
- `RowsActRight` (`CommandsPage`: `RowsActOnTheirPane`), for any panes and histories.
  `PageInv` says that only a page with a tracker has rows, that each of them is a record
  of that tracker's pane, and that the click target and the pin callback are that pane.
  Each refresh filters and sorts the rows: sorting keeps the entries, and sorting what
  is sorted changes nothing (`SortedFacts`).
- `PagesHoldTheNote` and `ContentsNameThePages` (`PdfExport`: `PagesComplete`,
  `ContentsRight`), for notes of any length, any heights (a block may be higher than the
  page) and any page size. `PdfInv` says that the file is what one export made of the note
  it had; the work is in what the passes compute.
  *Pages*: `CutTo` is the invariant of the outer loop of `paginate_blocks`. Every page made
  so far is good (`PageGood`, from what the inner loop leaves: `FillFacts`, `EndFacts`),
  pages follow each other, and what stands before the cursor is on a page or is a break. An
  iteration moves the cursor or finds nothing ahead (`AddPageStep`), so after as many
  iterations as there are blocks all are placed (`Paginated`).
  *Contents*: the second layout has the blocks of the first with the same kinds and heights
  (`EmitAlike`, `LaidAlike`), since a row is measured without its page number; the
  paginator looks at nothing else, so both are cut alike (`CutAlike`), and the page found in
  the first layout is the page of the heading in the file (`RowPages`). The layout counts
  headings as it visits them while `headings()` collects them, and the two orders agree
  because the k-th place of a filter has k members up to it (`OnlyCounts`). Two numbers
  differ at the least level between their headings, where the later one has counted more
  (`NumbersDiffer`). `OutlineNests`: when no level is skipped, the latest heading one level
  up is the section. Assumed is `PdfAssumption`: the kinds of nodes, and levels of 1 to 6
  as md4c gives them.

No run lists a type invariant: a theorem `TypeCorrect` covers every instance, and the
other proofs carry the type facts they need in their invariants.

Model-checked only: the liveness properties `StructureEventuallySaved`, `SyncReturns` and
`ChangeNoticed`, since fairness is out of the prover's reach.

## 6. Not modelled

IPC (one blocking request, started by nothing in the GUI); the PTY, shell and event
loop classes (thin system calls, which the VTE terminals do not use); md4c and SQLite
sources (third party). The Markdown engine (parser, style, measuring, drawing) and the
HTML export are pure functions of a text over Pango and Cairo with no state of their
own; `NotePreview` takes the layout as such a function, and `PdfExport` takes from it
the order and the heights of the blocks. A heading without text, which makes a row and
no block, and the bands at the head and foot of a page are left out. The settings
dialog, menus and toolbar call one setter or one modelled operation each. The
core's own command list and its migration are left out, since the pages read the
trackers instead. The unlocked lookup in `panes_` by the watcher thread
(`terminal_tab_view.cpp:78`) is a data race on a container, whose outcomes cannot be
enumerated; a click on a commands row whose pane was destroyed is left out for the
same reason.

## 7. Plan

The model is complete for the parts that keep state, and every safety invariant and action
property that a passing run checks is proved for all values of the constants. What is
left is liveness, which stays with TLC.
