----------------------------- MODULE MainWindow -----------------------------
(***************************************************************************)
(* The main window (gui/window/main_window.cpp) and its bookkeeping: the   *)
(* open workspace's windows and tabs in the core, the vector of tab views, *)
(* the two vectors by kind, the Gtk::Stack with its children named by      *)
(* index, the row of tab widgets, the active index and the find bar; and   *)
(* what a restart makes of them.                                           *)
(*                                                                         *)
(* What a tab contains is left out (TerminalTab, NoteTab), so is the       *)
(* unsaved-note guard of close_tab (NoteTab).  The store returns what was  *)
(* saved (SqliteStorage, WorkspaceStore).                                  *)
(***************************************************************************)
EXTENDS Integers, Sequences, SequencesExt, SeqFilter

CONSTANTS
    WindowId, TermTabs, NoteTabs,  \* ids of windows, terminal tabs, note tabs
    Nothing,                     \* an empty id or an unset optional
    MaxTabs                      \* bound: tab views, and tabs of one window

ASSUME WindowAssumption ==
    /\ Nothing \notin WindowId \cup TermTabs \cup NoteTabs
    /\ TermTabs \cap NoteTabs = {} /\ MaxTabs \in Nat
    /\ TermTabs # {} /\ WindowId # {}

TabId == TermTabs \cup NoteTabs

VARIABLES
    ws,         \* the core's workspace: windows, their tabs, the focus ids
    up,         \* the program runs
    persist,    \* SessionController::persist_open_windows
    current,    \* SessionController::current_window_
    windowId,   \* MainWindow::window_id_
    tabs,       \* tabs_, each view as the id of its core tab
    home,       \* window id each view was made for
    terms, notes, \* term_tabs_, note_tabs_
    kids,       \* children of content_stack_ in order: name and view
    shownTab,   \* visible child of content_stack_
    activeTab,  \* active_tab_
    bar,        \* tab_widgets_, each as the view it is bound to
    findOpen,   \* the find bar is visible
    findText,   \* find_entry_ holds some text
    marked      \* views with search highlights

coreVars == <<ws, persist, current>>
viewVars == <<windowId, tabs, home, terms, notes, kids, shownTab, activeTab, bar>>
findVars == <<findOpen, findText, marked>>
windowVars == <<coreVars, up, viewVars, findVars>>

-----------------------------------------------------------------------------
(* The core's part (WorkspaceCore has it in full)                          *)

Windows == ToSet(ws.windows)
TabsIn(w) == ToSet(ws.tabs[w])
LiveTabs == UNION {TabsIn(w) : w \in Windows}

add_window(s, w) ==
    [s EXCEPT !.windows = Append(@, w), !.tabs[w] = <<>>, !.focusTab[w] = Nothing,
              !.focus = w]

add_tab(s, w, t) == [s EXCEPT !.tabs[w] = Append(@, t), !.focusTab[w] = t]

remove_tab(s, w, t) ==
    IF w \notin ToSet(s.windows) THEN s
    ELSE [s EXCEPT !.tabs[w] = Only(@, TabId \ {t}),
                   !.focusTab[w] = IF @ = t THEN Nothing ELSE @]

\* The window's entries go with it.
remove_window(s, w) ==
    [s EXCEPT !.windows = Only(@, WindowId \ {w}),
              !.tabs[w] = <<>>, !.focusTab[w] = Nothing,
              !.focus = IF @ = w THEN Nothing ELSE @]

NoWindows ==
    [windows |-> <<>>, tabs |-> [w \in WindowId |-> <<>>],
     focusTab |-> [w \in WindowId |-> Nothing], focus |-> Nothing]

\* ensure_window: the window a new tab goes to, and the workspace with it;
\* fresh is the id that a new one gets.
ensure_window(s, cur, fresh) ==
    LET live == ToSet(s.windows) IN
    IF cur \in live THEN [win |-> cur, ws |-> s]
    ELSE IF s.focus \in live THEN [win |-> s.focus, ws |-> s]
    ELSE IF s.windows # <<>> THEN [win |-> Head(s.windows), ws |-> s]
    ELSE [win |-> fresh, ws |-> add_window(s, fresh)]

\* Ids are generated: a new one occurs nowhere, and which one it is does not
\* matter.
UnusedWindows == WindowId \ (Windows \cup {current, windowId, ws.focus}
                                     \cup {home[t] : t \in ToSet(tabs)})
FreshWindow(w) == w \in UnusedWindows /\ w = CHOOSE v \in UnusedWindows : TRUE
NewIdIfNeeded(s, w) ==
    IF s.windows = <<>> THEN FreshWindow(w) ELSE w = CHOOSE v \in WindowId : TRUE
UnusedTabs == TabId \ (LiveTabs \cup ToSet(tabs) \cup {ws.focusTab[w] : w \in Windows})
FreshTab(t) ==
    t \in UnusedTabs /\ t = CHOOSE u \in UnusedTabs : (u \in NoteTabs) = (t \in NoteTabs)

-----------------------------------------------------------------------------
(* Stack, tab bar and active index                                         *)

Index(s, t) == CHOOSE i \in 1..Len(s) : s[i] = t
Named(s) == [i \in 1..Len(s) |-> [name |-> i - 1, view |-> s[i]]]

\* Mutant: a shorter row is cut at its end, whichever tab was closed.
TrimTabBar(row, s) ==
    IF Len(s) < Len(row) THEN SubSeq(row, 1, Len(s))
    ELSE row \o SubSeq(s, Len(row) + 1, Len(s))

\* The widgets of the row after update_tab_bar(): a row that is too long is
\* made anew, else the missing widgets are appended.
update_tab_bar(row, s) ==
    IF Len(s) < Len(row) THEN s ELSE row \o SubSeq(s, Len(row) + 1, Len(s))

\* The handler of notify::visible-child-name makes the visible view active.
Show(t) ==
    /\ shownTab' = t
    /\ activeTab' = Index(tabs', t) - 1
    /\ bar' = update_tab_bar(bar, tabs')

\* A view for the core tab t of window w goes to the end of tabs_ and of its
\* kind's vector, into the stack under its index, and is shown.
Attach(t, w) ==
    /\ tabs' = Append(tabs, t)
    /\ home' = [home EXCEPT ![t] = w]
    /\ terms' = IF t \in TermTabs THEN Append(terms, t) ELSE terms
    /\ notes' = IF t \in NoteTabs THEN Append(notes, t) ELSE notes
    /\ kids' = Append(kids, [name |-> Len(tabs), view |-> t])
    /\ Show(t)

-----------------------------------------------------------------------------
(* Tabs                                                                    *)

RoomFor(w) == Len(tabs) < MaxTabs /\ Len(ws.tabs[w]) < MaxTabs

new_terminal_tab(t, fresh) ==
    LET e == ensure_window(ws, current, fresh) IN
    /\ up /\ t \in TermTabs /\ FreshTab(t) /\ RoomFor(e.win) /\ NewIdIfNeeded(ws, fresh)
    /\ ws' = add_tab(e.ws, e.win, t) /\ current' = e.win /\ windowId' = e.win
    /\ Attach(t, e.win)
    /\ UNCHANGED <<up, persist, findVars>>

\* window_id_ stays as it is.
new_note_tab(n, fresh) ==
    LET e == ensure_window(ws, current, fresh) IN
    /\ up /\ n \in NoteTabs /\ FreshTab(n) /\ RoomFor(e.win) /\ NewIdIfNeeded(ws, fresh)
    /\ ws' = add_tab(e.ws, e.win, n) /\ current' = e.win
    /\ Attach(n, e.win)
    /\ UNCHANGED <<up, persist, windowId, findVars>>

\* A click on a tab's label: set_visible_child of the view it is bound to.
\* open_note_from_path does the same for a file that is open.
SwitchTo(t) ==
    /\ up /\ t \in ToSet(bar) \cap ToSet(tabs) /\ t # shownTab
    /\ UNCHANGED tabs
    /\ Show(t)
    /\ UNCHANGED <<coreVars, up, windowId, home, terms, notes, kids, findVars>>

\* open_note_from_path: a file that is open in a tab is shown, any other one
\* gets a new note tab.
open_note_from_path(n, fresh) ==
    \/ n \in ToSet(tabs) /\ n \in NoteTabs /\ SwitchTo(n)
    \/ n \notin ToSet(tabs) /\ new_note_tab(n, fresh)

\* Mutant: the core tab is looked up after the view has left tabs_.
CloseNeighbour(i) ==
    LET t == tabs[i]
        u == IF i < Len(tabs) THEN tabs[i + 1] ELSE t
    IN  /\ up /\ i \in DOMAIN tabs
        /\ tabs' = RemoveAt(tabs, i)
        /\ terms' = Only(terms, TabId \ {t})
        /\ notes' = Only(notes, TabId \ {t})
        /\ ws' = remove_tab(ws, home[u], u)
        /\ home' = [home EXCEPT ![t] = Nothing]
        /\ kids' = Named(tabs')
        /\ IF tabs' = <<>>
           THEN shownTab' = Nothing /\ activeTab' = -1 /\ bar' = <<>>
           ELSE Show(Head(tabs'))
        /\ marked' = marked \ {t}
        /\ UNCHANGED <<persist, current, up, windowId, findOpen, findText>>

\* finish_close_tab(i - 1).  The child with that name leaves the stack, the
\* core forgets the tab, the stack is emptied and filled again under new
\* names.  GTK shows the first child that is added to an empty stack, and the
\* handler makes it active, whatever index was worked out before.
finish_close_tab(i) ==
    LET t == tabs[i] IN
    /\ up /\ i \in DOMAIN tabs
    /\ tabs' = RemoveAt(tabs, i)
    /\ terms' = Only(terms, TabId \ {t})
    /\ notes' = Only(notes, TabId \ {t})
    /\ ws' = remove_tab(ws, home[t], t)
    /\ home' = [home EXCEPT ![t] = Nothing]
    /\ kids' = Named(tabs')
    /\ IF tabs' = <<>>
       THEN shownTab' = Nothing /\ activeTab' = -1 /\ bar' = <<>>
       ELSE Show(Head(tabs'))
    /\ marked' = marked \ {t}
    /\ UNCHANGED <<persist, current, up, windowId, findOpen, findText>>

\* "Delete" in the menu of the window list: the core's window goes, views
\* that belong to it stay.
DeleteWindow(w) ==
    /\ up /\ w \in Windows /\ ws' = remove_window(ws, w)
    /\ UNCHANGED <<persist, current, up, viewVars, findVars>>

-----------------------------------------------------------------------------
(* Capture, quit and start                                                 *)

\* Mutant: the active tab is not recorded.
CapturedWindowOnly == [ws EXCEPT !.focus = windowId]

\* The focus part of capture_all_runtime_state.
CapturedFocus ==
    LET s == [ws EXCEPT !.focus = windowId] IN
    IF windowId \in Windows /\ activeTab >= 0 /\ activeTab < Len(tabs)
    THEN [s EXCEPT !.focusTab[windowId] = tabs[activeTab + 1]] ELSE s

\* The capture before an autosave.
Capture ==
    /\ up /\ ws' = CapturedFocus
    /\ UNCHANGED <<persist, current, up, viewVars, findVars>>

\* close_request: a last capture and checkpoint.  The variables of the views
\* keep, unread, what was on the screen.
Quit ==
    /\ up /\ up' = FALSE /\ ws' = CapturedFocus
    /\ findOpen' = FALSE /\ findText' = FALSE /\ marked' = {}
    /\ UNCHANGED <<persist, current, viewVars>>

\* The command line adds a window between two runs.
CliAddWindow(w) ==
    /\ ~up /\ FreshWindow(w) /\ ws' = add_window(ws, w)
    /\ UNCHANGED <<persist, current, up, viewVars, findVars>>

\* The window restore_workspace binds to.
RestoredWindow == IF ws.focus \in Windows THEN ws.focus ELSE Head(ws.windows)

\* restore_workspace with tabs to restore: one view per core tab, the one
\* with the window's tab focus (else the first) is shown.
restore_workspace ==
    LET w == RestoredWindow
        s == ws.tabs[w]
        t == IF ws.focusTab[w] \in ToSet(s) THEN ws.focusTab[w] ELSE Head(s)
    IN  /\ persist /\ Windows # {} /\ s # <<>>
        /\ windowId' = w /\ current' = w /\ ws' = ws
        /\ tabs' = s /\ terms' = Only(s, TermTabs) /\ notes' = Only(s, NoteTabs)
        /\ home' = [u \in TabId |-> IF u \in ToSet(s) THEN w ELSE Nothing]
        /\ kids' = Named(s) /\ shownTab' = t /\ activeTab' = Index(s, t) - 1
        /\ bar' = s

\* The constructor when nothing is restored: with persist_open_windows off
\* the stored windows are dropped; then the default terminal tab opens.
OpenDefaultTab(t, fresh) ==
    LET kept == IF persist THEN ws ELSE NoWindows
        bound == IF persist /\ Windows # {} THEN RestoredWindow ELSE Nothing
        e == ensure_window(kept, bound, fresh)
    IN  /\ bound # Nothing => ws.tabs[bound] = <<>>
        /\ FreshTab(t) /\ NewIdIfNeeded(kept, fresh)
        /\ ws' = add_tab(e.ws, e.win, t) /\ current' = e.win /\ windowId' = e.win
        /\ tabs' = <<t>> /\ terms' = <<t>> /\ notes' = <<>>
        /\ home' = [u \in TabId |-> IF u = t THEN e.win ELSE Nothing]
        /\ kids' = Named(<<t>>) /\ shownTab' = t /\ activeTab' = 0 /\ bar' = <<t>>

Start(t, fresh) ==
    /\ ~up /\ up' = TRUE
    /\ restore_workspace \/ OpenDefaultTab(t, fresh)
    /\ UNCHANGED <<persist, findVars>>

\* The setting, changed in the settings dialog.
SetPersist ==
    /\ up /\ persist' = ~persist
    /\ UNCHANGED <<ws, current, up, viewVars, findVars>>

-----------------------------------------------------------------------------
(* The find bar                                                            *)

ActiveViews == {tabs[i] : i \in {activeTab + 1} \cap DOMAIN tabs}

show_find_bar ==
    /\ up /\ ~findOpen /\ findOpen' = TRUE
    /\ UNCHANGED <<coreVars, up, viewVars, findText, marked>>

\* The entry changes: an empty term clears every tab, another one is set on
\* the active tab.
sync_find_text(some) ==
    /\ up /\ findOpen /\ findText' = some
    /\ marked' = IF some THEN marked \cup ActiveViews
                 ELSE IF ActiveViews = {} THEN marked ELSE {}
    /\ UNCHANGED <<coreVars, up, viewVars, findOpen>>

\* on_find_next, on_find_prev: the entry's text is set on the active tab.
on_find_next ==
    /\ up /\ findOpen /\ ActiveViews # {}
    /\ marked' = IF findText THEN marked \cup ActiveViews ELSE marked \ ActiveViews
    /\ UNCHANGED <<coreVars, up, viewVars, findOpen, findText>>

hide_find_bar ==
    /\ up /\ findOpen /\ findOpen' = FALSE /\ findText' = FALSE
    /\ marked' = marked \ ToSet(tabs)
    /\ UNCHANGED <<coreVars, up, viewVars>>

-----------------------------------------------------------------------------
\* The first start, in an empty workspace: one window with one terminal tab.
WindowInit ==
    LET t == CHOOSE u \in TermTabs : TRUE
        w == CHOOSE v \in WindowId : TRUE
    IN  /\ ws = add_tab(add_window(NoWindows, w), w, t)
        /\ up = TRUE /\ persist = TRUE /\ current = w /\ windowId = w
        /\ tabs = <<t>> /\ terms = <<t>> /\ notes = <<>>
        /\ home = [u \in TabId |-> IF u = t THEN w ELSE Nothing]
        /\ kids = Named(<<t>>) /\ shownTab = t /\ activeTab = 0 /\ bar = <<t>>
        /\ findOpen = FALSE /\ findText = FALSE /\ marked = {}

WindowNext ==
    \/ \E t \in TermTabs, w \in WindowId : new_terminal_tab(t, w) \/ Start(t, w)
    \/ \E n \in NoteTabs, w \in WindowId : new_note_tab(n, w) \/ open_note_from_path(n, w)
    \/ \E t \in TabId : SwitchTo(t)
    \/ \E i \in 1..MaxTabs : finish_close_tab(i)
    \/ \E w \in WindowId : DeleteWindow(w) \/ CliAddWindow(w)
    \/ Capture \/ Quit \/ SetPersist
    \/ show_find_bar \/ on_find_next \/ hide_find_bar
    \/ \E some \in BOOLEAN : sync_find_text(some)

WindowSpec == WindowInit /\ [][WindowNext]_windowVars

-----------------------------------------------------------------------------
(* Types of the window's state.                                            *)
WindowTypeOK ==
    /\ ToSet(ws.windows) \subseteq WindowId
    /\ \A w \in WindowId : ToSet(ws.tabs[w]) \subseteq TabId
    /\ up \in BOOLEAN /\ persist \in BOOLEAN
    /\ current \in WindowId \cup {Nothing} /\ windowId \in WindowId \cup {Nothing}
    /\ ToSet(tabs) \subseteq TabId /\ home \in [TabId -> WindowId \cup {Nothing}]
    /\ shownTab \in TabId \cup {Nothing} /\ activeTab \in {-1} \cup Nat
    /\ findOpen \in BOOLEAN /\ findText \in BOOLEAN /\ marked \subseteq TabId

(* However tabs were opened, closed, switched and restored: the view on the*)
(* screen is the active one, the stack's names are the indices of tabs_,   *)
(* every widget of the row is bound to the view at its place, and the two  *)
(* vectors by kind are tabs_ in the same order.                            *)
TabStripInStep ==
    up => /\ kids = Named(tabs) /\ bar = tabs
          /\ terms = Only(tabs, TermTabs) /\ notes = Only(tabs, NoteTabs)
          /\ IF tabs = <<>> THEN activeTab = -1 /\ shownTab = Nothing
             ELSE activeTab + 1 \in DOMAIN tabs /\ shownTab = tabs[activeTab + 1]

(* The views mirror the core: the views made for a window that still exists*)
(* are tabs of it, in the core's order, through closes, deletions of other *)
(* windows and restarts; only deleting their own window leaves views       *)
(* without a tab.                                                          *)
WindowMirrored ==
    up => \A w \in Windows :
        LET mine == Only(tabs, {t \in TabId : home[t] = w}) IN
        /\ ToSet(mine) \subseteq TabsIn(w)
        /\ mine = Only(ws.tabs[w], ToSet(mine))

(* "Other open windows are real Window entities and MUST survive the       *)
(* restart untouched", and so must this one: with persist_open_windows on, *)
(* a start after an orderly quit loses no tab of the core, shows the tabs  *)
(* of its window in their order and the tab that was on the screen, unless *)
(* the command line moved the window focus.                                *)
RestartKeepsTabs ==
    [][(~up /\ up' /\ persist) =>
          /\ \A w \in Windows : \A t \in TabsIn(w) : t \in ToSet(ws'.tabs[w])
          /\ (ws.focus = windowId /\ windowId \in Windows /\ shownTab \in TabsIn(windowId))
                => tabs' = ws.tabs[windowId] /\ shownTab' = shownTab]_windowVars
=============================================================================
