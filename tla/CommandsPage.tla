---------------------------- MODULE CommandsPage ----------------------------
(***************************************************************************)
(* The command list of the sidebar (gui/window/commands_page.cpp) and what *)
(* MainWindow does for it (main_window.cpp): it binds the page to the      *)
(* history tracker and the terminal of the focused pane, the page copies   *)
(* the tracker's commands into rows_ and an idle callback makes a button   *)
(* of each.  Clicking a row types its command into the target pane.        *)
(*                                                                         *)
(* A tracker's cache is changed in one step (HistorySync has the threads); *)
(* a pane's layout is left out (TerminalTab); trackers and panes are named *)
(* by pane ids, and a page that still names a closed pane holds pointers   *)
(* to freed objects.  A row remembers, as history, whose command it is.    *)
(***************************************************************************)
EXTENDS Naturals, Sequences, SequencesExt, FiniteSets, SeqFilter

CONSTANTS
    MaxShells,   \* bound: panes made, numbered in that order
    Term,        \* terminal tabs
    NoShell, NoTerm, \* no pane; the active tab is a note or there is none
    Cmd, NoCmd,  \* command texts; an empty search entry or no menu
    Searches,    \* texts the user searches for, each a command
    MaxRun,      \* bound: commands run
    MaxPinned    \* bound: pinned commands

Shell == 1..MaxShells

ASSUME PageAssumption ==
    /\ NoShell \notin Shell /\ NoTerm \notin Term /\ NoCmd \notin Cmd
    /\ MaxShells \in Nat \ {0} /\ Term # {}

VARIABLES
    made,       \* panes made so far
    tabOf,      \* the terminal tab each open pane belongs to, else NoTerm
    rootOf,     \* TerminalTabView::root_pane_
    lastClicked, \* TerminalTabView::active_pane_
    activeTerm, \* the active tab
    ran,        \* cache_ of each pane's tracker, oldest first
    noticed,    \* panes whose history-changed callback waits in the main loop
    page,       \* CommandsPage
    menu,       \* context menu: the row's command and whether it says Unpin
    pinned      \* annotations stored with pinned = true

pageVars == <<made, tabOf, rootOf, lastClicked, activeTerm, ran, noticed, page, menu,
              pinned>>
paneState == <<made, tabOf, rootOf, lastClicked, activeTerm>>

NoMenu == [cmd |-> NoCmd, unpin |-> FALSE]
Alive(p) == p \in Shell /\ tabOf[p] # NoTerm
PanesIn(t) == {p \in Shell : tabOf[p] = t}

-----------------------------------------------------------------------------
(* CommandsPage                                                            *)

\* What reading a tracker gives; a freed one may still hold what it held, or
\* nothing.
Readings(h, p) == IF p = NoShell THEN {<<>>} ELSE IF Alive(p) THEN {h[p]} ELSE {h[p], <<>>}

\* commands_desc(): newest first.
Rows(entries, p) ==
    [i \in DOMAIN entries |-> [cmd |-> Reverse(entries)[i].cmd,
                               pinned |-> Reverse(entries)[i].pinned, from |-> p]]

\* refresh() and schedule_rebuild()
refresh_page(pg, entries) ==
    [pg EXCEPT !.rows = Rows(entries, pg.tracker), !.rebuild = TRUE]

\* rebuild_list(): rows_ itself is sorted, pinned first, then filtered.
Sorted(rows) ==
    Only(rows, {r \in ToSet(rows) : r.pinned}) \o Only(rows, {r \in ToSet(rows) : ~r.pinned})
Filtering(rows, term) == Only(rows, {r \in ToSet(rows) : term \in {NoCmd, r.cmd}})
Buttons(rows) == [i \in DOMAIN rows |-> [cmd |-> rows[i].cmd, from |-> rows[i].from]]

\* The idle callback of schedule_rebuild.  A menu goes with its row.
rebuild_list ==
    /\ page.rebuild
    /\ page' = [page EXCEPT !.rebuild = FALSE, !.rows = Sorted(@),
                            !.list = Buttons(Filtering(Sorted(page.rows), page.term))]
    /\ menu' = NoMenu
    /\ UNCHANGED <<paneState, ran, noticed, pinned>>

\* apply_search_filter: the list is rebuilt from rows_.
apply_search_filter(c) ==
    /\ menu = NoMenu /\ c # page.term /\ page' = [page EXCEPT !.term = c, !.rebuild = TRUE]
    /\ UNCHANGED <<paneState, ran, noticed, menu, pinned>>

\* A menu takes the input until it is closed, so the user's other actions
\* need menu = NoMenu.  The label of the Pin item is worked out, from rows_,
\* when the menu opens.
show_context_menu(i) ==
    LET c == page.list[i].cmd
        first == Only(page.rows, {r \in ToSet(page.rows) : r.cmd = c})
    IN  /\ menu = NoMenu /\ i \in DOMAIN page.list /\ page.target # NoShell
        /\ menu' = [cmd |-> c, unpin |-> first # <<>> /\ first[1].pinned]
        /\ UNCHANGED <<paneState, ran, noticed, page, pinned>>

\* The newest entry of c in a cache gets the flag.
pin_command(entries, c, flag) ==
    [i \in DOMAIN entries |->
        IF entries[i].cmd = c /\ \A j \in i + 1 .. Len(entries) : entries[j].cmd # c
        THEN [entries[i] EXCEPT !.pinned = flag] ELSE entries[i]]

\* The pin callback of update_history_sidebar: the annotation is that of
\* the pane the callback was made for.
on_pin(c, flag) ==
    pinned' = IF flag THEN pinned \cup {<<page.pinFor, c>>} ELSE pinned \ {<<page.pinFor, c>>}

CloseMenu ==
    /\ menu # NoMenu /\ menu' = NoMenu
    /\ UNCHANGED <<paneState, ran, noticed, page, pinned>>

\* The Pin item: annotation, tracker, refresh.
Pin ==
    LET c == menu.cmd
        h == IF page.tracker = NoShell THEN ran
             ELSE [ran EXCEPT ![page.tracker] = pin_command(@, c, ~menu.unpin)]
    IN  /\ menu # NoMenu /\ (menu.unpin \/ Cardinality(pinned) < MaxPinned)
        /\ on_pin(c, ~menu.unpin)
        /\ ran' = h /\ \E e \in Readings(h, page.tracker) : page' = refresh_page(page, e)
        /\ menu' = NoMenu
        /\ UNCHANGED <<paneState, noticed>>

-----------------------------------------------------------------------------
(* MainWindow                                                              *)

\* focused_pane(): the clicked pane, else the root pane, if it is open.
focused_pane(t, clicked) ==
    LET p == IF clicked = NoShell THEN rootOf[t] ELSE clicked
    IN  IF Alive(p) THEN p ELSE NoShell

\* Mutant: the target is set only together with a tracker.
BindTracked(pg, t, clicked, h) ==
    IF t = NoTerm THEN refresh_page([pg EXCEPT !.tracker = NoShell], <<>>)
    ELSE LET p == IF Alive(clicked) THEN clicked ELSE NoShell
         IN  refresh_page([pg EXCEPT !.tracker = p, !.target = rootOf[t], !.pinFor = clicked],
                     IF p = NoShell THEN <<>> ELSE h[p])

\* update_history_sidebar.  The tracker is that of focused_pane_id(), which
\* knows no root pane; a missing terminal leaves the target as it was.
update_history_sidebar(pg, t, clicked, h) ==
    IF t = NoTerm THEN refresh_page([pg EXCEPT !.tracker = NoShell, !.target = NoShell], <<>>)
    ELSE LET p == IF Alive(clicked) THEN clicked ELSE NoShell
             q == focused_pane(t, clicked)
         IN  refresh_page([pg EXCEPT !.tracker = p, !.target = IF q = NoShell THEN @ ELSE q,
                                !.pinFor = clicked],
                     IF p = NoShell THEN <<>> ELSE h[p])

Clicked(t) == IF t = NoTerm THEN NoShell ELSE lastClicked[t]
Update(pg, h) == update_history_sidebar(pg, activeTerm, Clicked(activeTerm), h)

\* What refreshes the page without a change of focus: set_sidebar_mode,
\* set_history_sub_mode, toggle_history_sidebar, open_history_panel when they
\* show the list (module Sidebar), and clear_history, which clears the core's
\* histories and not the trackers'.
ShowCommands ==
    /\ menu = NoMenu
    /\ page' = Update(page, ran)
    /\ UNCHANGED <<paneState, ran, noticed, menu, pinned>>

-----------------------------------------------------------------------------
(* Tabs and panes                                                          *)

\* The click handler of a pane.
ClickPane(p) ==
    /\ menu = NoMenu /\ Alive(p) /\ tabOf[p] = activeTerm
    /\ lastClicked' = [lastClicked EXCEPT ![activeTerm] = p]
    /\ page' = update_history_sidebar(page, activeTerm, p, ran)
    /\ UNCHANGED <<made, tabOf, rootOf, activeTerm, ran, noticed, menu, pinned>>

\* split(): rebuild() forgets the clicked pane before on_pane_focus_ runs.
Split ==
    LET p == made + 1 IN
    /\ menu = NoMenu /\ activeTerm # NoTerm /\ p \in Shell /\ made' = p
    /\ tabOf' = [tabOf EXCEPT ![p] = activeTerm]
    /\ lastClicked' = [lastClicked EXCEPT ![activeTerm] = NoShell]
    /\ noticed' = noticed \cup {p}
    /\ page' = update_history_sidebar(page, activeTerm, NoShell, ran)
    /\ UNCHANGED <<rootOf, activeTerm, ran, menu, pinned>>

\* close_focused_pane() of a tab with several panes: no callback.
ClosePane1 ==
    LET p == focused_pane(activeTerm, lastClicked[activeTerm]) IN
    /\ menu = NoMenu /\ activeTerm # NoTerm /\ p # NoShell /\ Cardinality(PanesIn(activeTerm)) > 1
    /\ tabOf' = [tabOf EXCEPT ![p] = NoTerm]
    /\ lastClicked' = [lastClicked EXCEPT ![activeTerm] = NoShell]
    /\ UNCHANGED <<made, rootOf, activeTerm, ran, noticed, page, menu, pinned>>

\* new_terminal_tab, with its root pane.
NextTerm == CHOOSE t \in Term : PanesIn(t) = {} \/ \A u \in Term : PanesIn(u) # {}
NewTerm(t) ==
    LET p == made + 1 IN
    /\ menu = NoMenu /\ t = NextTerm /\ PanesIn(t) = {} /\ p \in Shell /\ made' = p
    /\ tabOf' = [tabOf EXCEPT ![p] = t] /\ rootOf' = [rootOf EXCEPT ![t] = p]
    /\ lastClicked' = [lastClicked EXCEPT ![t] = NoShell]
    /\ activeTerm' = t /\ noticed' = noticed \cup {p}
    /\ UNCHANGED <<ran, page, menu, pinned>>

\* finish_close_tab: some other tab is shown.
CloseTerm(t) ==
    /\ menu = NoMenu /\ PanesIn(t) # {}
    /\ rootOf' = [rootOf EXCEPT ![t] = NoShell]
    /\ lastClicked' = [lastClicked EXCEPT ![t] = NoShell]
    /\ tabOf' = [p \in Shell |-> IF tabOf[p] = t THEN NoTerm ELSE tabOf[p]]
    /\ \E u \in {v \in Term \ {t} : PanesIn(v) # {}} \cup {NoTerm} : activeTerm' = u
    /\ UNCHANGED <<made, ran, noticed, page, menu, pinned>>

\* Another tab is shown: the visible-child-name handler leaves the page.
ShowTab(t) ==
    /\ menu = NoMenu /\ t # activeTerm /\ (t = NoTerm \/ PanesIn(t) # {}) /\ activeTerm' = t
    /\ UNCHANGED <<made, tabOf, rootOf, lastClicked, ran, noticed, page, menu, pinned>>

\* A command reaches the tracker's cache, adjacent repeats collapsed.
Run(p, c) ==
    /\ Alive(p) /\ Cardinality({e \in Shell \X (1..MaxRun) : e[2] <= Len(ran[e[1]])}) < MaxRun
    /\ ran[p] # <<>> => Last(ran[p]).cmd # c
    /\ ran' = [ran EXCEPT ![p] = Append(@, [cmd |-> c, pinned |-> FALSE])]
    /\ noticed' = noticed \cup {p}
    /\ UNCHANGED <<paneState, page, menu, pinned>>

\* The history-changed callback: apply_annotations, then the page.
Notice(p) ==
    LET h == [ran EXCEPT ![p] = [i \in DOMAIN @ |->
                 IF <<p, @[i].cmd>> \in pinned
                    /\ \A j \in i + 1 .. Len(@) : @[j].cmd # @[i].cmd
                 THEN [@[i] EXCEPT !.pinned = TRUE] ELSE @[i]]]
    IN  /\ p \in noticed /\ Alive(p) /\ noticed' = noticed \ {p}
        /\ ran' = h /\ page' = Update(page, h)
        /\ UNCHANGED <<paneState, menu, pinned>>

\* The callback of a closed pane runs on a freed object: it may find the
\* window's callback or nothing.
NoticeOfClosed(p) ==
    /\ p \in noticed /\ ~Alive(p) /\ noticed' = noticed \ {p}
    /\ page' \in {page, Update(page, ran)}
    /\ UNCHANGED <<paneState, ran, menu, pinned>>

-----------------------------------------------------------------------------
\* setup_sidebar before the first tab: an empty page; then the first tab.
PageInit ==
    LET t == CHOOSE u \in Term : TRUE IN
        /\ made = 1 /\ tabOf = [q \in Shell |-> IF q = 1 THEN t ELSE NoTerm]
        /\ rootOf = [u \in Term |-> IF u = t THEN 1 ELSE NoShell]
        /\ lastClicked = [u \in Term |-> NoShell] /\ activeTerm = t
        /\ ran = [q \in Shell |-> <<>>] /\ noticed = {1}
        /\ page = [tracker |-> NoShell, target |-> NoShell, pinFor |-> NoShell,
                   rows |-> <<>>, list |-> <<>>, rebuild |-> TRUE, term |-> NoCmd]
        /\ menu = NoMenu /\ pinned = {}

PageNext ==
    \/ \E p \in Shell : ClickPane(p) \/ Notice(p) \/ NoticeOfClosed(p)
    \/ \E p \in Shell, c \in Cmd : Run(p, c)
    \/ \E t \in Term : CloseTerm(t) \/ NewTerm(t)
    \/ \E t \in Term \cup {NoTerm} : ShowTab(t)
    \/ Split \/ ClosePane1 \/ rebuild_list \/ CloseMenu \/ Pin
    \/ \E c \in Searches \cup {NoCmd} : apply_search_filter(c)
    \/ \E i \in 1..MaxRun : show_context_menu(i)
    \/ ShowCommands

PageSpec == PageInit /\ [][PageNext]_pageVars

-----------------------------------------------------------------------------
(* The rows on the screen act on the pane they came from: unless a rebuild *)
(* is scheduled, the list is rows_ with the pinned ones first and the      *)
(* search applied, and each of them is a command of the pane that a click  *)
(* types into and that Pin annotates, whatever focus changes, closes and   *)
(* history callbacks came between.                                         *)
RowsActOnTheirPane ==
    ~page.rebuild =>
        /\ page.list = Buttons(Filtering(Sorted(page.rows), page.term))
        /\ \A i \in DOMAIN page.list :
               page.list[i].from = page.target /\ page.list[i].from = page.pinFor
=============================================================================
