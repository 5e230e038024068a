------------------------------- MODULE Sidebar -------------------------------
(***************************************************************************)
(* The sidebar of the main window (window/main_window.cpp): which page it  *)
(* shows and what each way of showing a page refreshes, and the list of    *)
(* windows on its history page, which an idle callback fills.              *)
(*                                                                         *)
(* A search text is the set of the windows whose label contains it.  The   *)
(* list's section of closed windows is left out: delete stores a closed    *)
(* window under its own id, and the list asks for the workspace's, so the  *)
(* section has no rows.                                                    *)
(***************************************************************************)
EXTENDS Naturals, FiniteSets

CONSTANTS
    Win,       \* ids of windows
    Terms,     \* search texts; Win itself is the empty text
    NoWin,     \* no menu or dialog is open
    MaxRows    \* bound: rows in the list, windows of earlier fills included

ASSUME SidebarAssumption == Win \in Terms /\ Terms \subseteq SUBSET Win /\ NoWin \notin Win

VARIABLES
    side,      \* sidebar_visible_, the stacks' pages, first_directory_show_
    refreshed,     \* the list the last step refreshed
    coreWins,  \* windows of the workspace
    madeWins,  \* windows ever made
    listed,    \* rows of each window in history_windows_list_
    fill,      \* search text and windows of the last fill
    searched,  \* text of windows_search_entry_
    scheduled, \* windows_list_rebuild_scheduled_
    asking     \* the window whose menu or Delete dialog is open

sideVars == <<side, refreshed, coreWins, madeWins, listed, fill, searched, scheduled, asking>>
winList == <<coreWins, madeWins, listed, fill, searched, asking>>

Pages == {"history", "directory"}
Views == {"commands", "transcripts", "windows"}

-----------------------------------------------------------------------------
(* Pages                                                                   *)

\* set_sidebar_mode: the history page refreshes the commands, whichever of
\* its views is shown; the first show of the files starts at the top.
set_sidebar_mode(s, mode) ==
    [s EXCEPT !.page = mode, !.first = @ /\ mode # "directory"]
RefreshOf(s, mode) ==
    CASE mode = "history" -> "commands"
      [] mode = "directory" -> IF s.first THEN "files to top" ELSE "files"

SetMode(mode) ==
    /\ asking = NoWin
    /\ side' = set_sidebar_mode(side, mode) /\ refreshed' = RefreshOf(side, mode)
    /\ UNCHANGED <<winList, scheduled>>

\* set_history_sub_mode
set_history_sub_mode(view) ==
    /\ asking = NoWin /\ side.page = "history" /\ side.open
    /\ side' = [side EXCEPT !.view = view] /\ refreshed' = view
    /\ scheduled' = (scheduled \/ view = "windows")
    /\ UNCHANGED winList

\* toggle_history_sidebar: the page that appears is refreshed, of the
\* history page the commands.
toggle_history_sidebar ==
    /\ asking = NoWin
    /\ side' = [side EXCEPT !.open = ~@]
    /\ refreshed' = IF side.open THEN "nothing" ELSE IF side.page = "directory" THEN "files" ELSE "commands"
    /\ UNCHANGED <<winList, scheduled>>

open_history_panel ==
    /\ asking = NoWin
    /\ side' = [set_sidebar_mode(side, "history") EXCEPT !.open = TRUE]
    /\ refreshed' = "commands"
    /\ UNCHANGED <<winList, scheduled>>

-----------------------------------------------------------------------------
(* The list of windows                                                     *)

WindowsShown == side.open /\ side.page = "history" /\ side.view = "windows"

\* update_history_windows_list: one idle callback for any number of calls.
ChangeSearch(t) ==
    /\ asking = NoWin /\ WindowsShown /\ t # searched /\ searched' = t /\ scheduled' = TRUE
    /\ UNCHANGED <<side, refreshed, coreWins, madeWins, listed, fill, asking>>

\* Mutant: the windows of the last fill are searched again.
FillFromLast ==
    fill' = [term |-> searched, wins |-> IF fill.wins = {} THEN coreWins \cap searched
                                         ELSE fill.wins \cap searched]

\* What a fill reads: the workspace and the search entry at that moment.
Fill == fill' = [term |-> searched, wins |-> coreWins \cap searched]

\* do_update_history_windows_list.  The search entry is the first child, at
\* which the clearing loop stops: the rows of earlier fills stay above.
do_update_history_windows_list ==
    /\ scheduled /\ scheduled' = FALSE
    /\ Fill
    /\ \A w \in Win : listed[w] < MaxRows
    /\ listed' = [w \in Win |-> listed[w] + IF w \in fill'.wins THEN 1 ELSE 0]
    /\ UNCHANGED <<side, refreshed, coreWins, madeWins, searched, asking>>

\* show_window_context_menu, of any row; Open and Pin only tell.
show_window_context_menu(w) ==
    /\ asking = NoWin /\ WindowsShown /\ listed[w] > 0 /\ asking' = w
    /\ UNCHANGED <<side, refreshed, coreWins, madeWins, listed, fill, searched, scheduled>>

CloseWindowMenu ==
    /\ asking # NoWin /\ asking' = NoWin
    /\ UNCHANGED <<side, refreshed, coreWins, madeWins, listed, fill, searched, scheduled>>

\* Delete, confirmed: remove_window does nothing for a window that is gone.
DeleteListed ==
    /\ asking # NoWin /\ asking' = NoWin
    /\ coreWins' = coreWins \ {asking} /\ scheduled' = TRUE
    /\ UNCHANGED <<side, refreshed, madeWins, listed, fill, searched>>

\* ensure_window of the next new tab: a window when none is left.
EnsureWindow(w) ==
    /\ asking = NoWin /\ coreWins = {} /\ w \notin madeWins
    /\ coreWins' = {w} /\ madeWins' = madeWins \cup {w}
    /\ UNCHANGED <<side, refreshed, listed, fill, searched, scheduled, asking>>

-----------------------------------------------------------------------------
\* setup_sidebar and apply_initial_sidebar_state, for a restored workspace
\* with some windows.
SidebarInit ==
    /\ \E o \in BOOLEAN : side = [open |-> o, page |-> "history", view |-> "commands",
                                  first |-> TRUE]
    /\ refreshed = "commands"
    /\ coreWins \in SUBSET Win \ {{}} /\ madeWins = coreWins
    /\ listed = [w \in Win |-> 0] /\ fill = [term |-> Win, wins |-> {}]
    /\ searched = Win /\ scheduled = FALSE /\ asking = NoWin

SidebarNext ==
    \/ \E p \in Pages : SetMode(p)
    \/ \E v \in Views : set_history_sub_mode(v)
    \/ toggle_history_sidebar \/ open_history_panel
    \/ \E t \in Terms : ChangeSearch(t)
    \/ do_update_history_windows_list \/ CloseWindowMenu \/ DeleteListed
    \/ \E w \in Win : show_window_context_menu(w) \/ EnsureWindow(w)

SidebarSpec == SidebarInit /\ [][SidebarNext]_sideVars

-----------------------------------------------------------------------------
(* The newest fill catches up: unless another is scheduled, it was made    *)
(* with the text in the search entry, every window it found is still in    *)
(* the workspace, and each has a row, however searches, deletions and      *)
(* switches of the view were coalesced into one idle callback.  It is not  *)
(* about the rows of earlier fills, which stay when their window is gone.  *)
WindowRowsCurrent ==
    ~scheduled => /\ fill.term = searched /\ fill.wins \subseteq coreWins
                  /\ \A w \in fill.wins : listed[w] > 0
=============================================================================
