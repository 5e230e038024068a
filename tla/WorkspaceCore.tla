--------------------------- MODULE WorkspaceCore ---------------------------
(***************************************************************************)
(* The structure of the open workspace kept by WorkspaceCore               *)
(* (core/workspace_core.cpp): windows, their tabs, each tab's pane tree,   *)
(* the three focus fields, and the dirty flag.  One action per public      *)
(* mutator; the environment (GUI, CLI, tests) may call them in any order   *)
(* with any id, live, removed or never issued.                             *)
(*                                                                         *)
(* Labels, titles, geometry and pane contents are left out; the order of   *)
(* windows and of tabs is left out too (no operation here depends on it).  *)
(* The persistence side of the class is module WorkspaceStore; command     *)
(* history is module HistorySync.                                          *)
(***************************************************************************)
EXTENDS Naturals, Sequences, FiniteSets, PaneTree

CONSTANTS
    WindowId, TabId,    \* the ids Id::generate() can still hand out
    None,               \* an unset std::optional
    MaxPanes            \* bound: panes one tab may hold

ASSUME CoreAssumption ==
    /\ None \notin WindowId /\ None \notin TabId /\ None \notin PaneId
    /\ None # EmptyId /\ None # NoPane
    /\ MaxPanes \in Nat

VARIABLES
    windows,      \* ids in Workspace::windows
    focusWindow,  \* Workspace::focus_window_id
    tabs,         \* [WindowId -> ids in Window::tabs]
    focusTab,     \* [WindowId -> Window::focus_tab_id]
    focusPane,    \* [WindowId -> Window::focus_pane_id]
    kind,         \* [TabId -> Tab::kind]
    tree,         \* [TabId -> Tab::pane_tree]
    dirty,        \* ws_dirty_
    issued,       \* every id Id::generate() has returned so far
    event         \* the last typed event given to event_callback_

structure == <<windows, focusWindow, tabs, focusTab, focusPane, kind, tree>>
vars == <<structure, dirty, issued, event>>

NoEvent == [type |-> "none", tab |-> None, pane |-> None]
Event(type, t, p) == [type |-> type, tab |-> t, pane |-> p]
EventTypes == {"none", "window", "tab", "PaneSplit", "PaneRemoved", "PaneResized"}

Kinds == {"terminal", "note"}
Ids == WindowId \cup TabId \cup PaneId

\* A removed or never issued tab is kept at this default in tree.
NoTree == EmptyTree

LiveTabs == UNION {tabs[w] : w \in windows}
WindowOf(t) == CHOOSE w \in windows : t \in tabs[w]
LivePanes == UNION {PanesOf(tree[t]) : t \in LiveTabs}

Fresh(S) == S \ issued

Init ==
    /\ windows = {} /\ focusWindow = None
    /\ tabs = [w \in WindowId |-> {}]
    /\ focusTab = [w \in WindowId |-> None]
    /\ focusPane = [w \in WindowId |-> None]
    /\ kind = [t \in TabId |-> "terminal"]
    /\ tree = [t \in TabId |-> NoTree]
    /\ dirty = FALSE
    /\ issued = {}
    /\ event = NoEvent

\* mark_dirty() followed by emit(...); a plain mark_dirty() leaves NoEvent.
Changed(e) == dirty' = TRUE /\ event' = e
Issue(S) == issued' = issued \cup S

-----------------------------------------------------------------------------
(* Windows                                                                 *)

add_window(w) ==
    /\ w \in Fresh(WindowId)
    /\ windows' = windows \cup {w}
    /\ focusWindow' = w
    /\ Issue({w}) /\ Changed(Event("window", None, None))
    /\ UNCHANGED <<tabs, focusTab, focusPane, kind, tree>>

\* Succeeds, marks dirty and reports WindowRemoved for an unknown id too.
remove_window(w) ==
    /\ windows' = windows \ {w}
    /\ focusWindow' = IF focusWindow = w THEN None ELSE focusWindow
    /\ tabs' = [tabs EXCEPT ![w] = {}]
    /\ focusTab' = [focusTab EXCEPT ![w] = None]
    /\ focusPane' = [focusPane EXCEPT ![w] = None]
    /\ kind' = [t \in TabId |-> IF t \in tabs[w] THEN "terminal" ELSE kind[t]]
    /\ tree' = [t \in TabId |-> IF t \in tabs[w] THEN NoTree ELSE tree[t]]
    /\ Changed(Event("window", None, None))
    /\ UNCHANGED issued

\* rename_window only writes the label.
rename_window(w) ==
    /\ w \in windows
    /\ Changed(Event("window", None, None))
    /\ UNCHANGED <<structure, issued>>

focus_window(w) ==
    /\ w \in windows
    /\ focusWindow' = w
    /\ Changed(NoEvent)
    /\ UNCHANGED <<windows, tabs, focusTab, focusPane, kind, tree, issued>>

-----------------------------------------------------------------------------
(* Tabs                                                                    *)

push_tab(w, t, k, tr) ==
    /\ w \in windows
    /\ tabs' = [tabs EXCEPT ![w] = @ \cup {t}]
    /\ focusTab' = [focusTab EXCEPT ![w] = t]
    /\ kind' = [kind EXCEPT ![t] = k]
    /\ tree' = [tree EXCEPT ![t] = tr]
    /\ Changed(Event("tab", t, None))
    /\ UNCHANGED <<windows, focusWindow, focusPane>>

\* new_terminal_tab builds the leaf and add_tab installs it.
add_tab(w, t, p) ==
    /\ t \in Fresh(TabId) /\ p \in Fresh(PaneId)
    /\ push_tab(w, t, "terminal", LeafTree(p))
    /\ Issue({t, p})

add_note_tab(w, t) ==
    /\ t \in Fresh(TabId)
    /\ push_tab(w, t, "note", EmptyTree)
    /\ Issue({t})

set_tab_note_state(w, t) ==
    /\ w \in windows /\ t \in tabs[w] /\ kind[t] = "note"
    /\ Changed(NoEvent)
    /\ UNCHANGED <<structure, issued>>

\* focus_pane_id of the window is left alone.
remove_tab(w, t) ==
    /\ w \in windows
    /\ tabs' = [tabs EXCEPT ![w] = @ \ {t}]
    /\ focusTab' = [focusTab EXCEPT ![w] = IF @ = t THEN None ELSE @]
    /\ kind' = [kind EXCEPT ![t] = IF t \in tabs[w] THEN "terminal" ELSE @]
    /\ tree' = [tree EXCEPT ![t] = IF t \in tabs[w] THEN NoTree ELSE @]
    /\ Changed(Event("tab", t, None))
    /\ UNCHANGED <<windows, focusWindow, focusPane, issued>>

\* The tab id is stored unchecked.
focus_tab(w, t) ==
    /\ w \in windows
    /\ focusTab' = [focusTab EXCEPT ![w] = t]
    /\ Changed(NoEvent)
    /\ UNCHANGED <<windows, focusWindow, tabs, focusPane, kind, tree, issued>>

-----------------------------------------------------------------------------
(* Panes                                                                   *)

\* The leaf split_pane splits: a bare pane; else the window's focused pane
\* when this tree holds it (an unset focus looks for the empty id).
\* NoPane: there is none, and the tree stays as it is.
SplitTarget(w, t) ==
    LET wanted == IF focusPane[w] = None THEN EmptyId ELSE focusPane[w]
        bare == tree[t][Root].pane
    IN  CASE bare # NoPane -> bare
          [] bare = NoPane /\ wanted \in PanesOf(tree[t]) -> wanted
          [] bare = NoPane /\ EmptyId \in PanesOf(tree[t]) -> EmptyId
          [] OTHER -> NoPane

split_pane(t, k, r, p) ==
    LET w == WindowOf(t)
        target == SplitTarget(w, t)
    IN  /\ t \in LiveTabs /\ p \in Fresh(PaneId)
        /\ Cardinality(PanesOf(tree[t])) < MaxPanes
        /\ tree' = IF target = NoPane THEN tree
                   ELSE [tree EXCEPT ![t] = SplitAt(@, NodeOf(@, target), k, r, p)]
        /\ focusPane' = [focusPane EXCEPT ![w] = p]
        /\ Issue({p}) /\ Changed(Event("PaneSplit", t, p))
        /\ UNCHANGED <<windows, focusWindow, tabs, focusTab, kind>>

remove_pane(t, p) ==
    LET w == WindowOf(t)
    IN  /\ t \in LiveTabs /\ p \in PanesOf(tree[t])
        /\ tree' = [tree EXCEPT ![t] = RemoveLeaf(@, p)]
        /\ focusPane' = [focusPane EXCEPT ![w] = IF @ = p THEN None ELSE @]
        /\ Changed(Event("PaneRemoved", t, p))
        /\ UNCHANGED <<windows, focusWindow, tabs, focusTab, kind, issued>>

\* Only in a tab that is its window's focused tab.
focus_pane(t, p) ==
    /\ t \in LiveTabs /\ p \in PanesOf(tree[t])
    /\ focusTab[WindowOf(t)] = t
    /\ focusPane' = [focusPane EXCEPT ![WindowOf(t)] = p]
    /\ Changed(NoEvent)
    /\ UNCHANGED <<windows, focusWindow, tabs, focusTab, kind, tree, issued>>

set_pane_ratio(t, p, r) ==
    /\ t \in LiveTabs /\ p \in PanesOf(tree[t])
    /\ NodeOf(tree[t], p) # Root
    /\ tree' = [tree EXCEPT ![t] = SetRatio(@, p, r)]
    /\ Changed(Event("PaneResized", t, p))
    /\ UNCHANGED <<windows, focusWindow, tabs, focusTab, focusPane, kind, issued>>

-----------------------------------------------------------------------------
(* Saving.  persist() (or a successful checkpoint) clears the flag; a      *)
(* close_workspace() then open_workspace() of what was saved reads every   *)
(* tree back from JSON.  Neither touches the flag.                         *)

persist ==
    /\ dirty
    /\ dirty' = FALSE /\ event' = NoEvent
    /\ UNCHANGED <<structure, issued>>

reopen ==
    /\ ~dirty
    /\ tree' = [t \in TabId |-> IF t \in LiveTabs THEN JsonRoundTrip(tree[t])
                                ELSE NoTree]
    /\ event' = NoEvent
    /\ UNCHANGED <<windows, focusWindow, tabs, focusTab, focusPane, kind, dirty, issued>>

Next ==
    \/ \E w \in WindowId : add_window(w) \/ remove_window(w) \/ rename_window(w)
    \/ \E w \in WindowId : focus_window(w)
    \/ \E w \in WindowId, t \in TabId, p \in PaneId : add_tab(w, t, p)
    \/ \E w \in WindowId, t \in TabId : add_note_tab(w, t) \/ set_tab_note_state(w, t)
    \/ \E w \in WindowId, t \in TabId : remove_tab(w, t) \/ focus_tab(w, t)
    \/ \E t \in TabId, k \in SplitKinds, r \in Ratios, p \in PaneId : split_pane(t, k, r, p)
    \/ \E t \in TabId, p \in PaneId \cup {EmptyId} : remove_pane(t, p) \/ focus_pane(t, p)
    \/ \E t \in TabId, p \in PaneId \cup {EmptyId}, r \in Ratios : set_pane_ratio(t, p, r)
    \/ persist
    \/ reopen

Spec == Init /\ [][Next]_vars

-----------------------------------------------------------------------------
(* Properties                                                              *)

(* The types of the fields of Workspace, Window and Tab. *)
TypeOK ==
    /\ windows \subseteq WindowId
    /\ focusWindow \in WindowId \cup {None}
    /\ tabs \in [WindowId -> SUBSET TabId]
    /\ focusTab \in [WindowId -> TabId \cup {None}]
    /\ focusPane \in [WindowId -> PaneOrEmpty \cup {None}]
    /\ kind \in [TabId -> Kinds]
    /\ DOMAIN tree = TabId /\ \A t \in TabId : IsTree(tree[t])
    /\ dirty \in BOOLEAN
    /\ issued \subseteq Ids
    /\ event \in [type : EventTypes, tab : TabId \cup {None}, pane : PaneOrEmpty \cup {None}]

(* remove_pane_from_tree never keeps a one-sided split or an empty side,   *)
(* split_pane never makes one, and every pane of the workspace sits in one *)
(* leaf of one tab, whatever the order of calls: the blob table, the       *)
(* autosaver and the history files are keyed by pane id alone.  (The empty *)
(* id is the exception: note tabs all carry it after a reload.)            *)
TreesWellFormed ==
    /\ \A t \in TabId : WellFormed(tree[t])
    /\ \A t, u \in LiveTabs : \A n \in DOMAIN tree[t], m \in DOMAIN tree[u] :
           (tree[t][n].pane = tree[u][m].pane /\ tree[t][n].pane \in PaneId)
               => t = u /\ n = m

(* Splitting and closing panes never reorders, drops or renames the panes  *)
(* that stay: what was left of a pane is still left of it, and a pane      *)
(* leaves a living tab only by a remove_pane of that pane.                 *)
KeepsLayout(t) ==
    LET before == PanesOf(tree[t]) \ {EmptyId}
        after  == PanesOf(tree'[t]) \ {EmptyId}
        stay   == before \cap after
    IN  /\ LeftOf(tree[t]) \cap (stay \X stay) = LeftOf(tree'[t]) \cap (stay \X stay)
        /\ before \ after \subseteq
             IF event'.type = "PaneRemoved" /\ event'.tab = t THEN {event'.pane} ELSE {}
        /\ after \ before \subseteq
             IF event'.type = "PaneSplit" /\ event'.tab = t THEN {event'.pane} ELSE {}

LayoutStep == \A t \in LiveTabs \cap LiveTabs' : tree'[t] # tree[t] => KeepsLayout(t)

LayoutOrderKept == [][LayoutStep]_vars
=============================================================================
