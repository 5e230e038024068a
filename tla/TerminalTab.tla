---------------------------- MODULE TerminalTab ----------------------------
(***************************************************************************)
(* One terminal tab (gui/window/terminal_tab_view.cpp): the core's pane    *)
(* tree of the tab, the TerminalPane objects and the Gtk::Paned widgets    *)
(* that mirror it, the divider positions and the pane the user clicked.    *)
(*                                                                         *)
(* The other tabs of the window appear only by what they do to the two     *)
(* focus fields the window shares.  Colours, menus and shell contents are  *)
(* left out.  A position is kept as the ratio position / size.             *)
(***************************************************************************)
EXTENDS Naturals, Sequences, FiniteSets, FiniteSetsExt, PaneTree

CONSTANTS
    None,           \* an empty PaneId, or an unset optional
    Elsewhere,      \* any pane of another tab
    Unset,          \* the position of a Paned without a size
    SavedTrees,     \* pane trees a restored tab may start with
    MaxPanes        \* bound: panes in the tree

\* Pane ids are numbered as they are made.  A saved tree has a pane in every
\* leaf: closing the last pane of a tab closes the tab.
ASSUME TabAssumption ==
    /\ PaneId \subseteq Nat /\ PaneId # {}
    /\ Unset \notin Ratios /\ {None, Elsewhere} \cap PaneId = {}
    /\ None # Elsewhere /\ MaxPanes \in Nat
    /\ \A t \in SavedTrees :
          /\ GoodTree(t) /\ IsFiniteSet(DOMAIN t)
          /\ \A n \in DOMAIN t : IsLeaf(t, n) => t[n].pane \in PaneId

VARIABLES
    tree,       \* Tab::pane_tree in the core
    focusPane,  \* Window::focus_pane_id
    focusHere,  \* Window::focus_tab_id is this tab
    open,       \* the view exists
    visible,    \* the view is the visible child of the window's stack
    panes,      \* keys of panes_
    shells,     \* shells started for each key of panes_ since it was created
    hooked,     \* pane_controllers_added_
    inWatcher,  \* pane ids known to history_watcher_
    active,     \* active_pane_
    rootPane,   \* root_pane_
    shown,      \* the tree below tree_host_, each Paned with its boxed ratio
    pos,        \* position of each Paned of shown
    idle        \* a walk_restore waits in the main loop

tabVars == <<tree, focusPane, focusHere, open, visible, panes, shells, hooked,
          inWatcher, active, rootPane, shown, pos, idle>>
view == <<panes, shells, hooked, inWatcher, active, rootPane, shown, pos, idle>>

Splits(t) == {n \in DOMAIN t : ~IsLeaf(t, n)}
Unplaced(t) == [n \in Splits(t) |-> Unset]

-----------------------------------------------------------------------------
(* Building the widgets                                                    *)

\* Mutant: every leaf gets a new TerminalPane.
BuildAllAnew(t, sh, w) ==
    /\ panes' = DOMAIN sh \cup PanesOf(t)
    /\ shells' = [p \in panes' |-> IF p \in PanesOf(t) THEN 2 ELSE sh[p]]
    /\ inWatcher' = w \cup PanesOf(t)
    /\ hooked' = hooked \cup PanesOf(t)
    /\ shown' = t /\ pos' = Unplaced(t) /\ idle' = TRUE /\ active' = None

\* rebuild() when panes_ holds the panes of sh and the watcher knows w.
\* build_node creates what is missing: the constructor starts a shell and
\* initialize_fresh() another one.  The new Paned widgets have no size yet;
\* an idle callback will place them.
rebuild(t, sh, w) ==
    LET new == PanesOf(t) \ DOMAIN sh IN
    /\ panes' = DOMAIN sh \cup new
    /\ shells' = [p \in panes' |-> IF p \in new THEN 2 ELSE sh[p]]
    /\ inWatcher' = w \cup new
    /\ hooked' = hooked \cup PanesOf(t)
    /\ shown' = t /\ pos' = Unplaced(t) /\ idle' = TRUE /\ active' = None

\* The first child's pane that build_node stores with a Paned: the leftmost
\* leaf below the first child.
first_child_pane(t, n) ==
    CHOOSE m \in DOMAIN t : /\ IsUnder(First(n), m) /\ IsLeaf(t, m)
                            /\ \A i \in (Len(n) + 1)..Len(m) : m[i] = 1

\* Mutant: the divider is recorded with its second child.
SyncSecondChild(t, changed, at) ==
    [b \in DOMAIN t |->
        IF Len(b) > 0 /\ Parent(b) \in changed /\ ~IsLeaf(t, b)
        THEN [t[b] EXCEPT !.ratio = at[Parent(b)]] ELSE t[b]]

\* sync_ratio for every Paned whose position changed, outer ones first: each
\* writes the ratio of the split just above its first child's pane, so of
\* several that share that pane the innermost one is last.
sync_ratio(t, changed, at) ==
    [b \in DOMAIN t |->
        LET by == {n \in changed : Parent(first_child_pane(t, n)) = b}
            last == CHOOSE n \in by : \A m \in by : Len(m) <= Len(n)
        IN  IF by = {} THEN t[b] ELSE [t[b] EXCEPT !.ratio = at[last]]]

-----------------------------------------------------------------------------
(* The two constructors                                                    *)

\* new_terminal_tab: the tab has the core's tab focus, the pane focus is
\* still that of the tab before.
Fresh(p) ==
    /\ tree = LeafTree(p) /\ rootPane = p /\ focusHere = TRUE /\ visible = TRUE
    /\ focusPane \in {None, Elsewhere}
    /\ panes = {p} /\ shells = [q \in {p} |-> 2] /\ active = None

\* restore_pane_tree: panes are created without a shell and runtime_restore
\* starts one; root_pane_ stays empty.  restore_workspace shows the focused
\* tab and hands the focused pane to the terminal tab with its index.
restore_pane_tree(t) ==
    /\ tree = t /\ rootPane = None /\ focusHere \in BOOLEAN /\ visible = focusHere
    /\ focusPane \in PanesOf(t) \cup {None, Elsewhere}
    /\ panes = PanesOf(t) /\ shells = [q \in PanesOf(t) |-> 1]
    /\ active \in {None, focusPane}

TabInit ==
    /\ \/ Fresh(Min(PaneId))
       \/ \E t \in SavedTrees : restore_pane_tree(t)
    /\ open = TRUE
    /\ hooked = panes /\ inWatcher = panes
    /\ shown = tree /\ pos = Unplaced(tree) /\ idle = TRUE

-----------------------------------------------------------------------------
(* The user                                                                *)

\* Where close_focused_pane aims: the clicked pane, else root_pane_.
Target == IF active = None THEN rootPane ELSE active

\* The click handler of a pane: active_pane_ always, the core's pane focus
\* only while the core's tab focus is here.
Click(p) ==
    /\ open /\ visible /\ p \in PanesOf(shown) \cap hooked
    /\ active' = p
    /\ focusPane' = IF focusHere /\ p \in PanesOf(tree) THEN p ELSE focusPane
    /\ UNCHANGED <<tree, focusHere, open, visible, panes, shells, hooked, inWatcher,
                   rootPane, shown, pos, idle>>

\* split(): WorkspaceCore::split_pane wraps a lone leaf, else it splits the
\* window's focused pane if this tab has it, else it inserts nothing; the
\* focus moves to the new id in each case and the view creates its
\* TerminalPane before it rebuilds.
split(kind, p) ==
    LET t == IF IsLeaf(tree, Root) THEN SplitAt(tree, Root, kind, HalfRatio, p)
             ELSE IF focusPane \in PanesOf(tree)
             THEN SplitAt(tree, NodeOf(tree, focusPane), kind, HalfRatio, p)
             ELSE tree
    IN  /\ open /\ visible
        /\ PaneId \ (panes \cup hooked) # {} /\ p = Min(PaneId \ (panes \cup hooked))
        /\ Cardinality(panes) < MaxPanes
        /\ tree' = t /\ focusPane' = p
        /\ rebuild(t, [q \in panes \cup {p} |-> IF q = p THEN 2 ELSE shells[q]],
                   inWatcher \cup {p})
        /\ UNCHANGED <<focusHere, open, visible, rootPane>>

\* Mutant: the widgets are left as they are.
CloseWithoutRebuild ==
    /\ open /\ visible /\ ~IsLeaf(tree, Root) /\ Target \in PanesOf(tree)
    /\ tree' = RemoveLeaf(tree, Target)
    /\ panes' = panes \ {Target} /\ shells' = [q \in panes' |-> shells[q]]
    /\ inWatcher' = inWatcher \ {Target} /\ active' = None
    /\ UNCHANGED <<focusPane, focusHere, open, visible, hooked, rootPane, shown, pos, idle>>

\* close_focused_pane() with more than one pane.  It returns without effect
\* when the target, a closed root_pane_ for instance, is not in the tree.
close_focused_pane ==
    /\ open /\ visible /\ ~IsLeaf(tree, Root) /\ Target \in PanesOf(tree)
    /\ tree' = RemoveLeaf(tree, Target)
    /\ focusPane' = IF focusPane = Target THEN None ELSE focusPane
    /\ rebuild(tree', [q \in panes \ {Target} |-> shells[q]], inWatcher \ {Target})
    /\ UNCHANGED <<focusHere, open, visible, rootPane>>

\* The tab is closed (by the window, or by closing its last pane) and the
\* view destroyed; the watcher is stopped first.
Destroy ==
    /\ open /\ open' = FALSE /\ visible' = FALSE
    /\ focusHere' = FALSE
    /\ UNCHANGED <<tree, focusPane, view>>

\* The user drags the divider of the split n to the ratio r.
Drag(n, r) ==
    /\ open /\ visible /\ n \in DOMAIN pos /\ pos[n] \notin {Unset, r}
    /\ pos' = [pos EXCEPT ![n] = r]
    /\ tree' = sync_ratio(tree, {n}, pos')
    /\ UNCHANGED <<focusPane, focusHere, open, visible, panes, shells, hooked, inWatcher,
                   active, rootPane, shown, idle>>

-----------------------------------------------------------------------------
(* The main loop                                                           *)

\* GTK gives the Paned widgets of a visible tab their first size, and each
\* one without a position some default one, which is a change of position.
Allocate(at) ==
    LET new == {n \in DOMAIN pos : pos[n] = Unset} IN
    /\ open /\ visible /\ new # {} /\ DOMAIN at = new
    /\ pos' = [n \in DOMAIN pos |-> IF n \in new THEN at[n] ELSE pos[n]]
    /\ tree' = sync_ratio(tree, new, pos')
    /\ UNCHANGED <<focusPane, focusHere, open, visible, panes, shells, hooked, inWatcher,
                   active, rootPane, shown, idle>>

\* The idle callback of rebuild(): every Paned that has a size goes to its
\* boxed ratio; those whose position changes report it.
walk_restore ==
    LET moved == {n \in DOMAIN pos : pos[n] \notin {Unset, shown[n].ratio}} IN
    /\ open /\ idle /\ idle' = FALSE
    /\ pos' = [n \in DOMAIN pos |-> IF n \in moved THEN shown[n].ratio ELSE pos[n]]
    /\ tree' = sync_ratio(tree, moved, pos')
    /\ UNCHANGED <<focusPane, focusHere, open, visible, panes, shells, hooked, inWatcher,
                   active, rootPane, shown>>

-----------------------------------------------------------------------------
(* The window and its other tabs                                           *)

\* on_tab_switched tells the core nothing.
SwitchTab ==
    /\ open /\ visible' = ~visible
    /\ UNCHANGED <<tree, focusPane, focusHere, open, view>>

\* new_terminal_tab, new_note_tab: the core's tab focus moves.
OtherTabAdded ==
    /\ open /\ visible' = FALSE /\ focusHere' = FALSE
    /\ UNCHANGED <<tree, focusPane, open, view>>

\* A split in another tab, or a click there that the core accepts.
OtherTabTakesFocus ==
    /\ open /\ ~visible /\ focusPane' = Elsewhere
    /\ UNCHANGED <<tree, focusHere, open, visible, view>>

\* The focused pane of another tab is closed.
OtherPaneClosed ==
    /\ open /\ ~visible /\ focusPane = Elsewhere /\ focusPane' = None
    /\ UNCHANGED <<tree, focusHere, open, visible, view>>

\* capture_all_runtime_state records the visible tab and its clicked pane.
CaptureTab ==
    /\ open /\ focusHere' = visible
    /\ focusPane' = IF visible /\ active # None THEN active ELSE focusPane
    /\ UNCHANGED <<tree, open, visible, view>>

TabNext ==
    \/ \E p \in PaneId : Click(p)
    \/ \E kind \in SplitKinds, p \in PaneId : split(kind, p)
    \/ close_focused_pane \/ Destroy \/ walk_restore
    \/ \E n \in DOMAIN pos, r \in Ratios : Drag(n, r)
    \/ \E at \in [{n \in DOMAIN pos : pos[n] = Unset} -> Ratios] : Allocate(at)
    \/ SwitchTab \/ OtherTabAdded \/ OtherTabTakesFocus \/ OtherPaneClosed \/ CaptureTab

TabSpec == TabInit /\ [][TabNext]_tabVars

-----------------------------------------------------------------------------
(* Types of the tab's state.                                               *)
TabTypeOK ==
    /\ WellFormed(tree) /\ WellFormed(shown)
    /\ PanesOf(tree) \subseteq PaneId
    /\ focusPane \in PaneId \cup {None, Elsewhere} /\ focusHere \in BOOLEAN
    /\ open \in BOOLEAN /\ visible \in BOOLEAN /\ idle \in BOOLEAN
    /\ panes \subseteq PaneId /\ shells \in [panes -> {1, 2}]
    /\ hooked \subseteq PaneId /\ inWatcher \subseteq PaneId
    /\ active \in PaneId \cup {None, Elsewhere} /\ rootPane \in PaneId \cup {None}
    /\ pos \in [Splits(shown) -> Ratios \cup {Unset}]

(* "The widget tree is only a projection of core state": after every split,*)
(* close and restore the Paned widgets have the shape of the core's tree,  *)
(* and each leaf is a live TerminalPane with its click handler and a       *)
(* watched history file; the watcher knows no pane that is gone.           *)
LayoutShown ==
    open => /\ DOMAIN shown = DOMAIN tree
            /\ \A n \in DOMAIN tree : /\ shown[n].kind = tree[n].kind
                                      /\ shown[n].pane = tree[n].pane
            /\ PanesOf(tree) \subseteq panes \cap hooked
            /\ inWatcher = panes

(* A pane that stays keeps its TerminalPane: whatever is split or closed   *)
(* around it, rebuild() starts no second process in it.                    *)
ShellsSurvive ==
    [][\A p \in panes \cap panes' : shells'[p] = shells[p]]_tabVars

(* A divider next to a pane on its first side, unless it is itself the     *)
(* first side of another divider, is stored in the core where it is shown, *)
(* whatever allocations, idle callbacks, drags and rebuilds came before.   *)
(* (An outer divider writes into the split of its leftmost pane instead.)  *)
DividerStored ==
    open => \A n \in DOMAIN pos :
        (/\ pos[n] # Unset /\ IsLeaf(shown, First(n))
         /\ n # Root => n[Len(n)] = 2)
        => tree[n].ratio = pos[n]
=============================================================================
