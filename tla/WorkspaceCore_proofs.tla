----------------------- MODULE WorkspaceCore_proofs -----------------------
(***************************************************************************)
(* Proofs about WorkspaceCore, for every set of ids: pane trees stay well  *)
(* formed, no pane occurs twice, and splitting and closing keep the order  *)
(* of the panes that stay.                                                 *)
(***************************************************************************)
EXTENDS WorkspaceCore, Operators_proofs

-----------------------------------------------------------------------------
(* The inductive invariant                                                 *)

\* Every pane of every tree, live or not, sits in one leaf of one tab ...
PanesUnique ==
    \A t, u \in TabId : \A n \in DOMAIN tree[t], m \in DOMAIN tree[u] :
        tree[t][n].pane = tree[u][m].pane /\ tree[t][n].pane \in PaneId => t = u /\ n = m

\* ... and was issued, so that a fresh id is in no tree.
PanesIssued ==
    \A t \in TabId : \A n \in DOMAIN tree[t] : tree[t][n].pane \in PaneId => tree[t][n].pane \in issued

TreesInv ==
    /\ DOMAIN tree = TabId /\ \A t \in TabId : GoodTree(tree[t])
    /\ PanesUnique /\ PanesIssued

\* Every tab has one window and an issued id.
TabsOwned ==
    /\ \A w, v \in WindowId : \A t \in TabId : t \in tabs[w] /\ t \in tabs[v] => w = v
    /\ \A w \in WindowId : tabs[w] \subseteq issued

IInv == TypeOK /\ TreesInv /\ TabsOwned

\* One tree is replaced by one whose new panes are fresh.
LEMMA TreeReplaced ==
    ASSUME TreesInv, NEW t \in TabId, NEW v, GoodTree(v), NEW F, F \cap issued = {},
           OnlyNew(v, tree[t], F), tree' = [tree EXCEPT ![t] = v], issued' = issued \cup F
    PROVE  TreesInv'
<1>1. DOMAIN tree' = TabId /\ tree'[t] = v /\ \A u \in TabId : u # t => tree'[u] = tree[u]
  BY DEF TreesInv
<1>2. \A u \in TabId : GoodTree(tree'[u])
  BY <1>1 DEF TreesInv
<1>3. PanesIssued'
  BY <1>1 DEF TreesInv, PanesIssued, OnlyNew
<1>4. ASSUME NEW u \in TabId, u # t, NEW n \in DOMAIN v, NEW m \in DOMAIN tree[u],
             v[n].pane = tree[u][m].pane, v[n].pane \in PaneId
      PROVE  FALSE
  <2>1. v[n].pane \notin F
    BY <1>4 DEF TreesInv, PanesIssued
  <2>2. PICK k \in DOMAIN tree[t] : tree[t][k].pane = v[n].pane
    BY <1>4, <2>1 DEF OnlyNew
  <2> QED BY <1>4, <2>2 DEF TreesInv, PanesUnique
<1>5. ASSUME NEW a \in TabId, NEW b \in TabId, NEW n \in DOMAIN tree'[a], NEW m \in DOMAIN tree'[b],
             tree'[a][n].pane = tree'[b][m].pane, tree'[a][n].pane \in PaneId
      PROVE  a = b /\ n = m
  <2>1. CASE a = t /\ b = t
    BY <1>1, <1>5, <2>1 DEF GoodTree, OnePane
  <2>2. CASE a = t /\ b # t
    BY <1>1, <1>4, <1>5, <2>2
  <2>3. CASE a # t /\ b = t
    BY <1>1, <1>4, <1>5, <2>3
  <2>4. CASE a # t /\ b # t
    BY <1>1, <1>5, <2>4 DEF TreesInv, PanesUnique
  <2> QED BY <2>1, <2>2, <2>3, <2>4
<1>6. PanesUnique'
  BY <1>5 DEF PanesUnique
<1> QED BY <1>1, <1>2, <1>3, <1>6 DEF TreesInv

\* Every tree is kept or loses panes.
LEMMA TreesShrink ==
    ASSUME TreesInv, DOMAIN tree' = TabId, issued' = issued,
           \A t \in TabId : /\ GoodTree(tree'[t])
                            /\ \A n \in DOMAIN tree'[t] : tree'[t][n].pane \in PaneId =>
                                   n \in DOMAIN tree[t] /\ tree[t][n].pane = tree'[t][n].pane
    PROVE  TreesInv'
<1>1. PanesIssued'
  BY DEF TreesInv, PanesIssued
<1>2. PanesUnique'
  BY DEF TreesInv, PanesUnique
<1> QED BY <1>1, <1>2 DEF TreesInv

LEMMA TreesSame ==
    ASSUME TreesInv, tree' = tree, issued \subseteq issued'
    PROVE  TreesInv'
BY DEF TreesInv, PanesIssued, PanesUnique

LEMMA InitIInv == Init => IInv
<1> SUFFICES ASSUME Init PROVE IInv
  OBVIOUS
<1>1. \A t \in TabId : tree[t] = EmptyTree
  BY DEF Init, NoTree
<1>2. TreesInv
  BY <1>1, EmptyGood DEF Init, TreesInv, PanesUnique, PanesIssued
<1>3. \A t \in TabId : IsTree(tree[t])
  BY <1>2 DEF TreesInv, GoodTree
<1>4. event \in [type : EventTypes, tab : TabId \cup {None}, pane : PaneOrEmpty \cup {None}]
  BY DEF Init, NoEvent, EventTypes
<1>5. TypeOK
  BY <1>3, <1>4 DEF Init, TypeOK, Kinds
<1> QED BY <1>2, <1>5 DEF IInv, TabsOwned, Init

-----------------------------------------------------------------------------
(* Every operation keeps it                                                *)

EventSet == [type : EventTypes, tab : TabId \cup {None}, pane : PaneOrEmpty \cup {None}]

LEMMA EventTyped ==
    ASSUME NEW ty \in EventTypes, NEW t \in TabId \cup {None}, NEW p \in PaneOrEmpty \cup {None},
           Changed(Event(ty, t, p))
    PROVE  event' \in EventSet /\ dirty' \in BOOLEAN
BY DEF Changed, Event, EventSet

LEMMA QuietTyped ==
    ASSUME event' = NoEvent
    PROVE  event' \in EventSet
BY DEF NoEvent, EventSet, EventTypes

LEMMA WindowOfTab ==
    ASSUME TypeOK, NEW t \in LiveTabs
    PROVE  WindowOf(t) \in windows /\ WindowOf(t) \in WindowId /\ t \in tabs[WindowOf(t)] /\ t \in TabId
<1>1. \E w \in windows : t \in tabs[w]
  BY DEF LiveTabs
<1>2. WindowOf(t) \in windows /\ t \in tabs[WindowOf(t)]
  BY <1>1 DEF WindowOf
<1> QED BY <1>2 DEF TypeOK

LEMMA TargetInTree ==
    ASSUME TreesInv, NEW t \in TabId, NEW w, SplitTarget(w, t) # NoPane
    PROVE  SplitTarget(w, t) \in PanesOf(tree[t])
<1>1. Root \in DOMAIN tree[t]
  BY DEF TreesInv, GoodTree, WellFormed
<1>2. tree[t][Root].pane # NoPane => tree[t][Root].pane \in PanesOf(tree[t])
  BY <1>1 DEF PanesOf
<1> QED BY <1>2 DEF SplitTarget

LEMMA AddWindowStep ==
    ASSUME IInv, NEW w \in WindowId, add_window(w)
    PROVE  IInv'
<1>1. TreesInv'
  BY TreesSame DEF IInv, add_window, Issue
<1>2. event' \in EventSet /\ dirty' \in BOOLEAN
  BY EventTyped DEF add_window, EventTypes
<1>3. TypeOK'
  BY <1>2 DEF IInv, TypeOK, add_window, Issue, EventSet, Ids
<1>4. TabsOwned'
  BY DEF IInv, TabsOwned, add_window, Issue
<1> QED BY <1>1, <1>3, <1>4 DEF IInv

LEMMA RemoveWindowStep ==
    ASSUME IInv, NEW w \in WindowId, remove_window(w)
    PROVE  IInv'
<1>1. /\ DOMAIN tree' = TabId /\ issued' = issued
      /\ \A t \in TabId : tree'[t] = IF t \in tabs[w] THEN EmptyTree ELSE tree[t]
  BY DEF remove_window, NoTree
<1>2. TreesInv'
  BY <1>1, EmptyGood, TreesShrink DEF IInv, TreesInv
<1>3. event' \in EventSet /\ dirty' \in BOOLEAN
  BY EventTyped DEF remove_window, EventTypes
<1>4. kind' \in [TabId -> Kinds] /\ tabs' \in [WindowId -> SUBSET TabId]
  BY DEF IInv, TypeOK, remove_window, Kinds
<1>5. focusTab' \in [WindowId -> TabId \cup {None}] /\ focusPane' \in [WindowId -> PaneOrEmpty \cup {None}]
  BY DEF IInv, TypeOK, remove_window
<1>6. TypeOK'
  BY <1>1, <1>2, <1>3, <1>4, <1>5 DEF IInv, TypeOK, remove_window, EventSet, TreesInv, GoodTree
<1>7. TabsOwned'
  BY DEF IInv, TypeOK, TabsOwned, remove_window
<1> QED BY <1>2, <1>6, <1>7 DEF IInv

LEMMA FocusWindowStep ==
    ASSUME IInv, NEW w \in WindowId, rename_window(w) \/ focus_window(w)
    PROVE  IInv'
<1>1. TreesInv'
  BY TreesSame DEF IInv, rename_window, focus_window, structure
<1>2. event' \in EventSet /\ dirty' \in BOOLEAN
  BY EventTyped, QuietTyped DEF rename_window, focus_window, EventTypes, Changed
<1>3. TypeOK'
  BY <1>2 DEF IInv, TypeOK, rename_window, focus_window, structure, EventSet
<1>4. TabsOwned'
  BY DEF IInv, TabsOwned, rename_window, focus_window, structure
<1> QED BY <1>1, <1>3, <1>4 DEF IInv

LEMMA PushTabStep ==
    ASSUME IInv, NEW w \in WindowId, NEW t \in TabId, t \notin issued, NEW k \in Kinds,
           NEW v, GoodTree(v), NEW F \in SUBSET PaneId, F \cap issued = {}, OnlyNew(v, tree[t], F),
           push_tab(w, t, k, v), issued' = issued \cup F \cup {t}
    PROVE  IInv'
<1>1. tree' = [tree EXCEPT ![t] = v]
  BY DEF push_tab
<1>2. TreesInv'
  <2> DEFINE G == F \cup {t}
  <2>1. G \cap issued = {} /\ issued' = issued \cup G /\ OnlyNew(v, tree[t], G)
    BY DEF OnlyNew
  <2> HIDE DEF G
  <2> QED BY <1>1, <2>1, TreeReplaced DEF IInv
<1>3. event' \in EventSet /\ dirty' \in BOOLEAN
  BY EventTyped DEF push_tab, EventTypes
<1>4. kind' \in [TabId -> Kinds] /\ tabs' \in [WindowId -> SUBSET TabId]
  BY DEF IInv, TypeOK, push_tab
<1>5. focusTab' \in [WindowId -> TabId \cup {None}]
  BY DEF IInv, TypeOK, push_tab
<1>6. TypeOK'
  BY <1>2, <1>3, <1>4, <1>5 DEF IInv, TypeOK, push_tab, EventSet, TreesInv, GoodTree, Ids
<1>7. TabsOwned'
  BY DEF IInv, TypeOK, TabsOwned, push_tab
<1> QED BY <1>2, <1>6, <1>7 DEF IInv

LEMMA AddTabStep ==
    ASSUME IInv, NEW w \in WindowId, NEW t \in TabId, NEW p \in PaneId, add_tab(w, t, p)
    PROVE  IInv'
<1>1. t \notin issued /\ p \notin issued /\ push_tab(w, t, "terminal", LeafTree(p)) /\ "terminal" \in Kinds
  BY DEF add_tab, Fresh, Kinds
<1>2. /\ GoodTree(LeafTree(p)) /\ DOMAIN LeafTree(p) = {Root} /\ LeafTree(p)[Root].pane = p
  BY LeafGood DEF PaneOrEmpty
<1>3. OnlyNew(LeafTree(p), tree[t], {p})
  BY <1>2 DEF OnlyNew
<1>4. issued' = issued \cup {p} \cup {t}
  BY DEF add_tab, Issue
<1>5. {p} \in SUBSET PaneId /\ {p} \cap issued = {}
  BY <1>1
<1> QED BY <1>1, <1>2, <1>3, <1>4, <1>5, PushTabStep

LEMMA AddNoteTabStep ==
    ASSUME IInv, NEW w \in WindowId, NEW t \in TabId, add_note_tab(w, t)
    PROVE  IInv'
<1>1. t \notin issued /\ push_tab(w, t, "note", EmptyTree) /\ "note" \in Kinds
  BY DEF add_note_tab, Fresh, Kinds
<1>2. GoodTree(EmptyTree) /\ OnlyNew(EmptyTree, tree[t], {})
  BY EmptyGood
<1>3. issued' = issued \cup {} \cup {t} /\ {} \in SUBSET PaneId /\ {} \cap issued = {}
  BY DEF add_note_tab, Issue
<1> QED BY <1>1, <1>2, <1>3, PushTabStep

LEMMA RemoveTabStep ==
    ASSUME IInv, NEW w \in WindowId, NEW t \in TabId, remove_tab(w, t)
    PROVE  IInv'
<1>1. /\ DOMAIN tree' = TabId /\ issued' = issued
      /\ \A u \in TabId : tree'[u] = EmptyTree \/ tree'[u] = tree[u]
  BY DEF remove_tab, NoTree, IInv, TypeOK
<1>2. TreesInv'
  BY <1>1, EmptyGood, TreesShrink DEF IInv, TreesInv
<1>3. event' \in EventSet /\ dirty' \in BOOLEAN
  BY EventTyped DEF remove_tab, EventTypes
<1>4. kind' \in [TabId -> Kinds] /\ tabs' \in [WindowId -> SUBSET TabId]
  BY DEF IInv, TypeOK, remove_tab, Kinds
<1>5. focusTab' \in [WindowId -> TabId \cup {None}]
  BY DEF IInv, TypeOK, remove_tab
<1>6. TypeOK'
  BY <1>1, <1>2, <1>3, <1>4, <1>5 DEF IInv, TypeOK, remove_tab, EventSet, TreesInv, GoodTree
<1>7. TabsOwned'
  BY DEF IInv, TypeOK, TabsOwned, remove_tab
<1> QED BY <1>2, <1>6, <1>7 DEF IInv

LEMMA FocusTabStep ==
    ASSUME IInv, NEW w \in WindowId, NEW t \in TabId, set_tab_note_state(w, t) \/ focus_tab(w, t)
    PROVE  IInv'
<1>1. TreesInv'
  BY TreesSame DEF IInv, set_tab_note_state, focus_tab, structure
<1>2. event' \in EventSet /\ dirty' \in BOOLEAN
  BY QuietTyped DEF set_tab_note_state, focus_tab, Changed
<1>3. focusTab' \in [WindowId -> TabId \cup {None}]
  BY DEF IInv, TypeOK, set_tab_note_state, focus_tab, structure
<1>4. TypeOK'
  BY <1>2, <1>3 DEF IInv, TypeOK, set_tab_note_state, focus_tab, structure, EventSet
<1>5. TabsOwned'
  BY DEF IInv, TabsOwned, set_tab_note_state, focus_tab, structure
<1> QED BY <1>1, <1>4, <1>5 DEF IInv

LEMMA SplitPaneStep ==
    ASSUME IInv, NEW t \in TabId, NEW k \in SplitKinds, NEW r \in Ratios, NEW p \in PaneId,
           split_pane(t, k, r, p)
    PROVE  IInv'
<1> DEFINE w == WindowOf(t)
           target == SplitTarget(w, t)
<1>1. /\ t \in LiveTabs /\ p \notin issued
      /\ tree' = IF target = NoPane THEN tree
                 ELSE [tree EXCEPT ![t] = SplitAt(tree[t], NodeOf(tree[t], target), k, r, p)]
      /\ focusPane' = [focusPane EXCEPT ![w] = p]
      /\ issued' = issued \cup {p} /\ Changed(Event("PaneSplit", t, p))
      /\ UNCHANGED <<windows, focusWindow, tabs, focusTab, kind>>
  BY DEF split_pane, Fresh, Issue
<1>2. w \in WindowId
  BY <1>1, WindowOfTab DEF IInv
<1> HIDE DEF w, target
<1>3. TreesInv'
  <2>1. CASE target = NoPane
    BY <1>1, <2>1, TreesSame DEF IInv
  <2>2. CASE target # NoPane
    <3> DEFINE n == NodeOf(tree[t], target)
    <3>1. GoodTree(tree[t]) /\ target \in PanesOf(tree[t]) /\ target # NoPane
      BY <2>2, TargetInTree DEF IInv, TreesInv, target
    <3>2. n \in DOMAIN tree[t] /\ tree[t][n].pane = target /\ IsLeaf(tree[t], n)
      BY <3>1, NodeOfPane
    <3>3. \A m \in DOMAIN tree[t] : tree[t][m].pane # p
      BY <1>1 DEF IInv, TreesInv, PanesIssued
    <3> HIDE DEF n
    <3> DEFINE v == SplitAt(tree[t], n, k, r, p)
    <3>4. GoodTree(v) /\ OnlyNew(v, tree[t], {p})
      BY <3>1, <3>2, <3>3, SplitGood
    <3>5. tree' = [tree EXCEPT ![t] = v] /\ {p} \cap issued = {}
      BY <1>1, <2>2 DEF n
    <3> HIDE DEF v
    <3> QED BY <1>1, <3>4, <3>5, TreeReplaced DEF IInv
  <2> QED BY <2>1, <2>2
<1>4. event' \in EventSet /\ dirty' \in BOOLEAN
  BY <1>1, EventTyped DEF EventTypes, PaneOrEmpty
<1>5. focusPane' \in [WindowId -> PaneOrEmpty \cup {None}]
  BY <1>1, <1>2 DEF IInv, TypeOK, PaneOrEmpty
<1>6. TypeOK'
  BY <1>1, <1>3, <1>4, <1>5 DEF IInv, TypeOK, EventSet, TreesInv, GoodTree, Ids
<1>7. TabsOwned'
  BY <1>1 DEF IInv, TabsOwned
<1> QED BY <1>3, <1>6, <1>7 DEF IInv

LEMMA RemovePaneStep ==
    ASSUME IInv, NEW t \in TabId, NEW p \in PaneOrEmpty, remove_pane(t, p)
    PROVE  IInv'
<1> DEFINE v == RemoveLeaf(tree[t], p)
<1>1. /\ t \in LiveTabs /\ p \in PanesOf(tree[t]) /\ tree' = [tree EXCEPT ![t] = v]
      /\ focusPane' = [focusPane EXCEPT ![WindowOf(t)] = IF @ = p THEN None ELSE @]
      /\ Changed(Event("PaneRemoved", t, p))
      /\ UNCHANGED <<windows, focusWindow, tabs, focusTab, kind, issued>>
  BY DEF remove_pane
<1>2. GoodTree(v) /\ OnlyNew(v, tree[t], {})
  BY <1>1, RemoveGood DEF IInv, TreesInv
<1> HIDE DEF v
<1>3. TreesInv'
  <2>1. issued' = issued \cup {} /\ {} \cap issued = {}
    BY <1>1
  <2> QED BY <1>1, <1>2, <2>1, TreeReplaced DEF IInv
<1>4. event' \in EventSet /\ dirty' \in BOOLEAN
  BY <1>1, EventTyped DEF EventTypes
<1>5. focusPane' \in [WindowId -> PaneOrEmpty \cup {None}]
  BY <1>1 DEF IInv, TypeOK
<1>6. TypeOK'
  BY <1>1, <1>3, <1>4, <1>5 DEF IInv, TypeOK, EventSet, TreesInv, GoodTree
<1>7. TabsOwned'
  BY <1>1 DEF IInv, TabsOwned
<1> QED BY <1>3, <1>6, <1>7 DEF IInv

LEMMA FocusPaneStep ==
    ASSUME IInv, NEW t \in TabId, NEW p \in PaneOrEmpty, focus_pane(t, p)
    PROVE  IInv'
<1>1. TreesInv'
  BY TreesSame DEF IInv, focus_pane
<1>2. event' \in EventSet /\ dirty' \in BOOLEAN
  BY QuietTyped DEF focus_pane, Changed
<1>3. focusPane' \in [WindowId -> PaneOrEmpty \cup {None}]
  BY DEF IInv, TypeOK, focus_pane
<1>4. TypeOK'
  BY <1>2, <1>3 DEF IInv, TypeOK, focus_pane, EventSet
<1>5. TabsOwned'
  BY DEF IInv, TabsOwned, focus_pane
<1> QED BY <1>1, <1>4, <1>5 DEF IInv

LEMMA SetRatioStep ==
    ASSUME IInv, NEW t \in TabId, NEW p \in PaneOrEmpty, NEW r \in Ratios, set_pane_ratio(t, p, r)
    PROVE  IInv'
<1> DEFINE v == SetRatio(tree[t], p, r)
<1>1. /\ p \in PanesOf(tree[t]) /\ NodeOf(tree[t], p) # Root /\ tree' = [tree EXCEPT ![t] = v]
      /\ Changed(Event("PaneResized", t, p))
      /\ UNCHANGED <<windows, focusWindow, tabs, focusTab, focusPane, kind, issued>>
  BY DEF set_pane_ratio
<1>2. GoodTree(v) /\ OnlyNew(v, tree[t], {})
  BY <1>1, SetRatioGood DEF IInv, TreesInv
<1> HIDE DEF v
<1>3. TreesInv'
  <2>1. issued' = issued \cup {} /\ {} \cap issued = {}
    BY <1>1
  <2> QED BY <1>1, <1>2, <2>1, TreeReplaced DEF IInv
<1>4. event' \in EventSet /\ dirty' \in BOOLEAN
  BY <1>1, EventTyped DEF EventTypes
<1>5. TypeOK'
  BY <1>1, <1>3, <1>4 DEF IInv, TypeOK, EventSet, TreesInv, GoodTree
<1>6. TabsOwned'
  BY <1>1 DEF IInv, TabsOwned
<1> QED BY <1>3, <1>5, <1>6 DEF IInv

LEMMA PersistStep ==
    ASSUME IInv, persist
    PROVE  IInv'
<1>1. TreesInv'
  BY TreesSame DEF IInv, persist, structure
<1>2. event' \in EventSet
  BY QuietTyped DEF persist
<1>3. TypeOK'
  BY <1>2 DEF IInv, TypeOK, persist, structure, EventSet
<1> QED BY <1>1, <1>3 DEF IInv, TabsOwned, persist, structure

LEMMA ReopenStep ==
    ASSUME IInv, reopen
    PROVE  IInv'
<1>1. /\ DOMAIN tree' = TabId /\ issued' = issued
      /\ \A t \in TabId : tree'[t] = EmptyTree \/ tree'[t] = JsonRoundTrip(tree[t])
  BY DEF reopen, NoTree
<1>2. ASSUME NEW t \in TabId
      PROVE  /\ GoodTree(tree'[t])
             /\ \A n \in DOMAIN tree'[t] : tree'[t][n].pane \in PaneId =>
                    n \in DOMAIN tree[t] /\ tree[t][n].pane = tree'[t][n].pane
  <2>1. CASE tree'[t] = EmptyTree
    BY <2>1, EmptyGood
  <2>2. CASE tree'[t] = JsonRoundTrip(tree[t])
    <3>1. GoodTree(tree[t]) /\ EmptyId \notin PaneId
      BY PaneTreeAssumption DEF IInv, TreesInv
    <3> QED BY <2>2, <3>1, JsonGood
  <2> QED BY <1>1, <2>1, <2>2
<1>3. TreesInv'
  BY <1>1, <1>2, TreesShrink DEF IInv
<1>4. event' \in EventSet
  BY QuietTyped DEF reopen
<1>5. TypeOK'
  BY <1>1, <1>3, <1>4 DEF IInv, TypeOK, reopen, EventSet, TreesInv, GoodTree
<1> QED BY <1>3, <1>5 DEF IInv, TabsOwned, reopen

LEMMA NextIInv == IInv /\ [Next]_vars => IInv'
<1> SUFFICES ASSUME IInv, [Next]_vars PROVE IInv'
  OBVIOUS
<1>1. CASE UNCHANGED vars
  <2>1. TreesInv'
    BY <1>1, TreesSame DEF IInv, vars, structure
  <2> QED BY <1>1, <2>1 DEF IInv, TypeOK, TabsOwned, vars, structure
<1>2. CASE Next
  BY <1>2, AddWindowStep, RemoveWindowStep, FocusWindowStep, AddTabStep, AddNoteTabStep, RemoveTabStep,
     FocusTabStep, SplitPaneStep, RemovePaneStep, FocusPaneStep, SetRatioStep, PersistStep, ReopenStep
     DEF Next, PaneOrEmpty
<1> QED BY <1>1, <1>2

LEMMA IInvHolds == Spec => []IInv
BY InitIInv, NextIInv, PTL DEF Spec

-----------------------------------------------------------------------------
(* The workspace structure has the types of Workspace, Window and Tab,     *)
(* whatever calls are made with whatever ids.                              *)
THEOREM TypeCorrect == Spec => []TypeOK
<1>1. IInv => TypeOK
  BY DEF IInv
<1> QED BY <1>1, IInvHolds, PTL

(* After any sequence of calls every pane tree is well formed (two sides   *)
(* to every split, no empty side) and every pane sits in exactly one leaf  *)
(* of one tab, for any number of windows, tabs and panes.                  *)
THEOREM StructureSound == Spec => []TreesWellFormed
<1>1. IInv => TreesWellFormed
  <2> SUFFICES ASSUME IInv PROVE TreesWellFormed
    OBVIOUS
  <2>1. LiveTabs \subseteq TabId
    BY WindowOfTab DEF IInv
  <2>2. \A t \in TabId : WellFormed(tree[t])
    BY DEF IInv, TreesInv, GoodTree
  <2> QED BY <2>1, <2>2 DEF IInv, TreesInv, PanesUnique, TreesWellFormed
<1> QED BY <1>1, IInvHolds, PTL

-----------------------------------------------------------------------------
(* No operation reorders the panes that stay                               *)

LEMMA LayoutOfTab ==
    ASSUME NEW t, GoodTree(tree[t]), GoodTree(tree'[t]), SameOrder(tree[t], tree'[t]),
           \A a \in PaneId : a \in PanesOf(tree[t]) /\ a \notin PanesOf(tree'[t]) =>
               event'.type = "PaneRemoved" /\ event'.tab = t /\ a = event'.pane,
           \A a \in PaneId : a \in PanesOf(tree'[t]) /\ a \notin PanesOf(tree[t]) =>
               event'.type = "PaneSplit" /\ event'.tab = t /\ a = event'.pane
    PROVE  KeepsLayout(t)
<1> DEFINE before == PanesOf(tree[t]) \ {EmptyId}
           after  == PanesOf(tree'[t]) \ {EmptyId}
<1>1. before \subseteq PaneId /\ after \subseteq PaneId
  BY PanesTyped
<1>2. LeftOf(tree[t]) \cap ((before \cap after) \X (before \cap after))
      = LeftOf(tree'[t]) \cap ((before \cap after) \X (before \cap after))
  <2> DEFINE S == before \cap after
  <2>1. S = (PanesOf(tree[t]) \ {EmptyId}) \cap (PanesOf(tree'[t]) \ {EmptyId})
    OBVIOUS
  <2> HIDE DEF S
  <2>2. LeftOf(tree[t]) \cap (S \X S) = LeftOf(tree'[t]) \cap (S \X S)
    BY <2>1, OrderSame
  <2> QED BY <2>2 DEF S
<1>3. before \ after \subseteq
          IF event'.type = "PaneRemoved" /\ event'.tab = t THEN {event'.pane} ELSE {}
  BY <1>1
<1>4. after \ before \subseteq
          IF event'.type = "PaneSplit" /\ event'.tab = t THEN {event'.pane} ELSE {}
  BY <1>1
<1> QED BY <1>2, <1>3, <1>4 DEF KeepsLayout

\* A tab whose tree is emptied or set by one of these calls is not live
\* both before and after.
LEMMA TabCallsLayout ==
    ASSUME IInv, NEW w \in WindowId, NEW t \in LiveTabs \cap LiveTabs', tree'[t] # tree[t],
           \/ remove_window(w)
           \/ \E u \in TabId : \E k, v : u \notin issued /\ push_tab(w, u, k, v)
           \/ \E u \in TabId : remove_tab(w, u)
    PROVE  FALSE
<1>0. PICK x \in windows : t \in tabs[x]
  BY DEF LiveTabs
<1>1. PICK y \in windows' : t \in tabs'[y]
  BY DEF LiveTabs
<1>2. x \in WindowId /\ t \in TabId /\ t \in issued
  BY <1>0 DEF IInv, TypeOK, TabsOwned
<1>3. CASE remove_window(w)
  <2>1. t \in tabs[w] /\ y \in WindowId /\ y # w
    BY <1>1, <1>2, <1>3 DEF remove_window, IInv, TypeOK
  <2>2. t \in tabs[y]
    BY <1>1, <1>3, <2>1 DEF remove_window, IInv, TypeOK
  <2> QED BY <1>2, <2>1, <2>2 DEF IInv, TabsOwned
<1>4. ASSUME NEW u \in TabId, NEW k, NEW v, u \notin issued, push_tab(w, u, k, v)
      PROVE  FALSE
  BY <1>2, <1>4 DEF push_tab, IInv, TypeOK
<1>5. ASSUME NEW u \in TabId, remove_tab(w, u)
      PROVE  FALSE
  <2>1. t = u /\ t \in tabs[w] /\ y \in WindowId
    BY <1>1, <1>2, <1>5 DEF remove_tab, IInv, TypeOK, NoTree
  <2>2. t \in tabs[y] /\ y # w
    BY <1>1, <1>5, <2>1 DEF remove_tab, IInv, TypeOK
  <2> QED BY <1>2, <2>1, <2>2 DEF IInv, TabsOwned
<1> QED BY <1>3, <1>4, <1>5

LEMMA SplitPaneLayout ==
    ASSUME IInv, IInv', NEW t \in TabId, NEW k \in SplitKinds, NEW r \in Ratios, NEW p \in PaneId,
           split_pane(t, k, r, p), NEW u \in TabId, tree'[u] # tree[u]
    PROVE  KeepsLayout(u)
<1> DEFINE target == SplitTarget(WindowOf(t), t)
           l == NodeOf(tree[t], target)
<1>1. /\ p \notin issued
      /\ tree' = IF target = NoPane THEN tree ELSE [tree EXCEPT ![t] = SplitAt(tree[t], l, k, r, p)]
      /\ event' = Event("PaneSplit", t, p)
  BY DEF split_pane, Fresh, Changed
<1>2. u = t /\ target # NoPane /\ tree'[t] = SplitAt(tree[t], l, k, r, p)
  BY <1>1 DEF IInv, TreesInv
<1>3. GoodTree(tree[t]) /\ GoodTree(tree'[t])
  BY DEF IInv, TreesInv
<1>4. target \in PanesOf(tree[t])
  BY <1>2, TargetInTree DEF IInv
<1>5. l \in DOMAIN tree[t] /\ IsLeaf(tree[t], l) /\ tree[t][l].pane = target
  BY <1>3, <1>4, NodeOfPane
<1>6. \A m \in DOMAIN tree[t] : tree[t][m].pane # p
  BY <1>1 DEF IInv, TreesInv, PanesIssued
<1> HIDE DEF target, l
<1>7. SameOrder(tree[t], tree'[t])
  BY <1>2, <1>3, <1>5, <1>6, SplitOrder
<1>8. OnlyNew(tree'[t], tree[t], {p})
  BY <1>2, <1>3, <1>5, <1>6, SplitGood
<1>9. PanesOf(tree[t]) \subseteq PanesOf(tree'[t])
  BY <1>2, <1>3, <1>5, SplitKeeps
<1>10. \A a \in PaneId : a \in PanesOf(tree'[t]) /\ a \notin PanesOf(tree[t]) => a = p
  BY <1>8, NewPanes
<1>11. event'.type = "PaneSplit" /\ event'.tab = t /\ event'.pane = p
  BY <1>1 DEF Event
<1> QED BY <1>2, <1>3, <1>7, <1>9, <1>10, <1>11, LayoutOfTab

LEMMA RemovePaneLayout ==
    ASSUME IInv, IInv', NEW t \in TabId, NEW p \in PaneOrEmpty, remove_pane(t, p),
           NEW u \in TabId, tree'[u] # tree[u]
    PROVE  KeepsLayout(u)
<1>1. /\ p \in PanesOf(tree[t]) /\ tree' = [tree EXCEPT ![t] = RemoveLeaf(tree[t], p)]
      /\ event' = Event("PaneRemoved", t, p)
  BY DEF remove_pane, Changed
<1>2. u = t /\ tree'[t] = RemoveLeaf(tree[t], p)
  BY <1>1 DEF IInv, TreesInv
<1>3. GoodTree(tree[t]) /\ GoodTree(tree'[t])
  BY DEF IInv, TreesInv
<1>4. /\ SameOrder(tree[t], tree'[t])
      /\ \A a \in PaneId : a \in PanesOf(tree[t]) /\ a \notin PanesOf(tree'[t]) => a = p
  BY <1>1, <1>2, <1>3, RemoveOrder
<1>5. OnlyNew(tree'[t], tree[t], {})
  BY <1>1, <1>2, <1>3, RemoveGood
<1>6. \A a \in PaneId : a \in PanesOf(tree'[t]) => a \in PanesOf(tree[t])
  BY <1>5, NewPanes
<1>7. event'.type = "PaneRemoved" /\ event'.tab = t /\ event'.pane = p
  BY <1>1 DEF Event
<1> QED BY <1>2, <1>3, <1>4, <1>6, <1>7, LayoutOfTab

LEMMA RatioLayout ==
    ASSUME IInv, IInv', NEW t \in TabId, NEW p \in PaneOrEmpty, NEW r \in Ratios, set_pane_ratio(t, p, r),
           NEW u \in TabId, tree'[u] # tree[u]
    PROVE  KeepsLayout(u)
<1>1. /\ p \in PanesOf(tree[t]) /\ NodeOf(tree[t], p) # Root
      /\ tree' = [tree EXCEPT ![t] = SetRatio(tree[t], p, r)]
  BY DEF set_pane_ratio
<1>2. u = t /\ tree'[t] = SetRatio(tree[t], p, r)
  BY <1>1 DEF IInv, TreesInv
<1>3. GoodTree(tree[t]) /\ GoodTree(tree'[t])
  BY DEF IInv, TreesInv
<1>4. DOMAIN tree'[t] = DOMAIN tree[t] /\ \A m \in DOMAIN tree[t] : tree'[t][m].pane = tree[t][m].pane
  BY <1>1, <1>2, <1>3, SetRatioGood
<1>5. SameOrder(tree[t], tree'[t])
  BY <1>3, <1>4, SameNodesOrder
<1>6. PanesOf(tree'[t]) = PanesOf(tree[t])
  BY <1>4 DEF PanesOf
<1> QED BY <1>2, <1>3, <1>5, <1>6, LayoutOfTab

LEMMA ReopenLayout ==
    ASSUME IInv, IInv', reopen, NEW t \in TabId, t \in LiveTabs
    PROVE  KeepsLayout(t)
<1>1. tree'[t] = JsonRoundTrip(tree[t])
  BY DEF reopen
<1>2. GoodTree(tree[t]) /\ GoodTree(tree'[t])
  BY DEF IInv, TreesInv
<1>3. /\ DOMAIN tree'[t] = DOMAIN tree[t]
      /\ \A m \in DOMAIN tree[t] : \/ tree'[t][m].pane = tree[t][m].pane
                                   \/ tree[t][m].pane = NoPane /\ tree'[t][m].pane = EmptyId
  BY <1>1, <1>2, JsonGood
<1>4. SameOrder(tree[t], tree'[t])
  BY <1>2, <1>3, SameNodesOrder, PaneTreeAssumption
<1>5. \A a \in PaneId : a \in PanesOf(tree[t]) <=> a \in PanesOf(tree'[t])
  BY <1>3, SamePanes
<1> QED BY <1>2, <1>4, <1>5, LayoutOfTab

LEMMA NextLayout == IInv /\ IInv' /\ [Next]_vars => [LayoutStep]_vars
<1> SUFFICES ASSUME IInv, IInv', Next, NEW t \in LiveTabs \cap LiveTabs', tree'[t] # tree[t]
             PROVE  KeepsLayout(t)
  BY DEF LayoutStep
<1>0. t \in TabId
  BY WindowOfTab DEF IInv
<1>1. ASSUME NEW w \in WindowId, add_window(w) \/ rename_window(w) \/ focus_window(w)
      PROVE  FALSE
  BY <1>1 DEF add_window, rename_window, focus_window, structure
<1>2. ASSUME NEW w \in WindowId, remove_window(w)
      PROVE  FALSE
  BY <1>2, TabCallsLayout
<1>3. ASSUME NEW w \in WindowId, NEW u \in TabId,
             add_note_tab(w, u) \/ \E p \in PaneId : add_tab(w, u, p)
      PROVE  FALSE
  <2>1. \E k, v : u \notin issued /\ push_tab(w, u, k, v)
    BY <1>3 DEF add_note_tab, add_tab, Fresh
  <2> QED BY <2>1, TabCallsLayout
<1>4. ASSUME NEW w \in WindowId, NEW u \in TabId, set_tab_note_state(w, u) \/ focus_tab(w, u)
      PROVE  FALSE
  BY <1>4 DEF set_tab_note_state, focus_tab, structure
<1>5. ASSUME NEW w \in WindowId, NEW u \in TabId, remove_tab(w, u)
      PROVE  FALSE
  BY <1>5, TabCallsLayout
<1>6. ASSUME NEW u \in TabId, NEW p \in PaneOrEmpty, focus_pane(u, p)
      PROVE  FALSE
  BY <1>6 DEF focus_pane
<1>7. ASSUME persist
      PROVE  FALSE
  BY <1>7 DEF persist, structure
<1> QED BY <1>0, <1>1, <1>2, <1>3, <1>4, <1>5, <1>6, <1>7, SplitPaneLayout, RemovePaneLayout,
           RatioLayout, ReopenLayout DEF Next, PaneOrEmpty

(* No call reorders, drops or renames the panes of a living tab: what was  *)
(* left of a pane stays left of it under every split, close, resize and    *)
(* reload, for trees of every size, and only remove_pane of a pane takes   *)
(* it out.                                                                 *)
THEOREM LayoutStable == Spec => LayoutOrderKept
BY IInvHolds, NextLayout, PTL DEF Spec, LayoutOrderKept
=============================================================================
