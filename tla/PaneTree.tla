------------------------------ MODULE PaneTree ------------------------------
(***************************************************************************)
(* The pane tree of a terminal tab (core/pane/pane.hpp) and the tree       *)
(* surgery of WorkspaceCore (core/workspace_core.cpp).                     *)
(*                                                                         *)
(* A tree is a function on its nodes.  A node is the path from the root:   *)
(* <<>> is the root, n \o <<1>> the first and n \o <<2>> the second child  *)
(* of n.  A node carries the three fields of the class that survive a      *)
(* copy: kind, pane and ratio; the children are given by the domain.       *)
(***************************************************************************)
EXTENDS Naturals, Sequences

CONSTANTS
    NoPane,     \* pane_ == std::nullopt
    EmptyId,    \* the id of a default-constructed Pane{}: PaneId{}
    HalfRatio,  \* the default ratio_ of a node, 0.5
    PaneId,     \* the ids Id::generate() can still hand out to panes
    Ratios      \* the ratios callers pass, all within 0..1

ASSUME PaneTreeAssumption ==
    /\ HalfRatio \in Ratios
    /\ NoPane \notin PaneId /\ EmptyId \notin PaneId /\ NoPane # EmptyId

SplitKinds == {"horizontal", "vertical"}

Leaf(p) == [kind |-> "pane", pane |-> p, ratio |-> HalfRatio]
SplitNode(kind, ratio) == [kind |-> kind, pane |-> NoPane, ratio |-> ratio]

Root == << >>
First(n) == Append(n, 1)
Second(n) == Append(n, 2)
Parent(n) == SubSeq(n, 1, Len(n) - 1)
Sibling(n) == Append(Parent(n), 3 - n[Len(n)])

IsUnder(n, m) == Len(m) >= Len(n) /\ SubSeq(m, 1, Len(n)) = n

\* PaneTree::leaf, and the default-constructed PaneTree{} that
\* remove_pane_from_tree leaves behind and that every note tab holds.
LeafTree(p) == [n \in {Root} |-> Leaf(p)]
EmptyTree == LeafTree(NoPane)

IsLeaf(t, n) == t[n].kind = "pane"

\* collect_panes, as a set.
PanesOf(t) == {t[n].pane : n \in DOMAIN t} \ {NoPane}

NodeOf(t, p) == CHOOSE n \in DOMAIN t : t[n].pane = p

SplitAt(t, n, kind, ratio, p) ==
    [m \in DOMAIN t \cup {First(n), Second(n)} |->
        CASE m = n         -> SplitNode(kind, ratio)
          [] m = First(n)  -> t[n]
          [] m = Second(n) -> Leaf(p)
          [] OTHER         -> t[m]]

(***************************************************************************)
(* remove_pane_from_tree: a lone leaf becomes the empty node; otherwise    *)
(* the sibling subtree replaces the split.  (The sibling of a removed leaf *)
(* is never itself empty: WellFormed.)                                     *)
(***************************************************************************)
Promote(t, s) ==
    LET q == Parent(s)
        To(m)   == q \o SubSeq(m, Len(s) + 1, Len(m))
        From(m) == s \o SubSeq(m, Len(q) + 1, Len(m))
        kept  == {m \in DOMAIN t : ~IsUnder(q, m)}
        moved == {To(m) : m \in {k \in DOMAIN t : IsUnder(s, k)}}
    IN  [m \in kept \cup moved |-> IF m \in kept THEN t[m] ELSE t[From(m)]]

\* Mutant: the leaf goes, its split stays.
RemoveLeafOnly(t, p) ==
    IF NodeOf(t, p) = Root THEN EmptyTree
    ELSE [m \in DOMAIN t \ {NodeOf(t, p)} |-> t[m]]

\* Mutant: of a split sibling only the first child is promoted.
RemoveLeafDropsSubtree(t, p) ==
    LET s == Sibling(NodeOf(t, p))
    IN  IF NodeOf(t, p) = Root THEN EmptyTree
        ELSE IF IsLeaf(t, s) THEN Promote(t, s)
        ELSE Promote(Promote(t, s), First(Parent(s)))

RemoveLeaf(t, p) ==
    IF NodeOf(t, p) = Root THEN EmptyTree ELSE Promote(t, Sibling(NodeOf(t, p)))

(***************************************************************************)
(* set_split_ratio: the direct parent of the leaf, none for a lone leaf.   *)
(***************************************************************************)
SetRatio(t, p, ratio) == [t EXCEPT ![Parent(NodeOf(t, p))].ratio = ratio]

(***************************************************************************)
(* pane_tree_from_json(pane_tree_to_json(t)): an empty tree is written as  *)
(* kind "empty" and read back as a leaf holding a default Pane{}.          *)
(***************************************************************************)
JsonRoundTrip(t) == [n \in DOMAIN t |-> IF IsLeaf(t, n) /\ t[n].pane = NoPane
                                        THEN Leaf(EmptyId) ELSE t[n]]

-----------------------------------------------------------------------------
(* The types of a tree: its nodes are paths, each with its three fields.   *)
PaneOrEmpty == PaneId \cup {EmptyId}
NodeLabel == [kind : {"pane"} \cup SplitKinds, pane : PaneOrEmpty \cup {NoPane}, ratio : Ratios]
Path == Seq({1, 2})
IsTree(t) == /\ DOMAIN t \subseteq Path
             /\ Root \in DOMAIN t
             /\ \A n \in DOMAIN t : t[n] \in NodeLabel
             /\ t = [n \in DOMAIN t |-> t[n]]

(* What a pane tree must be: every split has exactly two children, a leaf  *)
(* has none, and the empty node occurs only as the whole tree.             *)
WellFormed(t) ==
    /\ Root \in DOMAIN t
    /\ \A n \in DOMAIN t :
        /\ n # Root => Parent(n) \in DOMAIN t /\ Sibling(n) \in DOMAIN t
        /\ IF IsLeaf(t, n)
           THEN /\ First(n) \notin DOMAIN t /\ Second(n) \notin DOMAIN t
                /\ t[n].pane = NoPane => n = Root
           ELSE /\ t[n].kind \in SplitKinds /\ t[n].pane = NoPane
                /\ First(n) \in DOMAIN t /\ Second(n) \in DOMAIN t

(* No pane occurs twice.                                                   *)
OnePane(t) == \A n, m \in DOMAIN t : t[n].pane = t[m].pane /\ t[n].pane \in PaneId => n = m

GoodTree(t) == IsTree(t) /\ WellFormed(t) /\ OnePane(t)

(* Left-to-right order of the leaves: the order of collect_panes.          *)
Before(n, m) == \E i \in 1..Len(n) :
                    /\ i <= Len(m) /\ n[i] < m[i]
                    /\ \A j \in 1..(i - 1) : n[j] = m[j]

LeftOf(t) ==
    {<<t[d[1]].pane, t[d[2]].pane>> :
        d \in {e \in (DOMAIN t) \X (DOMAIN t) :
                   IsLeaf(t, e[1]) /\ IsLeaf(t, e[2]) /\ Before(e[1], e[2])}}
=============================================================================
