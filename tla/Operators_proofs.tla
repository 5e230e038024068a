------------------------- MODULE Operators_proofs -------------------------
(***************************************************************************)
(* Lemmas about the operators the models are built from, for trees and     *)
(* sequences of every size: splitting and removing keep a pane tree well   *)
(* formed, keep each pane in one leaf, and keep the order of the panes     *)
(* that stay; filtering a sequence goes with appending, erasing, filtering *)
(* again and concatenating.                                                *)
(***************************************************************************)
EXTENDS PaneTree, SeqFilter, SequencesExt, SequenceTheorems, WellFoundedInduction, TLAPS

-----------------------------------------------------------------------------
(* Paths                                                                   *)

LEMMA PathAppend ==
    ASSUME NEW n \in Path, NEW i \in {1, 2}
    PROVE  /\ Append(n, i) \in Path /\ Append(n, i) # Root
           /\ Len(Append(n, i)) = Len(n) + 1 /\ Len(n) \in Nat
           /\ Parent(Append(n, i)) = n
           /\ Sibling(Append(n, i)) = Append(n, 3 - i)
<1> USE DEF Path, Root
<1>1. /\ Append(n, i) \in Path /\ Append(n, i) # Root /\ Len(n) \in Nat
      /\ Len(Append(n, i)) = Len(n) + 1 /\ Append(n, i)[Len(n) + 1] = i
      /\ \A j \in 1..Len(n) : Append(n, i)[j] = n[j]
  BY AppendProperties
<1>2. Parent(Append(n, i)) = n
  <2>1. SubSeq(Append(n, i), 1, Len(n)) \in Path /\ Len(SubSeq(Append(n, i), 1, Len(n))) = Len(n)
    BY <1>1
  <2>2. \A j \in 1..Len(n) : SubSeq(Append(n, i), 1, Len(n))[j] = n[j]
    BY <1>1
  <2>3. SubSeq(Append(n, i), 1, Len(n)) = n
    BY <2>1, <2>2, SeqEqual
  <2> QED BY <1>1, <2>3 DEF Parent
<1> QED BY <1>1, <1>2 DEF Sibling

LEMMA PathCases ==
    ASSUME NEW n \in Path, n # Root
    PROVE  \E m \in Path, i \in {1, 2} : n = Append(m, i)
BY SequenceEmptyOrAppend DEF Path, Root

LEMMA PathInjective ==
    ASSUME NEW n \in Path, NEW m \in Path, NEW i \in {1, 2}, NEW j \in {1, 2}
    PROVE  Append(n, i) = Append(m, j) <=> n = m /\ i = j
BY AppendInjective DEF Path

LEMMA SiblingFacts ==
    ASSUME NEW n \in Path, n # Root
    PROVE  /\ Sibling(n) \in Path /\ Sibling(n) # Root /\ Sibling(n) # n
           /\ Parent(Sibling(n)) = Parent(n) /\ Sibling(Sibling(n)) = n
           /\ Parent(n) \in Path /\ Len(Parent(n)) = Len(n) - 1 /\ Len(Sibling(n)) = Len(n)
<1>1. PICK m \in Path, i \in {1, 2} : n = Append(m, i)
  BY PathCases
<1>2. 3 - i \in {1, 2} /\ 3 - i # i /\ 3 - (3 - i) = i
  OBVIOUS
<1>3. Append(m, 3 - i) # Append(m, i)
  BY <1>2, PathInjective
<1>4. /\ Parent(n) = m /\ Len(n) = Len(m) + 1 /\ Len(m) \in Nat
      /\ Sibling(n) = Append(m, 3 - i)
  BY <1>1, PathAppend
<1> DEFINE k == 3 - i
<1>5. /\ Append(m, k) \in Path /\ Append(m, k) # Root /\ Parent(Append(m, k)) = m
      /\ Len(Append(m, k)) = Len(m) + 1 /\ Sibling(Append(m, k)) = Append(m, 3 - k)
  BY <1>2, PathAppend
<1> QED BY <1>1, <1>2, <1>3, <1>4, <1>5

\* Being under a node means being reached from it.
LEMMA UnderConcat ==
    ASSUME NEW n \in Path, NEW r \in Path
    PROVE  /\ n \o r \in Path /\ IsUnder(n, n \o r)
           /\ SubSeq(n \o r, Len(n) + 1, Len(n \o r)) = r
           /\ Len(n \o r) = Len(n) + Len(r)
<1> USE DEF Path
<1>1. /\ n \o r \in Path /\ Len(n \o r) = Len(n) + Len(r) /\ Len(n) \in Nat /\ Len(r) \in Nat
      /\ \A i \in 1..Len(n) + Len(r) : (n \o r)[i] = IF i <= Len(n) THEN n[i] ELSE r[i - Len(n)]
  BY ConcatProperties
<1>2. SubSeq(n \o r, 1, Len(n)) = n
  <2>1. SubSeq(n \o r, 1, Len(n)) \in Path /\ Len(SubSeq(n \o r, 1, Len(n))) = Len(n)
    BY <1>1
  <2>2. \A i \in 1..Len(n) : SubSeq(n \o r, 1, Len(n))[i] = n[i]
    BY <1>1
  <2> QED BY <2>1, <2>2, SeqEqual
<1>3. SubSeq(n \o r, Len(n) + 1, Len(n \o r)) = r
  <2>1. /\ SubSeq(n \o r, Len(n) + 1, Len(n \o r)) \in Path
        /\ Len(SubSeq(n \o r, Len(n) + 1, Len(n \o r))) = Len(r)
    BY <1>1
  <2>2. \A i \in 1..Len(r) : SubSeq(n \o r, Len(n) + 1, Len(n \o r))[i] = r[i]
    BY <1>1
  <2> QED BY <2>1, <2>2, SeqEqual
<1> QED BY <1>1, <1>2, <1>3 DEF IsUnder

LEMMA UnderSuffix ==
    ASSUME NEW n \in Path, NEW m \in Path, IsUnder(n, m)
    PROVE  \E r \in Path : m = n \o r
<1> USE DEF Path
<1>1. Len(n) \in Nat /\ Len(m) \in Nat /\ Len(m) >= Len(n) /\ SubSeq(m, 1, Len(n)) = n
  BY LenProperties DEF IsUnder
<1> DEFINE r == SubSeq(m, Len(n) + 1, Len(m))
<1>2. r \in Path
  BY <1>1
<1>3. n \o r = SubSeq(m, 1, Len(m))
  BY <1>1, ConcatAdjacentSubSeq
<1>4. SubSeq(m, 1, Len(m)) = m
  BY SubSeqFull
<1> QED BY <1>2, <1>3, <1>4

LEMMA ConcatAppend ==
    ASSUME NEW n \in Path, NEW r \in Path, NEW i \in {1, 2}
    PROVE  Append(n \o r, i) = n \o Append(r, i)
<1> USE DEF Path
<1>1. n \o r \in Path /\ <<i>> \in Path
  BY ConcatProperties
<1>2. Append(n \o r, i) = (n \o r) \o <<i>> /\ Append(r, i) = r \o <<i>>
  BY <1>1, AppendIsConcat
<1>3. (n \o r) \o <<i>> = n \o (r \o <<i>>)
  BY <1>1, ConcatAssociative
<1> QED BY <1>2, <1>3

LEMMA ConcatRoot ==
    ASSUME NEW n \in Path
    PROVE  Root \in Path /\ n \o Root = n
BY ConcatEmptySeq DEF Path, Root

LEMMA ConcatInjective ==
    ASSUME NEW n \in Path, NEW r \in Path, NEW u \in Path, n \o r = n \o u
    PROVE  r = u
BY ConcatSimplifications DEF Path

-----------------------------------------------------------------------------
(* Splitting a leaf                                                        *)

LEMMA ChildFacts ==
    ASSUME NEW n \in Path
    PROVE  First(n) # n /\ Second(n) # n /\ First(n) # Second(n)
BY PathAppend, PathInjective DEF First, Second

LEMMA SplitIsTree ==
    ASSUME NEW t, IsTree(t), WellFormed(t), NEW n \in DOMAIN t, IsLeaf(t, n),
           NEW k \in SplitKinds, NEW r \in Ratios, NEW p \in PaneId,
           NEW u, u = SplitAt(t, n, k, r, p)
    PROVE  IsTree(u)
<1>1. First(n) \notin DOMAIN t /\ Second(n) \notin DOMAIN t
  BY DEF WellFormed
<1>2. /\ DOMAIN u = DOMAIN t \cup {First(n), Second(n)}
      /\ u[n] = SplitNode(k, r) /\ u[First(n)] = t[n] /\ u[Second(n)] = Leaf(p)
      /\ \A m \in DOMAIN t : m # n => u[m] = t[m]
  <2>1. n \in Path
    BY DEF IsTree
  <2>2. First(n) # n /\ Second(n) # n /\ First(n) # Second(n)
    BY <2>1, ChildFacts
  <2> QED BY <1>1, <2>2 DEF SplitAt
<1>a. u = [m \in DOMAIN u |-> u[m]]
  BY DEF SplitAt
<1>3. DOMAIN u \subseteq Path /\ Root \in DOMAIN u
  BY <1>2, PathAppend DEF IsTree, First, Second
<1>4. SplitNode(k, r) \in NodeLabel /\ Leaf(p) \in NodeLabel
  BY PaneTreeAssumption DEF SplitNode, Leaf, NodeLabel, PaneOrEmpty
<1>5. \A m \in DOMAIN u : u[m] \in NodeLabel
  BY <1>2, <1>4 DEF IsTree
<1> QED BY <1>a, <1>3, <1>5 DEF IsTree

LEMMA SplitWellFormed ==
    ASSUME NEW t, IsTree(t), WellFormed(t), NEW n \in DOMAIN t, IsLeaf(t, n), t[n].pane # NoPane,
           NEW k \in SplitKinds, NEW r \in Ratios, NEW p \in PaneId,
           NEW u, u = SplitAt(t, n, k, r, p)
    PROVE  WellFormed(u)
<1>1. First(n) \notin DOMAIN t /\ Second(n) \notin DOMAIN t
  BY DEF WellFormed
<1>2. /\ DOMAIN u = DOMAIN t \cup {First(n), Second(n)}
      /\ u[n] = SplitNode(k, r) /\ u[First(n)] = t[n] /\ u[Second(n)] = Leaf(p)
      /\ \A m \in DOMAIN t : m # n => u[m] = t[m]
  <2>1. n \in Path
    BY DEF IsTree
  <2>2. First(n) # n /\ Second(n) # n /\ First(n) # Second(n)
    BY <2>1, ChildFacts
  <2> QED BY <1>1, <2>2 DEF SplitAt
<1>3. n \in Path /\ DOMAIN t \subseteq Path
  BY DEF IsTree
<1>4. /\ First(n) \in Path /\ Second(n) \in Path /\ First(n) # Root /\ Second(n) # Root
      /\ Parent(First(n)) = n /\ Parent(Second(n)) = n
      /\ Sibling(First(n)) = Second(n) /\ Sibling(Second(n)) = First(n)
  <2>1. /\ First(n) \in Path /\ First(n) # Root /\ Parent(First(n)) = n
        /\ Sibling(First(n)) = Append(n, 3 - 1)
    BY <1>3, PathAppend DEF First
  <2>2. /\ Second(n) \in Path /\ Second(n) # Root /\ Parent(Second(n)) = n
        /\ Sibling(Second(n)) = Append(n, 3 - 2)
    BY <1>3, PathAppend DEF Second
  <2> QED BY <2>1, <2>2 DEF First, Second
<1>5. \A m \in Path : First(m) = First(n) \/ Second(m) = Second(n) => m = n
  BY <1>3, PathInjective DEF First, Second
<1>6. \A m \in Path : First(m) # Second(n) /\ Second(m) # First(n)
  BY <1>3, PathInjective DEF First, Second
<1>7. ASSUME NEW m \in {First(n), Second(n)}
      PROVE  First(m) \notin DOMAIN u /\ Second(m) \notin DOMAIN u
  <2>1. m \in Path /\ m \notin DOMAIN t /\ m # n
    BY <1>1, <1>4
  <2>2. Parent(First(m)) = m /\ Parent(Second(m)) = m /\ First(m) # Root /\ Second(m) # Root
    BY <2>1, PathAppend DEF First, Second
  <2>3. First(m) \notin DOMAIN t /\ Second(m) \notin DOMAIN t
    BY <2>1, <2>2 DEF WellFormed
  <2> QED BY <1>2, <1>5, <1>6, <2>1, <2>3
<1>8. Root \in DOMAIN u
  BY <1>2 DEF WellFormed
<1>9. ASSUME NEW m \in DOMAIN u, m # Root
      PROVE  Parent(m) \in DOMAIN u /\ Sibling(m) \in DOMAIN u
  BY <1>2, <1>4, <1>9 DEF WellFormed
<1>10. ASSUME NEW m \in DOMAIN u, IsLeaf(u, m)
       PROVE  /\ First(m) \notin DOMAIN u /\ Second(m) \notin DOMAIN u
              /\ u[m].pane = NoPane => m = Root
  <2>1. CASE m = n
    BY <1>2, <1>10, <2>1 DEF IsLeaf, SplitNode, SplitKinds
  <2>2. CASE m \in {First(n), Second(n)}
    BY <1>2, <1>7, <2>2, PaneTreeAssumption DEF Leaf
  <2>3. CASE m \in DOMAIN t /\ m # n
    BY <1>2, <1>3, <1>5, <1>6, <1>10, <2>3 DEF WellFormed, IsLeaf
  <2> QED BY <1>2, <2>1, <2>2, <2>3
<1>11. ASSUME NEW m \in DOMAIN u, ~IsLeaf(u, m)
       PROVE  /\ u[m].kind \in SplitKinds /\ u[m].pane = NoPane
              /\ First(m) \in DOMAIN u /\ Second(m) \in DOMAIN u
  <2>1. CASE m = n
    BY <1>2, <2>1 DEF SplitNode
  <2>2. CASE m \in {First(n), Second(n)}
    BY <1>2, <1>11, <2>2 DEF Leaf, IsLeaf
  <2>3. CASE m \in DOMAIN t /\ m # n
    BY <1>2, <1>11, <2>3 DEF WellFormed, IsLeaf
  <2> QED BY <1>2, <2>1, <2>2, <2>3
<1> QED BY <1>8, <1>9, <1>10, <1>11 DEF WellFormed

\* The panes of the split tree, each with the node it had or moved to.
LEMMA SplitPanes ==
    ASSUME NEW t, IsTree(t), WellFormed(t), NEW n \in DOMAIN t, IsLeaf(t, n),
           NEW k \in SplitKinds, NEW r \in Ratios, NEW p \in PaneId,
           NEW u, u = SplitAt(t, n, k, r, p), NEW x \in DOMAIN u
    PROVE  \/ x = n /\ u[x].pane = NoPane
           \/ x = First(n) /\ u[x].pane = t[n].pane
           \/ x = Second(n) /\ u[x].pane = p
           \/ x \in DOMAIN t \ {n} /\ u[x].pane = t[x].pane
<1>1. First(n) \notin DOMAIN t /\ Second(n) \notin DOMAIN t
  BY DEF WellFormed
<1>2. /\ DOMAIN u = DOMAIN t \cup {First(n), Second(n)}
      /\ u[n] = SplitNode(k, r) /\ u[First(n)] = t[n] /\ u[Second(n)] = Leaf(p)
      /\ \A m \in DOMAIN t : m # n => u[m] = t[m]
  <2>1. n \in Path
    BY DEF IsTree
  <2>2. First(n) # n /\ Second(n) # n /\ First(n) # Second(n)
    BY <2>1, ChildFacts
  <2> QED BY <1>1, <2>2 DEF SplitAt
<1> QED BY <1>2 DEF SplitNode, Leaf

-----------------------------------------------------------------------------
(* Subtrees                                                                *)

LEMMA UnderChild ==
    ASSUME NEW n \in Path, NEW m \in Path, NEW i \in {1, 2}
    PROVE  IsUnder(n, Append(m, i)) <=> Append(m, i) = n \/ IsUnder(n, m)
<1>1. Append(m, i) \in Path
  BY PathAppend
<1>2. ASSUME IsUnder(n, Append(m, i))
      PROVE  Append(m, i) = n \/ IsUnder(n, m)
  <2>1. PICK r \in Path : Append(m, i) = n \o r
    BY <1>1, <1>2, UnderSuffix
  <2>2. CASE r = Root
    BY <2>1, <2>2, ConcatRoot
  <2>3. CASE r # Root
    <3>1. PICK z \in Path, j \in {1, 2} : r = Append(z, j)
      BY <2>3, PathCases
    <3>2. Append(m, i) = Append(n \o z, j)
      <4>1. Append(n \o z, j) = n \o Append(z, j)
        BY ConcatAppend
      <4> QED BY <2>1, <3>1, <4>1
    <3>3. n \o z \in Path /\ IsUnder(n, n \o z)
      BY UnderConcat
    <3>4. m = n \o z
      <4>1. Parent(Append(m, i)) = m
        BY PathAppend
      <4>2. Parent(Append(n \o z, j)) = n \o z
        BY <3>3, PathAppend
      <4> QED BY <3>2, <4>1, <4>2
    <3> QED BY <3>3, <3>4
  <2> QED BY <2>2, <2>3
<1>3. ASSUME Append(m, i) = n
      PROVE  IsUnder(n, Append(m, i))
  <2>1. Root \in Path /\ n \o Root = n
    BY ConcatRoot
  <2>2. IsUnder(n, n \o Root)
    BY <2>1, UnderConcat
  <2> QED BY <1>3, <2>1, <2>2
<1>4. ASSUME IsUnder(n, m)
      PROVE  IsUnder(n, Append(m, i))
  <2>1. PICK r \in Path : m = n \o r
    BY <1>4, UnderSuffix
  <2>2. Append(r, i) \in Path /\ Append(m, i) = n \o Append(r, i)
    <3>1. Append(r, i) \in Path
      BY PathAppend
    <3>2. Append(n \o r, i) = n \o Append(r, i)
      BY ConcatAppend
    <3> QED BY <2>1, <3>1, <3>2
  <2>3. IsUnder(n, n \o Append(r, i))
    BY <2>2, UnderConcat
  <2> QED BY <2>2, <2>3
<1> QED BY <1>2, <1>3, <1>4

\* A node is under itself, and under no other node of its length or above.
LEMMA UnderShort ==
    ASSUME NEW n \in Path, NEW m \in Path
    PROVE  /\ IsUnder(n, n) /\ Len(n) \in Nat
           /\ IsUnder(n, m) /\ Len(m) <= Len(n) => m = n
<1> USE DEF Path
<1>1. Len(n) \in Nat /\ Len(m) \in Nat
  BY LenProperties
<1>2. SubSeq(n, 1, Len(n)) = n /\ SubSeq(m, 1, Len(m)) = m
  BY SubSeqFull
<1>3. IsUnder(n, n)
  BY <1>1, <1>2 DEF IsUnder
<1>4. ASSUME IsUnder(n, m), Len(m) <= Len(n)
      PROVE  m = n
  <2>1. Len(m) >= Len(n) /\ SubSeq(m, 1, Len(n)) = n
    BY <1>4 DEF IsUnder
  <2>2. Len(m) = Len(n)
    BY <1>1, <1>4, <2>1
  <2> QED BY <1>2, <2>1, <2>2
<1> QED BY <1>1, <1>3, <1>4

-----------------------------------------------------------------------------
(* Replacing a split by one of its sides                                   *)

\* The node a node of the promoted tree comes from.
Origin(s, x, y) == \/ x = y /\ ~IsUnder(Parent(s), x)
                   \/ \E r \in Path : x = Parent(s) \o r /\ y = s \o r

LEMMA PromoteDef ==
    ASSUME NEW t, IsTree(t), NEW s \in Path, s # Root, NEW u, u = Promote(t, s)
    PROVE  /\ u = [x \in DOMAIN u |-> u[x]]
           /\ \A x \in DOMAIN u : \E y \in DOMAIN t : Origin(s, x, y)
           /\ \A y \in DOMAIN t : \A x : Origin(s, x, y) => x \in DOMAIN u /\ u[x] = t[y]
<1> DEFINE q == Parent(s)
           To(m) == q \o SubSeq(m, Len(s) + 1, Len(m))
           From(m) == s \o SubSeq(m, Len(q) + 1, Len(m))
           kept == {m \in DOMAIN t : ~IsUnder(q, m)}
           moved == {To(m) : m \in {k \in DOMAIN t : IsUnder(s, k)}}
<1>1. u = [m \in kept \cup moved |-> IF m \in kept THEN t[m] ELSE t[From(m)]]
  BY DEF Promote
<1>2. DOMAIN u = kept \cup moved
      /\ \A m \in kept \cup moved : u[m] = IF m \in kept THEN t[m] ELSE t[From(m)]
  BY <1>1
<1>3. q \in Path /\ DOMAIN t \subseteq Path
  BY SiblingFacts DEF IsTree
<1>4. \A r \in Path : /\ To(s \o r) = q \o r /\ From(q \o r) = s \o r
                      /\ IsUnder(q, q \o r) /\ IsUnder(s, s \o r)
  BY <1>3, UnderConcat
<1>5. ASSUME NEW x \in DOMAIN u
      PROVE  \E y \in DOMAIN t : Origin(s, x, y)
  <2>1. CASE x \in kept
    BY <2>1 DEF Origin
  <2>2. CASE x \in moved
    <3>1. PICK m \in DOMAIN t : IsUnder(s, m) /\ x = To(m)
      BY <2>2
    <3>2. PICK r \in Path : m = s \o r
      BY <1>3, <3>1, UnderSuffix
    <3>3. x = q \o r
      BY <1>4, <3>1, <3>2
    <3> QED BY <3>1, <3>2, <3>3 DEF Origin
  <2> QED BY <1>2, <2>1, <2>2
<1>6. ASSUME NEW y \in DOMAIN t, NEW x, Origin(s, x, y)
      PROVE  x \in DOMAIN u /\ u[x] = t[y]
  <2>1. CASE x = y /\ ~IsUnder(q, x)
    BY <1>2, <2>1
  <2>2. ASSUME NEW r \in Path, x = q \o r, y = s \o r
        PROVE  x \in DOMAIN u /\ u[x] = t[y]
    <3>1. x = To(y) /\ From(x) = y /\ IsUnder(s, y) /\ IsUnder(q, x)
      BY <1>4, <2>2
    <3>2. x \in moved /\ x \notin kept
      BY <3>1
    <3> QED BY <1>2, <3>1, <3>2
  <2> QED BY <1>6, <2>1, <2>2 DEF Origin
<1>7. u = [x \in DOMAIN u |-> u[x]]
  BY <1>1
<1> QED BY <1>5, <1>6, <1>7

\* The descendants of a node keep their place below it.
LEMMA OriginDown ==
    ASSUME NEW s \in Path, s # Root, NEW x \in Path, NEW y \in Path, Origin(s, x, y), NEW i \in {1, 2}
    PROVE  \/ Origin(s, Append(x, i), Append(y, i))
           \/ Origin(s, Append(x, i), s) /\ Append(y, i) = Parent(s)
<1> DEFINE q == Parent(s)
<1>1. q \in Path /\ Append(y, i) \in Path
  BY SiblingFacts, PathAppend
<1>2. CASE x = y /\ ~IsUnder(q, x)
  <2>1. CASE Append(y, i) = q
    <3>1. Root \in Path /\ q \o Root = q /\ s \o Root = s
      BY <1>1, ConcatRoot
    <3>2. Append(x, i) = Parent(s) \o Root /\ s = s \o Root
      BY <1>2, <2>1, <3>1
    <3>3. Origin(s, Append(x, i), s)
      BY <3>1, <3>2 DEF Origin
    <3> QED BY <2>1, <3>3
  <2>2. CASE Append(y, i) # q
    <3>1. ~IsUnder(q, Append(y, i))
      BY <1>1, <1>2, <2>2, UnderChild
    <3>2. Origin(s, Append(x, i), Append(y, i))
      BY <1>2, <3>1 DEF Origin
    <3> QED BY <1>1, <3>2
  <2> QED BY <2>1, <2>2
<1>3. ASSUME NEW r \in Path, x = q \o r, y = s \o r
      PROVE  Origin(s, Append(x, i), Append(y, i))
  <2>1. Append(r, i) \in Path
    BY PathAppend
  <2>2. Append(q \o r, i) = q \o Append(r, i) /\ Append(s \o r, i) = s \o Append(r, i)
    BY <1>1, ConcatAppend
  <2>3. Append(x, i) = q \o Append(r, i) /\ Append(y, i) = s \o Append(r, i)
    BY <1>3, <2>2
  <2> QED BY <2>1, <2>3 DEF Origin
<1> QED BY <1>1, <1>2, <1>3 DEF Origin

Child(n, i) == Append(n, i)

\* z is child i of y, or what has replaced it.
Above(s, y, i, z) == z = Child(y, i) \/ (z = s /\ Child(y, i) = Parent(s))

LEMMA OriginUp ==
    ASSUME NEW s \in Path, s # Root, NEW x \in Path, NEW i \in {1, 2}, NEW z \in Path,
           Origin(s, Child(x, i), z)
    PROVE  \E y \in Path : Origin(s, x, y) /\ Above(s, y, i, z)
<1>0. Origin(s, Append(x, i), z)
  BY DEF Child
<1> DEFINE q == Parent(s)
<1>1. q \in Path /\ Append(x, i) \in Path
  BY SiblingFacts, PathAppend
<1>2. CASE Append(x, i) = z /\ ~IsUnder(q, Append(x, i))
  <2>1. ~IsUnder(q, x)
    BY <1>1, <1>2, UnderChild
  <2>2. Origin(s, x, x)
    BY <2>1 DEF Origin
  <2>3. z = Append(x, i)
    BY <1>2
  <2>4. Above(s, x, i, z)
    BY <2>3 DEF Above, Child
  <2> QED BY <2>2, <2>4
<1>3. ASSUME NEW r \in Path, Append(x, i) = q \o r, z = s \o r
      PROVE  \E y \in Path : Origin(s, x, y) /\ Above(s, y, i, z)
  <2>1. CASE r = Root
    <3>1. Append(x, i) = q /\ z = s
      BY <1>1, <1>3, <2>1, ConcatRoot
    <3>2. Len(q) = Len(x) + 1 /\ Len(x) \in Nat /\ Len(x) <= Len(q)
      <4>1. Len(Append(x, i)) = Len(x) + 1 /\ Len(x) \in Nat
        BY PathAppend
      <4> QED BY <3>1, <4>1
    <3>3. x # q
      BY <3>2
    <3>4. ~IsUnder(q, x)
      BY <1>1, <3>2, <3>3, UnderShort
    <3>5. Origin(s, x, x)
      BY <3>4 DEF Origin
    <3>6. Above(s, x, i, z)
      BY <3>1 DEF Above, Child
    <3> QED BY <3>5, <3>6
  <2>2. CASE r # Root
    <3>1. PICK c \in Path, j \in {1, 2} : r = Append(c, j)
      BY <2>2, PathCases
    <3>2. Append(q \o c, j) = q \o Append(c, j) /\ Append(s \o c, j) = s \o Append(c, j)
      BY <1>1, ConcatAppend
    <3>3. q \o c \in Path /\ s \o c \in Path
      BY <1>1, UnderConcat
    <3>4. Append(x, i) = Append(q \o c, j) /\ z = Append(s \o c, j)
      BY <1>3, <3>1, <3>2
    <3>5. x = q \o c /\ i = j
      <4> HIDE DEF q
      <4> DEFINE d == q \o c
      <4>1. d \in Path /\ Append(x, i) = Append(d, j)
        BY <3>3, <3>4
      <4> HIDE DEF d
      <4>2. x = d /\ i = j
        BY <4>1, PathInjective
      <4> QED BY <4>2 DEF d
    <3>6. Origin(s, x, s \o c)
      BY <3>5 DEF Origin
    <3>7. z = Append(s \o c, i) /\ s \o c \in Path
      BY <3>3, <3>4, <3>5
    <3>8. Above(s, s \o c, i, z)
      BY <3>7 DEF Above, Child
    <3> QED BY <3>6, <3>7, <3>8
  <2> QED BY <2>1, <2>2
<1> QED BY <1>0, <1>2, <1>3 DEF Origin

\* Every node of the promoted side comes from below the split, but none
\* from the other side.
LEMMA OriginMoved ==
    ASSUME NEW s \in Path, s # Root, NEW r \in Path
    PROVE  /\ IsUnder(Parent(s), s \o r) /\ s \o r \in Path /\ s \o r # Root
           /\ s \o r # Sibling(s) /\ IsUnder(Parent(s), Sibling(s))
<1> DEFINE q == Parent(s)
<1>1. PICK m \in Path, i \in {1, 2} : s = Append(m, i)
  BY PathCases
<1>2. Parent(s) = m /\ Sibling(s) = Append(m, 3 - i)
  BY <1>1, PathAppend
<1>3. /\ s \o r \in Path /\ Len(s \o r) = Len(s) + Len(r) /\ IsUnder(s, s \o r)
  BY UnderConcat
<1>4. /\ Len(s) = Len(m) + 1 /\ Len(m) \in Nat /\ Len(r) \in Nat
      /\ Sibling(s) # s /\ Len(Sibling(s)) = Len(s) /\ Sibling(s) \in Path
  BY <1>1, PathAppend, SiblingFacts, UnderShort
<1>5. s \o r # Root
  <2>1. Len(Root) = 0
    BY DEF Root
  <2>2. Len(s \o r) # 0
    BY <1>3, <1>4
  <2> QED BY <2>1, <2>2
<1>6. s \o r # Sibling(s)
  <2>1. SUFFICES ASSUME s \o r = Sibling(s) PROVE FALSE
    OBVIOUS
  <2>2. IsUnder(s, Sibling(s)) /\ Len(Sibling(s)) <= Len(s)
    BY <1>3, <1>4, <2>1
  <2> QED BY <1>4, <2>2, UnderShort
<1>7. IsUnder(m, m) /\ 3 - i \in {1, 2}
  BY UnderShort
<1>8. IsUnder(m, Append(m, i))
  BY <1>7, UnderChild
<1>9. IsUnder(m, Append(m, 3 - i))
  <2> DEFINE k == 3 - i
  <2>1. k \in {1, 2}
    BY <1>7
  <2> HIDE DEF k
  <2>2. IsUnder(m, Append(m, k))
    BY <1>7, <2>1, UnderChild
  <2> QED BY <2>2 DEF k
<1>10. IsUnder(m, s \o r)
  <2>1. PICK c \in Path : Append(m, i) = m \o c
    BY <1>1, <1>8, UnderSuffix
  <2>2. c \o r \in Path /\ (m \o c) \o r = m \o (c \o r)
    BY ConcatAssociative, ConcatProperties DEF Path
  <2>3. IsUnder(m, m \o (c \o r))
    BY <2>2, UnderConcat
  <2> QED BY <1>1, <2>1, <2>2, <2>3
<1> QED BY <1>2, <1>3, <1>5, <1>6, <1>9, <1>10

LEMMA OriginOne ==
    ASSUME NEW s \in Path, s # Root, NEW x, NEW y, NEW a, NEW b, Origin(s, x, y), Origin(s, a, b)
    PROVE  (x = a => y = b) /\ (y = b => x = a) /\ y # Sibling(s)
<1>0. Parent(s) \in Path
  BY SiblingFacts
<1>1. \A r \in Path : /\ IsUnder(Parent(s), s \o r) /\ IsUnder(Parent(s), Parent(s) \o r)
                      /\ s \o r # Sibling(s)
  BY <1>0, OriginMoved, UnderConcat
<1>2. \A r, c \in Path : /\ s \o r = s \o c => r = c
                         /\ Parent(s) \o r = Parent(s) \o c => r = c
  BY <1>0, ConcatInjective
<1>3. IsUnder(Parent(s), Sibling(s))
  BY OriginMoved, ConcatRoot
<1> QED BY <1>1, <1>2, <1>3 DEF Origin

LEMMA OriginPath ==
    ASSUME NEW s \in Path, s # Root, NEW x, NEW y, Origin(s, x, y), x \in Path \/ y \in Path
    PROVE  x \in Path /\ y \in Path
<1>1. Parent(s) \in Path
  BY SiblingFacts
<1>2. \A r \in Path : Parent(s) \o r \in Path /\ s \o r \in Path
  BY <1>1, UnderConcat
<1> QED BY <1>2 DEF Origin

LEMMA ChildPath ==
    ASSUME NEW n \in Path, NEW i \in {1, 2}
    PROVE  /\ Child(n, i) \in Path /\ Child(n, i) # Root /\ Parent(Child(n, i)) = n
           /\ Sibling(Child(n, i)) = Child(n, 3 - i)
BY PathAppend DEF Child

LEMMA ChildCases ==
    ASSUME NEW n \in Path, n # Root
    PROVE  \E m \in Path, i \in {1, 2} : n = Child(m, i)
BY PathCases DEF Child

LEMMA ChildDown ==
    ASSUME NEW s \in Path, s # Root, NEW x \in Path, NEW y \in Path, Origin(s, x, y), NEW i \in {1, 2}
    PROVE  \/ Origin(s, Child(x, i), Child(y, i))
           \/ Origin(s, Child(x, i), s) /\ Child(y, i) = Parent(s)
BY OriginDown DEF Child

LEMMA OriginRoot ==
    ASSUME NEW s \in Path, s # Root
    PROVE  /\ Origin(s, Root, Root) \/ Origin(s, Root, s)
           /\ \A x : Origin(s, x, Root) => x = Root
<1> DEFINE q == Parent(s)
<1>1. q \in Path /\ Root \in Path /\ q \o Root = q /\ s \o Root = s
  BY SiblingFacts, ConcatRoot
<1>2. CASE q = Root
  <2>1. Root = Parent(s) \o Root /\ s = s \o Root
    BY <1>1, <1>2
  <2>2. Origin(s, Root, s)
    BY <1>1, <2>1 DEF Origin
  <2> QED BY <2>2, OriginMoved DEF Origin
<1>3. CASE q # Root
  <2>1. Len(Root) = 0 /\ Len(q) \in Nat
    BY <1>1, UnderShort DEF Root
  <2>2. ~IsUnder(q, Root)
    BY <1>1, <1>3, <2>1, UnderShort
  <2> QED BY <2>2, OriginMoved DEF Origin
<1> QED BY <1>2, <1>3

LEMMA PromoteIsTree ==
    ASSUME NEW t, IsTree(t), NEW s \in DOMAIN t, s # Root, NEW u, u = Promote(t, s)
    PROVE  IsTree(u)
<1>0. s \in Path /\ DOMAIN t \subseteq Path /\ Root \in DOMAIN t
  BY DEF IsTree
<1>1. /\ u = [x \in DOMAIN u |-> u[x]]
      /\ \A x \in DOMAIN u : \E y \in DOMAIN t : Origin(s, x, y)
      /\ \A y \in DOMAIN t : \A x : Origin(s, x, y) => x \in DOMAIN u /\ u[x] = t[y]
  BY <1>0, PromoteDef
<1>2. DOMAIN u \subseteq Path
  BY <1>0, <1>1, OriginPath
<1>3. \A x \in DOMAIN u : u[x] \in NodeLabel
  BY <1>1 DEF IsTree
<1>4. Root \in DOMAIN u
  BY <1>0, <1>1, OriginRoot
<1> QED BY <1>1, <1>2, <1>3, <1>4 DEF IsTree

LEMMA PromoteWellFormed ==
    ASSUME NEW t, IsTree(t), WellFormed(t), NEW s \in DOMAIN t, s # Root, NEW u, u = Promote(t, s)
    PROVE  WellFormed(u)
<1>0. s \in Path /\ DOMAIN t \subseteq Path /\ Root \in DOMAIN t
  BY DEF IsTree
<1>1. /\ \A x \in DOMAIN u : \E y \in DOMAIN t : Origin(s, x, y)
      /\ \A y \in DOMAIN t : \A x : Origin(s, x, y) => x \in DOMAIN u /\ u[x] = t[y]
  BY <1>0, PromoteDef
<1>2. IsTree(u)
  BY PromoteIsTree
<1>3. DOMAIN u \subseteq Path /\ Root \in DOMAIN u
  BY <1>2 DEF IsTree
<1>4. Parent(s) \in DOMAIN t
  BY DEF WellFormed
<1>u. ASSUME NEW w \in Path, NEW i \in {1, 2}, NEW z \in DOMAIN t, Origin(s, Child(w, i), z)
      PROVE  \E a \in Path : Origin(s, w, a) /\ Above(s, a, i, z)
  BY <1>0, <1>u, OriginUp
<1>5. ASSUME NEW x \in Path, NEW y \in DOMAIN t, Origin(s, x, y), NEW i \in {1, 2}
      PROVE  Child(x, i) \in DOMAIN u <=> Child(y, i) \in DOMAIN t
  <2>1. ASSUME Child(y, i) \in DOMAIN t
        PROVE  Child(x, i) \in DOMAIN u
    BY <1>0, <1>1, <1>5, <2>1, ChildDown
  <2>2. ASSUME Child(x, i) \in DOMAIN u
        PROVE  Child(y, i) \in DOMAIN t
    <3>1. PICK z \in DOMAIN t : Origin(s, Child(x, i), z)
      BY <1>1, <2>2
    <3>2. PICK a \in Path : Origin(s, x, a) /\ Above(s, a, i, z)
      BY <1>u, <3>1
    <3>3. a = y
      BY <1>0, <1>5, <3>2, OriginOne
    <3> QED BY <1>4, <3>2, <3>3 DEF Above
  <2> QED BY <2>1, <2>2
<1>6. ASSUME NEW x \in DOMAIN u, x # Root
      PROVE  Parent(x) \in DOMAIN u /\ Sibling(x) \in DOMAIN u
  <2>1. PICK w \in Path, i \in {1, 2} : x = Child(w, i)
    BY <1>3, <1>6, ChildCases
  <2>2. Parent(x) = w /\ Sibling(x) = Child(w, 3 - i)
    BY <2>1, ChildPath
  <2>3. PICK z \in DOMAIN t : Origin(s, x, z)
    BY <1>1, <2>1
  <2>4. PICK a \in Path : Origin(s, w, a) /\ Above(s, a, i, z)
    BY <1>u, <2>1, <2>3
  <2>5. Child(a, i) \in DOMAIN t
    BY <1>4, <2>3, <2>4 DEF Above
  <2>6. /\ Child(a, i) # Root /\ Parent(Child(a, i)) = a
        /\ Sibling(Child(a, i)) = Child(a, 3 - i)
    BY ChildPath
  <2>7. a \in DOMAIN t /\ Child(a, 3 - i) \in DOMAIN t
    BY <2>5, <2>6 DEF WellFormed
  <2>8. w \in DOMAIN u
    BY <1>1, <2>4, <2>7
  <2>9. Child(w, 3 - i) \in DOMAIN u
    <3> DEFINE k == 3 - i
    <3>1. k \in {1, 2} /\ Child(a, k) \in DOMAIN t
      BY <2>7
    <3> HIDE DEF k
    <3>2. Child(w, k) \in DOMAIN u
      BY <1>5, <2>4, <2>7, <3>1
    <3> QED BY <3>2 DEF k
  <2> QED BY <2>2, <2>8, <2>9
<1>7. ASSUME NEW x \in DOMAIN u
      PROVE  IF IsLeaf(u, x)
             THEN /\ First(x) \notin DOMAIN u /\ Second(x) \notin DOMAIN u
                  /\ u[x].pane = NoPane => x = Root
             ELSE /\ u[x].kind \in SplitKinds /\ u[x].pane = NoPane
                  /\ First(x) \in DOMAIN u /\ Second(x) \in DOMAIN u
  <2>1. PICK y \in DOMAIN t : Origin(s, x, y)
    BY <1>1
  <2>2. u[x] = t[y] /\ (IsLeaf(u, x) <=> IsLeaf(t, y))
    BY <1>1, <2>1 DEF IsLeaf
  <2>3. /\ First(x) \in DOMAIN u <=> First(y) \in DOMAIN t
        /\ Second(x) \in DOMAIN u <=> Second(y) \in DOMAIN t
    BY <1>3, <1>5, <2>1 DEF First, Second, Child
  <2>4. y = Root => x = Root
    BY <1>0, <2>1, OriginRoot
  <2>5. IF IsLeaf(t, y)
        THEN /\ First(y) \notin DOMAIN t /\ Second(y) \notin DOMAIN t
             /\ t[y].pane = NoPane => y = Root
        ELSE /\ t[y].kind \in SplitKinds /\ t[y].pane = NoPane
             /\ First(y) \in DOMAIN t /\ Second(y) \in DOMAIN t
    BY DEF WellFormed
  <2> QED BY <2>2, <2>3, <2>4, <2>5
<1> QED BY <1>3, <1>6, <1>7 DEF WellFormed

-----------------------------------------------------------------------------
(* What each tree operation promises: a well-formed tree again, in which   *)
(* no pane occurs twice, and no pane but the given ones is new.            *)

OnlyNew(u, t, F) == \A n \in DOMAIN u : u[n].pane \in PaneId =>
                        u[n].pane \in F \/ \E m \in DOMAIN t : t[m].pane = u[n].pane

LEMMA NodeOfPane ==
    ASSUME NEW t, GoodTree(t), NEW p \in PanesOf(t)
    PROVE  /\ NodeOf(t, p) \in DOMAIN t /\ t[NodeOf(t, p)].pane = p
           /\ IsLeaf(t, NodeOf(t, p)) /\ NodeOf(t, p) \in Path
<1>1. \E n \in DOMAIN t : t[n].pane = p
  BY DEF PanesOf
<1>2. NodeOf(t, p) \in DOMAIN t /\ t[NodeOf(t, p)].pane = p
  BY <1>1 DEF NodeOf
<1>3. p # NoPane
  BY DEF PanesOf
<1> QED BY <1>2, <1>3 DEF GoodTree, IsTree, WellFormed

LEMMA LeafGood ==
    ASSUME NEW p \in PaneOrEmpty \cup {NoPane}, NEW t, t = LeafTree(p)
    PROVE  GoodTree(t) /\ DOMAIN t = {Root} /\ t[Root].pane = p /\ IsLeaf(t, Root)
<1>1. /\ DOMAIN t = {Root} /\ t[Root] = Leaf(p) /\ t[Root].pane = p /\ IsLeaf(t, Root)
      /\ t = [n \in DOMAIN t |-> t[n]]
  BY DEF LeafTree, Leaf, IsLeaf
<1>2. Leaf(p) \in NodeLabel
  BY PaneTreeAssumption DEF Leaf, NodeLabel
<1>3. Root \in Path
  BY DEF Root, Path
<1>4. First(Root) # Root /\ Second(Root) # Root
  BY <1>3, ChildFacts
<1>5. IsTree(t)
  BY <1>1, <1>2, <1>3 DEF IsTree
<1>6. WellFormed(t)
  BY <1>1, <1>4 DEF WellFormed
<1> QED BY <1>1, <1>5, <1>6 DEF GoodTree, OnePane

LEMMA SplitGood ==
    ASSUME NEW t, GoodTree(t), NEW n \in DOMAIN t, IsLeaf(t, n), t[n].pane # NoPane,
           NEW k \in SplitKinds, NEW r \in Ratios, NEW p \in PaneId,
           \A m \in DOMAIN t : t[m].pane # p,
           NEW u, u = SplitAt(t, n, k, r, p)
    PROVE  GoodTree(u) /\ OnlyNew(u, t, {p})
<1>0. IsTree(t) /\ WellFormed(t) /\ OnePane(t)
  BY DEF GoodTree
<1>1. IsTree(u)
  BY <1>0, SplitIsTree
<1>2. WellFormed(u)
  BY <1>0, SplitWellFormed
<1>3. ASSUME NEW x \in DOMAIN u
      PROVE  \/ x = n /\ u[x].pane = NoPane
             \/ x = First(n) /\ u[x].pane = t[n].pane
             \/ x = Second(n) /\ u[x].pane = p
             \/ x \in DOMAIN t \ {n} /\ u[x].pane = t[x].pane
  BY <1>0, SplitPanes
<1>4. NoPane \notin PaneId
  BY PaneTreeAssumption
<1>5. OnePane(u)
  BY <1>0, <1>3, <1>4 DEF OnePane
<1>6. OnlyNew(u, t, {p})
  BY <1>3, <1>4 DEF OnlyNew
<1> QED BY <1>1, <1>2, <1>5, <1>6 DEF GoodTree

LEMMA PromoteGood ==
    ASSUME NEW t, GoodTree(t), NEW s \in DOMAIN t, s # Root, NEW u, u = Promote(t, s)
    PROVE  GoodTree(u) /\ OnlyNew(u, t, {})
<1>0. IsTree(t) /\ WellFormed(t) /\ OnePane(t) /\ s \in Path
  BY DEF GoodTree, IsTree
<1>1. IsTree(u) /\ WellFormed(u)
  BY <1>0, PromoteIsTree, PromoteWellFormed
<1>2. /\ \A x \in DOMAIN u : \E y \in DOMAIN t : Origin(s, x, y)
      /\ \A y \in DOMAIN t : \A x : Origin(s, x, y) => x \in DOMAIN u /\ u[x] = t[y]
  BY <1>0, PromoteDef
<1>3. ASSUME NEW x \in DOMAIN u, NEW a \in DOMAIN u, u[x].pane = u[a].pane, u[x].pane \in PaneId
      PROVE  x = a
  <2>1. PICK y \in DOMAIN t : Origin(s, x, y)
    BY <1>2
  <2>2. PICK b \in DOMAIN t : Origin(s, a, b)
    BY <1>2
  <2>3. y = b
    BY <1>0, <1>2, <1>3, <2>1, <2>2 DEF OnePane
  <2> QED BY <1>0, <2>1, <2>2, <2>3, OriginOne
<1>4. OnlyNew(u, t, {})
  BY <1>2 DEF OnlyNew
<1> QED BY <1>1, <1>3, <1>4 DEF GoodTree, OnePane

LEMMA RemoveGood ==
    ASSUME NEW t, GoodTree(t), NEW p \in PanesOf(t), NEW u, u = RemoveLeaf(t, p)
    PROVE  GoodTree(u) /\ OnlyNew(u, t, {})
<1> DEFINE n == NodeOf(t, p)
<1>1. n \in DOMAIN t /\ n \in Path
  BY NodeOfPane
<1>2. CASE n = Root
  <2>1. u = LeafTree(NoPane)
    BY <1>2 DEF RemoveLeaf, EmptyTree
  <2> QED BY <2>1, LeafGood, PaneTreeAssumption DEF OnlyNew
<1>3. CASE n # Root
  <2>1. Sibling(n) \in DOMAIN t /\ Sibling(n) # Root
    BY <1>1, <1>3, SiblingFacts DEF GoodTree, WellFormed
  <2>2. u = Promote(t, Sibling(n))
    BY <1>3 DEF RemoveLeaf
  <2> QED BY <2>1, <2>2, PromoteGood
<1> QED BY <1>2, <1>3

LEMMA SetRatioGood ==
    ASSUME NEW t, GoodTree(t), NEW p \in PanesOf(t), NodeOf(t, p) # Root, NEW r \in Ratios,
           NEW u, u = SetRatio(t, p, r)
    PROVE  /\ GoodTree(u) /\ OnlyNew(u, t, {}) /\ DOMAIN u = DOMAIN t
           /\ \A m \in DOMAIN t : u[m].kind = t[m].kind /\ u[m].pane = t[m].pane
<1> DEFINE q == Parent(NodeOf(t, p))
<1>0. IsTree(t) /\ WellFormed(t) /\ OnePane(t)
  BY DEF GoodTree
<1>1. q \in DOMAIN t
  BY NodeOfPane DEF GoodTree, WellFormed
<1> HIDE DEF q
<1>2. u = [t EXCEPT ![q].ratio = r]
  BY DEF SetRatio, q
<1>3. \A m \in DOMAIN t : t[m] \in NodeLabel
  BY <1>0 DEF IsTree
<1>4. DOMAIN u = DOMAIN t /\ u = [m \in DOMAIN u |-> u[m]]
  BY <1>2
<1>5. \A m \in DOMAIN t : u[m] \in NodeLabel /\ u[m].kind = t[m].kind /\ u[m].pane = t[m].pane
  BY <1>1, <1>2, <1>3 DEF NodeLabel
<1>6. IsTree(u)
  BY <1>0, <1>4, <1>5 DEF IsTree
<1>7. WellFormed(u)
  BY <1>0, <1>4, <1>5 DEF WellFormed, IsLeaf
<1>8. OnePane(u) /\ OnlyNew(u, t, {})
  BY <1>0, <1>4, <1>5 DEF OnePane, OnlyNew
<1> QED BY <1>4, <1>5, <1>6, <1>7, <1>8 DEF GoodTree

LEMMA JsonGood ==
    ASSUME NEW t, GoodTree(t), NEW u, u = JsonRoundTrip(t)
    PROVE  /\ GoodTree(u) /\ OnlyNew(u, t, {}) /\ DOMAIN u = DOMAIN t
           /\ \A m \in DOMAIN t : /\ u[m].kind = t[m].kind
                                  /\ u[m].pane = t[m].pane \/ (t[m].pane = NoPane /\ u[m].pane = EmptyId)
<1>0. IsTree(t) /\ WellFormed(t) /\ OnePane(t)
  BY DEF GoodTree
<1>1. /\ DOMAIN u = DOMAIN t /\ u = [m \in DOMAIN u |-> u[m]]
      /\ \A m \in DOMAIN t : u[m] = IF IsLeaf(t, m) /\ t[m].pane = NoPane THEN Leaf(EmptyId) ELSE t[m]
  BY DEF JsonRoundTrip
<1>2. Leaf(EmptyId) \in NodeLabel /\ Leaf(EmptyId).kind = "pane" /\ Leaf(EmptyId).pane = EmptyId
  BY PaneTreeAssumption DEF Leaf, NodeLabel, PaneOrEmpty
<1>3. EmptyId \notin PaneId /\ EmptyId # NoPane /\ NoPane \notin PaneId
  BY PaneTreeAssumption
<1>4. \A m \in DOMAIN t : u[m].kind = t[m].kind /\ u[m] \in NodeLabel
  BY <1>0, <1>1, <1>2 DEF IsTree, IsLeaf
<1>5. \A m \in DOMAIN t : u[m].pane = t[m].pane \/ (t[m].pane = NoPane /\ u[m].pane = EmptyId)
  BY <1>1, <1>2
<1>6. \A m \in DOMAIN t : ~IsLeaf(t, m) => u[m].pane = t[m].pane
  BY <1>1
<1>7. IsTree(u)
  BY <1>0, <1>1, <1>4 DEF IsTree
<1>8. WellFormed(u)
  BY <1>0, <1>1, <1>3, <1>4, <1>5, <1>6 DEF WellFormed, IsLeaf
<1>9. OnePane(u) /\ OnlyNew(u, t, {})
  BY <1>0, <1>1, <1>3, <1>5 DEF OnePane, OnlyNew
<1> QED BY <1>1, <1>4, <1>5, <1>7, <1>8, <1>9 DEF GoodTree

LEMMA EmptyGood ==
    /\ GoodTree(EmptyTree) /\ DOMAIN EmptyTree = {Root} /\ EmptyTree[Root].pane = NoPane
    /\ \A n \in DOMAIN EmptyTree : EmptyTree[n].pane \notin PaneId
    /\ \A t : OnlyNew(EmptyTree, t, {})
<1>1. GoodTree(EmptyTree) /\ DOMAIN EmptyTree = {Root} /\ EmptyTree[Root].pane = NoPane
  BY LeafGood DEF EmptyTree
<1> QED BY <1>1, PaneTreeAssumption DEF OnlyNew

-----------------------------------------------------------------------------
(* The order of the leaves                                                 *)

LEMMA LeastExists ==
    ASSUME NEW T \in SUBSET Nat, T # {}
    PROVE  \E x \in T : \A y \in T : x <= y
<1> DEFINE R == {ss \in Nat \X Nat : ss[1] < ss[2]}
<1>1. IsWellFoundedOn(R, Nat)
  BY NatLessThanWellFounded DEF OpToRel
<1> HIDE DEF R
<1>2. PICK x \in T : \A y \in T : ~ (<<y, x>> \in R)
  BY <1>1, WFMin
<1>3. ASSUME NEW y \in T PROVE x <= y
  <2>1. x \in Nat /\ y \in Nat
    OBVIOUS
  <2>2. ASSUME y < x PROVE <<y, x>> \in R
    BY <2>1, <2>2 DEF R
  <2> QED BY <1>2, <2>1, <2>2
<1> QED BY <1>3

\* A leaf has no descendants, at any depth.
LEMMA NothingUnderLeaf ==
    ASSUME NEW t, GoodTree(t), NEW l \in DOMAIN t, IsLeaf(t, l), NEW y \in DOMAIN t, IsUnder(l, y)
    PROVE  y = l
<1>0. DOMAIN t \subseteq Path /\ WellFormed(t) /\ l \in Path
  BY DEF GoodTree, IsTree
<1> SUFFICES ASSUME y # l PROVE FALSE
  OBVIOUS
<1> DEFINE B == {z \in DOMAIN t : IsUnder(l, z) /\ z # l}
           T == {Len(z) : z \in B}
<1>1. B \subseteq Path /\ B \subseteq DOMAIN t /\ y \in B
  BY <1>0
<1>2. \A z \in B : Len(z) \in Nat /\ IsUnder(l, z) /\ z # l
  BY <1>1, UnderShort
<1>3. T \in SUBSET Nat /\ T # {}
  BY <1>1, <1>2
<1>4. PICK k \in T : \A j \in T : k <= j
  BY <1>3, LeastExists
<1>5. PICK z \in B : k = Len(z)
  BY <1>4
<1>6. z # Root
  <2>1. Len(Root) = 0 /\ Root \in Path /\ Len(l) \in Nat
    BY <1>0, UnderShort DEF Root, Path
  <2>2. IsUnder(l, Root) => Root = l
    BY <1>0, <2>1, UnderShort
  <2> QED BY <1>2, <2>2
<1>7. PICK w \in Path, i \in {1, 2} : z = Append(w, i)
  BY <1>1, <1>6, PathCases
<1>8. Parent(z) = w /\ Len(z) = Len(w) + 1 /\ Len(w) \in Nat
  BY <1>7, PathAppend
<1>9. w \in DOMAIN t
  BY <1>0, <1>1, <1>6, <1>8 DEF WellFormed
<1>10. IsUnder(l, w)
  <2>1. IsUnder(l, Append(w, i)) /\ Append(w, i) # l
    BY <1>2, <1>7
  <2> QED BY <1>0, <2>1, UnderChild
<1>11. w = l
  <2> SUFFICES ASSUME w # l PROVE FALSE
    OBVIOUS
  <2>1. w \in B
    BY <1>9, <1>10
  <2>2. Len(w) \in T
    BY <2>1
  <2>3. Len(z) <= Len(w)
    BY <1>4, <1>5, <2>2
  <2> QED BY <1>8, <2>3
<1>12. z = First(l) \/ z = Second(l)
  BY <1>7, <1>11 DEF First, Second
<1> QED BY <1>0, <1>1, <1>12 DEF WellFormed

LEMMA AgreeUnder ==
    ASSUME NEW l \in Path, NEW y \in Path, Len(l) <= Len(y), \A j \in 1..Len(l) : y[j] = l[j]
    PROVE  IsUnder(l, y)
<1> USE DEF Path
<1>1. Len(l) \in Nat /\ Len(y) \in Nat
  BY LenProperties
<1>2. SubSeq(y, 1, Len(l)) \in Path /\ Len(SubSeq(y, 1, Len(l))) = Len(l)
  BY <1>1
<1>3. \A j \in 1..Len(l) : SubSeq(y, 1, Len(l))[j] = l[j]
  BY <1>1
<1>4. SubSeq(y, 1, Len(l)) = l
  BY <1>2, <1>3, SeqEqual
<1> QED BY <1>1, <1>4 DEF IsUnder

LEMMA ConcatElements ==
    ASSUME NEW l \in Path, NEW r \in Path
    PROVE  /\ l \o r \in Path /\ Len(l) \in Nat /\ Len(r) \in Nat /\ Len(l \o r) = Len(l) + Len(r)
           /\ \A j \in 1..Len(l) : (l \o r)[j] = l[j]
           /\ \A j \in 1..Len(r) : (l \o r)[Len(l) + j] = r[j]
BY ConcatProperties, LenProperties DEF Path

\* Where a node outside a subtree lies of a node inside depends only on
\* the root of the subtree.
LEMMA BeforeOutside ==
    ASSUME NEW l \in Path, NEW z \in Path, IsUnder(l, z), NEW y \in Path, ~IsUnder(l, y)
    PROVE  (Before(z, y) <=> Before(l, y)) /\ (Before(y, z) <=> Before(y, l))
<1>0. PICK r \in Path : z = l \o r
  BY UnderSuffix
<1>1. /\ z \in Path /\ Len(l) \in Nat /\ Len(r) \in Nat /\ Len(z) = Len(l) + Len(r)
      /\ \A j \in 1..Len(l) : z[j] = l[j]
  BY <1>0, ConcatElements
<1>2. Len(y) \in Nat
  BY UnderShort
<1>3. ASSUME NEW i \in Nat, i > Len(l), i <= Len(y), \A j \in 1..(i - 1) : z[j] = y[j]
      PROVE  FALSE
  <2>1. \A j \in 1..Len(l) : y[j] = l[j]
    BY <1>1, <1>3
  <2>2. Len(l) <= Len(y)
    BY <1>1, <1>2, <1>3
  <2> QED BY <2>1, <2>2, AgreeUnder
<1>4. ASSUME Before(z, y) PROVE Before(l, y)
  <2>1. PICK i \in 1..Len(z) : i <= Len(y) /\ z[i] < y[i] /\ \A j \in 1..(i - 1) : z[j] = y[j]
    BY <1>4 DEF Before
  <2>2. i <= Len(l)
    BY <1>1, <1>3, <2>1
  <2>3. i \in 1..Len(l) /\ l[i] < y[i] /\ \A j \in 1..(i - 1) : l[j] = y[j]
    BY <1>1, <2>1, <2>2
  <2> QED BY <2>1, <2>3 DEF Before
<1>5. ASSUME Before(y, z) PROVE Before(y, l)
  <2>1. PICK i \in 1..Len(y) : i <= Len(z) /\ y[i] < z[i] /\ \A j \in 1..(i - 1) : y[j] = z[j]
    BY <1>5 DEF Before
  <2>2. i <= Len(l)
    <3>1. \A j \in 1..(i - 1) : z[j] = y[j]
      BY <2>1
    <3>2. i \in Nat /\ i <= Len(y)
      BY <1>2, <2>1
    <3>3. ~(i > Len(l))
      BY <1>3, <3>1, <3>2
    <3> QED BY <1>1, <3>2, <3>3
  <2>3. i <= Len(l) /\ y[i] < l[i] /\ \A j \in 1..(i - 1) : y[j] = l[j]
    BY <1>1, <2>1, <2>2
  <2> QED BY <2>1, <2>3 DEF Before
<1>6. ASSUME Before(l, y) PROVE Before(z, y)
  <2>1. PICK i \in 1..Len(l) : i <= Len(y) /\ l[i] < y[i] /\ \A j \in 1..(i - 1) : l[j] = y[j]
    BY <1>6 DEF Before
  <2>2. i \in 1..Len(z) /\ z[i] < y[i] /\ \A j \in 1..(i - 1) : z[j] = y[j]
    BY <1>1, <2>1
  <2> QED BY <2>1, <2>2 DEF Before
<1>7. ASSUME Before(y, l) PROVE Before(y, z)
  <2>1. PICK i \in 1..Len(y) : i <= Len(l) /\ y[i] < l[i] /\ \A j \in 1..(i - 1) : y[j] = l[j]
    BY <1>7 DEF Before
  <2>2. i <= Len(z) /\ y[i] < z[i] /\ \A j \in 1..(i - 1) : y[j] = z[j]
    BY <1>1, <1>2, <2>1
  <2> QED BY <2>1, <2>2 DEF Before
<1> QED BY <1>4, <1>5, <1>6, <1>7

\* Moving a subtree keeps the order inside it.
At(q, r, x) == x = q \o r

LEMMA BeforeInside ==
    ASSUME NEW q \in Path, NEW r \in Path, NEW c \in Path, NEW x, At(q, r, x), NEW y, At(q, c, y)
    PROVE  Before(x, y) <=> Before(r, c)
<1>0. x = q \o r /\ y = q \o c
  BY DEF At
<1> DEFINE k == Len(q)
<1>1. /\ k \in Nat /\ Len(r) \in Nat /\ Len(c) \in Nat
      /\ Len(x) = k + Len(r) /\ Len(y) = k + Len(c)
  BY <1>0, ConcatElements
<1>2. /\ \A j \in 1..k : x[j] = q[j] /\ y[j] = q[j]
      /\ \A j \in 1..Len(r) : x[k + j] = r[j]
      /\ \A j \in 1..Len(c) : y[k + j] = c[j]
  BY <1>0, ConcatElements
<1>3. \A j \in 1..k : q[j] \in Nat
  BY DEF Path
<1> HIDE DEF k
<1>4. ASSUME Before(x, y) PROVE Before(r, c)
  <2>1. PICK i \in 1..Len(x) : i <= Len(y) /\ x[i] < y[i] /\ \A j \in 1..(i - 1) : x[j] = y[j]
    BY <1>4 DEF Before
  <2>2. i > k
    <3>1. SUFFICES ASSUME i <= k PROVE FALSE
      BY <1>1
    <3>2. x[i] = q[i] /\ y[i] = q[i] /\ q[i] \in Nat
      BY <1>1, <1>2, <1>3, <3>1
    <3> QED BY <2>1, <3>2
  <2> DEFINE h == i - k
  <2>3. h \in 1..Len(r) /\ h <= Len(c) /\ k + h = i
    BY <1>1, <2>1, <2>2
  <2>4. r[h] = x[i] /\ c[h] = y[i]
    BY <1>1, <1>2, <2>3
  <2>5. ASSUME NEW j \in 1..(h - 1)
        PROVE  r[j] = c[j]
    <3>1. j \in 1..Len(r) /\ j \in 1..Len(c) /\ k + j \in 1..(i - 1)
      BY <1>1, <2>3
    <3> QED BY <1>2, <2>1, <3>1
  <2> HIDE DEF h
  <2> QED BY <2>1, <2>3, <2>4, <2>5 DEF Before
<1>5. ASSUME Before(r, c) PROVE Before(x, y)
  <2>1. PICK h \in 1..Len(r) : h <= Len(c) /\ r[h] < c[h] /\ \A j \in 1..(h - 1) : r[j] = c[j]
    BY <1>5 DEF Before
  <2> DEFINE i == k + h
  <2>2. i \in 1..Len(x) /\ i <= Len(y) /\ h \in 1..Len(c)
    BY <1>1, <2>1
  <2>3. x[i] < y[i]
    BY <1>2, <2>1, <2>2
  <2>4. ASSUME NEW j \in 1..(i - 1)
        PROVE  x[j] = y[j]
    <3>1. CASE j <= k
      BY <1>1, <1>2, <3>1
    <3>2. CASE j > k
      <4> DEFINE g == j - k
      <4>1. g \in 1..(h - 1) /\ g \in 1..Len(r) /\ g \in 1..Len(c) /\ k + g = j
        BY <1>1, <2>1, <3>2
      <4> HIDE DEF g
      <4> QED BY <1>2, <2>1, <4>1
    <3> QED BY <1>1, <2>1, <3>1, <3>2
  <2> HIDE DEF i
  <2> QED BY <2>2, <2>3, <2>4 DEF Before
<1> QED BY <1>4, <1>5

LEMMA OriginBefore ==
    ASSUME NEW s \in Path, s # Root, NEW x \in Path, NEW y \in Path, NEW a \in Path, NEW b \in Path,
           Origin(s, x, y), Origin(s, a, b)
    PROVE  Before(x, a) <=> Before(y, b)
<1> DEFINE q == Parent(s)
<1>0. q \in Path
  BY SiblingFacts
<1> HIDE DEF q
\* A node kept outside the split sees the moved node where it was.
<1>1. ASSUME NEW z \in Path, ~IsUnder(q, z), NEW r \in Path, NEW d, d = q \o r, NEW e, e = s \o r
      PROVE  (Before(d, z) <=> Before(e, z)) /\ (Before(z, d) <=> Before(z, e))
  <2>1. IsUnder(q, e) /\ e \in Path
    BY <1>1, OriginMoved DEF q
  <2>2. IsUnder(q, d) /\ d \in Path
    BY <1>0, <1>1, UnderConcat
  <2>3. (Before(d, z) <=> Before(q, z)) /\ (Before(z, d) <=> Before(z, q))
    BY <1>0, <1>1, <2>2, BeforeOutside
  <2>4. (Before(e, z) <=> Before(q, z)) /\ (Before(z, e) <=> Before(z, q))
    BY <1>0, <1>1, <2>1, BeforeOutside
  <2> QED BY <2>3, <2>4
<1>2. (x = y /\ ~IsUnder(q, x)) \/ \E r \in Path : x = q \o r /\ y = s \o r
  BY DEF Origin, q
<1>3. (a = b /\ ~IsUnder(q, a)) \/ \E r \in Path : a = q \o r /\ b = s \o r
  BY DEF Origin, q
<1>4. CASE x = y /\ ~IsUnder(q, x) /\ a = b
  BY <1>4
<1>5. ASSUME x = y, ~IsUnder(q, x), NEW r \in Path, a = q \o r, b = s \o r
      PROVE  Before(x, a) <=> Before(y, b)
  BY <1>1, <1>5
<1>6. ASSUME a = b, ~IsUnder(q, a), NEW r \in Path, x = q \o r, y = s \o r
      PROVE  Before(x, a) <=> Before(y, b)
  BY <1>1, <1>6
<1>7. ASSUME NEW r \in Path, x = q \o r, y = s \o r, NEW c \in Path, a = q \o c, b = s \o c
      PROVE  Before(x, a) <=> Before(y, b)
  <2>0. At(q, r, x) /\ At(q, c, a) /\ At(s, r, y) /\ At(s, c, b)
    BY <1>7 DEF At
  <2>1. Before(x, a) <=> Before(r, c)
    BY <1>0, <2>0, BeforeInside
  <2>2. Before(y, b) <=> Before(r, c)
    BY <2>0, BeforeInside
  <2> QED BY <2>1, <2>2
<1> QED BY <1>2, <1>3, <1>4, <1>5, <1>6, <1>7

-----------------------------------------------------------------------------
(* No operation reorders the panes that stay                               *)

LEMMA LeftOfNodes ==
    ASSUME NEW t, GoodTree(t), NEW n \in DOMAIN t, NEW m \in DOMAIN t,
           t[n].pane \in PaneId, t[m].pane \in PaneId
    PROVE  <<t[n].pane, t[m].pane>> \in LeftOf(t) <=> Before(n, m)
<1>1. IsLeaf(t, n) /\ IsLeaf(t, m)
  BY PaneTreeAssumption DEF GoodTree, WellFormed
<1>2. ASSUME Before(n, m) PROVE <<t[n].pane, t[m].pane>> \in LeftOf(t)
  <2> DEFINE d == <<n, m>>
  <2>1. d \in (DOMAIN t) \X (DOMAIN t) /\ d[1] = n /\ d[2] = m
    OBVIOUS
  <2> QED BY <1>1, <1>2, <2>1 DEF LeftOf
<1>3. ASSUME <<t[n].pane, t[m].pane>> \in LeftOf(t) PROVE Before(n, m)
  <2>0. LeftOf(t) = {<<t[d[1]].pane, t[d[2]].pane>> :
                        d \in {e \in (DOMAIN t) \X (DOMAIN t) :
                                IsLeaf(t, e[1]) /\ IsLeaf(t, e[2]) /\ Before(e[1], e[2])}}
    BY DEF LeftOf
  <2>1. PICK d \in (DOMAIN t) \X (DOMAIN t) :
            /\ Before(d[1], d[2])
            /\ <<t[n].pane, t[m].pane>> = <<t[d[1]].pane, t[d[2]].pane>>
    BY <1>3, <2>0, Zenon
  <2>2. d[1] \in DOMAIN t /\ d[2] \in DOMAIN t /\ t[n].pane = t[d[1]].pane /\ t[m].pane = t[d[2]].pane
    BY <2>1
  <2>3. d[1] = n /\ d[2] = m
    BY <2>2 DEF GoodTree, OnePane
  <2> QED BY <2>1, <2>3
<1> QED BY <1>2, <1>3

\* The nodes of a pane that is in both trees correspond.
SameOrder(t, u) ==
    \A n, m \in DOMAIN t : \A x, y \in DOMAIN u :
        /\ t[n].pane = u[x].pane /\ t[n].pane \in PaneId
        /\ t[m].pane = u[y].pane /\ t[m].pane \in PaneId
        => (Before(n, m) <=> Before(x, y))

LEMMA OrderSame ==
    ASSUME NEW t, GoodTree(t), NEW u, GoodTree(u), SameOrder(t, u), NEW S,
           S = (PanesOf(t) \ {EmptyId}) \cap (PanesOf(u) \ {EmptyId})
    PROVE  LeftOf(t) \cap (S \X S) = LeftOf(u) \cap (S \X S)
<1>1. ASSUME NEW p \in S
      PROVE  /\ p \in PaneId /\ \E n \in DOMAIN t : t[n].pane = p
             /\ \E x \in DOMAIN u : u[x].pane = p
  <2>1. PICK n \in DOMAIN t : t[n].pane = p
    BY DEF PanesOf
  <2>2. PICK x \in DOMAIN u : u[x].pane = p
    BY DEF PanesOf
  <2>3. p \in PaneId
    <3>1. p \in PaneOrEmpty \cup {NoPane}
      BY <2>1 DEF GoodTree, IsTree, NodeLabel
    <3> QED BY <3>1 DEF PanesOf, PaneOrEmpty
  <2> QED BY <2>1, <2>2, <2>3
<1>2. ASSUME NEW p \in S, NEW o \in S
      PROVE  <<p, o>> \in LeftOf(t) <=> <<p, o>> \in LeftOf(u)
  <2>1. PICK n \in DOMAIN t : t[n].pane = p
    BY <1>1
  <2>2. PICK m \in DOMAIN t : t[m].pane = o
    BY <1>1
  <2>3. PICK x \in DOMAIN u : u[x].pane = p
    BY <1>1
  <2>4. PICK y \in DOMAIN u : u[y].pane = o
    BY <1>1
  <2>5. p \in PaneId /\ o \in PaneId
    BY <1>1
  <2>6. <<p, o>> \in LeftOf(t) <=> Before(n, m)
    BY <2>1, <2>2, <2>5, LeftOfNodes
  <2>7. <<p, o>> \in LeftOf(u) <=> Before(x, y)
    BY <2>3, <2>4, <2>5, LeftOfNodes
  <2>8. Before(n, m) <=> Before(x, y)
    BY <2>1, <2>2, <2>3, <2>4, <2>5 DEF SameOrder
  <2> QED BY <2>6, <2>7, <2>8
<1>3. ASSUME NEW e \in S \X S
      PROVE  e \in LeftOf(t) <=> e \in LeftOf(u)
  <2>1. PICK p \in S, o \in S : e = <<p, o>>
    OBVIOUS
  <2> QED BY <1>2, <2>1
<1> QED BY <1>3

\* A tree with the same nodes and the same panes.
LEMMA SameNodesOrder ==
    ASSUME NEW t, GoodTree(t), NEW u, DOMAIN u = DOMAIN t,
           \A m \in DOMAIN t : u[m].pane \in PaneId => u[m].pane = t[m].pane
    PROVE  SameOrder(t, u)
BY DEF SameOrder, GoodTree, OnePane

LEMMA BeforeSelf ==
    ASSUME NEW x \in Path
    PROVE  ~Before(x, x)
BY DEF Before, Path

LEMMA SplitOrder ==
    ASSUME NEW t, GoodTree(t), NEW l \in DOMAIN t, IsLeaf(t, l),
           NEW k \in SplitKinds, NEW r \in Ratios, NEW p \in PaneId,
           \A m \in DOMAIN t : t[m].pane # p,
           NEW u, u = SplitAt(t, l, k, r, p)
    PROVE  SameOrder(t, u)
<1>0. IsTree(t) /\ WellFormed(t) /\ OnePane(t) /\ DOMAIN t \subseteq Path
  BY DEF GoodTree, IsTree
<1>1. ASSUME NEW x \in DOMAIN u, NEW n \in DOMAIN t, t[n].pane = u[x].pane, t[n].pane \in PaneId
      PROVE  (n = l /\ x = First(l)) \/ (n # l /\ x = n)
  <2>1. \/ x = l /\ u[x].pane = NoPane
        \/ x = First(l) /\ u[x].pane = t[l].pane
        \/ x = Second(l) /\ u[x].pane = p
        \/ x \in DOMAIN t \ {l} /\ u[x].pane = t[x].pane
    BY <1>0, SplitPanes
  <2> QED BY <1>0, <1>1, <2>1, PaneTreeAssumption DEF OnePane
<1>2. First(l) \in Path /\ l \in Path
  BY <1>0, PathAppend DEF First
<1>3. ASSUME NEW y \in DOMAIN t, y # l
      PROVE  (Before(First(l), y) <=> Before(l, y)) /\ (Before(y, First(l)) <=> Before(y, l))
  <2>1. ~IsUnder(l, y)
    BY <1>3, NothingUnderLeaf
  <2>2. IsUnder(l, First(l))
    BY <1>2, UnderShort, UnderChild DEF First
  <2>3. y \in Path
    BY <1>0
  <2> QED BY <1>2, <2>1, <2>2, <2>3, BeforeOutside
<1>4. ~Before(l, l) /\ ~Before(First(l), First(l))
  BY <1>2, BeforeSelf
<1>5. ASSUME NEW n \in DOMAIN t, NEW m \in DOMAIN t, NEW x \in DOMAIN u, NEW y \in DOMAIN u,
             t[n].pane = u[x].pane, t[n].pane \in PaneId, t[m].pane = u[y].pane, t[m].pane \in PaneId
      PROVE  Before(n, m) <=> Before(x, y)
  <2>1. (n = l /\ x = First(l)) \/ (n # l /\ x = n)
    BY <1>1, <1>5
  <2>2. (m = l /\ y = First(l)) \/ (m # l /\ y = m)
    BY <1>1, <1>5
  <2> QED BY <1>3, <1>4, <2>1, <2>2
<1> QED BY <1>5 DEF SameOrder

LEMMA PromoteOrder ==
    ASSUME NEW t, GoodTree(t), NEW s \in DOMAIN t, s # Root, NEW u, u = Promote(t, s)
    PROVE  SameOrder(t, u)
<1>0. IsTree(t) /\ OnePane(t) /\ DOMAIN t \subseteq Path /\ s \in Path
  BY DEF GoodTree, IsTree
<1>1. /\ \A x \in DOMAIN u : \E y \in DOMAIN t : Origin(s, x, y)
      /\ \A y \in DOMAIN t : \A x : Origin(s, x, y) => x \in DOMAIN u /\ u[x] = t[y]
  BY <1>0, PromoteDef
<1>2. ASSUME NEW x \in DOMAIN u, NEW n \in DOMAIN t, t[n].pane = u[x].pane, t[n].pane \in PaneId
      PROVE  Origin(s, x, n) /\ x \in Path
  <2>1. PICK y \in DOMAIN t : Origin(s, x, y)
    BY <1>1
  <2>2. y = n
    BY <1>0, <1>1, <1>2, <2>1 DEF OnePane
  <2> QED BY <1>0, <2>1, <2>2, OriginPath
<1>3. ASSUME NEW n \in DOMAIN t, NEW m \in DOMAIN t, NEW x \in DOMAIN u, NEW y \in DOMAIN u,
             t[n].pane = u[x].pane, t[n].pane \in PaneId, t[m].pane = u[y].pane, t[m].pane \in PaneId
      PROVE  Before(n, m) <=> Before(x, y)
  <2>1. Origin(s, x, n) /\ Origin(s, y, m) /\ x \in Path /\ y \in Path
    BY <1>2, <1>3
  <2>2. n \in Path /\ m \in Path
    BY <1>0
  <2> QED BY <1>0, <2>1, <2>2, OriginBefore
<1> QED BY <1>3 DEF SameOrder

\* Closing a leaf loses no other pane.
LEMMA PromoteKeeps ==
    ASSUME NEW t, GoodTree(t), NEW n \in DOMAIN t, IsLeaf(t, n), n # Root,
           NEW u, u = Promote(t, Sibling(n)), NEW y \in DOMAIN t, IsLeaf(t, y), y # n
    PROVE  \E x \in DOMAIN u : u[x] = t[y]
<1> DEFINE s == Sibling(n)
           q == Parent(n)
<1>0. IsTree(t) /\ WellFormed(t) /\ n \in Path /\ y \in Path
  BY DEF GoodTree, IsTree
<1>1. /\ s \in DOMAIN t /\ s \in Path /\ s # Root /\ q \in Path /\ q \in DOMAIN t
      /\ Parent(s) = q
  BY <1>0, SiblingFacts DEF WellFormed
<1>2. \A x : Origin(s, x, y) => x \in DOMAIN u /\ u[x] = t[y]
  BY <1>0, <1>1, PromoteDef
<1>3. PICK m \in Path, i \in {1, 2} : n = Append(m, i)
  BY <1>0, PathCases
<1>4. m = q /\ s = Append(q, 3 - i)
  BY <1>3, PathAppend
<1> HIDE DEF s, q
<1>5. CASE ~IsUnder(q, y)
  BY <1>1, <1>2, <1>5 DEF Origin
<1>6. CASE IsUnder(q, y)
  <2>1. PICK r \in Path : y = q \o r
    BY <1>0, <1>1, <1>6, UnderSuffix
  <2>2. y # q
    <3>1. First(q) \in DOMAIN t \/ Second(q) \in DOMAIN t
      BY <1>3, <1>4 DEF First, Second
    <3> QED BY <1>0, <1>1, <3>1 DEF WellFormed
  <2>3. r # Root
    BY <1>1, <2>1, <2>2, ConcatRoot
  <2>4. PICK j \in {1, 2}, c \in Path : r = <<j>> \o c
    <3>1. r \in Seq({1, 2}) /\ r # << >>
      BY <2>3 DEF Path, Root
    <3>2. Head(r) \in {1, 2} /\ Tail(r) \in Path /\ <<Head(r)>> \o Tail(r) = r
      BY <3>1, HeadTailProperties DEF Path
    <3> QED BY <3>2
  <2>5. q \o (<<j>> \o c) = (q \o <<j>>) \o c /\ q \o <<j>> = Append(q, j)
    <3>1. q \in Seq({1, 2}) /\ <<j>> \in Seq({1, 2}) /\ c \in Seq({1, 2})
      BY <1>1 DEF Path
    <3> QED BY <3>1, ConcatAssociative, AppendIsConcat
  <2>6. y = Append(q, j) \o c
    BY <2>1, <2>4, <2>5
  <2>7. CASE j = i
    <3>1. y = n \o c
      BY <1>3, <1>4, <2>6, <2>7
    <3>2. IsUnder(n, y)
      BY <1>0, <3>1, UnderConcat
    <3> QED BY <3>2, NothingUnderLeaf
  <2>8. CASE j # i
    <3>1. j = 3 - i
      BY <2>8
    <3>2. y = s \o c
      BY <1>4, <2>6, <3>1
    <3>3. Origin(s, q \o c, y)
      BY <1>1, <3>2 DEF Origin
    <3> QED BY <1>2, <3>3
  <2> QED BY <2>7, <2>8
<1> QED BY <1>5, <1>6

LEMMA RemoveOrder ==
    ASSUME NEW t, GoodTree(t), NEW p \in PanesOf(t), NEW u, u = RemoveLeaf(t, p)
    PROVE  SameOrder(t, u) /\ \A a \in PaneId : a \in PanesOf(t) /\ a \notin PanesOf(u) => a = p
<1> DEFINE n == NodeOf(t, p)
<1>0. WellFormed(t) /\ n \in DOMAIN t /\ n \in Path /\ t[n].pane = p /\ IsLeaf(t, n) /\ DOMAIN t \subseteq Path
  BY NodeOfPane DEF GoodTree, IsTree
<1>1. CASE n = Root
  <2>1. u = EmptyTree
    BY <1>1 DEF RemoveLeaf
  <2>2. SameOrder(t, u)
    BY <2>1, EmptyGood DEF SameOrder
  <2>3. ASSUME NEW y \in DOMAIN t
        PROVE  y = n
    <3>1. IsUnder(Root, y)
      BY DEF IsUnder, Root
    <3> QED BY <1>0, <1>1, <3>1, NothingUnderLeaf
  <2>4. PanesOf(t) \subseteq {p}
    BY <1>0, <2>3 DEF PanesOf
  <2> QED BY <2>2, <2>4
<1>2. CASE n # Root
  <2>1. u = Promote(t, Sibling(n))
    BY <1>2 DEF RemoveLeaf
  <2>2. Sibling(n) \in DOMAIN t /\ Sibling(n) # Root
    BY <1>0, <1>2, SiblingFacts DEF WellFormed
  <2>3. SameOrder(t, u)
    BY <2>1, <2>2, PromoteOrder
  <2> HIDE DEF n
  <2>4. ASSUME NEW a \in PaneId, a \in PanesOf(t), a \notin PanesOf(u), a # p
        PROVE  FALSE
    <3>1. PICK y \in DOMAIN t : t[y].pane = a
      BY <2>4 DEF PanesOf
    <3>2. IsLeaf(t, y) /\ y # n /\ a # NoPane
      BY <1>0, <2>4, <3>1, PaneTreeAssumption DEF WellFormed
    <3>3. PICK x \in DOMAIN u : u[x] = t[y]
      BY <1>0, <1>2, <2>1, <3>2, PromoteKeeps
    <3> QED BY <2>4, <3>1, <3>2, <3>3 DEF PanesOf
  <2> QED BY <2>3, <2>4
<1> QED BY <1>1, <1>2

LEMMA SplitKeeps ==
    ASSUME NEW t, GoodTree(t), NEW l \in DOMAIN t, IsLeaf(t, l), NEW k, NEW r, NEW p,
           NEW u, u = SplitAt(t, l, k, r, p)
    PROVE  PanesOf(t) \subseteq PanesOf(u)
<1>1. l \in Path /\ First(l) \notin DOMAIN t /\ Second(l) \notin DOMAIN t
  BY DEF GoodTree, IsTree, WellFormed
<1>2. First(l) # l /\ Second(l) # l /\ First(l) # Second(l)
  BY <1>1, ChildFacts
<1>3. DOMAIN u = DOMAIN t \cup {First(l), Second(l)} /\ u[First(l)] = t[l]
      /\ \A m \in DOMAIN t : m # l => u[m] = t[m]
  BY <1>1, <1>2 DEF SplitAt
<1> QED BY <1>3 DEF PanesOf

LEMMA NewPanes ==
    ASSUME NEW t, NEW u, NEW F, OnlyNew(u, t, F), NEW a \in PaneId, a \in PanesOf(u), a \notin PanesOf(t)
    PROVE  a \in F
BY PaneTreeAssumption DEF OnlyNew, PanesOf

LEMMA PanesTyped ==
    ASSUME NEW t, GoodTree(t)
    PROVE  PanesOf(t) \ {EmptyId} \subseteq PaneId
<1>1. \A n \in DOMAIN t : t[n].pane \in PaneOrEmpty \cup {NoPane}
  BY DEF GoodTree, IsTree, NodeLabel
<1> QED BY <1>1 DEF PanesOf, PaneOrEmpty

\* A reloaded tree differs only in the empty id.
LEMMA SamePanes ==
    ASSUME NEW t, NEW u, DOMAIN u = DOMAIN t,
           \A m \in DOMAIN t : u[m].pane = t[m].pane \/ (t[m].pane = NoPane /\ u[m].pane = EmptyId),
           NEW a \in PaneId
    PROVE  a \in PanesOf(t) <=> a \in PanesOf(u)
<1>1. a # NoPane /\ a # EmptyId
  BY PaneTreeAssumption
<1> QED BY <1>1 DEF PanesOf

-----------------------------------------------------------------------------
(* Induction with the property given as a set.                             *)
LEMMA CountUp ==
    ASSUME NEW n \in Nat, NEW P, 0 \in P, \A k \in 1..n : k - 1 \in P => k \in P
    PROVE  0..n \subseteq P
<1> DEFINE T == {k \in 0..n : k \notin P}
<1> SUFFICES ASSUME T # {} PROVE FALSE
  OBVIOUS
<1>1. PICK k \in T : \A m \in T : k <= m
  <2>1. T \in SUBSET Nat
    OBVIOUS
  <2> HIDE DEF T
  <2> QED BY <2>1, LeastExists
<1>2. k \in 1..n /\ k - 1 \in 0..n /\ ~(k <= k - 1)
  OBVIOUS
<1>3. k - 1 \in P
  BY <1>1, <1>2
<1> QED BY <1>2, <1>3

LEMMA SeqInduct ==
    ASSUME NEW S, NEW P, <<>> \in P,
           \A r \in Seq(S) : \A x \in S : r \in P => Append(r, x) \in P
    PROVE  Seq(S) \subseteq P
<1> SUFFICES ASSUME NEW s \in Seq(S) PROVE s \in P
  OBVIOUS
<1> DEFINE Q == {k \in 0..Len(s) : SubSeq(s, 1, k) \in P}
<1>1. Len(s) \in Nat
  OBVIOUS
<1>2. 0 \in Q
  <2>1. SubSeq(s, 1, 0) = <<>>
    OBVIOUS
  <2>2. SubSeq(s, 1, 0) \in P
    BY <2>1, Zenon
  <2>3. 0 \in 0..Len(s)
    BY <1>1
  <2> QED BY <2>2, <2>3, Zenon
<1>3. ASSUME NEW k \in 1..Len(s), k - 1 \in Q PROVE k \in Q
  <2>1. SubSeq(s, 1, k - 1) \in P /\ SubSeq(s, 1, k - 1) \in Seq(S) /\ s[k] \in S
    BY <1>3
  <2>2. SubSeq(s, 1, k) = Append(SubSeq(s, 1, k - 1), s[k])
    OBVIOUS
  <2>3. SubSeq(s, 1, k) \in P
    BY <2>1, <2>2
  <2> QED BY <2>3
<1> HIDE DEF Q
<1>4. Len(s) \in Q
  <2>1. \A k \in 1..Len(s) : k - 1 \in Q => k \in Q
    BY <1>3
  <2> DEFINE n == Len(s)
  <2>2. n \in Nat
    BY <1>1
  <2> HIDE DEF n
  <2>3. 0..n \subseteq Q
    BY <1>2, <2>1, <2>2, CountUp DEF n
  <2> QED BY <2>2, <2>3 DEF n
<1>5. SubSeq(s, 1, Len(s)) = s
  OBVIOUS
<1> QED BY <1>4, <1>5 DEF Q

-----------------------------------------------------------------------------
\* g is the table of Only(s, K) up to n.
Filters(g, s, K, n) ==
    /\ g[0] = <<>>
    /\ \A i \in 1..n : g[i] = IF s[i] \in K THEN Append(g[i - 1], s[i]) ELSE g[i - 1]

LEMMA FiltersAgree ==
    ASSUME NEW n \in Nat, NEW s, NEW r, NEW K, NEW f, NEW g, \A i \in 1..n : s[i] = r[i],
           Filters(f, s, K, n), Filters(g, r, K, n)
    PROVE  f[n] = g[n]
<1> DEFINE P == {k \in 0..n : f[k] = g[k]}
<1>1. 0 \in P
  BY DEF Filters
<1>2. ASSUME NEW k \in 1..n, k - 1 \in P PROVE k \in P
  BY <1>2 DEF Filters
<1> HIDE DEF P
<1>3. n \in P
  BY <1>1, <1>2, CountUp
<1> QED BY <1>3 DEF P

LEMMA FiltersExists ==
    ASSUME NEW n \in Nat, NEW s, NEW K
    PROVE  \E g : DOMAIN g = 0..n /\ g = [i \in 0..n |-> g[i]] /\ Filters(g, s, K, n)
<1> DEFINE Is(g, k) == DOMAIN g = 0..k /\ g = [i \in 0..k |-> g[i]] /\ Filters(g, s, K, k)
           P == {k \in 0..n : \E g : Is(g, k)}
<1>1. 0 \in P
  <2> DEFINE g == [i \in 0..0 |-> <<>>]
  <2>1. Is(g, 0)
    BY DEF Filters
  <2> QED BY <2>1
<1>2. ASSUME NEW k \in 1..n, k - 1 \in P PROVE k \in P
  <2>1. PICK g : Is(g, k - 1)
    BY <1>2
  <2> DEFINE h == [i \in 0..k |-> IF i < k THEN g[i]
                                  ELSE IF s[k] \in K THEN Append(g[k - 1], s[k]) ELSE g[k - 1]]
  <2>2. Is(h, k)
    <3>1. h[0] = <<>>
      BY <2>1 DEF Filters
    <3>2. ASSUME NEW i \in 1..k
          PROVE  h[i] = IF s[i] \in K THEN Append(h[i - 1], s[i]) ELSE h[i - 1]
      <4>1. CASE i < k
        BY <2>1, <4>1 DEF Filters
      <4>2. CASE i = k
        BY <4>2
      <4> QED BY <4>1, <4>2
    <3> HIDE DEF h
    <3>3. Filters(h, s, K, k)
      BY <3>1, <3>2 DEF Filters
    <3>4. DOMAIN h = 0..k /\ h = [i \in 0..k |-> h[i]]
      BY DEF h
    <3> QED BY <3>3, <3>4
  <2> HIDE DEF Is
  <2> QED BY <2>2
<1> HIDE DEF P
<1>3. n \in P
  BY <1>1, <1>2, CountUp
<1> QED BY <1>3 DEF P

LEMMA OnlyTable ==
    ASSUME NEW S, NEW s \in Seq(S), NEW K
    PROVE  \E g : Filters(g, s, K, Len(s)) /\ Only(s, K) = g[Len(s)]
<1> DEFINE n == Len(s)
           Body(f) == [i \in 0..n |-> IF i = 0 THEN <<>>
                              ELSE IF s[i] \in K THEN Append(f[i - 1], s[i]) ELSE f[i - 1]]
           f == CHOOSE g : g = Body(g)
<1>0. n \in Nat
  OBVIOUS
<1>1. PICK g : DOMAIN g = 0..n /\ g = [i \in 0..n |-> g[i]] /\ Filters(g, s, K, n)
  BY <1>0, FiltersExists
<1>2. g = Body(g)
  <2>1. ASSUME NEW i \in 0..n PROVE g[i] = Body(g)[i]
    BY <1>1 DEF Filters
  <2> QED BY <1>1, <2>1
<1>3. f = Body(f)
  BY <1>2
<1>4. Filters(f, s, K, n)
  <2>1. \A i \in 0..n : f[i] = Body(f)[i]
    BY <1>3, Zenon
  <2> HIDE DEF f
  <2> QED BY <1>0, <2>1 DEF Filters
<1>5. Only(s, K) = f[n]
  BY DEF Only
<1> QED BY <1>4, <1>5

LEMMA OnlyEmpty == ASSUME NEW K PROVE Only(<<>>, K) = <<>>
<1>1. <<>> \in Seq({}) /\ Len(<<>>) = 0
  OBVIOUS
<1>2. PICK g : Filters(g, <<>>, K, Len(<<>>)) /\ Only(<<>>, K) = g[Len(<<>>)]
  BY <1>1, OnlyTable
<1> QED BY <1>1, <1>2 DEF Filters

LEMMA OnlyAppend ==
    ASSUME NEW S, NEW s \in Seq(S), NEW x \in S, NEW K
    PROVE  Only(Append(s, x), K) = IF x \in K THEN Append(Only(s, K), x) ELSE Only(s, K)
<1> DEFINE r == Append(s, x)
           n == Len(s)
<1>1. r \in Seq(S) /\ Len(r) = n + 1 /\ n \in Nat /\ r[n + 1] = x /\ \A i \in 1..n : s[i] = r[i]
  BY AppendProperties
<1> HIDE DEF r
<1>2. PICK f : Filters(f, s, K, n) /\ Only(s, K) = f[n]
  BY OnlyTable
<1>3. PICK g : Filters(g, r, K, n + 1) /\ Only(r, K) = g[n + 1]
  BY <1>1, OnlyTable
<1> HIDE DEF n
<1>4. Filters(g, r, K, n)
  BY <1>1, <1>3 DEF Filters
<1>5. f[n] = g[n]
  BY <1>1, <1>2, <1>4, FiltersAgree
<1>6. g[n + 1] = IF x \in K THEN Append(g[n], x) ELSE g[n]
  BY <1>1, <1>3 DEF Filters
<1> QED BY <1>2, <1>3, <1>5, <1>6 DEF r

LEMMA AppendSet ==
    ASSUME NEW S, NEW s \in Seq(S), NEW x \in S
    PROVE  ToSet(Append(s, x)) = ToSet(s) \cup {x} /\ ToSet(s) \subseteq S
<1> DEFINE r == Append(s, x)
           n == Len(s)
<1>1. /\ r \in Seq(S) /\ Len(r) = n + 1 /\ n \in Nat /\ r[n + 1] = x /\ \A i \in 1..n : s[i] = r[i]
      /\ DOMAIN r = 1..(n + 1) /\ DOMAIN s = 1..n
  BY AppendProperties
<1> HIDE DEF r, n
<1>2. ToSet(r) = ToSet(s) \cup {x}
  <2>1. \A i \in 1..(n + 1) : i \in 1..n \/ i = n + 1
    BY <1>1
  <2>2. n + 1 \in 1..(n + 1) /\ \A i \in 1..n : i \in 1..(n + 1)
    BY <1>1
  <2> QED BY <1>1, <2>1, <2>2 DEF ToSet
<1>3. ToSet(s) \subseteq S
  BY <1>1 DEF ToSet
<1> QED BY <1>2, <1>3 DEF r

\* What Only keeps.
LEMMA OnlySet ==
    ASSUME NEW S, NEW s \in Seq(S), NEW K
    PROVE  Only(s, K) \in Seq(S) /\ ToSet(Only(s, K)) = ToSet(s) \cap K
<1> DEFINE P == {r \in Seq(S) : Only(r, K) \in Seq(S) /\ ToSet(Only(r, K)) = ToSet(r) \cap K}
<1>1. <<>> \in P
  <2>1. ToSet(<<>>) = {} /\ <<>> \in Seq(S)
    BY DEF ToSet
  <2> QED BY <2>1, OnlyEmpty
<1>2. ASSUME NEW r \in Seq(S), NEW x \in S, r \in P PROVE Append(r, x) \in P
  <2>1. Append(r, x) \in Seq(S)
    BY AppendProperties
  <2>2. ToSet(Append(r, x)) = ToSet(r) \cup {x}
    BY AppendSet
  <2>3. Only(r, K) \in Seq(S) /\ ToSet(Only(r, K)) = ToSet(r) \cap K
    BY <1>2
  <2> DEFINE o == Only(r, K)
  <2>4. Only(Append(r, x), K) = IF x \in K THEN Append(o, x) ELSE o
    BY OnlyAppend
  <2>5. Append(o, x) \in Seq(S) /\ ToSet(Append(o, x)) = ToSet(o) \cup {x}
    BY <2>3, AppendSet, AppendProperties
  <2> HIDE DEF o
  <2>6. CASE x \in K
    <3>1. ToSet(Append(o, x)) = ToSet(Append(r, x)) \cap K
      BY <2>2, <2>3, <2>5, <2>6 DEF o
    <3> QED BY <2>1, <2>4, <2>5, <2>6, <3>1
  <2>7. CASE x \notin K
    <3>1. ToSet(o) = ToSet(Append(r, x)) \cap K
      BY <2>2, <2>3, <2>7 DEF o
    <3> QED BY <2>1, <2>3, <2>4, <2>7, <3>1 DEF o
  <2> QED BY <2>6, <2>7
<1> HIDE DEF P
<1>3. s \in P
  BY <1>1, <1>2, SeqInduct
<1> QED BY <1>3 DEF P

\* Filtering twice.
LEMMA OnlyTwice ==
    ASSUME NEW S, NEW s \in Seq(S), NEW K, NEW L
    PROVE  Only(Only(s, K), L) = Only(s, K \cap L)
<1> DEFINE P == {r \in Seq(S) : Only(Only(r, K), L) = Only(r, K \cap L)}
<1>1. <<>> \in P
  BY OnlyEmpty
<1>2. ASSUME NEW r \in Seq(S), NEW x \in S, r \in P PROVE Append(r, x) \in P
  <2> DEFINE o == Only(r, K)
             k == K \cap L
  <2>1. o \in Seq(S) /\ Append(r, x) \in Seq(S)
    BY OnlySet, AppendProperties
  <2>2. Only(Append(r, x), K) = IF x \in K THEN Append(o, x) ELSE o
    BY OnlyAppend
  <2>3. Only(Append(r, x), k) = IF x \in k THEN Append(Only(r, k), x) ELSE Only(r, k)
    BY OnlyAppend
  <2>4. Only(o, L) = Only(r, k)
    BY <1>2
  <2> HIDE DEF o
  <2>5. Only(Append(o, x), L) = IF x \in L THEN Append(Only(o, L), x) ELSE Only(o, L)
    BY <2>1, OnlyAppend
  <2>6. x \in k <=> x \in K /\ x \in L
    OBVIOUS
  <2>7. Only(Only(Append(r, x), K), L) = Only(Append(r, x), k)
    <3> HIDE DEF k
    <3> QED BY <2>2, <2>3, <2>4, <2>5, <2>6
  <2> QED BY <2>1, <2>7
<1> HIDE DEF P
<1>3. s \in P
  BY <1>1, <1>2, SeqInduct
<1> QED BY <1>3 DEF P

\* Only the members of s that are in K matter.
LEMMA OnlyMembers ==
    ASSUME NEW S, NEW s \in Seq(S), NEW K, NEW L, ToSet(s) \cap K = ToSet(s) \cap L
    PROVE  Only(s, K) = Only(s, L)
<1> DEFINE P == {r \in Seq(S) : ToSet(r) \cap K = ToSet(r) \cap L => Only(r, K) = Only(r, L)}
<1>1. <<>> \in P
  BY OnlyEmpty
<1>2. ASSUME NEW r \in Seq(S), NEW x \in S, r \in P PROVE Append(r, x) \in P
  <2>1. Append(r, x) \in Seq(S) /\ ToSet(Append(r, x)) = ToSet(r) \cup {x}
    BY AppendProperties, AppendSet
  <2>2. ASSUME ToSet(Append(r, x)) \cap K = ToSet(Append(r, x)) \cap L
        PROVE  Only(Append(r, x), K) = Only(Append(r, x), L)
    <3>1. ToSet(r) \cap K = ToSet(r) \cap L /\ (x \in K <=> x \in L)
      BY <2>1, <2>2
    <3>2. Only(r, K) = Only(r, L)
      BY <1>2, <3>1
    <3>3. \A k : Only(Append(r, x), k) = IF x \in k THEN Append(Only(r, k), x) ELSE Only(r, k)
      BY OnlyAppend
    <3> QED BY <3>1, <3>2, <3>3
  <2> QED BY <2>1, <2>2
<1> HIDE DEF P
<1>3. s \in P
  BY <1>1, <1>2, SeqInduct
<1> QED BY <1>3 DEF P

LEMMA OnlyAll ==
    ASSUME NEW S, NEW s \in Seq(S), NEW K
    PROVE  /\ ToSet(s) \subseteq K => Only(s, K) = s
           /\ ToSet(s) \cap K = {} => Only(s, K) = <<>>
<1> DEFINE P == {r \in Seq(S) : Only(r, S) = r /\ Only(r, {}) = <<>>}
<1>1. <<>> \in P
  BY OnlyEmpty
<1>2. ASSUME NEW r \in Seq(S), NEW x \in S, r \in P PROVE Append(r, x) \in P
  <2>1. \A k : Only(Append(r, x), k) = IF x \in k THEN Append(Only(r, k), x) ELSE Only(r, k)
    BY OnlyAppend
  <2> QED BY <1>2, <2>1, AppendProperties
<1>3. s \in P
  <2> HIDE DEF P
  <2> QED BY <1>1, <1>2, SeqInduct
<1>4. ToSet(s) \subseteq S
  BY DEF ToSet
<1>5. ASSUME ToSet(s) \subseteq K PROVE Only(s, K) = s
  <2>1. ToSet(s) \cap K = ToSet(s) \cap S
    BY <1>4, <1>5
  <2> QED BY <1>3, <2>1, OnlyMembers
<1>6. ASSUME ToSet(s) \cap K = {} PROVE Only(s, K) = <<>>
  <2>1. ToSet(s) \cap K = ToSet(s) \cap {}
    BY <1>6
  <2>2. Only(s, K) = Only(s, {})
    BY <2>1, OnlyMembers
  <2> QED BY <1>3, <2>2
<1> QED BY <1>5, <1>6

LEMMA OnlyConcat ==
    ASSUME NEW S, NEW a \in Seq(S), NEW b \in Seq(S), NEW K
    PROVE  Only(a \o b, K) = Only(a, K) \o Only(b, K)
<1> DEFINE P == {r \in Seq(S) : Only(a \o r, K) = Only(a, K) \o Only(r, K)}
           o == Only(a, K)
<1>0. o \in Seq(S) /\ \A r \in Seq(S) : Only(r, K) \in Seq(S)
  BY OnlySet
<1>1. <<>> \in P
  <2>1. a \o <<>> = a /\ o \o <<>> = o
    BY <1>0, ConcatEmptySeq
  <2>2. Only(a \o <<>>, K) = o \o Only(<<>>, K)
    BY <2>1, OnlyEmpty, Zenon
  <2> QED BY <2>2
<1>2. ASSUME NEW r \in Seq(S), NEW x \in S, r \in P PROVE Append(r, x) \in P
  <2>0. a \o r \in Seq(S) /\ Append(r, x) \in Seq(S)
    BY ConcatProperties, AppendProperties
  <2>1. \A c \in Seq(S), d \in Seq(S) : c \o Append(d, x) = Append(c \o d, x)
    OBVIOUS
  <2>2. a \o Append(r, x) = Append(a \o r, x) /\ o \o Append(Only(r, K), x) = Append(o \o Only(r, K), x)
    BY <1>0, <2>1
  <2>3. Only(Append(a \o r, x), K) = IF x \in K THEN Append(Only(a \o r, K), x) ELSE Only(a \o r, K)
    BY <2>0, OnlyAppend
  <2>4. Only(Append(r, x), K) = IF x \in K THEN Append(Only(r, K), x) ELSE Only(r, K)
    BY OnlyAppend
  <2>5. Only(a \o r, K) = o \o Only(r, K)
    BY <1>2
  <2>6. Only(a \o Append(r, x), K) = o \o Only(Append(r, x), K)
    BY <2>2, <2>3, <2>4, <2>5
  <2> QED BY <2>0, <2>6
<1>3. b \in P
  <2> HIDE DEF P
  <2> QED BY <1>1, <1>2, SeqInduct
<1> QED BY <1>3

-----------------------------------------------------------------------------
Distinct(s) == \A i, j \in DOMAIN s : s[i] = s[j] => i = j

LEMMA DistinctAppend ==
    ASSUME NEW S, NEW s \in Seq(S), NEW x \in S
    PROVE  Distinct(Append(s, x)) <=> Distinct(s) /\ x \notin ToSet(s)
<1> DEFINE r == Append(s, x)
           n == Len(s)
<1>1. /\ n \in Nat /\ r[n + 1] = x /\ \A i \in 1..n : s[i] = r[i]
      /\ DOMAIN r = 1..(n + 1) /\ DOMAIN s = 1..n
  BY AppendProperties
<1> HIDE DEF r, n
<1>2. \A i \in 1..(n + 1) : (i \in 1..n \/ i = n + 1) /\ (i \in 1..n => i # n + 1)
  BY <1>1
<1>3. n + 1 \in 1..(n + 1) /\ \A i \in 1..n : i \in 1..(n + 1)
  BY <1>1
<1>4. Distinct(r) <=> Distinct(s) /\ x \notin ToSet(s)
  BY <1>1, <1>2, <1>3 DEF Distinct, ToSet
<1> QED BY <1>4 DEF r

LEMMA OnlyDistinct ==
    ASSUME NEW S, NEW s \in Seq(S), Distinct(s), NEW K
    PROVE  Distinct(Only(s, K))
<1> DEFINE P == {r \in Seq(S) : Distinct(r) => Distinct(Only(r, K))}
<1>1. <<>> \in P
  <2>1. Distinct(<<>>)
    BY DEF Distinct
  <2> QED BY <2>1, OnlyEmpty
<1>2. ASSUME NEW r \in Seq(S), NEW x \in S, r \in P PROVE Append(r, x) \in P
  <2>1. Append(r, x) \in Seq(S) /\ Only(r, K) \in Seq(S) /\ ToSet(Only(r, K)) \subseteq ToSet(r)
    BY AppendProperties, OnlySet
  <2>2. Only(Append(r, x), K) = IF x \in K THEN Append(Only(r, K), x) ELSE Only(r, K)
    BY OnlyAppend
  <2>3. Distinct(Append(r, x)) <=> Distinct(r) /\ x \notin ToSet(r)
    BY DistinctAppend
  <2>4. Distinct(Append(Only(r, K), x)) <=> Distinct(Only(r, K)) /\ x \notin ToSet(Only(r, K))
    BY <2>1, DistinctAppend
  <2> QED BY <1>2, <2>1, <2>2, <2>3, <2>4
<1>3. s \in P
  <2> HIDE DEF P
  <2> QED BY <1>1, <1>2, SeqInduct
<1> QED BY <1>3

\* Erasing at an index erases the value.
LEMMA RemoveAtIsOnly ==
    ASSUME NEW S, NEW s \in Seq(S), Distinct(s), NEW i \in DOMAIN s, NEW K,
           S \ {s[i]} \subseteq K, s[i] \notin K
    PROVE  RemoveAt(s, i) = Only(s, K)
<1> DEFINE a == SubSeq(s, 1, i - 1)
           b == SubSeq(s, i + 1, Len(s))
           c == SubSeq(s, i, Len(s))
           x == s[i]
           e == <<x>>
<1>1. Len(s) \in Nat /\ i \in 1..Len(s) /\ x \in S
  OBVIOUS
<1>2. a \in Seq(S) /\ Len(a) = i - 1 /\ \A j \in 1..(i - 1) : a[j] = s[j]
  BY <1>1, SubSeqProperties
<1>3. /\ b \in Seq(S) /\ Len(b) = Len(s) - i
      /\ \A j \in 1..(Len(s) - i) : b[j] = s[i + j]
  BY <1>1
<1>4. c = e \o b /\ e \in Seq(S) /\ e \o b \in Seq(S) /\ ToSet(e) = {x}
  <2>1. c = e \o b
    <3>1. Len(s) \in i..Len(s)
      BY <1>1
    <3> QED BY <1>1, <3>1, SubSeqRecursiveFirst
  <2>2. e \in Seq(S) /\ ToSet(e) = {x}
    BY <1>1 DEF ToSet
  <2> HIDE DEF e, b
  <2> QED BY <1>3, <2>1, <2>2, ConcatProperties
<1>5. a \o c = s
  <2>1. 1 \in 1..Len(s) + 1 /\ i - 1 \in 1 - 1..Len(s) /\ Len(s) \in i - 1..Len(s) /\ (i - 1) + 1 = i
    BY <1>1
  <2>2. a \o SubSeq(s, (i - 1) + 1, Len(s)) = SubSeq(s, 1, Len(s))
    BY <2>1, ConcatAdjacentSubSeq
  <2>3. SubSeq(s, 1, Len(s)) = s
    BY SubSeqFull
  <2> QED BY <2>1, <2>2, <2>3
<1>6. ToSet(a) \subseteq K
  <2> SUFFICES ASSUME NEW j \in DOMAIN a PROVE a[j] \in K
    BY DEF ToSet
  <2>1. j \in 1..(i - 1) /\ j \in DOMAIN s /\ j # i
    BY <1>1, <1>2
  <2>2. s[j] # x /\ s[j] \in S
    BY <1>1, <2>1 DEF Distinct
  <2> QED BY <1>2, <2>1, <2>2
<1>7. ToSet(b) \subseteq K
  <2> SUFFICES ASSUME NEW j \in DOMAIN b PROVE b[j] \in K
    BY DEF ToSet
  <2>1. j \in 1..(Len(s) - i) /\ i + j \in DOMAIN s /\ i + j # i
    BY <1>1, <1>3
  <2>2. s[i + j] # x /\ s[i + j] \in S
    BY <1>1, <2>1 DEF Distinct
  <2> QED BY <1>3, <2>1, <2>2
<1> HIDE DEF a, b, c, e
<1>8. Only(e, K) = <<>>
  BY <1>4, OnlyAll
<1>9. Only(a, K) = a /\ Only(b, K) = b
  BY <1>2, <1>3, <1>6, <1>7, OnlyAll
<1>10. Only(s, K) = Only(a, K) \o (Only(e, K) \o Only(b, K))
  <2>1. c \in Seq(S)
    BY <1>4
  <2>2. Only(a \o c, K) = Only(a, K) \o Only(c, K)
    <3>1. a \in Seq(S)
      BY <1>2
    <3> QED BY <2>1, <3>1, OnlyConcat
  <2>3. Only(e \o b, K) = Only(e, K) \o Only(b, K)
    <3>1. e \in Seq(S) /\ b \in Seq(S)
      BY <1>3, <1>4
    <3> QED BY <3>1, OnlyConcat
  <2>4. Only(c, K) = Only(e, K) \o Only(b, K)
    BY <1>4, <2>3, Zenon
  <2> QED BY <1>5, <2>2, <2>4, Zenon
<1>11. <<>> \o b = b
  BY <1>3, ConcatEmptySeq
<1>12. RemoveAt(s, i) = a \o b
  BY DEF RemoveAt, a, b
<1> QED BY <1>8, <1>9, <1>10, <1>11, <1>12

LEMMA ConcatSet ==
    ASSUME NEW S, NEW a \in Seq(S), NEW b \in Seq(S)
    PROVE  a \o b \in Seq(S) /\ ToSet(a \o b) = ToSet(a) \cup ToSet(b)
<1> DEFINE s == a \o b
           m == Len(a)
           n == Len(b)
<1>1. /\ s \in Seq(S) /\ m \in Nat /\ n \in Nat /\ Len(s) = m + n
      /\ DOMAIN a = 1..m /\ DOMAIN b = 1..n /\ DOMAIN s = 1..(m + n)
      /\ \A i \in 1..(m + n) : s[i] = IF i <= m THEN a[i] ELSE b[i - m]
  BY ConcatProperties
<1> HIDE DEF s, m, n
<1>2. ASSUME NEW i \in DOMAIN s PROVE s[i] \in ToSet(a) \cup ToSet(b)
  <2>1. CASE i <= m
    BY <1>1, <2>1 DEF ToSet
  <2>2. CASE ~(i <= m)
    <3>1. i - m \in 1..n /\ s[i] = b[i - m]
      BY <1>1, <2>2
    <3> QED BY <1>1, <3>1 DEF ToSet
  <2> QED BY <2>1, <2>2
<1>3. ASSUME NEW i \in DOMAIN a PROVE a[i] \in ToSet(s)
  <2>1. i \in 1..(m + n) /\ s[i] = a[i]
    BY <1>1
  <2> QED BY <1>1, <2>1 DEF ToSet
<1>4. ASSUME NEW i \in DOMAIN b PROVE b[i] \in ToSet(s)
  <2>1. m + i \in 1..(m + n) /\ s[m + i] = b[i]
    BY <1>1
  <2> QED BY <1>1, <2>1 DEF ToSet
<1>5. ToSet(s) \subseteq ToSet(a) \cup ToSet(b)
  BY <1>2 DEF ToSet
<1>6. ToSet(a) \subseteq ToSet(s) /\ ToSet(b) \subseteq ToSet(s)
  BY <1>3, <1>4 DEF ToSet
<1> QED BY <1>1, <1>5, <1>6 DEF s

-----------------------------------------------------------------------------
(* The first k indices                                                     *)

Upto(k) == [i \in 1..k |-> i]

LEMMA UptoFacts ==
    ASSUME NEW k \in Nat
    PROVE  /\ Upto(k) \in Seq(Nat) /\ Len(Upto(k)) = k /\ ToSet(Upto(k)) = 1..k
           /\ Upto(k + 1) = Append(Upto(k), k + 1) /\ Upto(0) = <<>>
<1>1. /\ Upto(k) \in Seq(Nat) /\ Len(Upto(k)) = k
      /\ Upto(k + 1) \in Seq(Nat) /\ Len(Upto(k + 1)) = k + 1
  BY DEF Upto
<1>2. ToSet(Upto(k)) = 1..k
  BY DEF Upto, ToSet
<1>3. Upto(k + 1) = Append(Upto(k), k + 1)
  <2> DEFINE a == Append(Upto(k), k + 1)
             b == Upto(k + 1)
  <2>1. a \in Seq(Nat) /\ Len(a) = k + 1
    BY <1>1, AppendProperties
  <2>2. \A i \in 1..(k + 1) : a[i] = b[i]
    BY DEF Upto
  <2> HIDE DEF a, b
  <2>3. b \in Seq(Nat) /\ Len(b) = k + 1
    BY <1>1 DEF b
  <2>4. a = b
    BY <2>1, <2>2, <2>3, SeqEqual
  <2> QED BY <2>4 DEF a, b
<1>4. Upto(0) = <<>>
  BY DEF Upto
<1> QED BY <1>1, <1>2, <1>3, <1>4

=============================================================================
