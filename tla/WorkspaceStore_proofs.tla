----------------------- MODULE WorkspaceStore_proofs -----------------------
(***************************************************************************)
(* Proofs about WorkspaceStore, for every set of workspaces and panes and  *)
(* every bound: panes belong to one workspace, snapshot lists resolve, and *)
(* the two copies of a terminal's contents agree.                          *)
(***************************************************************************)
EXTENDS WorkspaceStore, FiniteSetTheorems, TLAPS

SnapRow == [ws : Workspace, rev : Nat, state : State, stored : BOOLEAN]

\* restore_snapshot makes the state of a snapshot the open workspace, so its
\* snapshot list must resolve as well.
SnapshotListsResolve ==
    \A s \in SnapIds : \A t \in snapshots[s].state.snaps :
        t \in SnapIds /\ snapshots[t].ws = snapshots[s].ws

\* A closed core holds no workspace.
ClosedIsFresh == open = None => cur = Fresh

IInv ==
    /\ TypeOK /\ ClosedIsFresh
    /\ PanesNotShared /\ SnapshotsResolve /\ SnapshotListsResolve
    /\ BlobsMatchRows

-----------------------------------------------------------------------------
(* Tables                                                                  *)

LEMMA ContentsDef ==
    ASSUME NEW f
    PROVE  f \in Contents <=> /\ f = [p \in DOMAIN f |-> f[p]]
                              /\ DOMAIN f \subseteq Pane
                              /\ \A p \in DOMAIN f : f[p] \in Content
<1>1. ASSUME f \in Contents
      PROVE  /\ f = [p \in DOMAIN f |-> f[p]] /\ DOMAIN f \subseteq Pane
             /\ \A p \in DOMAIN f : f[p] \in Content
  <2>1. PICK S \in SUBSET Pane : f \in [S -> Content]
    BY <1>1 DEF Contents
  <2> QED BY <2>1
<1>2. ASSUME f = [p \in DOMAIN f |-> f[p]], DOMAIN f \subseteq Pane,
             \A p \in DOMAIN f : f[p] \in Content
      PROVE  f \in Contents
  <2>1. f \in [DOMAIN f -> Content] /\ DOMAIN f \in SUBSET Pane
    BY <1>2
  <2> QED BY <2>1 DEF Contents
<1> QED BY <1>1, <1>2

LEMMA UpsertContents ==
    ASSUME NEW f \in Contents, NEW p \in Pane, NEW c \in Content
    PROVE  /\ Upsert(f, p, c) \in Contents
           /\ DOMAIN Upsert(f, p, c) = DOMAIN f \cup {p}
BY ContentsDef DEF Upsert

LEMMA RestrictContents ==
    ASSUME NEW f \in Contents, NEW S \in SUBSET DOMAIN f
    PROVE  /\ Restrict(f, S) \in Contents /\ DOMAIN Restrict(f, S) = S
           /\ \A p \in S : Restrict(f, S)[p] = f[p]
BY ContentsDef DEF Restrict

LEMMA OverlayContents ==
    ASSUME NEW f \in Contents, NEW g \in Contents
    PROVE  /\ Overlay(f, g) \in Contents /\ DOMAIN Overlay(f, g) = DOMAIN f \cup DOMAIN g
           /\ \A p \in DOMAIN g : Overlay(f, g)[p] = g[p]
           /\ \A p \in DOMAIN f \ DOMAIN g : Overlay(f, g)[p] = f[p]
BY ContentsDef DEF Overlay

LEMMA FreshState == Fresh \in State /\ DOMAIN Fresh.panes = {} /\ Fresh.snaps = {}
<1>1. NoPanes \in Contents
  BY ContentsDef DEF NoPanes
<1> QED BY <1>1 DEF Fresh, State, NoPanes

\* The revision number of a snapshot is a number: its workspace has finitely
\* many rows.
LEMMA SnapshotRowType ==
    ASSUME TypeOK, open # None, NEW state \in State, NEW stored \in BOOLEAN
    PROVE  SnapshotRow(state, stored) \in SnapRow
<1>1. IsFiniteSet(1..Len(snapshots))
  BY FS_Interval DEF TypeOK
<1>2. RowsOf(open) \subseteq 1..Len(snapshots)
  BY DEF RowsOf, SnapIds, TypeOK
<1>3. Cardinality(RowsOf(open)) \in Nat
  BY <1>1, <1>2, FS_Subset, FS_CardinalityType
<1> QED BY <1>3 DEF SnapshotRow, SnapRow, TypeOK

\* Appending a row keeps the others and their ids.
LEMMA AppendSnapshot ==
    ASSUME TypeOK, NEW r \in SnapRow, snapshots' = Append(snapshots, r)
    PROVE  /\ snapshots' \in Seq(SnapRow)
           /\ SnapIds' = SnapIds \cup {Len(snapshots) + 1}
           /\ \A s \in SnapIds : snapshots'[s] = snapshots[s]
           /\ snapshots'[Len(snapshots) + 1] = r
           /\ Len(snapshots) + 1 \notin SnapIds /\ SnapIds = 1..Len(snapshots)
<1> snapshots \in Seq(SnapRow)
  BY DEF TypeOK, SnapRow
<1> QED BY DEF SnapIds

-----------------------------------------------------------------------------
LEMMA InitIInv == Init => IInv
<1> SUFFICES ASSUME Init PROVE IInv
  OBVIOUS
<1>1. NoPanes \in Contents /\ DOMAIN NoPanes = {}
  BY ContentsDef DEF NoPanes
<1>2. DOMAIN rows = {} /\ SnapIds = {} /\ DOMAIN owner = {}
  BY DEF Init, SnapIds
<1>3. snapshots \in Seq(SnapRow)
  BY DEF Init
<1>4. dirty \in BOOLEAN
  BY DEF Init
<1>5. TypeOK
  BY <1>1, <1>2, <1>3, <1>4, FreshState DEF Init, TypeOK, SnapRow
<1> QED BY <1>1, <1>2, <1>5, FreshState
        DEF Init, IInv, ClosedIsFresh, PanesNotShared, SnapshotsResolve, SnapshotListsResolve,
            BlobsMatchRows

-----------------------------------------------------------------------------
(* What a step must keep, by what it changes                               *)

\* Only the open workspace changes, the tables and the owners stay.
LEMMA TablesKept ==
    ASSUME IInv, UNCHANGED <<rows, blob, snapshots, owner, ids, version>>,
           closed' \subseteq Workspace \cup {StateJson},
           open' \in Workspace \cup {None}, cur' \in State, dirty' \in BOOLEAN,
           open' = None => cur' = Fresh,
           \A p \in DOMAIN cur'.panes : p \in DOMAIN owner /\ owner[p] = open',
           \A s \in cur'.snaps : s \in SnapIds /\ snapshots[s].ws = open'
    PROVE  IInv'
<1>1. TypeOK'
  BY DEF IInv, TypeOK
<1>2. PanesNotShared' /\ SnapshotsResolve' /\ SnapshotListsResolve'
  BY DEF IInv, PanesNotShared, SnapshotsResolve, SnapshotListsResolve, SnapIds
<1>3. BlobsMatchRows' /\ ClosedIsFresh'
  BY DEF IInv, BlobsMatchRows, ClosedIsFresh, Captured
<1> QED BY <1>1, <1>2, <1>3 DEF IInv

LEMMA OpenIInv == ASSUME IInv, NEW w \in Workspace, open_workspace(w) PROVE IInv'
<1>1. rows[w] \in State /\ blob \in Contents /\ w \in DOMAIN rows
  BY DEF IInv, TypeOK, open_workspace
<1> DEFINE load == [p \in DOMAIN rows[w].panes |->
                      IF p \in DOMAIN blob THEN blob[p] ELSE rows[w].panes[p]]
<1>2. load \in Contents /\ DOMAIN load = DOMAIN rows[w].panes
  <2>1. rows[w].panes \in Contents
    BY <1>1 DEF State
  <2> QED BY <1>1, <2>1, ContentsDef
<1>3. cur' \in State /\ DOMAIN cur'.panes = DOMAIN rows[w].panes /\ cur'.snaps = rows[w].snaps
  BY <1>1, <1>2 DEF open_workspace, Loaded, State
<1> QED BY <1>1, <1>3, TablesKept, StoreAssumption
        DEF open_workspace, tables, generated, IInv, TypeOK, PanesNotShared, SnapshotsResolve

LEMMA CloseIInv == ASSUME IInv, close_workspace \/ Exit PROVE IInv'
<1>1. open' = None /\ cur' = Fresh /\ UNCHANGED <<tables, generated>> /\ dirty' \in BOOLEAN
  BY DEF close_workspace, Exit, IInv, TypeOK, tables, generated
<1> QED BY <1>1, TablesKept, FreshState DEF tables, generated, IInv, TypeOK

LEMMA RenameIInv == ASSUME IInv, rename_workspace \/ store_closed_window PROVE IInv'
<1>1. UNCHANGED <<rows, blob, snapshots, owner, ids, version, open, cur>> /\ dirty' \in BOOLEAN
  BY DEF rename_workspace, store_closed_window, IInv, TypeOK, tables, generated
<1>2. closed' \subseteq Workspace \cup {StateJson}
  BY DEF rename_workspace, store_closed_window, IInv, TypeOK, tables
<1> QED BY <1>1, <1>2, TablesKept
        DEF IInv, TypeOK, ClosedIsFresh, PanesNotShared, SnapshotsResolve

LEMMA RemoveIInv == ASSUME IInv, NEW p \in Pane, remove_pane(p) PROVE IInv'
<1>1. cur \in State /\ cur.panes \in Contents
  BY DEF IInv, TypeOK, State
<1> DEFINE left == Restrict(cur.panes, DOMAIN cur.panes \ {p})
<1>2. left \in Contents /\ DOMAIN left \subseteq DOMAIN cur.panes
  BY <1>1, RestrictContents
<1>3. cur' = [cur EXCEPT !.panes = left]
  BY DEF remove_pane
<1>4. cur' \in State /\ cur'.panes = left /\ cur'.snaps = cur.snaps
  BY <1>1, <1>2, <1>3 DEF State
<1>5. UNCHANGED <<rows, blob, snapshots, closed, owner, ids, version, open>> /\ dirty' \in BOOLEAN
  BY DEF remove_pane, tables, generated
<1> QED BY <1>2, <1>4, <1>5, TablesKept
        DEF remove_pane, IsOpen, IInv, TypeOK, PanesNotShared, SnapshotsResolve

LEMMA RestoreIInv == ASSUME IInv, NEW s \in 1..MaxSnapshots, restore_snapshot(s) PROVE IInv'
<1>1. s \in SnapIds /\ snapshots[s].ws = open /\ cur' = snapshots[s].state
  BY DEF restore_snapshot, RowsOf
<1>2. cur' \in State
  <2>1. snapshots \in Seq(SnapRow) /\ s \in 1..Len(snapshots)
    BY <1>1 DEF IInv, TypeOK, SnapIds, SnapRow
  <2>2. snapshots[s] \in SnapRow
    BY <2>1
  <2> QED BY <1>1, <2>2 DEF SnapRow
<1> QED BY <1>1, <1>2, TablesKept
        DEF restore_snapshot, IsOpen, tables, generated, IInv, TypeOK, PanesNotShared,
            SnapshotListsResolve

\* A capture goes into a pane the open workspace already has.
LEMMA CaptureIInv ==
    ASSUME IInv, NEW p \in Pane, NEW empty \in BOOLEAN, apply_runtime_state(p, empty)
    PROVE  IInv'
<1> DEFINE c == IF empty THEN 0 ELSE version + 1
           panes == Upsert(cur.panes, p, c)
<1>1. c \in Content /\ version' \in Nat
  BY StoreAssumption DEF apply_runtime_state, Content, IInv, TypeOK
<1>2. cur \in State /\ cur.panes \in Contents /\ p \in DOMAIN cur.panes
  BY DEF IInv, TypeOK, State, apply_runtime_state
<1>3. panes \in Contents /\ DOMAIN panes = DOMAIN cur.panes
  <2> HIDE DEF c
  <2>1. panes \in Contents /\ DOMAIN panes = DOMAIN cur.panes \cup {p}
    BY <1>1, <1>2, UpsertContents
  <2> QED BY <1>2, <2>1
<1>4. cur' = [cur EXCEPT !.panes = panes]
  BY DEF apply_runtime_state
<1>5. cur' \in State /\ cur'.panes = panes /\ cur'.snaps = cur.snaps
  BY <1>2, <1>3, <1>4 DEF State
<1>6. UNCHANGED <<rows, blob, snapshots, closed, owner, ids, open>> /\ dirty' \in BOOLEAN /\ open # None
  BY DEF apply_runtime_state, tables, IsOpen
<1>7. TypeOK'
  BY <1>1, <1>5, <1>6 DEF IInv, TypeOK
<1>8. PanesNotShared' /\ SnapshotsResolve' /\ SnapshotListsResolve' /\ ClosedIsFresh'
  BY <1>3, <1>5, <1>6 DEF IInv, PanesNotShared, SnapshotsResolve, SnapshotListsResolve, SnapIds,
                          ClosedIsFresh
<1>9. BlobsMatchRows'
  BY <1>6 DEF IInv, BlobsMatchRows, Captured
<1> QED BY <1>7, <1>8, <1>9 DEF IInv

\* The id of a new pane is in no table yet.
LEMMA AddIInv == ASSUME IInv, NEW p \in Pane, add_pane(p) PROVE IInv'
<1> DEFINE panes == Upsert(cur.panes, p, 0)
<1>1. 0 \in Content
  BY StoreAssumption DEF Content
<1>2. cur \in State /\ cur.panes \in Contents
  BY DEF IInv, TypeOK, State
<1>3. panes \in Contents /\ DOMAIN panes = DOMAIN cur.panes \cup {p}
  BY <1>1, <1>2, UpsertContents
<1>4. cur' = [cur EXCEPT !.panes = panes]
  BY DEF add_pane
<1>5. cur' \in State /\ cur'.panes = panes /\ cur'.snaps = cur.snaps
  BY <1>2, <1>3, <1>4 DEF State
<1>6. UNCHANGED <<rows, blob, snapshots, closed, ids, version, open>> /\ dirty' \in BOOLEAN
      /\ open # None
  BY DEF add_pane, tables, IsOpen
<1>7. /\ DOMAIN owner' = DOMAIN owner \cup {p} /\ owner'[p] = open
      /\ \A q \in DOMAIN owner : owner'[q] = owner[q]
  BY DEF add_pane, Upsert
<1>8. TypeOK'
  BY <1>5, <1>6, <1>7 DEF IInv, TypeOK
<1>9. PanesNotShared'
  BY <1>3, <1>5, <1>6, <1>7 DEF IInv, PanesNotShared, SnapIds
<1>10. SnapshotsResolve' /\ SnapshotListsResolve' /\ ClosedIsFresh'
  BY <1>5, <1>6 DEF IInv, SnapshotsResolve, SnapshotListsResolve, SnapIds, ClosedIsFresh
<1>11. BlobsMatchRows'
  BY <1>6 DEF IInv, BlobsMatchRows, Captured
<1> QED BY <1>8, <1>9, <1>10, <1>11 DEF IInv

-----------------------------------------------------------------------------
(* Steps that write the tables                                             *)

LEMMA CreateIInv ==
    ASSUME IInv, NEW w \in Workspace, NEW saved \in BOOLEAN, create_workspace(w, saved)
    PROVE  IInv'
<1>1. /\ DOMAIN rows' \subseteq Workspace
      /\ \A x \in DOMAIN rows' : \/ x \in DOMAIN rows /\ rows'[x] = rows[x]
                                 \/ rows'[x] = Fresh
  BY DEF create_workspace, Upsert, IInv, TypeOK
<1>2. open' = w /\ cur' = Fresh /\ w # None /\ ids' \subseteq Workspace
      /\ UNCHANGED <<blob, snapshots, closed, dirty, owner, version>>
  BY StoreAssumption DEF create_workspace, IInv, TypeOK
<1>3. TypeOK'
  BY <1>1, <1>2, FreshState DEF IInv, TypeOK
<1>4. PanesNotShared' /\ SnapshotsResolve' /\ SnapshotListsResolve' /\ ClosedIsFresh'
  BY <1>1, <1>2, FreshState
     DEF IInv, PanesNotShared, SnapshotsResolve, SnapshotListsResolve, SnapIds, ClosedIsFresh
<1>5. BlobsMatchRows'
  BY <1>1, <1>2, FreshState DEF IInv, BlobsMatchRows, Captured
<1> QED BY <1>3, <1>4, <1>5 DEF IInv

LEMMA DeleteIInv == ASSUME IInv, NEW w \in Workspace, delete_workspace(w) PROVE IInv'
<1>1. DOMAIN rows' \subseteq DOMAIN rows /\ \A x \in DOMAIN rows' : rows'[x] = rows[x]
  BY DEF delete_workspace, Restrict
<1>2. UNCHANGED <<blob, snapshots, closed, open, cur, dirty, owner, ids, version>>
  BY DEF delete_workspace, generated
<1>3. TypeOK'
  BY <1>1, <1>2 DEF IInv, TypeOK
<1>4. PanesNotShared' /\ SnapshotsResolve' /\ SnapshotListsResolve' /\ ClosedIsFresh'
  BY <1>1, <1>2
     DEF IInv, PanesNotShared, SnapshotsResolve, SnapshotListsResolve, SnapIds, ClosedIsFresh
<1>5. BlobsMatchRows'
  BY <1>1, <1>2 DEF IInv, BlobsMatchRows, Captured
<1> QED BY <1>3, <1>4, <1>5 DEF IInv

\* A snapshot of the open workspace is taken before its id joins the list.
LEMMA SnapshotIInv == ASSUME IInv, NEW saved \in BOOLEAN, create_snapshot(saved) PROVE IInv'
<1> DEFINE r == SnapshotRow(cur, saved)
           n == Len(snapshots) + 1
<1>1. TypeOK /\ cur \in State /\ open # None
  BY DEF IInv, TypeOK, create_snapshot, IsOpen
<1>2. r \in SnapRow /\ r.ws = open /\ r.state = cur
  BY <1>1, SnapshotRowType DEF SnapshotRow
<1>3. UNCHANGED <<rows, blob, closed, open, owner, ids, version>> /\ dirty' \in BOOLEAN
  BY DEF create_snapshot, generated
<1>a. snapshots' = Append(snapshots, r)
  BY DEF create_snapshot
<1> HIDE DEF r
<1>4. /\ snapshots' \in Seq(SnapRow) /\ SnapIds' = SnapIds \cup {n}
      /\ \A s \in SnapIds : snapshots'[s] = snapshots[s]
      /\ snapshots'[n] = r /\ n \notin SnapIds
  BY <1>1, <1>2, <1>a, AppendSnapshot
<1>5. n \in 1..MaxSnapshots
  BY <1>1, StoreAssumption DEF create_snapshot, TypeOK
<1> HIDE DEF n
<1>6. cur' \in State /\ cur'.panes = cur.panes /\ cur'.snaps = cur.snaps \cup {n}
  BY <1>1, <1>5 DEF create_snapshot, State, n
<1>7. TypeOK'
  BY <1>1, <1>3, <1>4, <1>6 DEF TypeOK, SnapRow
<1>8. PanesNotShared'
  BY <1>2, <1>3, <1>4, <1>6 DEF IInv, PanesNotShared
<1>9. SnapshotsResolve' /\ ClosedIsFresh'
  BY <1>1, <1>2, <1>3, <1>4, <1>6 DEF IInv, SnapshotsResolve, ClosedIsFresh
<1>10. SnapshotListsResolve'
  <2> SUFFICES ASSUME NEW s \in SnapIds', NEW t \in snapshots'[s].state.snaps
               PROVE  t \in SnapIds' /\ snapshots'[t].ws = snapshots'[s].ws
    BY DEF SnapshotListsResolve
  <2>1. CASE s = n
    BY <1>2, <1>4, <2>1 DEF IInv, SnapshotsResolve
  <2>2. CASE s \in SnapIds
    BY <1>4, <2>2 DEF IInv, SnapshotListsResolve
  <2> QED BY <1>4, <2>1, <2>2
<1>11. BlobsMatchRows'
  BY <1>3 DEF IInv, BlobsMatchRows, Captured
<1> QED BY <1>7, <1>8, <1>9, <1>10, <1>11 DEF IInv

\* A checkpoint overwrites the blobs of the open workspace's panes only, and
\* with them the one row that names these panes.
LEMMA CheckpointIInv == ASSUME IInv, NEW ok \in BOOLEAN, checkpoint(ok) PROVE IInv'
<1> DEFINE next == [cur EXCEPT !.gen = @ + 1]
           r == SnapshotRow(next, TRUE)
           n == Len(snapshots) + 1
           new == Restrict(next.panes, Captured(next))
<1>1. TypeOK /\ cur \in State /\ open # None /\ open \in Workspace
  BY DEF IInv, TypeOK, checkpoint, IsOpen
<1>2. next \in State /\ next.panes = cur.panes /\ next.snaps = cur.snaps
  BY <1>1 DEF State
<1>3. cur' = next /\ UNCHANGED <<closed, open, owner, ids, version>>
  BY DEF checkpoint, generated
<1>4. CASE ~ok
  <2>1. UNCHANGED <<rows, blob, snapshots, dirty>>
    BY <1>4 DEF checkpoint
  <2> HIDE DEF next
  <2> QED BY <1>1, <1>2, <1>3, <2>1, TablesKept
          DEF IInv, TypeOK, ClosedIsFresh, PanesNotShared, SnapshotsResolve
<1>5. CASE ok
  <2>1. /\ rows' = Upsert(rows, open, next) /\ blob' = Overlay(blob, new)
        /\ snapshots' = Append(snapshots, r) /\ dirty' \in BOOLEAN
    BY <1>5 DEF checkpoint
  <2>2. r \in SnapRow /\ r.ws = open /\ r.state = next
    <3> HIDE DEF next
    <3> QED BY <1>1, <1>2, SnapshotRowType DEF SnapshotRow
  <2>3. new \in Contents /\ DOMAIN new = Captured(next) /\ \A p \in Captured(next) : new[p] = next.panes[p]
    <3> HIDE DEF next
    <3>1. next.panes \in Contents /\ Captured(next) \in SUBSET DOMAIN next.panes
      BY <1>2 DEF State, Captured
    <3> QED BY <3>1, RestrictContents
  <2> HIDE DEF next, r, new
  <2>4. /\ snapshots' \in Seq(SnapRow) /\ SnapIds' = SnapIds \cup {n}
        /\ \A s \in SnapIds : snapshots'[s] = snapshots[s]
        /\ snapshots'[n] = r /\ n \notin SnapIds
    BY <1>1, <2>1, <2>2, AppendSnapshot
  <2> HIDE DEF n
  <2>5. /\ DOMAIN rows' = DOMAIN rows \cup {open} /\ rows'[open] = next
        /\ \A w \in DOMAIN rows : w # open => rows'[w] = rows[w]
    BY <2>1 DEF Upsert
  <2>6. /\ blob' \in Contents /\ DOMAIN blob' = DOMAIN blob \cup DOMAIN new
        /\ \A p \in DOMAIN new : blob'[p] = new[p]
        /\ \A p \in DOMAIN blob \ DOMAIN new : blob'[p] = blob[p]
    BY <1>1, <2>1, <2>3, OverlayContents DEF TypeOK
  <2>7. TypeOK'
    BY <1>1, <1>2, <1>3, <2>1, <2>4, <2>5, <2>6 DEF TypeOK, SnapRow
  <2>8. PanesNotShared'
    BY <1>2, <1>3, <2>2, <2>4, <2>5 DEF IInv, PanesNotShared
  <2>9. SnapshotsResolve' /\ ClosedIsFresh'
    BY <1>1, <1>2, <1>3, <2>4, <2>5 DEF IInv, SnapshotsResolve, ClosedIsFresh
  <2>10. SnapshotListsResolve'
    <3> SUFFICES ASSUME NEW s \in SnapIds', NEW t \in snapshots'[s].state.snaps
                 PROVE  t \in SnapIds' /\ snapshots'[t].ws = snapshots'[s].ws
      BY DEF SnapshotListsResolve
    <3>1. CASE s = n
      BY <1>2, <2>2, <2>4, <3>1 DEF IInv, SnapshotsResolve
    <3>2. CASE s \in SnapIds
      BY <2>4, <3>2 DEF IInv, SnapshotListsResolve
    <3> QED BY <2>4, <3>1, <3>2
  <2>11. BlobsMatchRows'
    <3> SUFFICES ASSUME NEW w \in DOMAIN rows', NEW p \in Captured(rows'[w])
                 PROVE  p \in DOMAIN blob' /\ blob'[p] = rows'[w].panes[p]
      BY DEF BlobsMatchRows, Captured
    <3>1. CASE w = open
      BY <2>3, <2>5, <2>6, <3>1
    <3>2. CASE w # open
      <4>1. w \in DOMAIN rows /\ rows'[w] = rows[w]
        BY <2>5, <3>2
      <4>2. p \in DOMAIN rows[w].panes /\ p \in DOMAIN blob /\ blob[p] = rows[w].panes[p]
        BY <4>1 DEF IInv, BlobsMatchRows, Captured
      <4>3. p \notin DOMAIN cur.panes
        BY <3>2, <4>1, <4>2 DEF IInv, PanesNotShared
      <4>4. p \notin DOMAIN new
        BY <1>2, <2>3, <4>3 DEF Captured
      <4> QED BY <2>6, <4>1, <4>2, <4>4
    <3> QED BY <3>1, <3>2
  <2> QED BY <2>7, <2>8, <2>9, <2>10, <2>11 DEF IInv
<1> QED BY <1>4, <1>5

LEMMA NextIInv == IInv /\ [Next]_vars => IInv'
<1> SUFFICES ASSUME IInv, [Next]_vars PROVE IInv'
  OBVIOUS
<1>1. CASE UNCHANGED vars
  BY <1>1, TablesKept DEF vars, IInv, TypeOK, ClosedIsFresh, PanesNotShared, SnapshotsResolve
<1>2. CASE Next
  BY <1>2, CreateIInv, OpenIInv, DeleteIInv, CloseIInv, RenameIInv, AddIInv, RemoveIInv,
     CaptureIInv, CheckpointIInv, SnapshotIInv, RestoreIInv DEF Next
<1> QED BY <1>1, <1>2

LEMMA Invariance == Spec => []IInv
BY InitIInv, NextIInv, PTL DEF Spec

-----------------------------------------------------------------------------
(* The tables and the open workspace keep their types. *)
THEOREM TypeCorrect == Spec => []TypeOK
<1>1. IInv => TypeOK
  BY DEF IInv
<1> QED BY Invariance, <1>1, PTL

(* No pane of one workspace turns up in another, in its row, its snapshots *)
(* or in memory, whatever is created, restored, switched or lost.          *)
THEOREM OnePaneOneWorkspace == Spec => []PanesNotShared
<1>1. IInv => PanesNotShared
  BY DEF IInv
<1> QED BY Invariance, <1>1, PTL

(* Every listed snapshot id is a row of the same workspace, also after     *)
(* restoring a snapshot whose own list is older.                           *)
THEOREM SnapshotListsHold == Spec => [](SnapshotsResolve /\ SnapshotListsResolve)
<1>1. IInv => SnapshotsResolve /\ SnapshotListsResolve
  BY DEF IInv
<1> QED BY Invariance, <1>1, PTL

(* The blob open_workspace prefers is the contents of the saved JSON: a    *)
(* checkpoint of one workspace never touches the blobs of another.         *)
THEOREM CopiesAgree == Spec => []BlobsMatchRows
<1>1. IInv => BlobsMatchRows
  BY DEF IInv
<1> QED BY Invariance, <1>1, PTL
=============================================================================
