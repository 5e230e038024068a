--------------------------- MODULE WorkspaceStore ---------------------------
(***************************************************************************)
(* The life of workspaces in the database: what WorkspaceCore              *)
(* (core/workspace_core.cpp) does with its one open workspace and the      *)
(* tables of storage/storage.cpp: workspaces, snapshots,                   *)
(* terminal_snapshots (one blob per pane) and closed_windows.              *)
(*                                                                         *)
(* A workspace is reduced to its generation, its panes with the terminal   *)
(* snapshot each carries, and the ids of its named snapshots.  The saved   *)
(* JSON holds all of that; the blob table holds the terminal snapshots a   *)
(* second time.  A checkpoint is one step here (module SqliteStorage shows *)
(* that it is atomic); it and every single-statement write may fail.       *)
(* persist(), which would save the JSON without the blobs, has no caller   *)
(* but a unit test and is left to module WorkspaceCore.                    *)
(***************************************************************************)
EXTENDS Naturals, Sequences, FiniteSets, Functions

CONSTANTS
    Workspace,      \* the workspace ids Id::generate() can still hand out
    Pane,           \* the pane ids
    None,           \* no open workspace
    MaxVersion,     \* bound: terminal contents captured
    MaxSnapshots    \* bound: rows of the snapshots table, lost ones included

ASSUME StoreAssumption ==
    None \notin Workspace /\ MaxVersion \in Nat /\ MaxSnapshots \in Nat

VARIABLES
    rows,       \* table workspaces: ids to saved states
    blob,       \* table terminal_snapshots: panes to contents
    snapshots,  \* table snapshots, in the order the ids were generated
    closed,     \* table closed_windows: the keys its rows were stored under
    open,       \* id of ws_current_, None if there is none
    cur,        \* ws_current_
    dirty,      \* ws_dirty_
    owner,      \* pane ids generated so far, each with its workspace
    ids,        \* workspace ids generated so far
    version     \* contents captured so far

vars == <<rows, blob, snapshots, closed, open, cur, dirty, owner, ids, version>>
tables == <<rows, blob, snapshots, closed>>
generated == <<owner, ids, version>>

\* 0 is the empty snapshot_data vector.
Content == 0..MaxVersion
Contents == UNION {[S -> Content] : S \in SUBSET Pane}
State == [gen : Nat, panes : Contents, snaps : SUBSET (1..MaxSnapshots)]
NoPanes == [p \in {} |-> 0]
Fresh == [gen |-> 0, panes |-> NoPanes, snaps |-> {}]

\* The key closed_windows rows are really stored under: the JSON text that
\* store_closed_window binds as the workspace id.
StateJson == "state_json"

IsOpen == open # None
SnapIds == DOMAIN snapshots
RowsOf(w) == {s \in SnapIds : snapshots[s].ws = w /\ snapshots[s].stored}

Init ==
    /\ rows = [w \in {} |-> Fresh] /\ blob = NoPanes
    /\ snapshots = << >> /\ closed = {}
    /\ open = None /\ cur = Fresh /\ dirty = FALSE
    /\ owner = [p \in {} |-> None] /\ ids = {} /\ version = 0

-----------------------------------------------------------------------------
(* Storage                                                                 *)

\* INSERT ... ON CONFLICT DO UPDATE
Upsert(table, k, v) == [x \in DOMAIN table \cup {k} |-> IF x = k THEN v ELSE table[x]]

\* The same for every row of new.
Overlay(table, new) ==
    [x \in DOMAIN table \cup DOMAIN new |-> IF x \in DOMAIN new THEN new[x] ELSE table[x]]

\* The blobs of a checkpoint: panes whose snapshot_data is not empty.
Captured(state) == {p \in DOMAIN state.panes : state.panes[p] # 0}

\* revision = COUNT(*) + 1 over the rows of the workspace.
SnapshotRow(state, stored) ==
    [ws |-> open, rev |-> Cardinality(RowsOf(open)) + 1, state |-> state, stored |-> stored]

-----------------------------------------------------------------------------
(* Workspaces                                                              *)

\* saved: whether save_workspace, which reports nothing, wrote the row.
create_workspace(w, saved) ==
    /\ w \in Workspace \ ids
    /\ ids' = ids \cup {w}
    /\ rows' = IF saved THEN Upsert(rows, w, Fresh) ELSE rows
    /\ open' = w /\ cur' = Fresh
    /\ UNCHANGED <<blob, snapshots, closed, dirty, owner, version>>

\* The state load_workspace returns, with every pane that has a blob
\* overwritten by it.
Loaded(w) ==
    [rows[w] EXCEPT !.panes = [p \in DOMAIN @ |-> IF p \in DOMAIN blob THEN blob[p] ELSE @[p]]]

\* A workspace that is open is replaced without a word; ws_dirty_ stays.
open_workspace(w) ==
    /\ w \in DOMAIN rows
    /\ open' = w /\ cur' = Loaded(w)
    /\ UNCHANGED <<tables, dirty, generated>>

close_workspace ==
    /\ IsOpen
    /\ open' = None /\ cur' = Fresh
    /\ UNCHANGED <<tables, dirty, generated>>

\* Its snapshots, blobs and closed windows stay behind.
delete_workspace(w) ==
    /\ w \in DOMAIN rows /\ w # open
    /\ rows' = Restrict(rows, DOMAIN rows \ {w})
    /\ UNCHANGED <<blob, snapshots, closed, open, cur, dirty, generated>>

rename_workspace ==
    /\ IsOpen /\ dirty' = TRUE
    /\ UNCHANGED <<tables, open, cur, generated>>

\* A crash, or the end of the process.
Exit ==
    /\ open' = None /\ cur' = Fresh /\ dirty' = FALSE
    /\ UNCHANGED <<tables, generated>>

-----------------------------------------------------------------------------
(* Content                                                                 *)

\* A new tab or a split: PaneId::generate(), empty PaneState.
add_pane(p) ==
    /\ IsOpen /\ p \in Pane \ DOMAIN owner
    /\ owner' = Upsert(owner, p, open)
    /\ cur' = [cur EXCEPT !.panes = Upsert(@, p, 0)]
    /\ dirty' = TRUE
    /\ UNCHANGED <<tables, open, ids, version>>

remove_pane(p) ==
    /\ IsOpen /\ p \in DOMAIN cur.panes
    /\ cur' = [cur EXCEPT !.panes = Restrict(@, DOMAIN @ \ {p})]
    /\ dirty' = TRUE
    /\ UNCHANGED <<tables, open, generated>>

\* The capture of a pane: new contents, or an empty vector when VTE returns
\* no blob.
apply_runtime_state(p, empty) ==
    /\ IsOpen /\ p \in DOMAIN cur.panes
    /\ empty \/ version < MaxVersion
    /\ version' = IF empty THEN version ELSE version + 1
    /\ cur' = [cur EXCEPT !.panes = Upsert(@, p, IF empty THEN 0 ELSE version + 1)]
    /\ dirty' = TRUE
    /\ UNCHANGED <<tables, open, owner, ids>>

-----------------------------------------------------------------------------
(* Saving                                                                  *)

\* Mutant: the blobs are written only for panes that have none yet.
CheckpointKeepsBlobs(ok) ==
    LET next == [cur EXCEPT !.gen = @ + 1]
    IN  /\ IsOpen /\ Len(snapshots) < MaxSnapshots /\ cur.gen < MaxSnapshots
        /\ cur' = next
        /\ IF ok
           THEN /\ rows' = Upsert(rows, open, next)
                /\ blob' = Overlay(Restrict(next.panes, Captured(next)), blob)
                /\ snapshots' = Append(snapshots, SnapshotRow(next, TRUE))
                /\ dirty' = FALSE
           ELSE UNCHANGED <<rows, blob, snapshots, dirty>>
        /\ UNCHANGED <<closed, open, generated>>

\* The generation moves even when the transaction fails.
checkpoint(ok) ==
    LET next == [cur EXCEPT !.gen = @ + 1]
    IN  /\ IsOpen /\ Len(snapshots) < MaxSnapshots /\ cur.gen < MaxSnapshots
        /\ cur' = next
        /\ IF ok
           THEN /\ rows' = Upsert(rows, open, next)
                /\ blob' = Overlay(blob, Restrict(next.panes, Captured(next)))
                /\ snapshots' = Append(snapshots, SnapshotRow(next, TRUE))
                /\ dirty' = FALSE
           ELSE UNCHANGED <<rows, blob, snapshots, dirty>>
        /\ UNCHANGED <<closed, open, generated>>

\* Mutant: the id is generated a second time for the list.
CreateSnapshotTwoIds(saved) ==
    /\ IsOpen /\ Len(snapshots) < MaxSnapshots
    /\ snapshots' = Append(snapshots, SnapshotRow(cur, saved))
    /\ cur' = [cur EXCEPT !.snaps = @ \cup {Len(snapshots) + 2}]
    /\ dirty' = TRUE
    /\ UNCHANGED <<rows, blob, closed, open, generated>>

\* The row is saved before the id is appended, so a snapshot does not list
\* itself; saved: whether the INSERT, which reports nothing, happened.
create_snapshot(saved) ==
    /\ IsOpen /\ Len(snapshots) < MaxSnapshots
    /\ snapshots' = Append(snapshots, SnapshotRow(cur, saved))
    /\ cur' = [cur EXCEPT !.snaps = @ \cup {Len(snapshots) + 1}]
    /\ dirty' = TRUE
    /\ UNCHANGED <<rows, blob, closed, open, generated>>

\* Mutant: the workspace id is left out of the query.
RestoreAnySnapshot(s) ==
    /\ IsOpen /\ s \in SnapIds /\ snapshots[s].stored
    /\ cur' = snapshots[s].state
    /\ UNCHANGED <<tables, open, dirty, generated>>

\* Nothing marks the workspace dirty.
restore_snapshot(s) ==
    /\ IsOpen /\ s \in RowsOf(open)
    /\ cur' = snapshots[s].state
    /\ UNCHANGED <<tables, open, dirty, generated>>

\* The close handler of MainWindow with window history on.
store_closed_window ==
    /\ IsOpen /\ closed' = closed \cup {StateJson}
    /\ UNCHANGED <<rows, blob, snapshots, open, cur, dirty, generated>>

Next ==
    \/ \E w \in Workspace, saved \in BOOLEAN : create_workspace(w, saved)
    \/ \E w \in Workspace : open_workspace(w) \/ delete_workspace(w)
    \/ close_workspace
    \/ rename_workspace
    \/ Exit
    \/ \E p \in Pane : add_pane(p) \/ remove_pane(p)
    \/ \E p \in Pane, empty \in BOOLEAN : apply_runtime_state(p, empty)
    \/ \E ok \in BOOLEAN : checkpoint(ok)
    \/ \E saved \in BOOLEAN : create_snapshot(saved)
    \/ \E s \in 1..MaxSnapshots : restore_snapshot(s)
    \/ store_closed_window

Spec == Init /\ [][Next]_vars

-----------------------------------------------------------------------------
(* Properties                                                              *)

(* Types of the tables and of the open workspace. *)
TypeOK ==
    /\ DOMAIN rows \subseteq Workspace /\ \A w \in DOMAIN rows : rows[w] \in State
    /\ blob \in Contents
    /\ snapshots \in Seq([ws : Workspace, rev : Nat, state : State, stored : BOOLEAN])
    /\ closed \subseteq Workspace \cup {StateJson}
    /\ open \in Workspace \cup {None} /\ cur \in State /\ dirty \in BOOLEAN
    /\ DOMAIN owner \subseteq Pane /\ \A p \in DOMAIN owner : owner[p] \in Workspace
    /\ ids \subseteq Workspace /\ version \in Nat

(* The two copies of a terminal's contents agree: a pane whose contents    *)
(* the saved JSON holds has the same contents in terminal_snapshots, the   *)
(* copy open_workspace prefers, through failed checkpoints, removed panes, *)
(* restored snapshots and restarts.                                        *)
BlobsMatchRows ==
    \A w \in DOMAIN rows : \A p \in Captured(rows[w]) :
        p \in DOMAIN blob /\ blob[p] = rows[w].panes[p]

(* terminal_snapshots has no workspace column: no pane occurs in two       *)
(* workspaces, neither in rows nor in snapshots nor in the open one.       *)
PanesNotShared ==
    /\ \A w \in DOMAIN rows : \A p \in DOMAIN rows[w].panes :
           p \in DOMAIN owner /\ owner[p] = w
    /\ \A s \in SnapIds : \A p \in DOMAIN snapshots[s].state.panes :
           p \in DOMAIN owner /\ owner[p] = snapshots[s].ws
    /\ \A p \in DOMAIN cur.panes : p \in DOMAIN owner /\ owner[p] = open

(* Workspace::snapshot_ids lists only snapshots of that workspace, after   *)
(* any mix of restoring, saving and switching workspaces.                  *)
SnapshotsResolve ==
    /\ \A s \in cur.snaps : s \in SnapIds /\ snapshots[s].ws = open
    /\ \A w \in DOMAIN rows : \A s \in rows[w].snaps : s \in SnapIds /\ snapshots[s].ws = w
=============================================================================
