--------------------------- MODULE SqliteStorage ---------------------------
(***************************************************************************)
(* WorkspaceCore::checkpoint and SqliteStorage::checkpoint over the RAII   *)
(* transaction of sqlite_db.hpp, statement by statement, for one workspace *)
(* row: what is in the database file, what this connection sees inside its *)
(* transaction, and where the call stands.  Any statement can fail, another*)
(* process (the CLI, a second GUI) can hold the write lock, and the process*)
(* can die between any two statements.                                     *)
(*                                                                         *)
(* SQLite itself is external.  In WAL mode a failed COMMIT has rolled the  *)
(* transaction back; with a rollback journal it can also return            *)
(* SQLITE_BUSY (a reader holds a shared lock) and leave it open.           *)
(* SqliteDb::initialize ignores the result of "PRAGMA journal_mode=WAL",   *)
(* so both modes occur: constant WalMode.  FALSE allows what either does.   *)
(*                                                                         *)
(* What the open workspace holds is chosen when an image is captured; only *)
(* its generation and whether ws_dirty_ announces a change are followed.   *)
(* WorkspaceCore::persist(), which only a unit test calls, is left out.    *)
(***************************************************************************)
EXTENDS Naturals, FiniteSets

CONSTANTS
    Pane,       \* panes of the workspace
    WalMode,    \* whether the PRAGMA took effect
    MaxClock    \* bound: checkpoint attempts

ASSUME StorageAssumption == WalMode \in BOOLEAN /\ MaxClock \in Nat

VARIABLES
    committed,  \* the database file
    working,    \* the database as this connection reads it
    txOpen,     \* the connection is inside BEGIN .. COMMIT
    foreign,    \* another process holds the write lock
    pc,         \* the next statement of checkpoint(), "idle" outside it
    todo,       \* panes whose blob is still to be written
    image,      \* the image being written
    gen,        \* Workspace::generation of the open workspace
    line,       \* history: which line of saves it belongs to
    clock,      \* last_saved_at, as a number of checkpoint attempts
    dirty,      \* ws_dirty_
    owed,       \* history: mark_dirty() ran and nothing was committed since
    acked,      \* history: images whose checkpoint returned true
    failed      \* history: capture times of checkpoints that returned false

\* An image has the generation, the checkpoint attempt and the line of saves
\* it was captured in, and the panes with terminal contents.  named has the
\* generations in the states that create_snapshot stored, kv is set once the
\* key-value table holds a value.
Image == [gen : Nat, at : Nat, line : Nat, panes : SUBSET Pane]
Db == [ws : Image, blob : [Pane -> Nat], snaps : SUBSET Image, named : SUBSET Nat, kv : BOOLEAN]
Steps == {"workspace", "blobs", "snapshot", "commit", "return"}

vars == <<committed, working, txOpen, foreign, pc, todo, image, gen, line, clock,
          dirty, owed, acked, failed>>
history == <<owed, acked, failed>>
memory == <<gen, line, clock, dirty>>
call == <<pc, todo, image>>

\* create_workspace saved the row with generation 0 and no panes.
Initial == [gen |-> 0, at |-> 0, line |-> 0, panes |-> {}]
EmptyDb == [ws |-> Initial, blob |-> [p \in Pane |-> 0], snaps |-> {}, named |-> {}, kv |-> FALSE]

Init ==
    /\ committed = EmptyDb /\ working = EmptyDb
    /\ txOpen = FALSE /\ foreign = FALSE
    /\ pc = "idle" /\ todo = {} /\ image = Initial
    /\ gen = 0 /\ line = 0 /\ clock = 0 /\ dirty = FALSE
    /\ owed = FALSE /\ acked = {} /\ failed = {}

-----------------------------------------------------------------------------
(* SQLite                                                                  *)

\* BEGIN IMMEDIATE takes the write lock at once; there is no busy timeout.
CanBegin == ~txOpen /\ ~foreign

\* A statement inside the transaction changes only what this connection sees.
Write(db) == working' = db /\ UNCHANGED <<committed, txOpen>>

Rollback == working' = committed /\ txOpen' = FALSE /\ UNCHANGED committed

\* A single statement outside the transaction commits by itself; while a
\* transaction is open it joins it.
Autocommit(db) ==
    /\ txOpen \/ ~foreign
    /\ working' = db /\ committed' = IF txOpen THEN committed ELSE db

-----------------------------------------------------------------------------
(* The open workspace                                                      *)

\* A change that calls mark_dirty().
mutate ==
    /\ pc = "idle"
    /\ dirty' = TRUE /\ owed' = TRUE
    /\ UNCHANGED <<committed, working, txOpen, foreign, call, gen, line, clock, acked, failed>>

\* The row has the state and the generation of the open workspace, and its
\* INSERT reports nothing.
create_snapshot ==
    /\ pc = "idle"
    /\ \/ Autocommit([working EXCEPT !.named = @ \cup {gen}])
       \/ UNCHANGED <<committed, working>>
    /\ dirty' = TRUE /\ owed' = TRUE
    /\ UNCHANGED <<txOpen, foreign, call, gen, line, clock, acked, failed>>

\* The generation comes back with the state of the row, and ws_dirty_ stays
\* as it is.  What is saved from here on is a new line of saves.
restore_snapshot(g) ==
    /\ pc = "idle"
    /\ g \in working.named \cup {s.gen : s \in working.snaps}
    /\ gen' = g /\ line' = committed.ws.line + 1
    /\ UNCHANGED <<committed, working, txOpen, foreign, call, clock, dirty, history>>

\* The workspace opened once more by the same process: ws_dirty_ stays too.
open_workspace ==
    /\ pc = "idle"
    /\ gen' = working.ws.gen /\ line' = working.ws.line
    /\ UNCHANGED <<committed, working, txOpen, foreign, call, clock, dirty, history>>

-----------------------------------------------------------------------------
(* checkpoint()                                                            *)

\* Mutant: the image is captured before the generation is raised.
CapturedTooEarly(S) == [gen |-> gen, at |-> clock + 1, line |-> line, panes |-> S]

Captured(S) == [gen |-> gen + 1, at |-> clock + 1, line |-> line, panes |-> S]

\* The image is captured and the generation raised before anything is
\* written, and stays raised when the write fails.
StartCheckpoint ==
    /\ pc = "idle" /\ clock < MaxClock
    /\ gen' = gen + 1 /\ clock' = clock + 1
    /\ UNCHANGED <<foreign, line, dirty, owed, acked>>

\* The image and the panes still to be written are locals of the call.
EndCall == pc' = "idle" /\ todo' = {} /\ image' = Initial

\* BEGIN fails: locked by another process, or a transaction is still open.
BeginFails ==
    /\ StartCheckpoint
    /\ failed' = failed \cup {clock + 1}
    /\ UNCHANGED <<committed, working, txOpen, call>>

Begin(S) ==
    /\ StartCheckpoint /\ CanBegin
    /\ txOpen' = TRUE /\ pc' = "workspace" /\ todo' = S /\ image' = Captured(S)
    /\ UNCHANGED <<committed, working, failed>>

\* Mutant: the row is written before the transaction begins.
WriteWorkspaceAlone ==
    /\ pc = "workspace"
    /\ working' = [working EXCEPT !.ws = image]
    /\ committed' = [committed EXCEPT !.ws = image]
    /\ pc' = "blobs"
    /\ UNCHANGED <<txOpen, foreign, todo, image, memory, history>>

WriteWorkspace ==
    /\ pc = "workspace"
    /\ Write([working EXCEPT !.ws = image])
    /\ pc' = "blobs"
    /\ UNCHANGED <<foreign, todo, image, memory, history>>

WriteBlob(p) ==
    /\ pc = "blobs" /\ p \in todo
    /\ Write([working EXCEPT !.blob = [@ EXCEPT ![p] = image.at]])
    /\ todo' = todo \ {p}
    /\ UNCHANGED <<foreign, pc, image, memory, history>>

BlobsDone ==
    /\ pc = "blobs" /\ todo = {}
    /\ pc' = "snapshot"
    /\ UNCHANGED <<committed, working, txOpen, foreign, todo, image, memory, history>>

\* Mutant: the snapshot row is left out.
SkipSnapshotRow ==
    /\ pc = "snapshot" /\ pc' = "commit"
    /\ UNCHANGED <<committed, working, txOpen, foreign, todo, image, memory, history>>

WriteSnapshotRow ==
    /\ pc = "snapshot"
    /\ Write([working EXCEPT !.snaps = @ \cup {image}])
    /\ pc' = "commit"
    /\ UNCHANGED <<foreign, todo, image, memory, history>>

\* Mutant: ws_dirty_ is cleared whatever the result.
FailClearsDirty ==
    /\ pc \in {"workspace", "blobs", "snapshot"}
    /\ Rollback
    /\ EndCall /\ dirty' = FALSE
    /\ failed' = failed \cup {image.at}
    /\ UNCHANGED <<foreign, gen, line, clock, owed, acked>>

\* A prepare or step fails, or dump() throws: tx.rollback() runs, by hand or
\* from the destructor, and checkpoint() does not return true.
StatementFails ==
    /\ pc \in {"workspace", "blobs", "snapshot"}
    /\ Rollback
    /\ EndCall
    /\ failed' = failed \cup {image.at}
    /\ UNCHANGED <<foreign, memory, owed, acked>>

Commit ==
    /\ pc = "commit"
    /\ committed' = working /\ txOpen' = FALSE
    /\ pc' = "return" /\ owed' = FALSE
    /\ UNCHANGED <<working, foreign, todo, image, memory, acked, failed>>

\* Mutant: a commit that did happen is reported as a failure.
CommitReportedFailed(stillOpen) ==
    /\ pc = "commit"
    /\ committed' = working /\ txOpen' = FALSE
    /\ EndCall
    /\ failed' = failed \cup {image.at}
    /\ UNCHANGED <<working, foreign, memory, owed, acked>>

\* commit() clears ok_, so neither it nor the destructor issues a ROLLBACK.
CommitFails(stillOpen) ==
    /\ pc = "commit"
    /\ stillOpen => ~WalMode
    /\ IF stillOpen THEN UNCHANGED <<committed, working, txOpen>> ELSE Rollback
    /\ EndCall
    /\ failed' = failed \cup {image.at}
    /\ UNCHANGED <<foreign, memory, owed, acked>>

\* Back in WorkspaceCore::checkpoint.
ReturnTrue ==
    /\ pc = "return"
    /\ dirty' = FALSE /\ acked' = acked \cup {image}
    /\ EndCall
    /\ UNCHANGED <<committed, working, txOpen, foreign, gen, line, clock, owed, failed>>

-----------------------------------------------------------------------------
(* Everything else that writes                                             *)

\* store_scrollback (settings, note paths): its failure is never looked at.
store_scrollback ==
    /\ pc = "idle"
    /\ \/ Autocommit([working EXCEPT !.kv = TRUE])
       \/ UNCHANGED <<committed, working>>
    /\ UNCHANGED <<txOpen, foreign, call, memory, history>>

\* Mutant: the generation is not read back.
RestartAtZero ==
    /\ Rollback
    /\ EndCall /\ dirty' = FALSE
    /\ gen' = 0 /\ line' = committed.ws.line /\ owed' = FALSE
    /\ UNCHANGED <<foreign, clock, acked, failed>>

\* The process ends (closing the connection) or dies; open transactions are
\* gone.  The next launch reads the workspace row back.
Restart ==
    /\ Rollback
    /\ EndCall /\ dirty' = FALSE
    /\ gen' = committed.ws.gen /\ line' = committed.ws.line /\ owed' = FALSE
    /\ UNCHANGED <<foreign, clock, acked, failed>>

OtherProcess ==
    /\ ~txOpen /\ foreign' = ~foreign
    /\ UNCHANGED <<committed, working, txOpen, pc, todo, image, memory, history>>

Next ==
    \/ mutate \/ create_snapshot \/ open_workspace
    \/ \E g \in 0..MaxClock : restore_snapshot(g)
    \/ BeginFails
    \/ \E S \in SUBSET Pane : Begin(S)
    \/ WriteWorkspace
    \/ \E p \in Pane : WriteBlob(p)
    \/ BlobsDone
    \/ WriteSnapshotRow
    \/ StatementFails
    \/ Commit
    \/ \E stillOpen \in BOOLEAN : CommitFails(stillOpen)
    \/ ReturnTrue
    \/ store_scrollback
    \/ Restart
    \/ OtherProcess

Spec == Init /\ [][Next]_vars

-----------------------------------------------------------------------------
(* Properties                                                              *)

(* Types of the database rows and of the call state. *)
TypeOK ==
    /\ committed \in Db /\ working \in Db
    /\ txOpen \in BOOLEAN /\ foreign \in BOOLEAN
    /\ pc \in {"idle"} \cup Steps
    /\ todo \in SUBSET Pane
    /\ image \in Image
    /\ gen \in Nat /\ line \in Nat /\ clock \in Nat
    /\ dirty \in BOOLEAN /\ owed \in BOOLEAN
    /\ acked \in SUBSET Image
    /\ failed \in SUBSET Nat

(* SqliteStorage::checkpoint writes all or nothing: whenever the file is   *)
(* read (after a crash included), the blob of every pane the saved JSON    *)
(* captured is the one captured with it, and the saved JSON has its        *)
(* snapshot row.                                                           *)
CheckpointAtomic ==
    /\ \A p \in committed.ws.panes : committed.blob[p] = committed.ws.at
    /\ committed.ws = Initial \/ committed.ws \in committed.snaps

(* A checkpoint that returned true survives every later failure, crash and *)
(* abandoned transaction.                                                  *)
AckedIsDurable == acked \subseteq committed.snaps

(* A checkpoint clears ws_dirty_ only after a commit: a change that called *)
(* mark_dirty() keeps the flag set through failed statements, a failed     *)
(* COMMIT and reopening, until an image captured after it is in the file,  *)
(* as long as the process lives.                                           *)
(* restore_snapshot and the windows.clear() of restore_workspace change    *)
(* the open workspace without the flag, and nothing is said of those.      *)
DirtyUntilCommitted == ~dirty => ~owed

(* A checkpoint that returned false never turns up in the database, not    *)
(* even as part of a later one.                                            *)
FailedNeverVisible == \A s \in committed.snaps : s.at \notin failed

(* Between two calls of restore_snapshot no two checkpoint rows share a    *)
(* Workspace::generation, although failed attempts raise it, and reopening *)
(* and restarts take it back.  After restore_snapshot a number can return. *)
GenerationsUnique ==
    \A s, u \in committed.snaps : s.line = u.line /\ s.gen = u.gen => s = u

(* The saved row is replaced only by an image captured later, and its      *)
(* generation grows, except in the first save after restore_snapshot.      *)
SavedMovesForward ==
    [][committed'.ws # committed.ws =>
        /\ committed'.ws.at > committed.ws.at
        /\ \/ committed'.ws.gen > committed.ws.gen
           \/ committed'.ws.line > committed.ws.line]_vars

(* The detailed checkpoint implements the abstract store. *)
Atomic == INSTANCE AtomicStore WITH
    current  <- committed.ws,
    contents <- [p \in committed.ws.panes |-> committed.blob[p]],
    history  <- committed.snaps

ImplementsAtomicStore == Atomic!ASpec
=============================================================================
