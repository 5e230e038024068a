------------------------ MODULE SqliteStorage_proofs ------------------------
(***************************************************************************)
(* Proofs about SqliteStorage for every set of panes, both journal modes   *)
(* and every bound: type correctness, the safety invariants of the         *)
(* checkpoint, and that it implements AtomicStore.                         *)
(***************************************************************************)
EXTENDS SqliteStorage, TLAPS

InTx == {"workspace", "blobs", "snapshot", "commit"}

(* How far the open transaction has come, statement by statement. *)
CallInv ==
    /\ ~txOpen => working = committed
    /\ pc \in InTx => txOpen
    /\ pc \in {"workspace", "blobs", "snapshot"} => working.snaps = committed.snaps
    /\ pc = "workspace" => todo = image.panes
    /\ pc = "blobs" => working.ws = image
    /\ pc = "blobs" => \A p \in image.panes \ todo : working.blob[p] = image.at
    /\ pc \in {"snapshot", "commit"} => working.ws = image
    /\ pc \in {"snapshot", "commit"} => \A p \in image.panes : working.blob[p] = image.at
    /\ pc = "commit" => working.snaps = committed.snaps \cup {image}
    /\ pc = "return" => image = committed.ws /\ image \in committed.snaps /\ ~owed
    /\ pc # "idle" => gen = image.gen /\ line = image.line

(* A generation of a line is not before, or past, that of an image: a      *)
(* generation counts only within its line of saves.                        *)
NotBefore(l, g, img) == l > img.line \/ (l = img.line /\ g >= img.gen)
Past(l, g, img) == l > img.line \/ (l = img.line /\ g > img.gen)

(* The open workspace is not behind the saved row, and the image being     *)
(* written is past anything saved or failed.                               *)
OrderInv ==
    /\ \A s \in committed.snaps : s.at <= committed.ws.at
    /\ \A s \in committed.snaps : NotBefore(committed.ws.line, committed.ws.gen, s)
    /\ NotBefore(line, gen, committed.ws)
    /\ NotBefore(working.ws.line, working.ws.gen, committed.ws)
    /\ committed.ws.at <= clock
    /\ \A f \in failed : f <= clock
    /\ pc \in InTx => Past(image.line, image.gen, committed.ws)
    /\ pc \in InTx => image.at > committed.ws.at /\ image.at <= clock
    /\ pc \in InTx => image.at \notin failed

Safety == CheckpointAtomic /\ AckedIsDurable /\ DirtyUntilCommitted
          /\ FailedNeverVisible /\ GenerationsUnique

(* The inductive invariant. *)
IInv == TypeOK /\ CallInv /\ OrderInv /\ Safety

-----------------------------------------------------------------------------
(* The initial state and every step keep the types of all variables. *)
LEMMA TypeInit == Init => TypeOK
<1> SUFFICES ASSUME Init PROVE TypeOK
    OBVIOUS
<1>1. Initial \in Image
  BY DEF Initial, Image
<1>2. EmptyDb \in Db
  BY <1>1 DEF EmptyDb, Db
<1> QED
  BY <1>1, <1>2 DEF Init, TypeOK, Steps

(* Every action keeps the types of the database and of the call state. *)
LEMMA TypeStep == TypeOK /\ [Next]_vars => TypeOK'
<1> SUFFICES ASSUME TypeOK, [Next]_vars PROVE TypeOK'
    OBVIOUS
<1> USE DEF TypeOK, Db, Image, Steps, EndCall, Initial
<1>1. CASE mutate
  BY <1>1 DEF mutate, call
<1>2. CASE create_snapshot
  BY <1>2 DEF create_snapshot, Autocommit, call
<1>3. ASSUME NEW g \in 0..MaxClock, restore_snapshot(g) PROVE TypeOK'
  BY <1>3, StorageAssumption DEF restore_snapshot, call, history
<1>4. CASE open_workspace
  BY <1>4 DEF open_workspace, call, history
<1>5. CASE BeginFails
  BY <1>5 DEF BeginFails, StartCheckpoint, call
<1>6. ASSUME NEW S \in SUBSET Pane, Begin(S) PROVE TypeOK'
  BY <1>6 DEF Begin, StartCheckpoint, Captured
<1>7. CASE WriteWorkspace
  BY <1>7 DEF WriteWorkspace, Write, memory, history
<1>8. ASSUME NEW p \in Pane, WriteBlob(p) PROVE TypeOK'
  BY <1>8 DEF WriteBlob, Write, memory, history
<1>9. CASE BlobsDone
  BY <1>9 DEF BlobsDone, memory, history
<1>10. CASE WriteSnapshotRow
  BY <1>10 DEF WriteSnapshotRow, Write, memory, history
<1>11. CASE StatementFails
  BY <1>11 DEF StatementFails, Rollback, memory
<1>12. CASE Commit
  BY <1>12 DEF Commit, memory
<1>13. ASSUME NEW b \in BOOLEAN, CommitFails(b) PROVE TypeOK'
  BY <1>13 DEF CommitFails, Rollback, memory
<1>14. CASE ReturnTrue
  BY <1>14 DEF ReturnTrue
<1>15. CASE store_scrollback
  BY <1>15 DEF store_scrollback, Autocommit, call, memory, history
<1>16. CASE Restart
  BY <1>16 DEF Restart, Rollback
<1>17. CASE OtherProcess
  BY <1>17 DEF OtherProcess, memory, history
<1>18. CASE UNCHANGED vars
  BY <1>18 DEF vars
<1> QED
  BY <1>1, <1>2, <1>3, <1>4, <1>5, <1>6, <1>7, <1>8, <1>9, <1>10, <1>11, <1>12,
     <1>13, <1>14, <1>15, <1>16, <1>17, <1>18 DEF Next

(* Type correctness: whatever fails, the database rows and the call state  *)
(* of SqliteStorage::checkpoint keep their types.                          *)
THEOREM TypeCorrect == Spec => []TypeOK
<1> QED BY TypeInit, TypeStep, PTL DEF Spec

(* create_snapshot and store_scrollback leave the rows of the checkpoints   *)
(* as they are, in the file and as this connection reads them.             *)
LEMMA OtherTables ==
    ASSUME IInv, create_snapshot \/ store_scrollback
    PROVE  /\ committed'.ws = committed.ws /\ committed'.blob = committed.blob
           /\ committed'.snaps = committed.snaps
           /\ working'.ws = working.ws /\ working'.blob = working.blob
           /\ working'.snaps = working.snaps
           /\ ~txOpen => working' = committed'
           /\ UNCHANGED <<txOpen, pc, todo, image, gen, line, clock, acked, failed>>
<1> USE DEF IInv, TypeOK, CallInv, Db
<1>1. CASE UNCHANGED <<committed, working>>
  BY <1>1 DEF create_snapshot, store_scrollback, call, memory, history
<1>2. ASSUME Autocommit([working EXCEPT !.named = @ \cup {gen}]), create_snapshot
      PROVE  /\ working'.ws = working.ws /\ working'.blob = working.blob
             /\ working'.snaps = working.snaps
             /\ committed' = IF txOpen THEN committed ELSE working'
             /\ UNCHANGED <<txOpen, pc, todo, image, gen, line, clock, acked, failed>>
  BY <1>2 DEF create_snapshot, Autocommit, call
<1>3. ASSUME Autocommit([working EXCEPT !.kv = TRUE]), store_scrollback
      PROVE  /\ working'.ws = working.ws /\ working'.blob = working.blob
             /\ working'.snaps = working.snaps
             /\ committed' = IF txOpen THEN committed ELSE working'
             /\ UNCHANGED <<txOpen, pc, todo, image, gen, line, clock, acked, failed>>
  BY <1>3 DEF store_scrollback, Autocommit, call, memory, history
<1> QED
  BY <1>1, <1>2, <1>3 DEF create_snapshot, store_scrollback

(* Each statement advances the transaction as CallInv says. *)
LEMMA CallStep == IInv /\ [Next]_vars => CallInv'
<1> SUFFICES ASSUME IInv, [Next]_vars PROVE CallInv'
    OBVIOUS
<1> USE DEF IInv, TypeOK, Db, Image, Steps, EndCall, Initial, InTx, CallInv
<1>1. CASE mutate
  BY <1>1 DEF mutate, call
<1>2. CASE create_snapshot
  BY <1>2, OtherTables DEF create_snapshot
<1>3. ASSUME NEW g \in 0..MaxClock, restore_snapshot(g) PROVE CallInv'
  BY <1>3, StorageAssumption DEF restore_snapshot, call, history
<1>4. CASE open_workspace
  BY <1>4 DEF open_workspace, call, history
<1>5. CASE BeginFails
  BY <1>5 DEF BeginFails, StartCheckpoint, call
<1>6. ASSUME NEW S \in SUBSET Pane, Begin(S) PROVE CallInv'
  BY <1>6 DEF Begin, StartCheckpoint, Captured, CanBegin
<1>7. CASE WriteWorkspace
  BY <1>7 DEF WriteWorkspace, Write, memory, history
<1>8. ASSUME NEW p \in Pane, WriteBlob(p) PROVE CallInv'
  BY <1>8 DEF WriteBlob, Write, memory, history
<1>9. CASE BlobsDone
  BY <1>9 DEF BlobsDone, memory, history
<1>10. CASE WriteSnapshotRow
  BY <1>10 DEF WriteSnapshotRow, Write, memory, history
<1>11. CASE StatementFails
  BY <1>11 DEF StatementFails, Rollback, memory
<1>12. CASE Commit
  BY <1>12 DEF Commit, memory
<1>13. ASSUME NEW b \in BOOLEAN, CommitFails(b) PROVE CallInv'
  BY <1>13 DEF CommitFails, Rollback, memory
<1>14. CASE ReturnTrue
  BY <1>14 DEF ReturnTrue
<1>15. CASE store_scrollback
  BY <1>15, OtherTables DEF store_scrollback, memory, history
<1>16. CASE Restart
  BY <1>16 DEF Restart, Rollback
<1>17. CASE OtherProcess
  BY <1>17 DEF OtherProcess, memory, history
<1>18. CASE UNCHANGED vars
  BY <1>18 DEF vars
<1> QED
  BY <1>1, <1>2, <1>3, <1>4, <1>5, <1>6, <1>7, <1>8, <1>9, <1>10, <1>11, <1>12,
     <1>13, <1>14, <1>15, <1>16, <1>17, <1>18 DEF Next

(* No step makes the image older than what is saved. *)
LEMMA OrderStep == IInv /\ [Next]_vars => OrderInv'
<1> SUFFICES ASSUME IInv, [Next]_vars PROVE OrderInv'
    OBVIOUS
<1> USE DEF IInv, TypeOK, Db, Image, Steps, EndCall, Initial, InTx, CallInv, OrderInv, NotBefore, Past
<1>1. CASE mutate
  BY <1>1 DEF mutate, call
<1>2. CASE create_snapshot
  BY <1>2, OtherTables DEF create_snapshot
<1>3. ASSUME NEW g \in 0..MaxClock, restore_snapshot(g) PROVE OrderInv'
  BY <1>3, StorageAssumption DEF restore_snapshot, call, history
<1>4. CASE open_workspace
  BY <1>4 DEF open_workspace, call, history
<1>5. CASE BeginFails
  BY <1>5 DEF BeginFails, StartCheckpoint, call
<1>6. ASSUME NEW S \in SUBSET Pane, Begin(S) PROVE OrderInv'
  BY <1>6 DEF Begin, StartCheckpoint, Captured, CanBegin
<1>7. CASE WriteWorkspace
  BY <1>7 DEF WriteWorkspace, Write, memory, history
<1>8. ASSUME NEW p \in Pane, WriteBlob(p) PROVE OrderInv'
  BY <1>8 DEF WriteBlob, Write, memory, history
<1>9. CASE BlobsDone
  BY <1>9 DEF BlobsDone, memory, history
<1>10. CASE WriteSnapshotRow
  BY <1>10 DEF WriteSnapshotRow, Write, memory, history
<1>11. CASE StatementFails
  BY <1>11 DEF StatementFails, Rollback, memory
<1>12. CASE Commit
  BY <1>12 DEF Commit, memory
<1>13. ASSUME NEW b \in BOOLEAN, CommitFails(b) PROVE OrderInv'
  <2>1. committed' = committed /\ UNCHANGED <<gen, line, clock>> /\ pc' = "idle"
    BY <1>13 DEF CommitFails, Rollback, memory
  <2>2. working' = working \/ working' = committed
    BY <1>13 DEF CommitFails, Rollback
  <2>3. failed' = failed \cup {image.at} /\ pc = "commit"
    BY <1>13 DEF CommitFails
  <2> QED
    BY <2>1, <2>2, <2>3
<1>14. CASE ReturnTrue
  BY <1>14 DEF ReturnTrue
<1>15. CASE store_scrollback
  BY <1>15, OtherTables DEF store_scrollback, memory, history
<1>16. CASE Restart
  BY <1>16 DEF Restart, Rollback
<1>17. CASE OtherProcess
  BY <1>17 DEF OtherProcess, memory, history
<1>18. CASE UNCHANGED vars
  BY <1>18 DEF vars
<1> QED
  BY <1>1, <1>2, <1>3, <1>4, <1>5, <1>6, <1>7, <1>8, <1>9, <1>10, <1>11, <1>12,
     <1>13, <1>14, <1>15, <1>16, <1>17, <1>18 DEF Next

(* Only Commit changes the saved image, and it installs a complete, newer one. *)
LEMMA SafetyStep == IInv /\ [Next]_vars => Safety'
<1> SUFFICES ASSUME IInv, [Next]_vars PROVE Safety'
    OBVIOUS
<1> USE DEF IInv, TypeOK, Db, Image, Steps, EndCall, Initial, InTx, CallInv, OrderInv, NotBefore, Past, Safety,
        CheckpointAtomic, AckedIsDurable, DirtyUntilCommitted, FailedNeverVisible, GenerationsUnique
<1>1. CASE mutate
  BY <1>1 DEF mutate, call
<1>2. CASE create_snapshot
  BY <1>2, OtherTables DEF create_snapshot
<1>3. ASSUME NEW g \in 0..MaxClock, restore_snapshot(g) PROVE Safety'
  BY <1>3, StorageAssumption DEF restore_snapshot, call, history
<1>4. CASE open_workspace
  BY <1>4 DEF open_workspace, call, history
<1>5. CASE BeginFails
  BY <1>5 DEF BeginFails, StartCheckpoint, call
<1>6. ASSUME NEW S \in SUBSET Pane, Begin(S) PROVE Safety'
  BY <1>6 DEF Begin, StartCheckpoint, Captured, CanBegin
<1>7. CASE WriteWorkspace
  BY <1>7 DEF WriteWorkspace, Write, memory, history
<1>8. ASSUME NEW p \in Pane, WriteBlob(p) PROVE Safety'
  BY <1>8 DEF WriteBlob, Write, memory, history
<1>9. CASE BlobsDone
  BY <1>9 DEF BlobsDone, memory, history
<1>10. CASE WriteSnapshotRow
  BY <1>10 DEF WriteSnapshotRow, Write, memory, history
<1>11. CASE StatementFails
  BY <1>11 DEF StatementFails, Rollback, memory
<1>12. CASE Commit
  BY <1>12 DEF Commit, memory
<1>13. ASSUME NEW b \in BOOLEAN, CommitFails(b) PROVE Safety'
  <2>1. committed' = committed /\ acked' = acked /\ dirty' = dirty /\ owed' = owed
    BY <1>13 DEF CommitFails, Rollback, memory
  <2>2. failed' = failed \cup {image.at} /\ pc = "commit"
    BY <1>13 DEF CommitFails
  <2>3. FailedNeverVisible'
    BY <2>1, <2>2
  <2> QED
    BY <2>1, <2>3
<1>14. CASE ReturnTrue
  BY <1>14 DEF ReturnTrue
<1>15. CASE store_scrollback
  BY <1>15, OtherTables DEF store_scrollback, memory, history
<1>16. CASE Restart
  BY <1>16 DEF Restart, Rollback
<1>17. CASE OtherProcess
  BY <1>17 DEF OtherProcess, memory, history
<1>18. CASE UNCHANGED vars
  BY <1>18 DEF vars
<1> QED
  BY <1>1, <1>2, <1>3, <1>4, <1>5, <1>6, <1>7, <1>8, <1>9, <1>10, <1>11, <1>12,
     <1>13, <1>14, <1>15, <1>16, <1>17, <1>18 DEF Next

(* The created workspace satisfies the invariant. *)
LEMMA InvInit == Init => IInv
<1> SUFFICES ASSUME Init PROVE IInv
    OBVIOUS
<1>1. TypeOK
  BY TypeInit
<1>2. CallInv /\ OrderInv /\ Safety
  BY DEF Init, CallInv, OrderInv, NotBefore, Past, InTx, EmptyDb, Initial, Safety, CheckpointAtomic,
         AckedIsDurable, DirtyUntilCommitted, FailedNeverVisible, GenerationsUnique
<1> QED
  BY <1>1, <1>2 DEF IInv

(* The inductive invariant holds throughout. *)
LEMMA Invariance == Spec => []IInv
<1>1. IInv /\ [Next]_vars => IInv'
  <2> SUFFICES ASSUME IInv, [Next]_vars PROVE IInv'
      OBVIOUS
  <2>1. TypeOK'
    BY TypeStep DEF IInv
  <2> QED
    BY <2>1, CallStep, OrderStep, SafetyStep DEF IInv
<1> QED
  BY <1>1, InvInit, PTL DEF Spec

-----------------------------------------------------------------------------
(* SqliteStorage::checkpoint is all or nothing: at every moment, crashes   *)
(* and lock conflicts included, the file holds one complete image.         *)
THEOREM AtomicCheckpoint == Spec => []CheckpointAtomic
<1>1. IInv => CheckpointAtomic
  BY DEF IInv, Safety
<1> QED
  BY <1>1, Invariance, PTL

(* An image WorkspaceCore reported as saved is never lost, and one whose   *)
(* checkpoint it reported as failed never appears.                         *)
THEOREM ReportedTruthfully == Spec => [](AckedIsDurable /\ FailedNeverVisible)
<1>1. IInv => AckedIsDurable /\ FailedNeverVisible
  BY DEF IInv, Safety
<1> QED
  BY <1>1, Invariance, PTL

(* A checkpoint clears ws_dirty_ only after a commit: what mark_dirty()    *)
(* announced is in the file, or the flag is set.  It says nothing of       *)
(* changes that do not call mark_dirty().                                  *)
THEOREM DirtyClearedByCommit == Spec => []DirtyUntilCommitted
<1>1. IInv => DirtyUntilCommitted
  BY DEF IInv, Safety
<1> QED
  BY <1>1, Invariance, PTL

(* Two checkpoint rows with one Workspace::generation lie on different     *)
(* sides of a restore_snapshot: failed attempts, reopening and restarts    *)
(* alone never make two rows share a number.                               *)
THEOREM UniqueGenerations == Spec => []GenerationsUnique
<1>1. IInv => GenerationsUnique
  BY DEF IInv, Safety
<1> QED
  BY <1>1, Invariance, PTL

(* What one step may do to the saved row. *)
Forward ==
    committed'.ws # committed.ws =>
        /\ committed'.ws.at > committed.ws.at
        /\ \/ committed'.ws.gen > committed.ws.gen
           \/ committed'.ws.line > committed.ws.line

(* Only Commit replaces the saved row, by a newer image. *)
LEMMA ForwardStep == IInv /\ [Next]_vars => Forward
<1> SUFFICES ASSUME IInv, [Next]_vars PROVE Forward
    OBVIOUS
<1> USE DEF IInv, TypeOK, Db, Image, Steps, EndCall, Initial, InTx, CallInv, OrderInv, NotBefore, Past, Forward
<1>1. CASE mutate
  BY <1>1 DEF mutate, call
<1>2. CASE create_snapshot
  BY <1>2, OtherTables DEF create_snapshot
<1>3. ASSUME NEW g \in 0..MaxClock, restore_snapshot(g) PROVE Forward
  BY <1>3, StorageAssumption DEF restore_snapshot, call, history
<1>4. CASE open_workspace
  BY <1>4 DEF open_workspace, call, history
<1>5. CASE BeginFails
  BY <1>5 DEF BeginFails, StartCheckpoint, call
<1>6. ASSUME NEW S \in SUBSET Pane, Begin(S) PROVE Forward
  BY <1>6 DEF Begin, StartCheckpoint, Captured, CanBegin
<1>7. CASE WriteWorkspace
  BY <1>7 DEF WriteWorkspace, Write, memory, history
<1>8. ASSUME NEW p \in Pane, WriteBlob(p) PROVE Forward
  BY <1>8 DEF WriteBlob, Write, memory, history
<1>9. CASE BlobsDone
  BY <1>9 DEF BlobsDone, memory, history
<1>10. CASE WriteSnapshotRow
  BY <1>10 DEF WriteSnapshotRow, Write, memory, history
<1>11. CASE StatementFails
  BY <1>11 DEF StatementFails, Rollback, memory
<1>12. CASE Commit
  BY <1>12 DEF Commit, memory
<1>13. ASSUME NEW b \in BOOLEAN, CommitFails(b) PROVE Forward
  BY <1>13 DEF CommitFails, Rollback, memory
<1>14. CASE ReturnTrue
  BY <1>14 DEF ReturnTrue
<1>15. CASE store_scrollback
  BY <1>15, OtherTables DEF store_scrollback, memory, history
<1>16. CASE Restart
  BY <1>16 DEF Restart, Rollback
<1>17. CASE OtherProcess
  BY <1>17 DEF OtherProcess, memory, history
<1>18. CASE UNCHANGED vars
  BY <1>18 DEF vars
<1> QED
  BY <1>1, <1>2, <1>3, <1>4, <1>5, <1>6, <1>7, <1>8, <1>9, <1>10, <1>11, <1>12,
     <1>13, <1>14, <1>15, <1>16, <1>17, <1>18 DEF Next

(* The saved row is only replaced by an image captured later, and with a   *)
(* greater generation unless restore_snapshot ran since the last save.     *)
THEOREM MovesForward == Spec => SavedMovesForward
<1>1. IInv /\ [Next]_vars =>
        [Forward]_vars
  BY ForwardStep
<1> QED
  BY <1>1, Invariance, PTL DEF Spec, SavedMovesForward, Forward

-----------------------------------------------------------------------------
(* A step that keeps the tables and the acknowledgements is a stutter. *)
LEMMA Stutter ==
    ASSUME committed'.ws = committed.ws, committed'.blob = committed.blob,
           committed'.snaps = committed.snaps, acked' = acked
    PROVE  UNCHANGED Atomic!avars
  BY DEF Atomic!avars

(* Commit is the abstract Save, ReturnTrue the abstract Acknowledge, every *)
(* other step a stutter.                                                   *)
LEMMA RefinementStep == IInv /\ [Next]_vars => [Atomic!ANext]_(Atomic!avars)
<1> SUFFICES ASSUME IInv, [Next]_vars PROVE [Atomic!ANext]_(Atomic!avars)
    OBVIOUS
<1> DEFINE Same == UNCHANGED Atomic!avars
<1> USE DEF IInv, TypeOK, Db, Image, Steps, EndCall, Initial
<1>1. CASE mutate
  <2>1. Same BY <1>1, Stutter DEF mutate
  <2> QED BY <2>1
<1>2. CASE create_snapshot
  <2>1. Same BY <1>2, OtherTables, Stutter
  <2> QED BY <2>1
<1>3. ASSUME NEW g \in 0..MaxClock, restore_snapshot(g) PROVE Same
  BY <1>3, Stutter DEF restore_snapshot, history
<1>4. CASE open_workspace
  <2>1. Same BY <1>4, Stutter DEF open_workspace, history
  <2> QED BY <2>1
<1>5. CASE BeginFails
  <2>1. Same BY <1>5, Stutter DEF BeginFails, StartCheckpoint
  <2> QED BY <2>1
<1>6. ASSUME NEW S \in SUBSET Pane, Begin(S) PROVE Same
  BY <1>6, Stutter DEF Begin, StartCheckpoint, Captured
<1>7. CASE WriteWorkspace
  <2>1. Same BY <1>7, Stutter DEF WriteWorkspace, Write, history
  <2> QED BY <2>1
<1>8. ASSUME NEW p \in Pane, WriteBlob(p) PROVE Same
  BY <1>8, Stutter DEF WriteBlob, Write, history
<1>9. CASE BlobsDone
  <2>1. Same BY <1>9, Stutter DEF BlobsDone, history
  <2> QED BY <2>1
<1>10. CASE WriteSnapshotRow
  <2>1. Same BY <1>10, Stutter DEF WriteSnapshotRow, Write, history
  <2> QED BY <2>1
<1>11. CASE StatementFails
  <2>1. Same BY <1>11, Stutter DEF StatementFails, Rollback
  <2> QED BY <2>1
<1>12. CASE Commit
  <2>1. committed' = working /\ working.ws = image /\ acked' = acked
    BY <1>12 DEF Commit, CallInv
  <2>2. working.snaps = committed.snaps \cup {image}
    BY <1>12 DEF Commit, CallInv
  <2>3. \A p \in image.panes : working.blob[p] = image.at
    BY <1>12 DEF Commit, CallInv
  <2>4. image.at > committed.ws.at /\ \A old \in committed.snaps : image.at > old.at
    BY <1>12 DEF Commit, OrderInv, InTx
  <2>5. Atomic!Save
    BY <2>1, <2>2, <2>3, <2>4 DEF Atomic!Save, Atomic!ContentsOf
  <2> QED
    BY <2>5 DEF Atomic!ANext
<1>13. ASSUME NEW b \in BOOLEAN, CommitFails(b) PROVE Same
  BY <1>13, Stutter DEF CommitFails, Rollback
<1>14. CASE ReturnTrue
  <2>1. committed' = committed /\ acked' = acked \cup {committed.ws}
    BY <1>14 DEF ReturnTrue, CallInv
  <2>2. committed.ws \in committed.snaps
    BY <1>14 DEF ReturnTrue, CallInv
  <2>3. Atomic!Acknowledge
    BY <2>1, <2>2 DEF Atomic!Acknowledge
  <2> QED
    BY <2>1, <2>3 DEF Atomic!ANext
<1>15. CASE store_scrollback
  <2>1. Same BY <1>15, OtherTables, Stutter
  <2> QED BY <2>1
<1>16. CASE Restart
  <2>1. Same BY <1>16, Stutter DEF Restart, Rollback
  <2> QED BY <2>1
<1>17. CASE OtherProcess
  <2>1. Same BY <1>17, Stutter DEF OtherProcess, history
  <2> QED BY <2>1
<1>18. CASE UNCHANGED vars
  <2>1. Same BY <1>18, Stutter DEF vars
  <2> QED BY <2>1
<1> QED
  BY <1>1, <1>2, <1>3, <1>4, <1>5, <1>6, <1>7, <1>8, <1>9, <1>10, <1>11, <1>12,
     <1>13, <1>14, <1>15, <1>16, <1>17, <1>18 DEF Next

(* The statement-by-statement checkpoint of storage.cpp implements the     *)
(* atomic store of docs/configuration.md.                                  *)
THEOREM Refinement == Spec => ImplementsAtomicStore
<1>1. Init => Atomic!AInit
  BY DEF Init, EmptyDb, Initial, Atomic!AInit, Atomic!ContentsOf
<1> QED
  BY <1>1, RefinementStep, Invariance, PTL DEF Spec, ImplementsAtomicStore, Atomic!ASpec
=============================================================================
