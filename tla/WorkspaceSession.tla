-------------------------- MODULE WorkspaceSession --------------------------
(***************************************************************************)
(* GUI processes that start, run, exit and crash over one database: the    *)
(* constructor of gui/session/workspace_session.cpp step by step, the      *)
(* advisory lock of core/workspace_lock.cpp, and the checkpoints of a      *)
(* running process (atomic: module SqliteStorage).  The CLI of app/main.cpp*)
(* creates workspaces in the same database and takes no lock.              *)
(*                                                                         *)
(* Workspaces are numbered in creation order, the order list_workspaces    *)
(* returns.  The content of a workspace is a version number; every         *)
(* checkpoint writes a new one.                                            *)
(***************************************************************************)
EXTENDS Naturals, FiniteSets

CONSTANTS
    Proc,           \* processes
    NoProc,         \* the lock is free
    MaxWorkspace,   \* bound: workspaces created
    MaxVersion      \* bound: checkpoints

ASSUME SessionAssumption ==
    NoProc \notin Proc /\ MaxWorkspace \in Nat /\ MaxVersion \in Nat

VARIABLES
    created,    \* number of rows of the workspaces table
    version,    \* [Workspace -> version saved in its row]
    written,    \* number of versions written
    holder,     \* [Workspace -> process that holds flock on its file]
    pc,         \* [Proc -> where it stands]
    ws,         \* [Proc -> workspace it opened]
    mem         \* [Proc -> version its core was loaded from or last saved]

vars == <<created, version, written, holder, pc, ws, mem>>
disk == <<created, version, written>>

Workspace == 1..MaxWorkspace
States == {"off", "create", "open", "lock", "running", "refused"}

Init ==
    /\ created = 0 /\ version = [w \in Workspace |-> 0]
    /\ written = 0
    /\ holder = [w \in Workspace |-> NoProc]
    /\ pc = [p \in Proc |-> "off"]
    /\ ws = [p \in Proc |-> 0] /\ mem = [p \in Proc |-> 0]

-----------------------------------------------------------------------------
(* The constructor                                                         *)

\* list_workspaces: the first row if there is one.
List(p) ==
    /\ pc[p] = "off"
    /\ pc' = [pc EXCEPT ![p] = IF created = 0 THEN "create" ELSE "open"]
    /\ ws' = [ws EXCEPT ![p] = IF created = 0 THEN 0 ELSE 1]
    /\ UNCHANGED <<disk, holder, mem>>

\* core_->create_workspace("default") saves a new row (version 0).
Create(p) ==
    /\ pc[p] = "create" /\ created < MaxWorkspace
    /\ created' = created + 1
    /\ ws' = [ws EXCEPT ![p] = created + 1]
    /\ mem' = [mem EXCEPT ![p] = 0]
    /\ pc' = [pc EXCEPT ![p] = "lock"]
    /\ UNCHANGED <<version, written, holder>>

\* core_->open_workspace reads the row, before the lock is taken.
Open(p) ==
    /\ pc[p] = "open"
    /\ mem' = [mem EXCEPT ![p] = version[ws[p]]]
    /\ pc' = [pc EXCEPT ![p] = "lock"]
    /\ UNCHANGED <<disk, holder, ws>>

\* Mutant: the session runs on although the lock is taken.
AcquireIgnored(p) ==
    /\ pc[p] = "lock"
    /\ holder' = [holder EXCEPT ![ws[p]] = IF @ = NoProc THEN p ELSE @]
    /\ pc' = [pc EXCEPT ![p] = "running"]
    /\ UNCHANGED <<disk, ws, mem>>

\* flock(LOCK_EX | LOCK_NB)
acquire(p) ==
    /\ pc[p] = "lock"
    /\ IF holder[ws[p]] = NoProc
       THEN /\ holder' = [holder EXCEPT ![ws[p]] = p]
            /\ pc' = [pc EXCEPT ![p] = "running"]
       ELSE /\ pc' = [pc EXCEPT ![p] = "refused"]
            /\ UNCHANGED holder
    /\ UNCHANGED <<disk, ws, mem>>

-----------------------------------------------------------------------------
(* Running                                                                 *)

\* Mutant: a refused process checkpoints too.
CheckpointWithoutLock(p) ==
    /\ pc[p] \in {"running", "refused"} /\ written < MaxVersion
    /\ written' = written + 1
    /\ version' = [version EXCEPT ![ws[p]] = written + 1]
    /\ mem' = [mem EXCEPT ![p] = written + 1]
    /\ UNCHANGED <<created, holder, pc, ws>>

checkpoint(p) ==
    /\ pc[p] = "running" /\ written < MaxVersion
    /\ written' = written + 1
    /\ version' = [version EXCEPT ![ws[p]] = written + 1]
    /\ mem' = [mem EXCEPT ![p] = written + 1]
    /\ UNCHANGED <<created, holder, pc, ws>>

\* Mutant: the lock outlives its process, as a pid file would.
ExitKeepsLock(p) ==
    /\ pc[p] # "off"
    /\ pc' = [pc EXCEPT ![p] = "off"]
    /\ ws' = [ws EXCEPT ![p] = 0] /\ mem' = [mem EXCEPT ![p] = 0]
    /\ UNCHANGED <<disk, holder>>

\* An orderly exit (the close handler's checkpoint is a checkpoint step), a
\* refused start, and a crash at any point: the kernel drops the lock.
Exit(p) ==
    /\ pc[p] # "off"
    /\ holder' = [w \in Workspace |-> IF holder[w] = p THEN NoProc ELSE holder[w]]
    /\ pc' = [pc EXCEPT ![p] = "off"]
    /\ ws' = [ws EXCEPT ![p] = 0] /\ mem' = [mem EXCEPT ![p] = 0]
    /\ UNCHANGED disk

\* remin workspace create
CliCreate ==
    /\ created < MaxWorkspace
    /\ created' = created + 1
    /\ UNCHANGED <<version, written, holder, pc, ws, mem>>

Next ==
    \/ \E p \in Proc : List(p) \/ Create(p) \/ Open(p) \/ acquire(p)
    \/ \E p \in Proc : checkpoint(p) \/ Exit(p)
    \/ CliCreate

Spec == Init /\ [][Next]_vars

-----------------------------------------------------------------------------
(* Properties                                                              *)

(* Types of the database, the lock files and the processes. *)
TypeOK ==
    /\ created \in 0..MaxWorkspace
    /\ version \in [Workspace -> 0..MaxVersion]
    /\ written \in 0..MaxVersion
    /\ holder \in [Workspace -> Proc \cup {NoProc}]
    /\ pc \in [Proc -> States]
    /\ ws \in [Proc -> 0..created]
    /\ mem \in [Proc -> 0..MaxVersion]

(* docs/architecture/autosave-lock.md: "a second instance on the same      *)
(* workspace is refused while the first is alive", through starts, exits   *)
(* and crashes in any order.                                               *)
OneInstancePerWorkspace ==
    \A p, q \in Proc : pc[p] = "running" /\ pc[q] = "running" /\ ws[p] = ws[q] => p = q

(* The row of a workspace is rewritten only by the process that holds its  *)
(* lock, whatever the other instances and the CLI do.                      *)
OnlyHolderWrites ==
    [][\A w \in Workspace : version'[w] # version[w] =>
         \E p \in Proc : holder[w] = p /\ pc[p] = "running" /\ ws[p] = w]_vars

(* autosave-lock.md, "stale locks self-heal": a lock file is locked only   *)
(* while its holder is a live, running process.                            *)
LocksHaveLiveHolders ==
    \A w \in Workspace : holder[w] # NoProc => pc[holder[w]] = "running" /\ ws[holder[w]] = w

(* docs/design/workspace-persistence-pipeline.md, "Never restore a stale   *)
(* image": a running process works on what is in the database, so no       *)
(* checkpoint overwrites a version its writer has not seen.                *)
RunsOnLatest == \A p \in Proc : pc[p] = "running" => mem[p] = version[ws[p]]
=============================================================================
