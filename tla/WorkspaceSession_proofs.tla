----------------------- MODULE WorkspaceSession_proofs -----------------------
(***************************************************************************)
(* Proofs about WorkspaceSession for any number of processes, workspaces   *)
(* and checkpoints.                                                        *)
(***************************************************************************)
EXTENDS WorkspaceSession, TLAPS

(* A process past list_workspaces has a workspace, and a running one holds *)
(* that workspace's lock.                                                  *)
OpenedInv == \A p \in Proc : pc[p] \in {"open", "lock", "running"} => ws[p] \in Workspace
RunningHolds == \A p \in Proc : pc[p] = "running" => holder[ws[p]] = p

IInv == TypeOK /\ OpenedInv /\ RunningHolds /\ LocksHaveLiveHolders

-----------------------------------------------------------------------------
(* Nothing is open before the first process starts. *)
LEMMA InvInit == Init => IInv
  BY SessionAssumption DEF Init, IInv, TypeOK, OpenedInv, RunningHolds,
     LocksHaveLiveHolders, Workspace, States

(* Every step of a process, of the CLI and every crash keeps the invariant. *)
LEMMA InvStep == IInv /\ [Next]_vars => IInv'
<1> SUFFICES ASSUME IInv, [Next]_vars PROVE IInv'
    OBVIOUS
<1> USE SessionAssumption DEF IInv, TypeOK, OpenedInv, RunningHolds,
        LocksHaveLiveHolders, Workspace, States
<1>1. ASSUME NEW p \in Proc, List(p) PROVE IInv'
  BY <1>1 DEF List, disk
<1>2. ASSUME NEW p \in Proc, Create(p) PROVE IInv'
  BY <1>2 DEF Create
<1>3. ASSUME NEW p \in Proc, Open(p) PROVE IInv'
  BY <1>3 DEF Open, disk
<1>4. ASSUME NEW p \in Proc, acquire(p) PROVE IInv'
  <2>1. CASE holder[ws[p]] = NoProc
    <3>1. ws[p] \in Workspace /\ ws' = ws
      BY <1>4 DEF acquire
    <3>2. holder' = [holder EXCEPT ![ws[p]] = p] /\ pc' = [pc EXCEPT ![p] = "running"]
      BY <1>4, <2>1 DEF acquire
    <3>3. TypeOK' /\ OpenedInv'
      BY <1>4, <3>1, <3>2 DEF acquire, disk
    <3>4. RunningHolds'
      BY <2>1, <3>1, <3>2
    <3>5. LocksHaveLiveHolders'
      BY <2>1, <3>1, <3>2
    <3> QED
      BY <3>3, <3>4, <3>5
  <2>2. CASE holder[ws[p]] # NoProc
    BY <1>4, <2>2 DEF acquire, disk
  <2> QED
    BY <2>1, <2>2
<1>5. ASSUME NEW p \in Proc, checkpoint(p) PROVE IInv'
  BY <1>5 DEF checkpoint
<1>6. ASSUME NEW p \in Proc, Exit(p) PROVE IInv'
  BY <1>6 DEF Exit, disk
<1>7. CASE CliCreate
  BY <1>7 DEF CliCreate
<1>8. CASE UNCHANGED vars
  BY <1>8 DEF vars
<1> QED
  BY <1>1, <1>2, <1>3, <1>4, <1>5, <1>6, <1>7, <1>8 DEF Next

(* The inductive invariant holds throughout. *)
LEMMA Invariance == Spec => []IInv
<1> QED BY InvInit, InvStep, PTL DEF Spec

-----------------------------------------------------------------------------
(* Two running processes never share a workspace: WorkspaceSession loads   *)
(* first and locks later, but runs only with the lock.                     *)
THEOREM MutualExclusion == Spec => []OneInstancePerWorkspace
<1>1. IInv => OneInstancePerWorkspace
  BY DEF IInv, RunningHolds, OneInstancePerWorkspace
<1> QED
  BY <1>1, Invariance, PTL

(* A lock file is never left locked by a process that is gone. *)
THEOREM NoStaleLocks == Spec => []LocksHaveLiveHolders
<1>1. IInv => LocksHaveLiveHolders
  BY DEF IInv
<1> QED
  BY <1>1, Invariance, PTL

(* What one step may do to the workspace rows. *)
HolderWrites ==
    \A w \in Workspace : version'[w] # version[w] =>
        \E p \in Proc : holder[w] = p /\ pc[p] = "running" /\ ws[p] = w

(* Only a checkpoint of a running process changes a row, its own. *)
LEMMA HolderStep == IInv /\ [Next]_vars => HolderWrites
<1> SUFFICES ASSUME IInv, [Next]_vars,
                    NEW w \in Workspace, version'[w] # version[w]
             PROVE  \E p \in Proc : holder[w] = p /\ pc[p] = "running" /\ ws[p] = w
    BY DEF HolderWrites
<1>1. PICK p \in Proc : checkpoint(p)
  BY DEF Next, List, Create, Open, acquire, Exit, CliCreate, disk, vars
<1>2. ws[p] = w
  BY <1>1 DEF checkpoint, IInv, TypeOK
<1> QED
  BY <1>1, <1>2 DEF checkpoint, IInv, RunningHolds

(* A workspace row is rewritten only under its lock. *)
THEOREM WritesUnderLock == Spec => OnlyHolderWrites
<1>1. IInv /\ [Next]_vars => [HolderWrites]_vars
  BY HolderStep
<1> QED
  BY <1>1, Invariance, PTL DEF Spec, OnlyHolderWrites, HolderWrites
=============================================================================
