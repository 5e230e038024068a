------------------------- MODULE MCWorkspaceSession -------------------------
(* Instances of WorkspaceSession for TLC. *)
EXTENDS WorkspaceSession, TLC

ProcSymmetry == Permutations(Proc)
=============================================================================
