-------------------------- MODULE MCWorkspaceStore --------------------------
(* Instances of WorkspaceStore for TLC. *)
EXTENDS WorkspaceStore, TLC

IdSymmetry == Permutations(Workspace) \cup Permutations(Pane)
=============================================================================
