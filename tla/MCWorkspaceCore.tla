-------------------------- MODULE MCWorkspaceCore --------------------------
(* Instances of WorkspaceCore for TLC.  Ids are model values; a removed id *)
(* is never issued again, so the pools bound the number of add calls.      *)
EXTENDS WorkspaceCore, TLC

IdSymmetry == Permutations(WindowId) \cup Permutations(TabId) \cup Permutations(PaneId)
=============================================================================
