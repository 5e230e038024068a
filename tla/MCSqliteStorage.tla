-------------------------- MODULE MCSqliteStorage --------------------------
(* Instances of SqliteStorage for TLC. *)
EXTENDS SqliteStorage, TLC

PaneSymmetry == Permutations(Pane)
=============================================================================
