CONSTANTS
    Pane = {p1, p2}
    WalMode = FALSE
    MaxClock = 3
SYMMETRY PaneSymmetry
SPECIFICATION Spec
INVARIANTS CheckpointAtomic DirtyUntilCommitted FailedNeverVisible GenerationsUnique
PROPERTIES SavedMovesForward ImplementsAtomicStore
