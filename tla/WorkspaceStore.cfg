CONSTANTS
    Workspace = {a, b}
    Pane = {p, q}
    None = None
    MaxVersion = 2
    MaxSnapshots = 2
SYMMETRY IdSymmetry
SPECIFICATION Spec
INVARIANTS PanesNotShared SnapshotsResolve BlobsMatchRows
