CONSTANTS
    Proc = {g1, g2, g3}
    NoProc = NoProc
    MaxWorkspace = 3
    MaxVersion = 3
SYMMETRY ProcSymmetry
SPECIFICATION Spec
INVARIANT RunsOnLatest
