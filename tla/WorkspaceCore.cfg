CONSTANTS
    WindowId = {w1, w2}
    TabId = {t1, t2}
    PaneId = {p1, p2, p3}
    None = None
    NoPane = NoPane
    EmptyId = EmptyId
    HalfRatio = 5
    Ratios = {5}
    MaxPanes = 3
SYMMETRY IdSymmetry
SPECIFICATION Spec
INVARIANTS TreesWellFormed
PROPERTIES LayoutOrderKept
