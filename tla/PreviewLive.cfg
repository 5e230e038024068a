SPECIFICATION Spec
CONSTANTS
    WindowId = {w1, w2, w3}
    TermTabs = {t1, t2}
    NoteTabs = {n1}
    Nothing = Nothing
    MaxTabs = 3
    Contents <- MCContents
    Keys = {"gt", "x"}
    Clips <- MCClips
    MaxText = 3
    MaxPaste = 1
    ViewSize = 2
    Names = {"a", "c", "d", "e"}
    Paths <- MCPaths
    Filtered = {"a", "c"}
    NoPath = NoPath
    Dirs = {"home", "src", "usb"}
    Home = "home"
    NoDir = NoDir
    PaneId = {1, 2, 3, 4}
    None = None
    Elsewhere = Elsewhere
    Unset = Unset
    NoPane = NoPane
    EmptyId = EmptyId
    HalfRatio = HalfRatio
    Narrow = Narrow
    Ratios <- MCRatios
    SavedTrees <- MCSavedTrees
    MaxPanes = 3
    MaxShells = 2
    Term = {k1, k2}
    NoShell = 0
    NoTerm = NoTerm
    Cmd = {"ls", "vi"}
    NoCmd = NoCmd
    Searches = {"vi"}
    MaxRun = 2
    MaxPinned = 1
    Win = {v1, v2}
    Terms <- MCTerms
    NoWin = NoWin
    MaxRows = 2
    Draft = {"d1", "d2"}
    Widths = {1, 2}
    Bottom = 1
    Folders = {"common", "notes"}
    Common = "common"
    LastNumber = 2
    MaxPics = 3
    Nodes <- MCNodes
    Gap = 1
    PageHeight = 5
    RowHeight = 1
    MaxNodes = 4
    NoPdf = NoPdf
INVARIANT PreviewLive
CHECK_DEADLOCK FALSE
