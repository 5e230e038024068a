CONSTANTS
    Pane = {p1}
    Note = {n1}
    Structure = ws
    Debounce = 2
    Idle = 3
    MaxEdits = 4
    MaxFailures = 0
SPECIFICATION FairAutosaveSpec
PROPERTY NotesEventuallySaved
