CONSTANTS
    Path = {"p"}
    Body = {"a", "b"}
    MaxNotes = 2
    MaxWrites = 2
    MaxStarts = 1
SPECIFICATION Spec
INVARIANTS CallbackTargetAlive OneReloadPrompt EditsKept
PROPERTIES ChangeNoticed
CHECK_DEADLOCK FALSE
