SPECIFICATION Spec
CONSTANTS
    Command = {a, b}
    MaxFile = 3
    MaxInitial = 2
    MaxAppends = 2
    MaxTruncs = 1
    MaxCommits = 1
    MaxPins = 1
INVARIANTS NoSelfDeadlock PinsKept SerialExact
PROPERTIES SyncReturns
CHECK_DEADLOCK FALSE
