SPECIFICATION Spec
CONSTANTS
    Command = {a, b, c}
    MaxFile = 4
    MaxInitial = 1
    MaxAppends = 3
    MaxTruncs = 0
    MaxCommits = 1
    MaxPins = 0
INVARIANT NothingLost
CHECK_DEADLOCK FALSE
