CONSTANTS
    i1 = i1
    i2 = i2
    Procs = {p1, p2}
    Items = {i1, i2}
    Agents = {a, b}
    Deps <- MCDeps
    Nobody = Nobody
    NoItem = NoItem
    MaxCommands = 3
SPECIFICATION Spec
INVARIANT DoingHasOwner
CHECK_DEADLOCK FALSE
