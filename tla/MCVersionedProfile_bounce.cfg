SPECIFICATION Spec
CONSTANTS
    p1 = p1
    p2 = p2
    NoOne = NoOne
    Procs = {p1, p2}
    Actions = {"build"}
    MaxCommands = 3
    MaxFaults = 1
    Overlap = TRUE
INVARIANT BouncesToOrigHead
CHECK_DEADLOCK FALSE
