SPECIFICATION Spec
CONSTANTS
    p1 = p1
    p2 = p2
    NoOne = NoOne
    Procs = {p1}
    Actions = {"build", "annotate"}
    MaxCommands = 3
    MaxFaults = 1
    Overlap = FALSE
INVARIANT RecoveredBeforeWork
CHECK_DEADLOCK FALSE
