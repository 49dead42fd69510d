SPECIFICATION LiveSpec
CONSTANTS
    p1 = p1
    p2 = p2
    NoOne = NoOne
    Procs = {p1, p2}
    Actions = {"build"}
    MaxCommands = 4
    MaxFaults = 2
    Overlap = FALSE
INVARIANTS TypeOK SuccessIsCommitted ResetLeavesConsistent
PROPERTIES NothingLost LockIsMutex LockIsReleased
CHECK_DEADLOCK FALSE
