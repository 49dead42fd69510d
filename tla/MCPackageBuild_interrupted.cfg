SPECIFICATION Spec
CONSTANTS
    Tables = {"orders"}
    Views = {}
    Untimed = {}
    Schemas = {s1, s2}
    s1 = s1
    s2 = s2
    Options <- RoutineOptions
    MaxChanges = 1
    MaxFaults = 1
    MaxLogic = 1
INVARIANT InterruptedBuildResumes
SYMMETRY Symmetric
