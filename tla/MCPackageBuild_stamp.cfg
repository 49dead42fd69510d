SPECIFICATION Spec
CONSTANTS
    Tables = {"orders"}
    Views = {}
    Untimed = {}
    Schemas = {s1, s2}
    s1 = s1
    s2 = s2
    Options <- LevelOptions
    MaxChanges = 0
    MaxFaults = 0
    MaxLogic = 2
INVARIANT StampMeansRederived
SYMMETRY Symmetric
