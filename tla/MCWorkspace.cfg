SPECIFICATION Spec
CONSTANTS
    Commands = {c1, c2}
    MaxRelease = 2
    MaxMisses = 2
    Users = {u1, u2}
    MaxPatch = 1
    MaxFiled = 3
    MaxTrouble = 1
    Procs = {p1, p2}
    MaxEntries = 2
    MaxAdded = 2
    MaxMishaps = 1
    Names = {a, b}
    Shells = {s1, s2}
    MaxAccidents = 1
INVARIANTS TypeOK  CountsAddUp NoInheritedVector ForksHaveParents 
PROPERTIES LostOnlyByRace ReleaseLearnt AppliedIsFinal DescriptionKeepsRole  ReindexRepairs MainKept GhostsHealed
CHECK_DEADLOCK FALSE
