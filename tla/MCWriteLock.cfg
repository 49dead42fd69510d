SPECIFICATION Spec
CONSTANTS
    p1 = p1
    p2 = p2
    p3 = p3
    NoOne = NoOne
    Procs = {p1, p2, p3}
    MaxDepth = 3
    MaxDeaths = 3
INVARIANTS TypeOK MutualExclusion BodyNamesHolder
PROPERTY ImplementsMutex
SYMMETRY Symmetric
