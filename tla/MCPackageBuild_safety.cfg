SPECIFICATION Spec
CONSTANTS
    Tables = {"orders", "totals"}
    Views = {"totals"}
    Untimed = {"totals"}
    Schemas = {s1, s2}
    s1 = s1
    s2 = s2
    Options <- SafetyOptions
    MaxChanges = 1
    MaxFaults = 1
    MaxLogic = 2
INVARIANTS TypeOK BaselineHonest CompleteIsFresh 
SYMMETRY Symmetric
