SPECIFICATION PackageSpec
CONSTANTS
    Tables = {"orders", "totals"}
    Views = {"totals"}
    Untimed = {"totals"}
    Schemas = {s1, s2}
    s1 = s1
    s2 = s2
    Options <- RoutineOptions
    MaxChanges = 1
    MaxFaults = 1
    MaxLogic = 2
    Openers = {o1, o2}
    MaxCuts = 1
INVARIANTS SchemaTypeOK OpenIsWhole BackfillKept
PROPERTIES CatchUp StampOnlyAfterRender Upgraded
CHECK_DEADLOCK FALSE
