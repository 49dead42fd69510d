SPECIFICATION Spec
CONSTANTS
    Procs = {p1, p2}
    p1 = p1
    p2 = p2
    Submitters = {p1}
    Ids = {i1}
    i1 = i1
    i2 = i2
    NoId = NoId
    Statements = {"select", "probe", "insert"}
    ClassOf <- SomeKinds
    Cny <- SomeCosts
    LowRisk <- Probes
    Options <- SomeOptions
    Tariffs <- SomeTariffs
    InitialYaml <- OldYaml
    MaxEdits = 1
    MaxPolls = 1
    Rows = 3
    RestCap = 2
    PageSizes = {0, 2}
INVARIANT CancelReportsOutcome
