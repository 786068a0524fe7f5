SPECIFICATION Spec
CONSTANTS
    MaxRuns = 3
    Priority <- FifoPriority
    Clients = {c1}
    Ops = {"enqueue", "recover", "save"}
    MaxBatch = 3
    MaxCrashes = 1
    MaxDbErrors = 2
    SpecRuns = {2}
    BadSpecRuns = {2}
    BarrenRuns = {1}
    InOrder = FALSE
    Prompt = TRUE
    ColdRestart = TRUE
INVARIANT OrphansWereTold
