SPECIFICATION FairSpec
CONSTANTS
    MaxRuns = 1
    Priority <- FifoPriority
    Clients = {c1}
    Ops = {"enqueue", "cancel"}
    MaxBatch = 2
    MaxCrashes = 0
    MaxDbErrors = 0
    SpecRuns = {}
    BadSpecRuns = {}
    BarrenRuns = {}
    InOrder = TRUE
    Prompt = TRUE
    ColdRestart = TRUE
PROPERTY CancelledLeavesQueue
CHECK_DEADLOCK FALSE
