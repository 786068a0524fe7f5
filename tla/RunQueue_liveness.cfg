SPECIFICATION FairSpec
CONSTANTS
    MaxRuns = 2
    Priority <- FifoPriority
    Clients = {c1, c2}
    Ops = {"enqueue", "cancel", "recover"}
    MaxBatch = 1
    MaxCrashes = 0
    MaxDbErrors = 0
    SpecRuns = {2}
    BadSpecRuns = {2}
    BarrenRuns = {}
    InOrder = TRUE
    Prompt = TRUE
    ColdRestart = TRUE
PROPERTY ClaimedRunEnds
PROPERTY EnqueuedIsServed
