SPECIFICATION Spec
CONSTANTS
    MaxRuns = 2
    Priority <- FifoPriority
    Clients = {c1}
    Ops = {"enqueue", "cancel", "poll", "save", "recover", "beat"}
    MaxBatch = 2
    MaxCrashes = 1
    MaxDbErrors = 0
    SpecRuns = {2}
    BadSpecRuns = {}
    BarrenRuns = {}
    InOrder = TRUE
    Prompt = TRUE
    ColdRestart = TRUE
INVARIANT TypeOK
INVARIANT RunningIffHeld
INVARIANT PendingIsClean
INVARIANT EndsAreTrue
PROPERTY BoardSpec
PROPERTY CancelledNeverClaimed
PROPERTY TerminalIsFinal
