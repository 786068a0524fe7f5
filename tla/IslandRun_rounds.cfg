SPECIFICATION FairSpec
CONSTANTS
    NumPlanets = 3
    NumIslands = 2
    WorkerCount = 2
    Generations = 5
    MigrationInterval = 2
    SpaceTravelInterval = 1
    Topology = "torus"
    SpecMode = TRUE
    AutoHyper = FALSE
    HyperDuration = 2
    HyperCooldown = 2
    Faulty = {1}
    MaxHyper = 0
INVARIANT RunIsConsistent
PROPERTY CancelEndsBatches
PROPERTY RoundsSpec
PROPERTY EveryRunEnds
CHECK_DEADLOCK FALSE
