SPECIFICATION Spec
CONSTANTS
    NumPlanets = 1
    NumIslands = 2
    WorkerCount = 1
    Generations = 8
    MigrationInterval = 4
    SpaceTravelInterval = 2
    Topology = "ring"
    SpecMode = FALSE
    AutoHyper = TRUE
    HyperDuration = 2
    HyperCooldown = 2
    Faulty = {}
    MaxHyper = 2
INVARIANT RatesFollowEvent
PROPERTY AutoWaits
CHECK_DEADLOCK FALSE
