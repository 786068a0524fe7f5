SPECIFICATION Spec
CONSTANTS
    Screens = {"table", "dialog", "detail", "compare", "bridge", "scripts"}
    MaxRuns = 2
    MaxFaults = 1
    Slots = {"s1", "s2"}
    Symbols <- MCSymbols
    Intervals = {1, 3, 8}
    DefaultWarmup = 5
    Periods = {3, 6, 9}
    Day = 3
    Senders = {"run 1", "run 2"}
    Wanted <- MCWanted
    MaxPolls = 6
    MaxParts = 2
    Clouds <- MCClouds
    MaxEvents = 2
    Kinds <- MCKinds
    Sizings = {"compounding", "flat"}
    MaxAsked = 2
    MaxErrors = 1
INVARIANT SelectionSurvives
INVARIANT TimelineFits
INVARIANT AnswersAreOwn
INVARIANT DeployIsHonest
INVARIANT PagesFit
PROPERTY TableConverges
\* The runs, the requests and the deployment end.
CHECK_DEADLOCK FALSE
