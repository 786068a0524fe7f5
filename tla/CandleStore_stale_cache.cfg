SPECIFICATION Spec
CONSTANTS
    Symbols = {s1}
    Jobs = {j1}
    Limit = 2
    Earliest = 0
    Tf = 2
    Optimized = {s1}
    LastMinute = 5
    MaxStarts = 2
    MaxCached = 2
    MaxFaults = 0
INVARIANT AddedCandlesMiss
\* The clock, the starts and the failures are bounded.
CHECK_DEADLOCK FALSE
