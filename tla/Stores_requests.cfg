SPECIFICATION FairSpec
CONSTANTS
    a1 = a1
    a2 = a2
    a3 = a3
    c1 = c1
    c2 = c2
    Schema <- MCSchema
    Hashes = {h1}
    Files = {f1}
    Clients = {c1, c2}
    Alerts = {a1, a2, a3}
    KeyOf <- MCKeyOf
    Authentic = {a1, a2}
    Ops <- MCOps
    OneEditor = TRUE
    MaxCrashes = 1
    MaxRows = 1
INVARIANT CrashesAreSurvived
INVARIANT SignalIsOneEvent
PROPERTY AlertSettles
\* Crashes, rows and the freshness of alerts are bounded.
CHECK_DEADLOCK FALSE
