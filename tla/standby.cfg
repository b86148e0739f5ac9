CONSTANTS
    r1 = r1
    r2 = r2
    c1 = c1
    s1 = s1
    NoKey = NoKey
    Replicas = {r1, r2}
    Connections = {c1}
    Secrets = {s1}
    ProbeInterval = 4
    RefreshIntervals = {24}
    ErrorBackoff = 7
    PassTime = 1
    Threshold <- TightThreshold
    BackoffBase = 3
    BackoffMax = 4
    BackoffShift = 1
    Failing = {}
    Limited = {}
    Sticky = {}
    Edited = {}
SPECIFICATION Spec
INVARIANTS
    StandbyIsLive
