CONSTANTS
    r1 = r1
    r2 = r2
    c1 = c1
    c2 = c2
    s1 = s1
    NoKey = NoKey
    Replicas = {r1, r2}
    Connections = {c1, c2}
    Secrets = {s1}
    ProbeInterval = 4
    RefreshIntervals = {0, 6}
    ErrorBackoff = 6
    PassTime = 1
    Threshold <- TightThreshold
    BackoffBase = 3
    BackoffMax = 4
    BackoffShift = 1
    Failing = {"secrets"}
    Limited = {"connections"}
    Sticky = {"secrets", "connections"}
    Edited = {c1, s1}
SPECIFICATION FairSpec
INVARIANTS
    TypeOK
    TurningIsLive
PROPERTIES
    StandstillEnds
