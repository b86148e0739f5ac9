CONSTANTS
    Policies <- ManyPolicies
    Passes <- ManyPasses
    Statuses = {200, 401, 404, 429, 503}
    Durations = {0, 5000}
    RequestTimeout = 10000
    ReconcileTimeouts = {30625, 40000, 120000}
    ProbeTimeout = 15000
SPECIFICATION FairSpec
INVARIANTS
    TypeOK
    WithinLongestCall
    VerdictIsFinal
    AttemptsReported
    DeadlineSparesCalls
PROPERTIES
    CallsReturn
CHECK_DEADLOCK FALSE
