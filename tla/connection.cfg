CONSTANTS
    s1 = s1
    s2 = s2
    Secrets = {s1, s2}
    Worlds <- ValidWorlds
    Events <- EventKinds
    MaxGen = 3
    MaxSpent = 4
SPECIFICATION FairSpec
INVARIANTS
    TypeOK
    KnownDependantsFirst
PROPERTIES
    RateLimitIsNoFailure
    ForgottenWhenGone
    TeardownCompletes
    EventuallyProbed
CHECK_DEADLOCK FALSE
