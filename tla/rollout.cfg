CONSTANTS
    w1 = w1
    w2 = w2
    Workloads = {w1, w2}
    WorkLists <- AllListed
    MaxContent = 3
    Broken = {}
    Partial = {}
    Blank = {}
    Keyless = {}
    ConnKinds = {"static"}
    Refreshes = {TRUE}
    Events = {"VaultChange", "SpecEdit", "Delete", "WorkloadGone", "Reapply", "PodRestart", "ApiFault", "LostReply", "Crash"}
    MaxGen = 2
    MaxUid = 1
    MaxSpent = 3
SPECIFICATION FairSpec
INVARIANTS
    TypeOK
    RolloutNotForgotten
PROPERTIES
    EventuallyRolledOut
CHECK_DEADLOCK FALSE
