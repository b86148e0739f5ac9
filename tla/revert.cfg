CONSTANTS
    w1 = w1
    w2 = w2
    Workloads = {w1, w2}
    WorkLists <- AllListed
    MaxContent = 2
    Broken = {}
    Partial = {}
    Blank = {}
    Keyless = {}
    ConnKinds = {"static"}
    Refreshes = {TRUE}
    Events = {"VaultChange", "VaultRevert", "ApiFault"}
    MaxGen = 2
    MaxUid = 1
    MaxSpent = 4
SPECIFICATION Spec
INVARIANTS
    RolloutConditionTruthful
CHECK_DEADLOCK FALSE
