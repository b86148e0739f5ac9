CONSTANTS
    w1 = w1
    w2 = w2
    Workloads = {w1, w2}
    WorkLists <- AllListed
    MaxContent = 3
    Broken = {}
    Partial = {}
    Blank = {}
    Keyless = {2}
    ConnKinds = {"static", "self"}
    Refreshes = {TRUE}
    Events = {"VaultChange", "VaultRevert", "SpecEdit", "Delete", "Recreate", "PodRestart", "ApiFault", "LostReply", "Crash"}
    MaxGen = 3
    MaxUid = 2
    MaxSpent = 4
SPECIFICATION Spec
INVARIANTS
    RestartedOnce
    TokenSecretSurvives
SYMMETRY Permuted
CHECK_DEADLOCK FALSE
