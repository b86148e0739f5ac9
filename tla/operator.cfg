CONSTANTS
    MaxContent = 2
    Keyless = {2}
    Kinds = {"static", "self"}
    Refreshes = {FALSE}
    SecretEvents <- Happening
    ConnectionEvents <- Elsewhere
    MaxGen = 3
    MaxUid = 2
    MaxSpent = 3
SPECIFICATION FairSpec
INVARIANTS
    TokenOutlasts
PROPERTIES
    SecretSettles
    StrandedShows
    TeardownTogether
CHECK_DEADLOCK FALSE
