CONSTANTS
    Workloads = {}
    WorkLists <- AllListed
    MaxContent = 3
    Broken = {2}
    Partial = {3}
    Blank = {}
    Keyless = {}
    ConnKinds = {"static", "self", "oidc", "absent", "invalid"}
    Refreshes = {TRUE, FALSE}
    Events = {"VaultChange", "SpecEdit", "Delete", "Recreate", "ConnEdit", "TargetDelete", "TargetDrift", "ForeignTarget", "ApiFault", "LostReply", "RateLimit", "Crash"}
    MaxGen = 3
    MaxUid = 2
    MaxSpent = 3
SPECIFICATION FairSpec
INVARIANTS
    ReadyReflectsSpec
    GaugeNeedsObject
PROPERTIES
    ImplementsSync
    ForeignSecretUntouched
    PartialNeverReplaces
    EventuallySynced
    FailureShows
    TokenSecretDisowned
    DeletionCompletes
CHECK_DEADLOCK FALSE
