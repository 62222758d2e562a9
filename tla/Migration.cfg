SPECIFICATION FairSpec
CONSTANTS
    Names = {"t", "a", "b", "c", "d", "l"}
    Empty = "empty"
    Fresh = "fresh"
    Scenarios <- MigrationScenarios
INVARIANTS
    ServedMatches
    SilenceCarries
PROPERTIES
    NoSilentLoss
    WritesArrive
    LookupFollows
    MigrationEnds
    UpgradePromise
