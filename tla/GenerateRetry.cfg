SPECIFICATION FairSpec
CONSTANTS
    Names = {"t", "a", "b", "c", "l"}
    Empty = "empty"
    Fresh = "fresh"
    Scenarios <- RetriedScenarios
PROPERTIES
    NoSilentLoss
