SPECIFICATION FairSpec
CONSTANTS
    Names = {"t", "a", "b", "c", "l"}
    Empty = "empty"
    Fresh = "fresh"
    Scenarios <- GeneratedScenarios
INVARIANTS
    GeneratedLands
    ReadyRuns
    FilledRuns
