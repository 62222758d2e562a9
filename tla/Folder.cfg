SPECIFICATION FairSpec
CONSTANTS
    Shapes = {s1, s2, s3}
    NoShape = none
    MaxEdits = 2
    MaxCrashes = 1
INVARIANTS
    OldFilesFit
    JournalBacked
    StatusAgreesUncrashed
PROPERTIES
    JournalGrows
    AdviceHelps
