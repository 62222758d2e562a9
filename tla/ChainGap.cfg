SPECIFICATION FairSpec
CONSTANTS
    MaxVersion = 3
    Arrays <- MCArrays
INVARIANTS
    AcceptedHasNoGap
