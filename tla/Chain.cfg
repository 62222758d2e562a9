SPECIFICATION FairSpec
CONSTANTS
    MaxVersion = 3
    Arrays <- MCArrays
INVARIANTS
    TypeOK
    ResolvedIsChain
    RefusedHasNoChain
    ManagedAlwaysResolves
    EarliestAlwaysResolves
PROPERTIES
    CallsReturn
